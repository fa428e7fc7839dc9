--------------------------- MODULE RepoResources ---------------------------
(***************************************************************************)
(* The resources of repositories and the ids they keep of each other: a    *)
(* repo lists its dockerfiles, images, scan configurations and flags; an   *)
(* image lists its versions and the configurations to scan it with, a      *)
(* configuration the images that use it; a configuration has a flag, which *)
(* lists the configurations that use it; events name what they are about.  *)
(*                                                                         *)
(* A request updates several of these objects.  With redis its writes are  *)
(* queued, and discarded if the request fails.  A server started with      *)
(* -inmem shares its objects between requests: what a failing request has  *)
(* changed by then stays.  Files on the disk stay changed in both cases.   *)
(*                                                                         *)
(* Requests follow one another; who may send them is left to               *)
(* AccessControl, scan parameters and repo names are left out.             *)
(***************************************************************************)
EXTENDS Naturals, FiniteSets

CONSTANTS
    Users, Repos, Dockerfiles, Images, Versions, ScanConfigs, Flags,
    ScanEvents,       \* the ids that can be given to objects of each kind
    Names, NoName,    \* names of resources; the empty name
    Paths,            \* paths of files in the repos' directories
    NewId, Deleted,   \* in place of an object not yet, or no longer, stored
    NoId              \* the empty id

\* Objects, with the fields of their Go types.
RepoObjects ==
    [DockerfileIds : SUBSET Dockerfiles, DockerImageIds : SUBSET Images,
     ScanConfigIds : SUBSET ScanConfigs, FlagIds : SUBSET Flags,
     DefaultUserIds : SUBSET Users]
DockerfileObjects ==
    [ParentId : Repos, Name : Names, FilePath : Paths,
     DockerfileExecEventIds : SUBSET Versions]
ImageObjects ==
    [ParentId : Repos, Name : Names, VersionIds : SUBSET Versions,
     ScanConfigsToUse : SUBSET ScanConfigs]
VersionObjects == [ImageObjId : Images, ScanEventIds : SUBSET ScanEvents]
ExecEventObjects ==
    [DockerfileId : Dockerfiles \cup {NoId}, ImageVersionId : Versions \cup {NoId}]
ScanConfigObjects ==
    [ParentId : Repos, Name : Names, FlagId : Flags \cup {NoId},
     ScanEventIds : SUBSET ScanEvents,
     DockerImageIdsThatUse : SUBSET (Images \cup Dockerfiles)]
FlagObjects ==
    [ParentId : Repos, Name : Names \cup {NoName}, SuccessImagePath : Paths,
     UsedByScanConfigIds : SUBSET ScanConfigs]
ScanEventObjects ==
    [ScanConfigId : ScanConfigs \cup {NoId}, DockerImageVersionId : Versions \cup {NoId}]

Objects == UNION {RepoObjects, DockerfileObjects, ImageObjects, VersionObjects,
                  ExecEventObjects, ScanConfigObjects, FlagObjects, ScanEventObjects}

\* What stands for the absence of an object is not one, and the ids of deleted
\* objects are not given again; ids of different kinds differ
\* (createUniqueDbObjectId), and none is empty.
ASSUME RepoConstants ==
    /\ {NewId, Deleted} \cap Objects = {} /\ NewId # Deleted
    /\ Images \cap Dockerfiles = {}
    /\ NoId \notin UNION {Repos, Dockerfiles, Versions, ScanConfigs, Flags}
    /\ Users \cap {"RepoId", "createRepo"} = {}

\* So many ids can be counted.
ASSUME FiniteIds == IsFiniteSet(Images) /\ IsFiniteSet(Dockerfiles) /\ IsFiniteSet(ScanConfigs)

VARIABLES
    inMemoryOnly,   \* the server runs with -inmem
    RepoIds,        \* RepoIds of the realm
    DefaultRepoId,  \* DefaultRepoId[u]: of a user
    repo, dockerfile, image, version, scanConfig, flag, scanEvent,
    execEvent,      \* execEvent[v]: the event that created version v
    files           \* paths at which there is a file

vars == <<inMemoryOnly, RepoIds, DefaultRepoId, repo, dockerfile, image,
          version, scanConfig, flag, scanEvent, execEvent, files>>

Live(f) == {x \in DOMAIN f : f[x] \notin {NewId, Deleted}}

EmptyRepo == [DockerfileIds |-> {}, DockerImageIds |-> {}, ScanConfigIds |-> {},
              FlagIds |-> {}, DefaultUserIds |-> {}]

NewDockerfile(r, n, p) ==
    [ParentId |-> r, Name |-> n, FilePath |-> p, DockerfileExecEventIds |-> {}]
NewDockerImage(r, n) ==
    [ParentId |-> r, Name |-> n, VersionIds |-> {}, ScanConfigsToUse |-> {}]
NewVersion(i) == [ImageObjId |-> i, ScanEventIds |-> {}]
NewExecEvent(d, v) == [DockerfileId |-> d, ImageVersionId |-> v]
NewScanConfig(r, n, f) ==
    [ParentId |-> r, Name |-> n, FlagId |-> f, ScanEventIds |-> {},
     DockerImageIdsThatUse |-> {}]
NewFlag(r, n, p, users) ==
    [ParentId |-> r, Name |-> n, SuccessImagePath |-> p,
     UsedByScanConfigIds |-> users]
NewScanEvent(c, v) == [ScanConfigId |-> c, DockerImageVersionId |-> v]

Init ==
    /\ inMemoryOnly \in BOOLEAN
    /\ RepoIds = {}
    /\ DefaultRepoId = [u \in Users |-> NoId]
    /\ repo = [r \in Repos |-> NewId]
    /\ dockerfile = [d \in Dockerfiles |-> NewId]
    /\ image = [i \in Images |-> NewId]
    /\ version = [v \in Versions |-> NewId]
    /\ scanConfig = [c \in ScanConfigs |-> NewId]
    /\ flag = [f \in Flags |-> NewId]
    /\ scanEvent = [e \in ScanEvents |-> NewId]
    /\ execEvent = [v \in Versions |-> NewId]
    /\ files = {}

-----------------------------------------------------------------------------
(***************************************************************************)
(* Parts of handlers.                                                      *)
(***************************************************************************)

\* Mutant: names are not looked up.
Taken_Never(f, ids, n) == FALSE

\* getDockerfileByName, ...: one of the listed resources has that name.
Taken(f, ids, n) == \E x \in ids : f[x].Name = n

\* Mutant: an existing file is written over.
captureFile_Overwrites(p) == files' = files \cup {p}

\* captureFile: the uploaded file goes to a path that was free.
captureFile(p) == p \notin files /\ files' = files \cup {p}

\* The repo a handler works in.  It is named by RepoId; or it is made by the
\* same request (createRepo with a file); or it is the default repo of user
\* via, which is made if the user has none.
Target(via, r) ==
    /\ CASE via = "RepoId"     -> r \in Live(repo)
         [] via = "createRepo" -> repo[r] = NewId
         [] via \in Users      -> \/ DefaultRepoId[via] = r
                                  \/ DefaultRepoId[via] = NoId /\ repo[r] = NewId
    /\ RepoIds' = IF repo[r] = NewId THEN RepoIds \cup {r} ELSE RepoIds
    /\ DefaultRepoId' = [u \in Users |-> IF u = via THEN r ELSE DefaultRepoId[u]]

Vias == {"RepoId", "createRepo"} \cup Users

\* Mutant: the new default repo is not told whose it is.
Base_UserNotRecorded(via, r) == IF repo[r] = NewId THEN EmptyRepo ELSE repo[r]

Base(via, r) ==
    [(IF repo[r] = NewId THEN EmptyRepo ELSE repo[r])
       EXCEPT !.DefaultUserIds = @ \cup (Users \cap {via})]

\* A failing request: what it wrote stays only when it is not queued.
WrittenIfInMemory(f, x, obj) == IF inMemoryOnly THEN [f EXCEPT ![x] = obj] ELSE f

\* Mutant: events keep the ids of what is deleted.
Nullify_Forgotten(ds, cs, vs) == UNCHANGED <<scanEvent, execEvent>>

\* nullifyScanConfig, nullifyDockerImageVersion, nullifyImageVersion and
\* nullifyDockerfile, for the events that the objects list.
Nullify(ds, cs, vs) ==
    /\ scanEvent' = [e \in ScanEvents |->
         IF e \in Live(scanEvent)
         THEN NewScanEvent(
                IF \E c \in cs : e \in scanConfig[c].ScanEventIds
                THEN NoId ELSE scanEvent[e].ScanConfigId,
                IF \E v \in vs : e \in version[v].ScanEventIds
                THEN NoId ELSE scanEvent[e].DockerImageVersionId)
         ELSE scanEvent[e]]
    /\ execEvent' = [v \in Versions |->
         IF v \in Live(execEvent)
         THEN NewExecEvent(
                IF \E d \in ds : v \in dockerfile[d].DockerfileExecEventIds
                THEN NoId ELSE execEvent[v].DockerfileId,
                IF v \in vs THEN NoId ELSE execEvent[v].ImageVersionId)
         ELSE execEvent[v]]

\* What a delete does to the objects that refer to the deleted ones: exec
\* events of the dockerfiles ds; flags, images and events of the
\* configurations cs; configurations and events of the images is and their
\* versions vs.  The objects of cs, fs, is and vs are no longer stored.  The
\* configuration and the image of a pair in links no longer name each other.
Purge(ds, cs, fs, is, vs, links) ==
    /\ scanConfig' = [c \in ScanConfigs |->
         IF c \in cs THEN Deleted
         ELSE IF c \in Live(scanConfig)
         THEN [scanConfig[c] EXCEPT !.DockerImageIdsThatUse =
                 @ \ {i \in Images : <<c, i>> \in links}]
         ELSE scanConfig[c]]
    /\ flag' = [f \in Flags |->
         IF f \in fs THEN Deleted
         ELSE IF \E c \in cs : scanConfig[c].FlagId = f
         THEN [flag[f] EXCEPT !.UsedByScanConfigIds =
                 @ \ {c \in cs : scanConfig[c].FlagId = f}]
         ELSE flag[f]]
    /\ image' = [i \in Images |->
         IF i \in is THEN Deleted
         ELSE IF i \in Live(image)
         THEN [image[i] EXCEPT
                 !.VersionIds = @ \ {v \in vs : version[v].ImageObjId = i},
                 !.ScanConfigsToUse = @ \ {c \in ScanConfigs : <<c, i>> \in links}]
         ELSE image[i]]
    /\ version' = [v \in Versions |-> IF v \in vs THEN Deleted ELSE version[v]]
    /\ Nullify(ds, cs, vs)

\* The ids of a list that a loop reaches whose body takes each out of the list
\* (utilities.RemoveFrom).  It may close the gap in the array that the loop goes
\* on reading: the loop then misses some of three ids or more, and comes back
\* to the last one.
Walked(ids) ==
    {reached \in SUBSET ids :
       \/ reached = ids
       \/ 2 * Cardinality(ids \ reached) \in {Cardinality(ids) - 1, Cardinality(ids) - 2}}

\* The pairs that such loops reach, one over the images of each configuration
\* of cs; and one over the configurations of each image of is, where those of
\* the pairs in gone have been taken out.
WalksOfScanConfigs(cs) ==
    {links \in SUBSET {l \in cs \X Images : l[2] \in scanConfig[l[1]].DockerImageIdsThatUse} :
       \A c \in cs :
          {i \in Images : <<c, i>> \in links} \in Walked(scanConfig[c].DockerImageIdsThatUse)}
WalksOfImages(is, gone) ==
    {links \in SUBSET {l \in ScanConfigs \X is : l[1] \in image[l[2]].ScanConfigsToUse} :
       \A i \in is :
          {c \in ScanConfigs : <<c, i>> \in links}
             \in Walked({c \in image[i].ScanConfigsToUse : <<c, i>> \notin gone})}

\* With redis, versions and events that another request has written cannot be
\* read (module StoredObjects).
Readable(vs) == inMemoryOnly \/ vs = {}

FlagReadable(c) == scanConfig[c].FlagId = NoId \/ scanConfig[c].FlagId \in Live(flag)

\* deleteScanConfig finds the flag and the images that the configuration names.
Resolves(c) ==
    FlagReadable(c) /\ scanConfig[c].DockerImageIdsThatUse \subseteq Live(image)

-----------------------------------------------------------------------------
(***************************************************************************)
(* Repos and dockerfiles.                                                  *)
(***************************************************************************)

createRepo(r) ==
    /\ repo[r] = NewId
    /\ repo' = [repo EXCEPT ![r] = EmptyRepo]
    /\ RepoIds' = RepoIds \cup {r}
    /\ UNCHANGED <<inMemoryOnly, DefaultRepoId, dockerfile, image, version,
                   scanConfig, flag, scanEvent, execEvent, files>>

addDockerfile(via, r, d, n, p) ==
    /\ Target(via, r)
    /\ dockerfile[d] = NewId
    /\ ~Taken(dockerfile, Base(via, r).DockerfileIds, n)
    /\ captureFile(p)
    /\ dockerfile' = [dockerfile EXCEPT ![d] = NewDockerfile(r, n, p)]
    /\ repo' = [repo EXCEPT ![r] = [Base(via, r) EXCEPT !.DockerfileIds = @ \cup {d}]]
    /\ UNCHANGED <<inMemoryOnly, image, version, scanConfig, flag, scanEvent, execEvent>>

\* -inmem: the dockerfile object was stored before its name was looked up.
addDockerfile_NameTaken(r, d, n, p) ==
    /\ inMemoryOnly
    /\ r \in Live(repo)
    /\ dockerfile[d] = NewId
    /\ Taken(dockerfile, repo[r].DockerfileIds, n)
    /\ captureFile(p)
    /\ dockerfile' = [dockerfile EXCEPT ![d] = NewDockerfile(r, n, p)]
    /\ UNCHANGED <<inMemoryOnly, RepoIds, DefaultRepoId, repo, image, version,
                   scanConfig, flag, scanEvent, execEvent>>

\* A request fails after captureFile and leaves no object: with redis any that
\* does not commit, with -inmem a defineFlag that is refused, since it has the
\* file before it looks whether the user may write the repo.
AbandonedUpload(p) ==
    /\ captureFile(p)
    /\ UNCHANGED <<inMemoryOnly, RepoIds, DefaultRepoId, repo, dockerfile, image,
                   version, scanConfig, flag, scanEvent, execEvent>>

\* The new path is assigned to the object in memory only; the old file goes.
replaceDockerfile(d, p) ==
    /\ d \in Live(dockerfile)
    /\ p \notin files
    /\ files' = (files \cup {p}) \ {dockerfile[d].FilePath}
    /\ dockerfile' = WrittenIfInMemory(dockerfile, d,
                        [dockerfile[d] EXCEPT !.FilePath = p])
    /\ UNCHANGED <<inMemoryOnly, RepoIds, DefaultRepoId, repo, image, version,
                   scanConfig, flag, scanEvent, execEvent>>

\* buildDockerfile: the image of that name, or a new one, gets a new version.
buildDockerfile(d, obj, r, robj, n, i, v) ==
    LET iobj == IF image[i] = NewId THEN NewDockerImage(r, n) ELSE image[i] IN
    /\ \/ i \in robj.DockerImageIds /\ image[i].Name = n
       \/ image[i] = NewId /\ ~Taken(image, robj.DockerImageIds, n)
    /\ version[v] = NewId
    /\ image' = [image EXCEPT ![i] = [iobj EXCEPT !.VersionIds = @ \cup {v}]]
    /\ version' = [version EXCEPT ![v] = NewVersion(i)]
    /\ execEvent' = [execEvent EXCEPT ![v] = NewExecEvent(d, v)]
    /\ dockerfile' = [dockerfile EXCEPT ![d] =
                        [obj EXCEPT !.DockerfileExecEventIds = @ \cup {v}]]
    /\ repo' = [repo EXCEPT ![r] = [robj EXCEPT !.DockerImageIds = @ \cup {i}]]
    /\ UNCHANGED <<inMemoryOnly, scanConfig, flag, scanEvent>>

execDockerfile(d, n, i, v) ==
    /\ d \in Live(dockerfile)
    /\ dockerfile[d].FilePath \in files
    /\ buildDockerfile(d, dockerfile[d], dockerfile[d].ParentId,
                       repo[dockerfile[d].ParentId], n, i, v)
    /\ UNCHANGED <<RepoIds, DefaultRepoId, files>>

\* -inmem: the image was stored before the build failed.
execDockerfile_BuildFails(d, n, i) ==
    LET r == dockerfile[d].ParentId IN
    /\ inMemoryOnly
    /\ d \in Live(dockerfile)
    /\ image[i] = NewId /\ ~Taken(image, repo[r].DockerImageIds, n)
    /\ image' = [image EXCEPT ![i] = NewDockerImage(r, n)]
    /\ repo' = [repo EXCEPT ![r].DockerImageIds = @ \cup {i}]
    /\ UNCHANGED <<inMemoryOnly, RepoIds, DefaultRepoId, dockerfile, version,
                   scanConfig, flag, scanEvent, execEvent, files>>

addAndExecDockerfile(via, r, d, dn, p, n, i, v) ==
    /\ via # "createRepo"
    /\ Target(via, r)
    /\ dockerfile[d] = NewId
    /\ ~Taken(dockerfile, Base(via, r).DockerfileIds, dn)
    /\ captureFile(p)
    /\ buildDockerfile(d, NewDockerfile(r, dn, p), r,
                       [Base(via, r) EXCEPT !.DockerfileIds = @ \cup {d}], n, i, v)

\* Only the exec events change: the dockerfile stays stored and listed.
remDockerfile(d) ==
    /\ d \in Live(dockerfile)
    /\ Readable(dockerfile[d].DockerfileExecEventIds)
    /\ Nullify({d}, {}, {})
    /\ UNCHANGED <<inMemoryOnly, RepoIds, DefaultRepoId, repo, dockerfile, image,
                   version, scanConfig, flag, files>>

\* Repo, dockerfiles and directory stay.  The flags' files are removed; flags
\* can go because their configurations have gone before them.  With redis a
\* configuration that a loop comes back to can be read and deleted again, so
\* that those it misses stay; a flag cannot, and an image has a version, which
\* cannot be read at all.  A repo has too few default users for the loop over
\* them to miss one (DefaultReposAgree).
deleteRepo(r) ==
    LET fs == repo[r].FlagIds
        is == repo[r].DockerImageIds
        vs == UNION {image[i].VersionIds : i \in is} IN
    /\ r \in Live(repo)
    /\ \A d \in repo[r].DockerfileIds : Readable(dockerfile[d].DockerfileExecEventIds)
    /\ Readable(vs)
    /\ \E cs \in IF inMemoryOnly THEN {repo[r].ScanConfigIds} ELSE Walked(repo[r].ScanConfigIds) :
         /\ \A c \in cs : FlagReadable(c)
         /\ \A f \in fs : /\ \A c \in flag[f].UsedByScanConfigIds :
                                 c \in cs /\ scanConfig[c].FlagId = f
                          /\ flag[f].SuccessImagePath \in files
         /\ \E unlinked \in WalksOfScanConfigs(cs) : \E links \in WalksOfImages(is, unlinked) :
              /\ unlinked \subseteq cs \X Live(image)
              /\ links \subseteq (Live(scanConfig) \ cs) \X is
              /\ Purge(repo[r].DockerfileIds, cs, fs, is, vs, unlinked \cup links)
         /\ repo' = [repo EXCEPT ![r] =
              [EmptyRepo EXCEPT !.DockerfileIds = repo[r].DockerfileIds,
                                !.ScanConfigIds = repo[r].ScanConfigIds \ cs]]
    /\ DefaultRepoId' = [u \in Users |-> IF u \in repo[r].DefaultUserIds
                                         THEN NoId ELSE DefaultRepoId[u]]
    /\ RepoIds' = RepoIds \ {r}
    /\ files' = files \ {flag[f].SuccessImagePath : f \in fs}
    /\ UNCHANGED <<inMemoryOnly, dockerfile>>

\* With redis: the request fails at a dockerfile with exec events; or later, at
\* a flag whose file has gone or in a list of three, when files of other flags
\* have been removed.
deleteRepo_Aborted(r) ==
    /\ ~inMemoryOnly
    /\ r \in Live(repo)
    /\ \E fs \in SUBSET repo[r].FlagIds :
          /\ fs = {} \/ \A d \in repo[r].DockerfileIds :
                           Readable(dockerfile[d].DockerfileExecEventIds)
          /\ files' = files \ {flag[f].SuccessImagePath : f \in fs}
    /\ UNCHANGED <<inMemoryOnly, RepoIds, DefaultRepoId, repo, dockerfile, image,
                   version, scanConfig, flag, scanEvent, execEvent>>

\* -inmem: the repo has left the realm and its exec events are null when a
\* configuration or an image fails, or one that a loop comes back to is not
\* found; what was deleted before is what the requests remScanConfig, remFlag
\* and remDockerImage do.
deleteRepo_Fails(r) ==
    /\ inMemoryOnly
    /\ r \in Live(repo)
    /\ \/ \E c \in repo[r].ScanConfigIds :
            ~Resolves(c) \/ Cardinality(scanConfig[c].DockerImageIdsThatUse) > 2
       \/ \E i \in repo[r].DockerImageIds :
            image[i].VersionIds # {} \/ ~(image[i].ScanConfigsToUse \subseteq Live(scanConfig))
       \/ \E ids \in {repo[r].ScanConfigIds, repo[r].FlagIds, repo[r].DockerImageIds} :
            Cardinality(ids) > 2
    /\ RepoIds' = RepoIds \ {r}
    /\ Nullify(repo[r].DockerfileIds, {}, {})
    /\ UNCHANGED <<inMemoryOnly, DefaultRepoId, repo, dockerfile, image, version,
                   scanConfig, flag, files>>

-----------------------------------------------------------------------------
(***************************************************************************)
(* Images and versions; scans.                                             *)
(***************************************************************************)

remDockerImage(i) ==
    LET r == image[i].ParentId
        vs == image[i].VersionIds IN
    /\ i \in Live(image)
    /\ Readable(vs)
    /\ repo' = [repo EXCEPT ![r].DockerImageIds = @ \ {i}]
    /\ \E links \in WalksOfImages({i}, {}) :
         /\ links \subseteq Live(scanConfig) \X {i}
         /\ Purge({}, {}, {}, {i}, vs, links)
    /\ UNCHANGED <<inMemoryOnly, RepoIds, DefaultRepoId, dockerfile, files>>

\* -inmem: of three versions or more, one that the loop comes back to is not
\* found; or, when all are gone, a configuration is not found.
remDockerImage_Fails(i) ==
    LET vs == image[i].VersionIds
        cs == image[i].ScanConfigsToUse IN
    /\ inMemoryOnly
    /\ i \in Live(image)
    /\ \/ \E gone \in Walked(vs) : Cardinality(vs) > 2 /\ Purge({}, {}, {}, {}, gone, {})
       \/ /\ cs \ Live(scanConfig) # {}
          /\ \E unlinked \in SUBSET (cs \cap Live(scanConfig)) :
               Purge({}, {}, {}, {}, vs, unlinked \X {i})
    /\ UNCHANGED <<inMemoryOnly, RepoIds, DefaultRepoId, repo, dockerfile, files>>

\* Mutant: the image goes on listing the version.
remImageVersion_StaysListed(v) ==
    /\ v \in Live(version)
    /\ Readable({v})
    /\ version' = [version EXCEPT ![v] = Deleted]
    /\ Nullify({}, {}, {v})
    /\ UNCHANGED <<inMemoryOnly, RepoIds, DefaultRepoId, repo, dockerfile, image,
                   scanConfig, flag, files>>

remImageVersion(v) ==
    /\ v \in Live(version)
    /\ Readable({v})
    /\ Purge({}, {}, {}, {}, {v}, {})
    /\ UNCHANGED <<inMemoryOnly, RepoIds, DefaultRepoId, repo, dockerfile, files>>

\* -inmem: docker does not remove the image; the events are null by then.
remImageVersion_DockerFails(v) ==
    /\ inMemoryOnly
    /\ v \in Live(version)
    /\ Nullify({}, {}, {v})
    /\ UNCHANGED <<inMemoryOnly, RepoIds, DefaultRepoId, repo, dockerfile, image,
                   version, scanConfig, flag, files>>

\* One scan; a request for several is as many steps, since only with -inmem
\* can it read the version at all.
scanImage(c, v, e) ==
    /\ c \in Live(scanConfig) /\ v \in Live(version) /\ scanEvent[e] = NewId
    /\ Readable({v})
    /\ scanEvent' = [scanEvent EXCEPT ![e] = NewScanEvent(c, v)]
    /\ scanConfig' = [scanConfig EXCEPT ![c].ScanEventIds = @ \cup {e}]
    /\ version' = [version EXCEPT ![v].ScanEventIds = @ \cup {e}]
    /\ UNCHANGED <<inMemoryOnly, RepoIds, DefaultRepoId, repo, dockerfile, image,
                   flag, execEvent, files>>

-----------------------------------------------------------------------------
(***************************************************************************)
(* Scan configurations and flags.                                          *)
(***************************************************************************)

defineScanConfig(via, r, c, n) ==
    /\ via # "createRepo"
    /\ Target(via, r)
    /\ scanConfig[c] = NewId
    /\ ~Taken(scanConfig, Base(via, r).ScanConfigIds, n)
    /\ scanConfig' = [scanConfig EXCEPT ![c] = NewScanConfig(r, n, NoId)]
    /\ repo' = [repo EXCEPT ![r] = [Base(via, r) EXCEPT !.ScanConfigIds = @ \cup {c}]]
    /\ UNCHANGED <<inMemoryOnly, dockerfile, image, version, flag, scanEvent,
                   execEvent, files>>

\* An attached file becomes the flag, with the name of the configuration.
defineScanConfig_WithFlag(via, r, c, n, f, p) ==
    /\ via # "createRepo"
    /\ Target(via, r)
    /\ scanConfig[c] = NewId /\ flag[f] = NewId
    /\ ~Taken(scanConfig, Base(via, r).ScanConfigIds, n)
    /\ ~Taken(flag, Base(via, r).FlagIds, n)
    /\ captureFile(p)
    /\ scanConfig' = [scanConfig EXCEPT ![c] = NewScanConfig(r, n, f)]
    /\ flag' = [flag EXCEPT ![f] = NewFlag(r, n, p, {c})]
    /\ repo' = [repo EXCEPT ![r] = [Base(via, r) EXCEPT
                  !.ScanConfigIds = @ \cup {c}, !.FlagIds = @ \cup {f}]]
    /\ UNCHANGED <<inMemoryOnly, dockerfile, image, version, scanEvent, execEvent>>

\* -inmem: the name is free for the configuration but not for the flag.
defineScanConfig_FlagNameTaken(r, c, n, f, p) ==
    /\ inMemoryOnly
    /\ r \in Live(repo)
    /\ scanConfig[c] = NewId /\ flag[f] = NewId
    /\ ~Taken(scanConfig, repo[r].ScanConfigIds, n)
    /\ Taken(flag, repo[r].FlagIds, n)
    /\ captureFile(p)
    /\ scanConfig' = [scanConfig EXCEPT ![c] = NewScanConfig(r, n, NoId)]
    /\ flag' = [flag EXCEPT ![f] = NewFlag(r, n, p, {})]
    /\ repo' = [repo EXCEPT ![r].ScanConfigIds = @ \cup {c}]
    /\ UNCHANGED <<inMemoryOnly, RepoIds, DefaultRepoId, dockerfile, image,
                   version, scanEvent, execEvent>>

\* A configuration can be given a name that another one has.
Renamed(c, n) == IF n = NoName THEN scanConfig[c] ELSE [scanConfig[c] EXCEPT !.Name = n]

updateScanConfig(c, n) ==
    /\ c \in Live(scanConfig)
    /\ scanConfig' = [scanConfig EXCEPT ![c] = Renamed(c, n)]
    /\ UNCHANGED <<inMemoryOnly, RepoIds, DefaultRepoId, repo, dockerfile, image,
                   version, flag, scanEvent, execEvent, files>>

\* Mutant: the former flag goes on naming the configuration.
updateScanConfig_WithFlag_OldRefKept(c, n, f, p) ==
    LET r == scanConfig[c].ParentId IN
    /\ c \in Live(scanConfig) /\ FlagReadable(c)
    /\ flag[f] = NewId /\ ~Taken(flag, repo[r].FlagIds, n)
    /\ captureFile(p)
    /\ scanConfig' = [scanConfig EXCEPT ![c] = [Renamed(c, n) EXCEPT !.FlagId = f]]
    /\ flag' = [flag EXCEPT ![f] = NewFlag(r, n, p, {c})]
    /\ repo' = [repo EXCEPT ![r].FlagIds = @ \cup {f}]
    /\ UNCHANGED <<inMemoryOnly, RepoIds, DefaultRepoId, dockerfile, image,
                   version, scanEvent, execEvent>>

updateScanConfig_WithFlag(c, n, f, p) ==
    LET r == scanConfig[c].ParentId IN
    /\ c \in Live(scanConfig) /\ FlagReadable(c)
    /\ flag[f] = NewId /\ ~Taken(flag, repo[r].FlagIds, n)
    /\ captureFile(p)
    /\ scanConfig' = [scanConfig EXCEPT ![c] = [Renamed(c, n) EXCEPT !.FlagId = f]]
    /\ flag' = [g \in Flags |->
                  IF g = f THEN NewFlag(r, n, p, {c})
                  ELSE IF g = scanConfig[c].FlagId
                  THEN [flag[g] EXCEPT !.UsedByScanConfigIds = @ \ {c}]
                  ELSE flag[g]]
    /\ repo' = [repo EXCEPT ![r].FlagIds = @ \cup {f}]
    /\ UNCHANGED <<inMemoryOnly, RepoIds, DefaultRepoId, dockerfile, image,
                   version, scanEvent, execEvent>>

\* -inmem: the flag's name is taken, or the old flag is not found.
updateScanConfig_Fails(c, n, f, p) ==
    LET r == scanConfig[c].ParentId IN
    /\ inMemoryOnly
    /\ c \in Live(scanConfig) /\ flag[f] = NewId
    /\ captureFile(p)
    /\ scanConfig' = [scanConfig EXCEPT ![c] = Renamed(c, n)]
    /\ flag' = [flag EXCEPT ![f] = NewFlag(r, n, p, {})]
    /\ \/ Taken(flag, repo[r].FlagIds, n) /\ UNCHANGED repo
       \/ /\ ~Taken(flag, repo[r].FlagIds, n) /\ ~FlagReadable(c)
          /\ repo' = [repo EXCEPT ![r].FlagIds = @ \cup {f}]
    /\ UNCHANGED <<inMemoryOnly, RepoIds, DefaultRepoId, dockerfile, image,
                   version, scanEvent, execEvent>>

\* Mutant: the images go on naming the configuration.
remScanConfig_ImagesKept(c) ==
    /\ c \in Live(scanConfig)
    /\ FlagReadable(c)
    /\ repo' = [repo EXCEPT ![scanConfig[c].ParentId].ScanConfigIds = @ \ {c}]
    /\ Purge({}, {c}, {}, {}, {}, {})
    /\ UNCHANGED <<inMemoryOnly, RepoIds, DefaultRepoId, dockerfile, files>>

remScanConfig(c) ==
    /\ c \in Live(scanConfig)
    /\ FlagReadable(c)
    /\ repo' = [repo EXCEPT ![scanConfig[c].ParentId].ScanConfigIds = @ \ {c}]
    /\ \E links \in WalksOfScanConfigs({c}) :
         links \subseteq {c} \X Live(image) /\ Purge({}, {c}, {}, {}, {}, links)
    /\ UNCHANGED <<inMemoryOnly, RepoIds, DefaultRepoId, dockerfile, files>>

\* -inmem: the flag is not found; or one of the images, x, is not an image:
\* then the flag and some images no longer refer to the configuration.
remScanConfig_Fails(c) ==
    /\ inMemoryOnly
    /\ c \in Live(scanConfig)
    /\ Nullify({}, {c}, {})
    /\ \/ ~FlagReadable(c) /\ UNCHANGED <<scanConfig, flag, image>>
       \/ /\ FlagReadable(c)
          /\ \E x \in scanConfig[c].DockerImageIdsThatUse \ Live(image),
                is \in SUBSET (scanConfig[c].DockerImageIdsThatUse \cap Live(image)) :
               /\ scanConfig' = [scanConfig EXCEPT ![c].DockerImageIdsThatUse =
                                   @ \ (is \cup {x})]
               /\ image' = [i \in Images |->
                    IF i \in is THEN [image[i] EXCEPT !.ScanConfigsToUse = @ \ {c}]
                                ELSE image[i]]
          /\ flag' = [f \in Flags |->
               IF f = scanConfig[c].FlagId
               THEN [flag[f] EXCEPT !.UsedByScanConfigIds = @ \ {c}] ELSE flag[f]]
    /\ UNCHANGED <<inMemoryOnly, RepoIds, DefaultRepoId, repo, dockerfile,
                   version, files>>

\* Mutant: the two ids are swapped.
useScanConfigForImage_Swapped(c, i) ==
    /\ c \in Live(scanConfig) /\ i \in Live(image)
    /\ scanConfig' = [scanConfig EXCEPT ![c].DockerImageIdsThatUse = @ \cup {c}]
    /\ image' = [image EXCEPT ![i].ScanConfigsToUse = @ \cup {i}]
    /\ UNCHANGED <<inMemoryOnly, RepoIds, DefaultRepoId, repo, dockerfile, version,
                   flag, scanEvent, execEvent, files>>

useScanConfigForImage(c, i) ==
    /\ c \in Live(scanConfig) /\ i \in Live(image)
    /\ scanConfig' = [scanConfig EXCEPT ![c].DockerImageIdsThatUse = @ \cup {i}]
    /\ image' = [image EXCEPT ![i].ScanConfigsToUse = @ \cup {c}]
    /\ UNCHANGED <<inMemoryOnly, RepoIds, DefaultRepoId, repo, dockerfile, version,
                   flag, scanEvent, execEvent, files>>

\* -inmem: x is another kind of resource, which is found out after the
\* configuration has got its id.
useScanConfigForImage_NotAnImage(c, x) ==
    /\ inMemoryOnly
    /\ c \in Live(scanConfig) /\ x \in Live(dockerfile)
    /\ scanConfig' = [scanConfig EXCEPT ![c].DockerImageIdsThatUse = @ \cup {x}]
    /\ UNCHANGED <<inMemoryOnly, RepoIds, DefaultRepoId, repo, dockerfile, image,
                   version, flag, scanEvent, execEvent, files>>

\* Mutant: only the configuration forgets the image.
stopUsingScanConfigForImage_OneSide(c, i) ==
    /\ c \in Live(scanConfig) /\ i \in Live(image)
    /\ scanConfig' = [scanConfig EXCEPT ![c].DockerImageIdsThatUse = @ \ {i}]
    /\ UNCHANGED <<inMemoryOnly, RepoIds, DefaultRepoId, repo, dockerfile, image,
                   version, flag, scanEvent, execEvent, files>>

stopUsingScanConfigForImage(c, i) ==
    /\ c \in Live(scanConfig) /\ i \in Live(image)
    /\ scanConfig' = [scanConfig EXCEPT ![c].DockerImageIdsThatUse = @ \ {i}]
    /\ image' = [image EXCEPT ![i].ScanConfigsToUse = @ \ {c}]
    /\ UNCHANGED <<inMemoryOnly, RepoIds, DefaultRepoId, repo, dockerfile, version,
                   flag, scanEvent, execEvent, files>>

stopUsingScanConfigForImage_NotAnImage(c, x) ==
    /\ inMemoryOnly
    /\ c \in Live(scanConfig) /\ x \in Live(dockerfile)
    /\ scanConfig' = [scanConfig EXCEPT ![c].DockerImageIdsThatUse = @ \ {x}]
    /\ UNCHANGED <<inMemoryOnly, RepoIds, DefaultRepoId, repo, dockerfile, image,
                   version, flag, scanEvent, execEvent, files>>

defineFlag(via, r, f, n, p) ==
    /\ via # "createRepo"
    /\ Target(via, r)
    /\ flag[f] = NewId /\ ~Taken(flag, Base(via, r).FlagIds, n)
    /\ captureFile(p)
    /\ flag' = [flag EXCEPT ![f] = NewFlag(r, n, p, {})]
    /\ repo' = [repo EXCEPT ![r] = [Base(via, r) EXCEPT !.FlagIds = @ \cup {f}]]
    /\ UNCHANGED <<inMemoryOnly, dockerfile, image, version, scanConfig, scanEvent,
                   execEvent>>

\* -inmem: the flag object was stored before its name was looked up.
defineFlag_NameTaken(r, f, n, p) ==
    /\ inMemoryOnly
    /\ r \in Live(repo)
    /\ flag[f] = NewId /\ Taken(flag, repo[r].FlagIds, n)
    /\ captureFile(p)
    /\ flag' = [flag EXCEPT ![f] = NewFlag(r, n, p, {})]
    /\ UNCHANGED <<inMemoryOnly, RepoIds, DefaultRepoId, repo, dockerfile, image,
                   version, scanConfig, scanEvent, execEvent>>

\* Mutant: the repo goes on listing the flag.
remFlag_StaysListed(f) ==
    /\ f \in Live(flag)
    /\ flag[f].UsedByScanConfigIds = {}
    /\ flag[f].SuccessImagePath \in files
    /\ files' = files \ {flag[f].SuccessImagePath}
    /\ Purge({}, {}, {f}, {}, {}, {})
    /\ UNCHANGED <<inMemoryOnly, RepoIds, DefaultRepoId, repo, dockerfile>>

remFlag(f) ==
    /\ f \in Live(flag)
    /\ flag[f].UsedByScanConfigIds = {}
    /\ flag[f].SuccessImagePath \in files
    /\ files' = files \ {flag[f].SuccessImagePath}
    /\ repo' = [repo EXCEPT ![flag[f].ParentId].FlagIds = @ \ {f}]
    /\ Purge({}, {}, {f}, {}, {}, {})
    /\ UNCHANGED <<inMemoryOnly, RepoIds, DefaultRepoId, dockerfile>>

\* With redis: the transaction is not committed after the file is removed.
remFlag_Aborted(f) ==
    /\ ~inMemoryOnly
    /\ f \in Live(flag)
    /\ flag[f].UsedByScanConfigIds = {}
    /\ files' = files \ {flag[f].SuccessImagePath}
    /\ UNCHANGED <<inMemoryOnly, RepoIds, DefaultRepoId, repo, dockerfile, image,
                   version, scanConfig, flag, scanEvent, execEvent>>

-----------------------------------------------------------------------------
RepoStep ==
    \E r \in Repos :
       \/ createRepo(r) \/ deleteRepo(r) \/ deleteRepo_Aborted(r) \/ deleteRepo_Fails(r)
       \/ \E d \in Dockerfiles, n \in Names, p \in Paths :
            \/ \E via \in Vias : addDockerfile(via, r, d, n, p)
            \/ addDockerfile_NameTaken(r, d, n, p)
            \/ \E via \in Vias, m \in Names, i \in Images, v \in Versions :
                  addAndExecDockerfile(via, r, d, n, p, m, i, v)
       \/ \E c \in ScanConfigs, n \in Names :
            \/ \E via \in Vias : defineScanConfig(via, r, c, n)
            \/ \E f \in Flags, p \in Paths :
                 \/ \E via \in Vias : defineScanConfig_WithFlag(via, r, c, n, f, p)
                 \/ defineScanConfig_FlagNameTaken(r, c, n, f, p)
       \/ \E f \in Flags, n \in Names, p \in Paths :
            \/ \E via \in Vias : defineFlag(via, r, f, n, p)
            \/ defineFlag_NameTaken(r, f, n, p)

DockerStep ==
    \/ \E d \in Dockerfiles :
         \/ remDockerfile(d)
         \/ \E p \in Paths : replaceDockerfile(d, p)
         \/ \E n \in Names, i \in Images :
              \/ execDockerfile_BuildFails(d, n, i)
              \/ \E v \in Versions : execDockerfile(d, n, i, v)
    \/ \E i \in Images : remDockerImage(i) \/ remDockerImage_Fails(i)
    \/ \E v \in Versions :
         \/ remImageVersion(v) \/ remImageVersion_DockerFails(v)
         \/ \E c \in ScanConfigs, e \in ScanEvents : scanImage(c, v, e)

ScanConfigStep ==
    \E c \in ScanConfigs :
       \/ remScanConfig(c) \/ remScanConfig_Fails(c)
       \/ \E n \in Names : updateScanConfig(c, n)
       \/ \E n \in Names \cup {NoName}, f \in Flags, p \in Paths :
            updateScanConfig_WithFlag(c, n, f, p) \/ updateScanConfig_Fails(c, n, f, p)
       \/ \E i \in Images : useScanConfigForImage(c, i) \/ stopUsingScanConfigForImage(c, i)
       \/ \E d \in Dockerfiles :
            \/ useScanConfigForImage_NotAnImage(c, d)
            \/ stopUsingScanConfigForImage_NotAnImage(c, d)

FlagStep == \E f \in Flags : remFlag(f) \/ remFlag_Aborted(f)

Next == RepoStep \/ DockerStep \/ ScanConfigStep \/ FlagStep
          \/ \E p \in Paths : AbandonedUpload(p)

Spec == Init /\ [][Next]_vars

-----------------------------------------------------------------------------
(***************************************************************************)
(* Properties.                                                             *)
(***************************************************************************)

\* Every object has the fields of its Go type, and every id and path in it is
\* of the kind that the field is for; a configuration may have been given the
\* id of a dockerfile for that of an image.
TypeOK ==
    /\ inMemoryOnly \in BOOLEAN
    /\ RepoIds \in SUBSET Repos
    /\ DefaultRepoId \in [Users -> Repos \cup {NoId}]
    /\ repo \in [Repos -> RepoObjects \cup {NewId}]
    /\ dockerfile \in [Dockerfiles -> DockerfileObjects \cup {NewId}]
    /\ image \in [Images -> ImageObjects \cup {NewId, Deleted}]
    /\ version \in [Versions -> VersionObjects \cup {NewId, Deleted}]
    /\ scanConfig \in [ScanConfigs -> ScanConfigObjects \cup {NewId, Deleted}]
    /\ flag \in [Flags -> FlagObjects \cup {NewId, Deleted}]
    /\ scanEvent \in [ScanEvents -> ScanEventObjects \cup {NewId}]
    /\ execEvent \in [Versions -> ExecEventObjects \cup {NewId}]
    /\ files \in SUBSET Paths

\* A stored configuration names a stored image exactly if the image names it,
\* whatever was linked, unlinked and deleted on either side: deletes, which go
\* by one of the two lists, change both.
ScanLinksAgree ==
    \A c \in Live(scanConfig), i \in Live(image) :
       i \in scanConfig[c].DockerImageIdsThatUse <=> c \in image[i].ScanConfigsToUse

\* None, or fewer than half of the ids of a list of two or more.
Few(left, ids) == left = {} \/ 2 * Cardinality(left) < Cardinality(ids)

\* A delete of a configuration or an image that goes on to its end takes its id
\* out of all the stored objects that were linked with it if these are at most
\* two, and of more than half of them otherwise (the loops miss the others).
DeletesUnlink ==
    [][/\ \A c \in Live(scanConfig) \ Live(scanConfig)' :
            Few({i \in Live(image)' : c \in image'[i].ScanConfigsToUse},
                scanConfig[c].DockerImageIdsThatUse)
       /\ \A i \in Live(image) \ Live(image)' :
            Few({c \in Live(scanConfig)' : i \in scanConfig'[c].DockerImageIdsThatUse},
                image[i].ScanConfigsToUse)]_vars

\* With redis a flag knows exactly the configurations that have it, so that
\* deleteFlag refuses just the flags that are in use.
FlagRefsAgree ==
    ~inMemoryOnly =>
      /\ \A f \in Live(flag) :
           flag[f].UsedByScanConfigIds = {c \in Live(scanConfig) : scanConfig[c].FlagId = f}
      /\ \A c \in Live(scanConfig) : FlagReadable(c)

\* A scan event names no configuration and no version that it has outlived, and
\* the event of a build no version: the deletes find the events by the lists
\* that configurations and versions keep of them.  (Dockerfiles stay stored.)
EventsResolve ==
    /\ \A e \in Live(scanEvent) :
         /\ scanEvent[e].ScanConfigId \in Live(scanConfig) \cup {NoId}
         /\ scanEvent[e].DockerImageVersionId \in Live(version) \cup {NoId}
    /\ \A v \in Live(execEvent) :
         execEvent[v].ImageVersionId \in Live(version) \cup {NoId}

\* Images and their versions name each other.
VersionsAgree ==
    \A v \in Versions, i \in Live(image) :
       v \in image[i].VersionIds <=> v \in Live(version) /\ version[v].ImageObjId = i

\* A repo lists only resources that are stored and belong to it, so that none of
\* its loops fails at an id; with redis it lists all that belong to it, those
\* included that its own deleteRepo has left.
ChildrenListed ==
    \A r \in Live(repo) :
      /\ \A d \in repo[r].DockerfileIds : d \in Live(dockerfile) /\ dockerfile[d].ParentId = r
      /\ \A i \in repo[r].DockerImageIds : i \in Live(image) /\ image[i].ParentId = r
      /\ \A c \in repo[r].ScanConfigIds : c \in Live(scanConfig) /\ scanConfig[c].ParentId = r
      /\ \A f \in repo[r].FlagIds : f \in Live(flag) /\ flag[f].ParentId = r
      /\ ~inMemoryOnly =>
           /\ \A d \in Live(dockerfile) : dockerfile[d].ParentId = r => d \in repo[r].DockerfileIds
           /\ \A i \in Live(image) : image[i].ParentId = r => i \in repo[r].DockerImageIds
           /\ \A c \in Live(scanConfig) : scanConfig[c].ParentId = r => c \in repo[r].ScanConfigIds
           /\ \A f \in Live(flag) : flag[f].ParentId = r => f \in repo[r].FlagIds

\* Two listed images, or flags, or dockerfiles of a repo never have the same
\* name: getDockerImageByName would find the first only.
NamesUnique ==
    \A r \in Live(repo) :
      /\ \A i, j \in repo[r].DockerImageIds : image[i].Name = image[j].Name => i = j
      /\ \A f, g \in repo[r].FlagIds : flag[f].Name = flag[g].Name => f = g
      /\ \A d, e \in repo[r].DockerfileIds : dockerfile[d].Name = dockerfile[e].Name => d = e

\* A stored repo lists a user as a default user exactly if it is the user's
\* default repo, and no two users have the same: deleteRepo finds the users by
\* this list.  So with redis, where a failing deleteRepo leaves nothing, no user
\* is left with a default repo that is not one of the realm any more.
DefaultReposAgree ==
    \A u \in Users :
      /\ \A r \in Repos : DefaultRepoId[u] = r <=> r \in Live(repo) /\ u \in repo[r].DefaultUserIds
      /\ \A w \in Users : DefaultRepoId[u] = DefaultRepoId[w] => u = w \/ DefaultRepoId[u] = NoId
      /\ ~inMemoryOnly => DefaultRepoId[u] \in RepoIds \cup {NoId}

\* -inmem: the file of every dockerfile and flag is there, and is no other's.
FilesKept ==
    inMemoryOnly =>
      /\ \A d \in Live(dockerfile) :
           /\ dockerfile[d].FilePath \in files
           /\ \A e \in Live(dockerfile) : dockerfile[d].FilePath = dockerfile[e].FilePath => d = e
           /\ \A f \in Live(flag) : dockerfile[d].FilePath # flag[f].SuccessImagePath
      /\ \A f \in Live(flag) :
           /\ flag[f].SuccessImagePath \in files
           /\ \A g \in Live(flag) : flag[f].SuccessImagePath = flag[g].SuccessImagePath => f = g
=============================================================================
