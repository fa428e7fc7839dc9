----------------------- MODULE RepoResources_proofs -----------------------
(***************************************************************************)
(* What holds in RepoResources for any sets of ids: the types of its       *)
(* objects, the lists that repos keep of their resources, and the links    *)
(* between images and configurations.                                      *)
(***************************************************************************)
EXTENDS RepoResources, TLAPS

-----------------------------------------------------------------------------
(***************************************************************************)
(* The steps of RepoResources keep the types of its objects, for any sets  *)
(* of ids, as long as lists resolve and links agree (Structure).           *)
(***************************************************************************)

\* Every resource has a stored parent: no handler takes a repo out of the
\* store.
ParentsStored ==
    /\ \A d \in Live(dockerfile) : dockerfile[d].ParentId \in Live(repo)
    /\ \A i \in Live(image) : image[i].ParentId \in Live(repo)
    /\ \A c \in Live(scanConfig) : scanConfig[c].ParentId \in Live(repo)
    /\ \A f \in Live(flag) : flag[f].ParentId \in Live(repo)

\* The ids that have been given to objects, deleted ones included.
Known(f) == {x \in DOMAIN f : f[x] # NewId}

\* Links agree; and what is linked has been stored, so that a new object is not
\* named by any other.
LinksHold ==
    /\ ScanLinksAgree
    /\ \A c \in Live(scanConfig) : scanConfig[c].DockerImageIdsThatUse \cap Images \subseteq Known(image)
    /\ \A i \in Live(image) : image[i].ScanConfigsToUse \subseteq Known(scanConfig)

-----------------------------------------------------------------------------
(***************************************************************************)
(* Stored objects.                                                         *)
(***************************************************************************)

\* An id is live exactly if it leads to an object.
LiveAreObjects ==
    /\ \A r : r \in Live(repo) <=> r \in Repos /\ repo[r] \in RepoObjects
    /\ \A d : d \in Live(dockerfile) <=> d \in Dockerfiles /\ dockerfile[d] \in DockerfileObjects
    /\ \A i : i \in Live(image) <=> i \in Images /\ image[i] \in ImageObjects
    /\ \A v : v \in Live(version) <=> v \in Versions /\ version[v] \in VersionObjects
    /\ \A c : c \in Live(scanConfig) <=> c \in ScanConfigs /\ scanConfig[c] \in ScanConfigObjects
    /\ \A f : f \in Live(flag) <=> f \in Flags /\ flag[f] \in FlagObjects
    /\ \A e : e \in Live(scanEvent) <=> e \in ScanEvents /\ scanEvent[e] \in ScanEventObjects
    /\ \A v : v \in Live(execEvent) <=> v \in Versions /\ execEvent[v] \in ExecEventObjects

\* That is so in every state with the right types.
LEMMA LiveObjects == TypeOK => LiveAreObjects
<1> SUFFICES ASSUME TypeOK PROVE LiveAreObjects
  OBVIOUS
<1>1. \A x \in Objects : x # NewId /\ x # Deleted
  BY RepoConstants
<1>2. /\ RepoObjects \subseteq Objects /\ DockerfileObjects \subseteq Objects
      /\ ImageObjects \subseteq Objects /\ VersionObjects \subseteq Objects
      /\ ExecEventObjects \subseteq Objects /\ ScanConfigObjects \subseteq Objects
      /\ FlagObjects \subseteq Objects /\ ScanEventObjects \subseteq Objects
  BY Zenon DEF Objects
<1> HIDE DEF Objects
<1>3. \A r : r \in Live(repo) <=> r \in Repos /\ repo[r] \in RepoObjects
  BY <1>1, <1>2 DEF TypeOK, Live
<1>4. \A d : d \in Live(dockerfile) <=> d \in Dockerfiles /\ dockerfile[d] \in DockerfileObjects
  BY <1>1, <1>2 DEF TypeOK, Live
<1>5. \A i : i \in Live(image) <=> i \in Images /\ image[i] \in ImageObjects
  BY <1>1, <1>2 DEF TypeOK, Live
<1>6. \A v : v \in Live(version) <=> v \in Versions /\ version[v] \in VersionObjects
  BY <1>1, <1>2 DEF TypeOK, Live
<1>7. \A c : c \in Live(scanConfig) <=> c \in ScanConfigs /\ scanConfig[c] \in ScanConfigObjects
  BY <1>1, <1>2 DEF TypeOK, Live
<1>8. \A f : f \in Live(flag) <=> f \in Flags /\ flag[f] \in FlagObjects
  BY <1>1, <1>2 DEF TypeOK, Live
<1>9. \A e : e \in Live(scanEvent) <=> e \in ScanEvents /\ scanEvent[e] \in ScanEventObjects
  BY <1>1, <1>2 DEF TypeOK, Live
<1>10. \A v : v \in Live(execEvent) <=> v \in Versions /\ execEvent[v] \in ExecEventObjects
  BY <1>1, <1>2 DEF TypeOK, Live
<1> QED  BY <1>3, <1>4, <1>5, <1>6, <1>7, <1>8, <1>9, <1>10 DEF LiveAreObjects

\* The same after a step.
LEMMA LiveObjectsNext == TypeOK' => LiveAreObjects'
BY LiveObjects, PTL

\* A function to objects, stored or not, is live at the ids of objects.
LEMMA LiveIn ==
    ASSUME NEW S, NEW O \in {RepoObjects, DockerfileObjects, ImageObjects, VersionObjects,
                             ExecEventObjects, ScanConfigObjects, FlagObjects, ScanEventObjects},
           NEW f \in [S -> O \cup {NewId, Deleted}]
    PROVE  \A x : x \in Live(f) <=> x \in S /\ f[x] \in O
<1>1. \A x \in O : x # NewId /\ x # Deleted
  BY RepoConstants, Zenon DEF Objects
<1> QED  BY <1>1 DEF Live

-----------------------------------------------------------------------------
(***************************************************************************)
(* What a delete does.                                                     *)
(***************************************************************************)

\* Events that are nullified stay events.
LEMMA NullifyTypes ==
    ASSUME TypeOK, NEW ds, NEW cs, NEW vs, Nullify(ds, cs, vs)
    PROVE  /\ scanEvent' \in [ScanEvents -> ScanEventObjects \cup {NewId}]
           /\ execEvent' \in [Versions -> ExecEventObjects \cup {NewId}]
<1> USE DEF Nullify
<1>1. ASSUME NEW e \in ScanEvents
      PROVE  scanEvent'[e] \in ScanEventObjects \cup {NewId}
  <2>1. CASE e \in Live(scanEvent)
    <3>1. scanEvent[e] \in ScanEventObjects
      BY <2>1, LiveObjects DEF LiveAreObjects
    <3> QED  BY <2>1, <3>1 DEF ScanEventObjects, NewScanEvent
  <2>2. CASE e \notin Live(scanEvent)
    BY <2>2 DEF TypeOK
  <2> QED  BY <2>1, <2>2
<1>2. ASSUME NEW v \in Versions
      PROVE  execEvent'[v] \in ExecEventObjects \cup {NewId}
  <2>1. CASE v \in Live(execEvent)
    <3>1. execEvent[v] \in ExecEventObjects
      BY <2>1, LiveObjects DEF LiveAreObjects
    <3> QED  BY <2>1, <3>1 DEF ExecEventObjects, NewExecEvent
  <2>2. CASE v \notin Live(execEvent)
    BY <2>2 DEF TypeOK
  <2> QED  BY <2>1, <2>2
<1>3. scanEvent' = [e \in ScanEvents |-> scanEvent'[e]] /\ execEvent' = [v \in Versions |-> execEvent'[v]]
  OBVIOUS
<1> QED  BY <1>1, <1>2, <1>3

\* What is deleted, and what refers to it.
PurgeArguments(ds, cs, fs, is, vs) ==
    /\ ds \subseteq Live(dockerfile) /\ cs \subseteq Live(scanConfig)
    /\ fs \subseteq Live(flag) /\ is \subseteq Live(image)
    /\ \A c \in cs : FlagReadable(c)

\* A delete keeps the types, since what refers to the deleted objects is stored.
LEMMA PurgeTypes ==
    ASSUME TypeOK, NEW ds, NEW cs, NEW fs, NEW is, NEW vs, NEW links,
           PurgeArguments(ds, cs, fs, is, vs), Purge(ds, cs, fs, is, vs, links)
    PROVE  /\ scanConfig' \in [ScanConfigs -> ScanConfigObjects \cup {NewId, Deleted}]
           /\ flag' \in [Flags -> FlagObjects \cup {NewId, Deleted}]
           /\ image' \in [Images -> ImageObjects \cup {NewId, Deleted}]
           /\ version' \in [Versions -> VersionObjects \cup {NewId, Deleted}]
           /\ scanEvent' \in [ScanEvents -> ScanEventObjects \cup {NewId}]
           /\ execEvent' \in [Versions -> ExecEventObjects \cup {NewId}]
<1> USE DEF PurgeArguments
<1>1. LiveAreObjects
  BY LiveObjects
<1>2. scanConfig' \in [ScanConfigs -> ScanConfigObjects \cup {NewId, Deleted}]
  <2>1. \A c \in ScanConfigs : scanConfig[c] \in ScanConfigObjects \cup {NewId, Deleted}
    BY DEF TypeOK
  <2>2. \A obj \in ScanConfigObjects : \A ids :
           [obj EXCEPT !.DockerImageIdsThatUse = @ \ ids] \in ScanConfigObjects
    BY DEF ScanConfigObjects
  <2> QED  BY <1>1, <2>1, <2>2 DEF Purge, LiveAreObjects
<1>3. flag' \in [Flags -> FlagObjects \cup {NewId, Deleted}]
  <2>1. \A f \in Flags : (\E c \in cs : scanConfig[c].FlagId = f) => flag[f] \in FlagObjects
    BY <1>1, RepoConstants DEF FlagReadable, LiveAreObjects
  <2>2. \A f \in Flags : flag[f] \in FlagObjects \cup {NewId, Deleted}
    BY DEF TypeOK
  <2>3. \A obj \in FlagObjects : \A ids : [obj EXCEPT !.UsedByScanConfigIds = @ \ ids] \in FlagObjects
    BY DEF FlagObjects
  <2> QED  BY <2>1, <2>2, <2>3 DEF Purge
<1>4. image' \in [Images -> ImageObjects \cup {NewId, Deleted}]
  <2>1. \A i \in Images : image[i] \in ImageObjects \cup {NewId, Deleted}
    BY DEF TypeOK
  <2>2. \A obj \in ImageObjects : \A ids1, ids2 :
          [obj EXCEPT !.VersionIds = @ \ ids1, !.ScanConfigsToUse = @ \ ids2] \in ImageObjects
    BY DEF ImageObjects
  <2> QED  BY <1>1, <2>1, <2>2 DEF Purge, LiveAreObjects
<1>5. version' \in [Versions -> VersionObjects \cup {NewId, Deleted}]
  BY DEF TypeOK, Purge
<1> QED  BY <1>2, <1>3, <1>4, <1>5, NullifyTypes DEF Purge

\* What is not deleted stays as it was, but for ids of what is, and the links.
PurgeEffects(cs, fs, is, vs, links) ==
    /\ Live(scanConfig') = Live(scanConfig) \ cs
    /\ \A c \in Live(scanConfig') :
         /\ scanConfig'[c].ParentId = scanConfig[c].ParentId
         /\ scanConfig'[c].Name = scanConfig[c].Name
         /\ scanConfig'[c].FlagId = scanConfig[c].FlagId
         /\ scanConfig'[c].ScanEventIds = scanConfig[c].ScanEventIds
         /\ scanConfig'[c].DockerImageIdsThatUse =
              scanConfig[c].DockerImageIdsThatUse \ {i \in Images : <<c, i>> \in links}
    /\ Live(flag') = Live(flag) \ fs
    /\ \A f \in Live(flag') :
         /\ flag'[f].ParentId = flag[f].ParentId
         /\ flag'[f].Name = flag[f].Name
         /\ flag'[f].SuccessImagePath = flag[f].SuccessImagePath
         /\ flag'[f].UsedByScanConfigIds =
              flag[f].UsedByScanConfigIds \ {c \in cs : scanConfig[c].FlagId = f}
    /\ Live(image') = Live(image) \ is
    /\ \A i \in Live(image') :
         /\ image'[i].ParentId = image[i].ParentId
         /\ image'[i].Name = image[i].Name
         /\ image'[i].VersionIds = image[i].VersionIds \ {v \in vs : version[v].ImageObjId = i}
         /\ image'[i].ScanConfigsToUse =
              image[i].ScanConfigsToUse \ {c \in ScanConfigs : <<c, i>> \in links}
    /\ Live(version') = Live(version) \ vs
    /\ \A v \in Live(version') : version'[v] = version[v]
    /\ Known(scanConfig') = Known(scanConfig) /\ Known(image') = Known(image)

\* That is what Purge does.
LEMMA PurgeEffect ==
    ASSUME TypeOK, NEW ds, NEW cs, NEW fs, NEW is, NEW vs, NEW links,
           PurgeArguments(ds, cs, fs, is, vs), Purge(ds, cs, fs, is, vs, links)
    PROVE  PurgeEffects(cs, fs, is, vs, links)
<1> USE DEF PurgeArguments
<1>1. LiveAreObjects
  BY LiveObjects
<1>2. Deleted \notin Objects
  BY RepoConstants
<1>3. /\ Live(scanConfig') = Live(scanConfig) \ cs
      /\ \A c \in Live(scanConfig') :
           /\ scanConfig'[c].ParentId = scanConfig[c].ParentId
           /\ scanConfig'[c].Name = scanConfig[c].Name
           /\ scanConfig'[c].FlagId = scanConfig[c].FlagId
           /\ scanConfig'[c].ScanEventIds = scanConfig[c].ScanEventIds
           /\ scanConfig'[c].DockerImageIdsThatUse =
                scanConfig[c].DockerImageIdsThatUse \ {i \in Images : <<c, i>> \in links}
  <2>0. scanConfig' \in [ScanConfigs -> ScanConfigObjects \cup {NewId, Deleted}]
    BY PurgeTypes
  <2>1. \A c : c \in Live(scanConfig') <=> c \in ScanConfigs /\ scanConfig'[c] \in ScanConfigObjects
    BY <2>0, LiveIn
  <2>2. \A c \in cs : scanConfig'[c] \notin ScanConfigObjects
    <3>1. Deleted \notin ScanConfigObjects
      BY <1>2, Zenon DEF Objects
    <3> QED  BY <1>1, <3>1 DEF Purge, LiveAreObjects
  <2>3. ASSUME NEW c \in ScanConfigs, c \notin Live(scanConfig)
        PROVE  c \notin Live(scanConfig')
    <3>1. scanConfig'[c] = scanConfig[c]
      BY <2>3, <1>1 DEF Purge, LiveAreObjects
    <3> QED  BY <1>1, <2>1, <2>3, <3>1 DEF LiveAreObjects
  <2>4. ASSUME NEW c \in Live(scanConfig), c \notin cs
        PROVE  /\ scanConfig'[c] \in ScanConfigObjects
               /\ scanConfig'[c].ParentId = scanConfig[c].ParentId
               /\ scanConfig'[c].Name = scanConfig[c].Name
               /\ scanConfig'[c].FlagId = scanConfig[c].FlagId
               /\ scanConfig'[c].ScanEventIds = scanConfig[c].ScanEventIds
               /\ scanConfig'[c].DockerImageIdsThatUse =
                    scanConfig[c].DockerImageIdsThatUse \ {i \in Images : <<c, i>> \in links}
    <3> DEFINE gone == {i \in Images : <<c, i>> \in links}
    <3>1. scanConfig[c] \in ScanConfigObjects /\ c \in ScanConfigs
      BY <1>1 DEF LiveAreObjects
    <3>2. scanConfig'[c] = [scanConfig[c] EXCEPT !.DockerImageIdsThatUse = @ \ gone]
      BY <2>4, <3>1 DEF Purge
    <3> HIDE DEF gone
    <3>3. /\ scanConfig'[c] \in ScanConfigObjects
          /\ scanConfig'[c].ParentId = scanConfig[c].ParentId
          /\ scanConfig'[c].Name = scanConfig[c].Name
          /\ scanConfig'[c].FlagId = scanConfig[c].FlagId
          /\ scanConfig'[c].ScanEventIds = scanConfig[c].ScanEventIds
          /\ scanConfig'[c].DockerImageIdsThatUse =
               scanConfig[c].DockerImageIdsThatUse \ gone
      BY <3>1, <3>2 DEF ScanConfigObjects
    <3> QED  BY <3>3 DEF gone
  <2> QED  BY <1>1, <2>1, <2>2, <2>3, <2>4 DEF LiveAreObjects
<1>4. /\ Live(flag') = Live(flag) \ fs
      /\ \A f \in Live(flag') :
           /\ flag'[f].ParentId = flag[f].ParentId
           /\ flag'[f].Name = flag[f].Name
           /\ flag'[f].SuccessImagePath = flag[f].SuccessImagePath
           /\ flag'[f].UsedByScanConfigIds =
                flag[f].UsedByScanConfigIds \ {c \in cs : scanConfig[c].FlagId = f}
  <2>0. flag' \in [Flags -> FlagObjects \cup {NewId, Deleted}]
    BY PurgeTypes
  <2>1. \A f : f \in Live(flag') <=> f \in Flags /\ flag'[f] \in FlagObjects
    BY <2>0, LiveIn
  <2>2. \A f \in fs : flag'[f] \notin FlagObjects
    <3>1. Deleted \notin FlagObjects
      BY <1>2, Zenon DEF Objects
    <3> QED  BY <1>1, <3>1 DEF Purge, LiveAreObjects
  <2>3. ASSUME NEW f \in Flags, f \notin Live(flag)
        PROVE  f \notin Live(flag')
    <3>1. flag'[f] = flag[f]
      BY <2>3, <1>1, RepoConstants DEF Purge, FlagReadable, LiveAreObjects
    <3> QED  BY <1>1, <2>1, <2>3, <3>1 DEF LiveAreObjects
  <2>4. ASSUME NEW f \in Live(flag), f \notin fs
        PROVE  /\ flag'[f] \in FlagObjects
               /\ flag'[f].ParentId = flag[f].ParentId
               /\ flag'[f].Name = flag[f].Name
               /\ flag'[f].SuccessImagePath = flag[f].SuccessImagePath
               /\ flag'[f].UsedByScanConfigIds =
                    flag[f].UsedByScanConfigIds \ {c \in cs : scanConfig[c].FlagId = f}
    <3> DEFINE gone == {c \in cs : scanConfig[c].FlagId = f}
    <3>1. flag[f] \in FlagObjects /\ f \in Flags
      BY <1>1 DEF LiveAreObjects
    <3>2. flag'[f] = [flag[f] EXCEPT !.UsedByScanConfigIds = @ \ gone]
      <4>1. CASE \E c \in cs : scanConfig[c].FlagId = f
        BY <2>4, <3>1, <4>1 DEF Purge
      <4>2. CASE ~ \E c \in cs : scanConfig[c].FlagId = f
        <5>1. gone = {}
          BY <4>2
        <5>2. flag'[f] = flag[f]
          BY <2>4, <3>1, <4>2 DEF Purge
        <5> HIDE DEF gone
        <5> QED  BY <3>1, <5>1, <5>2 DEF FlagObjects
      <4> QED  BY <4>1, <4>2
    <3> HIDE DEF gone
    <3>3. /\ flag'[f] \in FlagObjects
          /\ flag'[f].ParentId = flag[f].ParentId
          /\ flag'[f].Name = flag[f].Name
          /\ flag'[f].SuccessImagePath = flag[f].SuccessImagePath
          /\ flag'[f].UsedByScanConfigIds =
               flag[f].UsedByScanConfigIds \ gone
      BY <3>1, <3>2 DEF FlagObjects
    <3> QED  BY <3>3 DEF gone
  <2> QED  BY <1>1, <2>1, <2>2, <2>3, <2>4 DEF LiveAreObjects
<1>5. /\ Live(image') = Live(image) \ is
      /\ \A i \in Live(image') :
           /\ image'[i].ParentId = image[i].ParentId
           /\ image'[i].Name = image[i].Name
           /\ image'[i].VersionIds =
                image[i].VersionIds \ {v \in vs : version[v].ImageObjId = i}
           /\ image'[i].ScanConfigsToUse =
                image[i].ScanConfigsToUse \ {c \in ScanConfigs : <<c, i>> \in links}
  <2>0. image' \in [Images -> ImageObjects \cup {NewId, Deleted}]
    BY PurgeTypes
  <2>1. \A i : i \in Live(image') <=> i \in Images /\ image'[i] \in ImageObjects
    BY <2>0, LiveIn
  <2>2. \A i \in is : image'[i] \notin ImageObjects
    <3>1. Deleted \notin ImageObjects
      BY <1>2, Zenon DEF Objects
    <3> QED  BY <1>1, <3>1 DEF Purge, LiveAreObjects
  <2>3. ASSUME NEW i \in Images, i \notin Live(image)
        PROVE  i \notin Live(image')
    <3>1. image'[i] = image[i]
      BY <2>3, <1>1 DEF Purge, LiveAreObjects
    <3> QED  BY <1>1, <2>1, <2>3, <3>1 DEF LiveAreObjects
  <2>4. ASSUME NEW i \in Live(image), i \notin is
        PROVE  /\ image'[i] \in ImageObjects
               /\ image'[i].ParentId = image[i].ParentId
               /\ image'[i].Name = image[i].Name
               /\ image'[i].VersionIds =
                    image[i].VersionIds \ {v \in vs : version[v].ImageObjId = i}
               /\ image'[i].ScanConfigsToUse =
                    image[i].ScanConfigsToUse \ {c \in ScanConfigs : <<c, i>> \in links}
    <3> DEFINE goneVs == {v \in vs : version[v].ImageObjId = i}
                  goneCs == {c \in ScanConfigs : <<c, i>> \in links}
    <3>1. image[i] \in ImageObjects /\ i \in Images
      BY <1>1 DEF LiveAreObjects
    <3>2. image'[i] = [image[i] EXCEPT !.VersionIds = @ \ goneVs,
                                      !.ScanConfigsToUse = @ \ goneCs]
      BY <2>4, <3>1 DEF Purge
    <3> HIDE DEF goneVs, goneCs
    <3>3. /\ image'[i] \in ImageObjects
          /\ image'[i].ParentId = image[i].ParentId
          /\ image'[i].Name = image[i].Name
          /\ image'[i].VersionIds =
               image[i].VersionIds \ goneVs
          /\ image'[i].ScanConfigsToUse =
               image[i].ScanConfigsToUse \ goneCs
      BY <3>1, <3>2 DEF ImageObjects
    <3> QED  BY <3>3 DEF goneVs, goneCs
  <2> QED  BY <1>1, <2>1, <2>2, <2>3, <2>4 DEF LiveAreObjects
<1>6. /\ Live(version') = Live(version) \ vs
      /\ \A v \in Live(version') : version'[v] = version[v]
  <2>0. version' \in [Versions -> VersionObjects \cup {NewId, Deleted}]
    BY PurgeTypes
  <2>1. \A v : v \in Live(version') <=> v \in Versions /\ version'[v] \in VersionObjects
    BY <2>0, LiveIn
  <2>2. Deleted \notin VersionObjects
    BY <1>2, Zenon DEF Objects
  <2> QED  BY <1>1, <2>1, <2>2 DEF Purge, LiveAreObjects
<1>7. NewId # Deleted /\ NewId \notin ScanConfigObjects /\ NewId \notin ImageObjects
  BY RepoConstants, Zenon DEF Objects
<1>8. Known(scanConfig') = Known(scanConfig)
  <2>1. \A c \in ScanConfigs : scanConfig'[c] = NewId <=> scanConfig[c] = NewId
    <3>1. \A c \in cs : scanConfig'[c] = Deleted /\ scanConfig[c] \in ScanConfigObjects
      BY <1>1 DEF Purge, LiveAreObjects
    <3>2. \A c \in Live(scanConfig) \ cs : scanConfig'[c] \in ScanConfigObjects
      <4>1. scanConfig' \in [ScanConfigs -> ScanConfigObjects \cup {NewId, Deleted}]
        BY PurgeTypes
      <4>2. \A c : c \in Live(scanConfig') <=> c \in ScanConfigs /\ scanConfig'[c] \in ScanConfigObjects
        BY <4>1, LiveIn
      <4> QED  BY <1>3, <4>2
    <3>3. \A c \in ScanConfigs \ Live(scanConfig) : scanConfig'[c] = scanConfig[c]
      BY DEF Purge
    <3> QED  BY <1>1, <1>7, <3>1, <3>2, <3>3 DEF LiveAreObjects
  <2> QED  BY <2>1 DEF Known, Purge, TypeOK
<1>9. Known(image') = Known(image)
  <2>1. \A i \in Images : image'[i] = NewId <=> image[i] = NewId
    <3>1. \A i \in is : image'[i] = Deleted /\ image[i] \in ImageObjects
      BY <1>1 DEF Purge, LiveAreObjects
    <3>2. \A i \in Live(image) \ is : image'[i] \in ImageObjects
      <4>1. image' \in [Images -> ImageObjects \cup {NewId, Deleted}]
        BY PurgeTypes
      <4>2. \A i : i \in Live(image') <=> i \in Images /\ image'[i] \in ImageObjects
        BY <4>1, LiveIn
      <4> QED  BY <1>5, <4>2
    <3>3. \A i \in Images \ Live(image) : image'[i] = image[i]
      BY DEF Purge
    <3> QED  BY <1>1, <1>7, <3>1, <3>2, <3>3 DEF LiveAreObjects
  <2> QED  BY <2>1 DEF Known, Purge, TypeOK
<1> QED  BY <1>3, <1>4, <1>5, <1>6, <1>8, <1>9 DEF PurgeEffects

-----------------------------------------------------------------------------
(***************************************************************************)
(* Types.                                                                  *)
(***************************************************************************)

\* The inductive invariant.
Structure == TypeOK /\ ParentsStored /\ ChildrenListed /\ LinksHold

\* The repo that a handler works in.
LEMMA BaseRepo ==
    ASSUME TypeOK, NEW r \in Repos, NEW via
    PROVE  /\ Base(via, r) \in RepoObjects
           /\ r \notin Live(repo) =>
                /\ Base(via, r).DockerfileIds = {} /\ Base(via, r).DockerImageIds = {}
                /\ Base(via, r).ScanConfigIds = {} /\ Base(via, r).FlagIds = {}
           /\ r \in Live(repo) =>
                /\ Base(via, r).DockerfileIds = repo[r].DockerfileIds
                /\ Base(via, r).DockerImageIds = repo[r].DockerImageIds
                /\ Base(via, r).ScanConfigIds = repo[r].ScanConfigIds
                /\ Base(via, r).FlagIds = repo[r].FlagIds
<1>1. CASE repo[r] = NewId
  <2>1. EmptyRepo \in RepoObjects
    BY DEF EmptyRepo, RepoObjects
  <2>2. Base(via, r) = [EmptyRepo EXCEPT !.DefaultUserIds = @ \cup (Users \cap {via})]
    BY <1>1 DEF Base
  <2>3. r \notin Live(repo)
    BY <1>1 DEF Live
  <2> QED  BY <2>1, <2>2, <2>3 DEF RepoObjects, EmptyRepo
<1>2. CASE repo[r] # NewId
  <2>1. repo[r] \in RepoObjects /\ r \in Live(repo)
    BY <1>2, LiveObjects DEF LiveAreObjects, TypeOK
  <2>2. Base(via, r) = [repo[r] EXCEPT !.DefaultUserIds = @ \cup (Users \cap {via})]
    BY <1>2 DEF Base
  <2> QED  BY <2>1, <2>2 DEF RepoObjects
<1> QED  BY <1>1, <1>2

\* The realm's repos and the users' default repos.
LEMMA TargetTypes ==
    ASSUME TypeOK, NEW r \in Repos, NEW via, Target(via, r)
    PROVE  /\ RepoIds' \in SUBSET Repos
           /\ DefaultRepoId' \in [Users -> Repos \cup {NoId}]
BY DEF TypeOK, Target

\* An image that a repo lists, or a new one, gets a version.
LEMMA BuildTypes ==
    ASSUME TypeOK, NEW d \in Dockerfiles, NEW obj \in DockerfileObjects, NEW r \in Repos,
           NEW robj \in RepoObjects, robj.DockerImageIds \subseteq Live(image),
           NEW n \in Names, NEW i \in Images, NEW v \in Versions,
           buildDockerfile(d, obj, r, robj, n, i, v)
    PROVE  /\ repo' \in [Repos -> RepoObjects \cup {NewId}]
           /\ dockerfile' \in [Dockerfiles -> DockerfileObjects \cup {NewId}]
           /\ image' \in [Images -> ImageObjects \cup {NewId, Deleted}]
           /\ version' \in [Versions -> VersionObjects \cup {NewId, Deleted}]
           /\ execEvent' \in [Versions -> ExecEventObjects \cup {NewId}]
<1> USE DEF TypeOK
<1>1. [obj EXCEPT !.DockerfileExecEventIds = @ \cup {v}] \in DockerfileObjects
  BY DEF DockerfileObjects
<1>2. [robj EXCEPT !.DockerImageIds = @ \cup {i}] \in RepoObjects
  BY DEF RepoObjects
<1>3. NewVersion(i) \in VersionObjects /\ NewExecEvent(d, v) \in ExecEventObjects
  BY DEF NewVersion, VersionObjects, NewExecEvent, ExecEventObjects
<1>4. image' \in [Images -> ImageObjects \cup {NewId, Deleted}]
  <2> DEFINE old == IF image[i] = NewId THEN NewDockerImage(r, n) ELSE image[i]
  <2>1. old \in ImageObjects
    <3>1. NewDockerImage(r, n) \in ImageObjects
      BY DEF NewDockerImage, ImageObjects
    <3> QED  BY <3>1, LiveObjects DEF buildDockerfile, LiveAreObjects
  <2>2. image' = [image EXCEPT ![i] = [old EXCEPT !.VersionIds = @ \cup {v}]]
    BY DEF buildDockerfile
  <2> HIDE DEF old
  <2>3. [old EXCEPT !.VersionIds = @ \cup {v}] \in ImageObjects
    BY <2>1 DEF ImageObjects
  <2> QED  BY <2>2, <2>3
<1>5. /\ repo' \in [Repos -> RepoObjects \cup {NewId}]
      /\ dockerfile' \in [Dockerfiles -> DockerfileObjects \cup {NewId}]
  BY <1>1, <1>2 DEF buildDockerfile
<1>6. /\ version' \in [Versions -> VersionObjects \cup {NewId, Deleted}]
      /\ execEvent' \in [Versions -> ExecEventObjects \cup {NewId}]
  BY <1>3 DEF buildDockerfile
<1> QED  BY <1>4, <1>5, <1>6

\* What the delete of a repo purges: listed configurations, perhaps not all, and
\* all its images and flags.
LEMMA RepoPurge ==
    ASSUME Structure, NEW r \in Repos, deleteRepo(r)
    PROVE  \E cs, links :
             /\ PurgeArguments(repo[r].DockerfileIds, cs, repo[r].FlagIds, repo[r].DockerImageIds,
                               UNION {image[i].VersionIds : i \in repo[r].DockerImageIds})
             /\ Purge(repo[r].DockerfileIds, cs, repo[r].FlagIds, repo[r].DockerImageIds,
                      UNION {image[i].VersionIds : i \in repo[r].DockerImageIds}, links)
             /\ repo' = [repo EXCEPT ![r] =
                  [EmptyRepo EXCEPT !.DockerfileIds = repo[r].DockerfileIds,
                                    !.ScanConfigIds = repo[r].ScanConfigIds \ cs]]
             /\ cs \subseteq repo[r].ScanConfigIds
             /\ \A f \in repo[r].FlagIds : \A c \in flag[f].UsedByScanConfigIds :
                  c \in cs /\ scanConfig[c].FlagId = f
             /\ \E unlinked \in WalksOfScanConfigs(cs) :
                \E more \in WalksOfImages(repo[r].DockerImageIds, unlinked) :
                   links = unlinked \cup more
<1>1. PICK cs \in (IF inMemoryOnly THEN {repo[r].ScanConfigIds} ELSE Walked(repo[r].ScanConfigIds)) :
        /\ \A c \in cs : FlagReadable(c)
        /\ \A f \in repo[r].FlagIds : \A c \in flag[f].UsedByScanConfigIds :
             c \in cs /\ scanConfig[c].FlagId = f
        /\ \E unlinked \in WalksOfScanConfigs(cs) :
           \E more \in WalksOfImages(repo[r].DockerImageIds, unlinked) :
              Purge(repo[r].DockerfileIds, cs, repo[r].FlagIds, repo[r].DockerImageIds,
                    UNION {image[i].VersionIds : i \in repo[r].DockerImageIds},
                    unlinked \cup more)
        /\ repo' = [repo EXCEPT ![r] =
             [EmptyRepo EXCEPT !.DockerfileIds = repo[r].DockerfileIds,
                               !.ScanConfigIds = repo[r].ScanConfigIds \ cs]]
  BY Zenon DEF deleteRepo
<1>2. cs \subseteq repo[r].ScanConfigIds
  BY <1>1 DEF Walked
<1>3. r \in Live(repo)
  BY DEF deleteRepo
<1>4. PurgeArguments(repo[r].DockerfileIds, cs, repo[r].FlagIds, repo[r].DockerImageIds,
                     UNION {image[i].VersionIds : i \in repo[r].DockerImageIds})
  BY <1>1, <1>2, <1>3 DEF PurgeArguments, Structure, ChildrenListed
<1>5. PICK unlinked \in WalksOfScanConfigs(cs) :
      \E more \in WalksOfImages(repo[r].DockerImageIds, unlinked) :
         Purge(repo[r].DockerfileIds, cs, repo[r].FlagIds, repo[r].DockerImageIds,
               UNION {image[i].VersionIds : i \in repo[r].DockerImageIds}, unlinked \cup more)
  BY <1>1, Zenon
<1>6. PICK more \in WalksOfImages(repo[r].DockerImageIds, unlinked) :
         Purge(repo[r].DockerfileIds, cs, repo[r].FlagIds, repo[r].DockerImageIds,
               UNION {image[i].VersionIds : i \in repo[r].DockerImageIds}, unlinked \cup more)
  BY <1>5, Zenon
<1>7. \E links : /\ links = unlinked \cup more
                 /\ Purge(repo[r].DockerfileIds, cs, repo[r].FlagIds, repo[r].DockerImageIds,
                          UNION {image[i].VersionIds : i \in repo[r].DockerImageIds}, links)
  BY <1>6, Zenon
<1> QED  BY <1>1, <1>2, <1>4, <1>7, Zenon

\* Repos, and what is defined or added in them.
LEMMA RepoStepTypes == Structure /\ RepoStep => TypeOK'
<1> SUFFICES ASSUME Structure, RepoStep PROVE TypeOK'
  OBVIOUS
<1> USE DEF Structure, TypeOK
<1>1. ASSUME NEW r \in Repos, createRepo(r)
      PROVE  TypeOK'
  <2>1. EmptyRepo \in RepoObjects
    BY DEF EmptyRepo, RepoObjects
  <2> QED  BY <1>1, <2>1 DEF createRepo
<1>2. ASSUME NEW r \in Repos, NEW d \in Dockerfiles, NEW n \in Names, NEW p \in Paths,
             NEW via \in Vias, addDockerfile(via, r, d, n, p)
      PROVE  TypeOK'
  <2>1. NewDockerfile(r, n, p) \in DockerfileObjects
    BY DEF NewDockerfile, DockerfileObjects
  <2>2. [Base(via, r) EXCEPT !.DockerfileIds = @ \cup {d}] \in RepoObjects
    BY BaseRepo DEF RepoObjects
  <2> QED  BY <1>2, <2>1, <2>2, TargetTypes DEF addDockerfile, captureFile
<1>3. ASSUME NEW r \in Repos, NEW d \in Dockerfiles, NEW n \in Names, NEW p \in Paths,
             addDockerfile_NameTaken(r, d, n, p)
      PROVE  TypeOK'
  <2>1. NewDockerfile(r, n, p) \in DockerfileObjects
    BY DEF NewDockerfile, DockerfileObjects
  <2> QED  BY <1>3, <2>1 DEF addDockerfile_NameTaken, captureFile
<1>4. ASSUME NEW r \in Repos, NEW d \in Dockerfiles, NEW dn \in Names, NEW p \in Paths,
             NEW via \in Vias, NEW n \in Names, NEW i \in Images, NEW v \in Versions,
             addAndExecDockerfile(via, r, d, dn, p, n, i, v)
      PROVE  TypeOK'
  <2> DEFINE robj == [Base(via, r) EXCEPT !.DockerfileIds = @ \cup {d}]
  <2>1. NewDockerfile(r, dn, p) \in DockerfileObjects
    BY DEF NewDockerfile, DockerfileObjects
  <2>2. robj \in RepoObjects /\ robj.DockerImageIds = Base(via, r).DockerImageIds
    BY BaseRepo DEF RepoObjects
  <2>3. robj.DockerImageIds \subseteq Live(image)
    BY <2>2, BaseRepo DEF ChildrenListed
  <2>4. buildDockerfile(d, NewDockerfile(r, dn, p), r, robj, n, i, v)
    BY <1>4 DEF addAndExecDockerfile
  <2> HIDE DEF robj
  <2>5. /\ repo' \in [Repos -> RepoObjects \cup {NewId}]
        /\ dockerfile' \in [Dockerfiles -> DockerfileObjects \cup {NewId}]
        /\ image' \in [Images -> ImageObjects \cup {NewId, Deleted}]
        /\ version' \in [Versions -> VersionObjects \cup {NewId, Deleted}]
        /\ execEvent' \in [Versions -> ExecEventObjects \cup {NewId}]
    BY <2>1, <2>2, <2>3, <2>4, BuildTypes
  <2>6. UNCHANGED <<inMemoryOnly, scanConfig, flag, scanEvent>>
    BY <2>4 DEF buildDockerfile
  <2> QED  BY <1>4, <2>5, <2>6, TargetTypes DEF addAndExecDockerfile, captureFile
<1>5. ASSUME NEW r \in Repos, NEW c \in ScanConfigs, NEW n \in Names, NEW via \in Vias,
             defineScanConfig(via, r, c, n)
      PROVE  TypeOK'
  <2>1. NewScanConfig(r, n, NoId) \in ScanConfigObjects
    BY DEF NewScanConfig, ScanConfigObjects
  <2>2. [Base(via, r) EXCEPT !.ScanConfigIds = @ \cup {c}] \in RepoObjects
    BY BaseRepo DEF RepoObjects
  <2> QED  BY <1>5, <2>1, <2>2, TargetTypes DEF defineScanConfig
<1>6. ASSUME NEW r \in Repos, NEW c \in ScanConfigs, NEW n \in Names, NEW f \in Flags,
             NEW p \in Paths, NEW via \in Vias, defineScanConfig_WithFlag(via, r, c, n, f, p)
      PROVE  TypeOK'
  <2>1. NewScanConfig(r, n, f) \in ScanConfigObjects /\ NewFlag(r, n, p, {c}) \in FlagObjects
    BY DEF NewScanConfig, ScanConfigObjects, NewFlag, FlagObjects
  <2>2. [Base(via, r) EXCEPT !.ScanConfigIds = @ \cup {c}, !.FlagIds = @ \cup {f}] \in RepoObjects
    BY BaseRepo DEF RepoObjects
  <2> QED  BY <1>6, <2>1, <2>2, TargetTypes DEF defineScanConfig_WithFlag, captureFile
<1>7. ASSUME NEW r \in Repos, NEW c \in ScanConfigs, NEW n \in Names, NEW f \in Flags,
             NEW p \in Paths, defineScanConfig_FlagNameTaken(r, c, n, f, p)
      PROVE  TypeOK'
  <2>1. NewScanConfig(r, n, NoId) \in ScanConfigObjects /\ NewFlag(r, n, p, {}) \in FlagObjects
    BY DEF NewScanConfig, ScanConfigObjects, NewFlag, FlagObjects
  <2>2. [repo[r] EXCEPT !.ScanConfigIds = @ \cup {c}] \in RepoObjects
    BY <1>7, LiveObjects DEF defineScanConfig_FlagNameTaken, LiveAreObjects, RepoObjects
  <2> QED  BY <1>7, <2>1, <2>2 DEF defineScanConfig_FlagNameTaken, captureFile
<1>8. ASSUME NEW r \in Repos, NEW f \in Flags, NEW n \in Names, NEW p \in Paths,
             NEW via \in Vias, defineFlag(via, r, f, n, p)
      PROVE  TypeOK'
  <2>1. NewFlag(r, n, p, {}) \in FlagObjects
    BY DEF NewFlag, FlagObjects
  <2>2. [Base(via, r) EXCEPT !.FlagIds = @ \cup {f}] \in RepoObjects
    BY BaseRepo DEF RepoObjects
  <2> QED  BY <1>8, <2>1, <2>2, TargetTypes DEF defineFlag, captureFile
<1>9. ASSUME NEW r \in Repos, NEW f \in Flags, NEW n \in Names, NEW p \in Paths,
             defineFlag_NameTaken(r, f, n, p)
      PROVE  TypeOK'
  <2>1. NewFlag(r, n, p, {}) \in FlagObjects
    BY DEF NewFlag, FlagObjects
  <2> QED  BY <1>9, <2>1 DEF defineFlag_NameTaken, captureFile
<1>10. ASSUME NEW r \in Repos, deleteRepo(r)
       PROVE  TypeOK'
  <2>1. PICK cs, links :
          /\ PurgeArguments(repo[r].DockerfileIds, cs, repo[r].FlagIds, repo[r].DockerImageIds,
                            UNION {image[i].VersionIds : i \in repo[r].DockerImageIds})
          /\ Purge(repo[r].DockerfileIds, cs, repo[r].FlagIds, repo[r].DockerImageIds,
                   UNION {image[i].VersionIds : i \in repo[r].DockerImageIds}, links)
          /\ repo' = [repo EXCEPT ![r] =
               [EmptyRepo EXCEPT !.DockerfileIds = repo[r].DockerfileIds,
                                 !.ScanConfigIds = repo[r].ScanConfigIds \ cs]]
    BY <1>10, RepoPurge
  <2>2. repo[r] \in RepoObjects
    BY <1>10, LiveObjects DEF deleteRepo, LiveAreObjects
  <2>3. [EmptyRepo EXCEPT !.DockerfileIds = repo[r].DockerfileIds,
                          !.ScanConfigIds = repo[r].ScanConfigIds \ cs] \in RepoObjects
    BY <2>2 DEF EmptyRepo, RepoObjects
  <2>4. /\ scanConfig' \in [ScanConfigs -> ScanConfigObjects \cup {NewId, Deleted}]
        /\ flag' \in [Flags -> FlagObjects \cup {NewId, Deleted}]
        /\ image' \in [Images -> ImageObjects \cup {NewId, Deleted}]
        /\ version' \in [Versions -> VersionObjects \cup {NewId, Deleted}]
        /\ scanEvent' \in [ScanEvents -> ScanEventObjects \cup {NewId}]
        /\ execEvent' \in [Versions -> ExecEventObjects \cup {NewId}]
    BY <2>1, PurgeTypes
  <2> QED  BY <1>10, <2>1, <2>3, <2>4 DEF deleteRepo
<1>11. ASSUME NEW r \in Repos, deleteRepo_Aborted(r)
       PROVE  TypeOK'
  BY <1>11 DEF deleteRepo_Aborted
<1>12. ASSUME NEW r \in Repos, deleteRepo_Fails(r)
       PROVE  TypeOK'
  BY <1>12, NullifyTypes DEF deleteRepo_Fails
<1> QED  BY <1>1, <1>2, <1>3, <1>4, <1>5, <1>6, <1>7, <1>8, <1>9, <1>10, <1>11, <1>12 DEF RepoStep

\* Dockerfiles, images and versions.
LEMMA DockerStepTypes == Structure /\ DockerStep => TypeOK'
<1> SUFFICES ASSUME Structure, DockerStep PROVE TypeOK'
  OBVIOUS
<1> USE DEF Structure, TypeOK
<1>0. LiveAreObjects
  BY LiveObjects
<1>1. ASSUME NEW d \in Dockerfiles, remDockerfile(d)
      PROVE  TypeOK'
  BY <1>1, NullifyTypes DEF remDockerfile
<1>2. ASSUME NEW d \in Dockerfiles, NEW p \in Paths, replaceDockerfile(d, p)
      PROVE  TypeOK'
  <2>1. [dockerfile[d] EXCEPT !.FilePath = p] \in DockerfileObjects
    BY <1>0, <1>2 DEF replaceDockerfile, LiveAreObjects, DockerfileObjects
  <2> QED  BY <1>2, <2>1 DEF replaceDockerfile, WrittenIfInMemory
<1>3. ASSUME NEW d \in Dockerfiles, NEW n \in Names, NEW i \in Images,
             execDockerfile_BuildFails(d, n, i)
      PROVE  TypeOK'
  <2> DEFINE r == dockerfile[d].ParentId
  <2>1. r \in Live(repo)
    BY <1>3 DEF execDockerfile_BuildFails, ParentsStored
  <2>2. r \in Repos /\ repo[r] \in RepoObjects
    BY <1>0, <2>1 DEF LiveAreObjects
  <2>3. /\ image' = [image EXCEPT ![i] = NewDockerImage(r, n)]
        /\ repo' = [repo EXCEPT ![r].DockerImageIds = @ \cup {i}]
        /\ UNCHANGED <<inMemoryOnly, RepoIds, DefaultRepoId, dockerfile, version,
                       scanConfig, flag, scanEvent, execEvent, files>>
    BY <1>3 DEF execDockerfile_BuildFails
  <2> HIDE DEF r
  <2>4. NewDockerImage(r, n) \in ImageObjects
    BY <2>2 DEF NewDockerImage, ImageObjects
  <2>5. [repo[r] EXCEPT !.DockerImageIds = @ \cup {i}] \in RepoObjects
    BY <2>2 DEF RepoObjects
  <2> QED  BY <2>3, <2>4, <2>5
<1>4. ASSUME NEW d \in Dockerfiles, NEW n \in Names, NEW i \in Images, NEW v \in Versions,
             execDockerfile(d, n, i, v)
      PROVE  TypeOK'
  <2> DEFINE r == dockerfile[d].ParentId
  <2>1. dockerfile[d] \in DockerfileObjects /\ r \in Live(repo)
    BY <1>0, <1>4 DEF execDockerfile, ParentsStored, LiveAreObjects
  <2>2. r \in Repos /\ repo[r] \in RepoObjects /\ repo[r].DockerImageIds \subseteq Live(image)
    BY <1>0, <2>1 DEF LiveAreObjects, ChildrenListed
  <2>3. /\ buildDockerfile(d, dockerfile[d], r, repo[r], n, i, v)
        /\ UNCHANGED <<RepoIds, DefaultRepoId, files>>
    BY <1>4 DEF execDockerfile
  <2> HIDE DEF r
  <2>4. /\ repo' \in [Repos -> RepoObjects \cup {NewId}]
        /\ dockerfile' \in [Dockerfiles -> DockerfileObjects \cup {NewId}]
        /\ image' \in [Images -> ImageObjects \cup {NewId, Deleted}]
        /\ version' \in [Versions -> VersionObjects \cup {NewId, Deleted}]
        /\ execEvent' \in [Versions -> ExecEventObjects \cup {NewId}]
    BY <2>1, <2>2, <2>3, BuildTypes
  <2>5. UNCHANGED <<inMemoryOnly, scanConfig, flag, scanEvent>>
    BY <2>3 DEF buildDockerfile
  <2> QED  BY <2>3, <2>4, <2>5
<1>5. ASSUME NEW i \in Images, remDockerImage(i)
      PROVE  TypeOK'
  <2> DEFINE r == image[i].ParentId
  <2>1. i \in Live(image) /\ r \in Live(repo)
    BY <1>5 DEF remDockerImage, ParentsStored
  <2>2. r \in Repos /\ repo[r] \in RepoObjects
    BY <1>0, <2>1 DEF LiveAreObjects
  <2>3. [repo[r] EXCEPT !.DockerImageIds = @ \ {i}] \in RepoObjects
    BY <2>2 DEF RepoObjects
  <2>4. PurgeArguments({}, {}, {}, {i}, image[i].VersionIds)
    BY <2>1 DEF PurgeArguments
  <2>5. /\ \E links : Purge({}, {}, {}, {i}, image[i].VersionIds, links)
        /\ repo' = [repo EXCEPT ![r].DockerImageIds = @ \ {i}]
        /\ UNCHANGED <<inMemoryOnly, RepoIds, DefaultRepoId, dockerfile, files>>
    BY <1>5 DEF remDockerImage
  <2> HIDE DEF r
  <2> QED  BY <2>2, <2>3, <2>4, <2>5, PurgeTypes
<1>6. ASSUME NEW v \in Versions, remImageVersion(v)
      PROVE  TypeOK'
  <2>1. PurgeArguments({}, {}, {}, {}, {v}) /\ Purge({}, {}, {}, {}, {v}, {})
    BY <1>6 DEF PurgeArguments, remImageVersion
  <2> QED  BY <1>6, <2>1, PurgeTypes DEF remImageVersion
<1>7. ASSUME NEW v \in Versions, remImageVersion_DockerFails(v)
      PROVE  TypeOK'
  BY <1>7, NullifyTypes DEF remImageVersion_DockerFails
<1>8. ASSUME NEW c \in ScanConfigs, NEW v \in Versions, NEW e \in ScanEvents, scanImage(c, v, e)
      PROVE  TypeOK'
  <2>1. scanConfig[c] \in ScanConfigObjects /\ version[v] \in VersionObjects
    BY <1>0, <1>8 DEF scanImage, LiveAreObjects
  <2>2. NewScanEvent(c, v) \in ScanEventObjects
    BY DEF NewScanEvent, ScanEventObjects
  <2>3. [scanConfig[c] EXCEPT !.ScanEventIds = @ \cup {e}] \in ScanConfigObjects
    BY <2>1 DEF ScanConfigObjects
  <2>4. [version[v] EXCEPT !.ScanEventIds = @ \cup {e}] \in VersionObjects
    BY <2>1 DEF VersionObjects
  <2> QED  BY <1>8, <2>2, <2>3, <2>4 DEF scanImage
<1>9. ASSUME NEW i \in Images, remDockerImage_Fails(i)
      PROVE  TypeOK'
  <2>1. PICK vs, links : Purge({}, {}, {}, {}, vs, links)
    BY <1>9 DEF remDockerImage_Fails
  <2>2. PurgeArguments({}, {}, {}, {}, vs)
    BY DEF PurgeArguments
  <2> QED  BY <1>9, <2>1, <2>2, PurgeTypes DEF remDockerImage_Fails
<1> QED  BY <1>1, <1>2, <1>3, <1>4, <1>5, <1>6, <1>7, <1>8, <1>9 DEF DockerStep

\* Configurations.
LEMMA ScanConfigStepTypes == Structure /\ ScanConfigStep => TypeOK'
<1> SUFFICES ASSUME Structure, ScanConfigStep PROVE TypeOK'
  OBVIOUS
<1> USE DEF Structure, TypeOK
<1>0. LiveAreObjects
  BY LiveObjects
<1>1. ASSUME NEW c \in ScanConfigs, remScanConfig(c)
      PROVE  TypeOK'
  <2> DEFINE r == scanConfig[c].ParentId
  <2>1. c \in Live(scanConfig) /\ r \in Live(repo)
    BY <1>1 DEF remScanConfig, ParentsStored
  <2>2. r \in Repos /\ repo[r] \in RepoObjects
    BY <1>0, <2>1 DEF LiveAreObjects
  <2>3. [repo[r] EXCEPT !.ScanConfigIds = @ \ {c}] \in RepoObjects
    BY <2>2 DEF RepoObjects
  <2>4. PurgeArguments({}, {c}, {}, {}, {})
    BY <1>1, <2>1 DEF PurgeArguments, remScanConfig
  <2>5. /\ \E links : Purge({}, {c}, {}, {}, {}, links)
        /\ repo' = [repo EXCEPT ![r].ScanConfigIds = @ \ {c}]
        /\ UNCHANGED <<inMemoryOnly, RepoIds, DefaultRepoId, dockerfile, files>>
    BY <1>1 DEF remScanConfig
  <2> HIDE DEF r
  <2> QED  BY <2>2, <2>3, <2>4, <2>5, PurgeTypes
<1>2. ASSUME NEW c \in ScanConfigs, remScanConfig_Fails(c)
      PROVE  TypeOK'
  <2>1. scanConfig[c] \in ScanConfigObjects
    BY <1>0, <1>2 DEF remScanConfig_Fails, LiveAreObjects
  <2>2. /\ scanEvent' \in [ScanEvents -> ScanEventObjects \cup {NewId}]
        /\ execEvent' \in [Versions -> ExecEventObjects \cup {NewId}]
    BY <1>2, NullifyTypes DEF remScanConfig_Fails
  <2>3. /\ scanConfig' \in [ScanConfigs -> ScanConfigObjects \cup {NewId, Deleted}]
        /\ flag' \in [Flags -> FlagObjects \cup {NewId, Deleted}]
        /\ image' \in [Images -> ImageObjects \cup {NewId, Deleted}]
    <3>1. CASE UNCHANGED <<scanConfig, flag, image>>
      BY <3>1
    <3>2. ASSUME NEW x \in scanConfig[c].DockerImageIdsThatUse \ Live(image),
                 NEW is \in SUBSET (scanConfig[c].DockerImageIdsThatUse \cap Live(image)),
                 FlagReadable(c),
                 scanConfig' = [scanConfig EXCEPT ![c].DockerImageIdsThatUse = @ \ (is \cup {x})],
                 image' = [i \in Images |->
                    IF i \in is THEN [image[i] EXCEPT !.ScanConfigsToUse = @ \ {c}] ELSE image[i]],
                 flag' = [f \in Flags |->
                    IF f = scanConfig[c].FlagId
                    THEN [flag[f] EXCEPT !.UsedByScanConfigIds = @ \ {c}] ELSE flag[f]]
          PROVE  /\ scanConfig' \in [ScanConfigs -> ScanConfigObjects \cup {NewId, Deleted}]
                 /\ flag' \in [Flags -> FlagObjects \cup {NewId, Deleted}]
                 /\ image' \in [Images -> ImageObjects \cup {NewId, Deleted}]
      <4>1. [scanConfig[c] EXCEPT !.DockerImageIdsThatUse = @ \ (is \cup {x})] \in ScanConfigObjects
        BY <2>1 DEF ScanConfigObjects
      <4>2. \A i \in is : [image[i] EXCEPT !.ScanConfigsToUse = @ \ {c}] \in ImageObjects
        BY <1>0 DEF LiveAreObjects, ImageObjects
      <4>3. \A f \in Flags : f = scanConfig[c].FlagId =>
               [flag[f] EXCEPT !.UsedByScanConfigIds = @ \ {c}] \in FlagObjects
        BY <1>0, <3>2, RepoConstants DEF FlagReadable, LiveAreObjects, FlagObjects
      <4> QED  BY <3>2, <4>1, <4>2, <4>3
    <3> QED  BY <1>2, <3>1, <3>2 DEF remScanConfig_Fails
  <2> QED  BY <1>2, <2>2, <2>3 DEF remScanConfig_Fails
<1>3. ASSUME NEW c \in ScanConfigs, NEW n \in Names, updateScanConfig(c, n)
      PROVE  TypeOK'
  <2>1. Renamed(c, n) \in ScanConfigObjects
    BY <1>0, <1>3 DEF updateScanConfig, LiveAreObjects, Renamed, ScanConfigObjects
  <2> QED  BY <1>3, <2>1 DEF updateScanConfig
<1>4. ASSUME NEW c \in ScanConfigs, NEW n \in Names \cup {NoName}, NEW f \in Flags, NEW p \in Paths,
             updateScanConfig_WithFlag(c, n, f, p)
      PROVE  TypeOK'
  <2> DEFINE r == scanConfig[c].ParentId
  <2>1. c \in Live(scanConfig) /\ r \in Live(repo)
    BY <1>4 DEF updateScanConfig_WithFlag, ParentsStored
  <2>2. r \in Repos /\ repo[r] \in RepoObjects /\ scanConfig[c] \in ScanConfigObjects
    BY <1>0, <2>1 DEF LiveAreObjects
  <2>3. Renamed(c, n) \in ScanConfigObjects
    BY <2>2 DEF Renamed, ScanConfigObjects
  <2>4. [Renamed(c, n) EXCEPT !.FlagId = f] \in ScanConfigObjects
    BY <2>3 DEF ScanConfigObjects
  <2>5. [repo[r] EXCEPT !.FlagIds = @ \cup {f}] \in RepoObjects
    BY <2>2 DEF RepoObjects
  <2>6. NewFlag(r, n, p, {c}) \in FlagObjects
    BY <2>2 DEF NewFlag, FlagObjects
  <2>7. \A g \in Flags : g = scanConfig[c].FlagId =>
           [flag[g] EXCEPT !.UsedByScanConfigIds = @ \ {c}] \in FlagObjects
    BY <1>0, <1>4, RepoConstants
       DEF updateScanConfig_WithFlag, FlagReadable, LiveAreObjects, FlagObjects
  <2>8. /\ scanConfig' = [scanConfig EXCEPT ![c] = [Renamed(c, n) EXCEPT !.FlagId = f]]
        /\ flag' = [g \in Flags |->
                      IF g = f THEN NewFlag(r, n, p, {c})
                      ELSE IF g = scanConfig[c].FlagId
                      THEN [flag[g] EXCEPT !.UsedByScanConfigIds = @ \ {c}]
                      ELSE flag[g]]
        /\ repo' = [repo EXCEPT ![r].FlagIds = @ \cup {f}]
        /\ UNCHANGED <<inMemoryOnly, RepoIds, DefaultRepoId, dockerfile, image,
                       version, scanEvent, execEvent>>
        /\ captureFile(p)
    BY <1>4 DEF updateScanConfig_WithFlag
  <2> HIDE DEF r
  <2>9. flag' \in [Flags -> FlagObjects \cup {NewId, Deleted}]
    BY <2>6, <2>7, <2>8
  <2> QED  BY <2>2, <2>4, <2>5, <2>8, <2>9 DEF captureFile
<1>5. ASSUME NEW c \in ScanConfigs, NEW n \in Names \cup {NoName}, NEW f \in Flags, NEW p \in Paths,
             updateScanConfig_Fails(c, n, f, p)
      PROVE  TypeOK'
  <2> DEFINE r == scanConfig[c].ParentId
  <2>1. c \in Live(scanConfig) /\ r \in Live(repo)
    BY <1>5 DEF updateScanConfig_Fails, ParentsStored
  <2>2. r \in Repos /\ repo[r] \in RepoObjects /\ scanConfig[c] \in ScanConfigObjects
    BY <1>0, <2>1 DEF LiveAreObjects
  <2>3. Renamed(c, n) \in ScanConfigObjects
    BY <2>2 DEF Renamed, ScanConfigObjects
  <2>4. [repo[r] EXCEPT !.FlagIds = @ \cup {f}] \in RepoObjects
    BY <2>2 DEF RepoObjects
  <2>5. NewFlag(r, n, p, {}) \in FlagObjects
    BY <2>2 DEF NewFlag, FlagObjects
  <2>6. /\ scanConfig' = [scanConfig EXCEPT ![c] = Renamed(c, n)]
        /\ flag' = [flag EXCEPT ![f] = NewFlag(r, n, p, {})]
        /\ repo' = repo \/ repo' = [repo EXCEPT ![r].FlagIds = @ \cup {f}]
        /\ UNCHANGED <<inMemoryOnly, RepoIds, DefaultRepoId, dockerfile, image,
                       version, scanEvent, execEvent>>
        /\ captureFile(p)
    BY <1>5 DEF updateScanConfig_Fails
  <2> HIDE DEF r
  <2> QED  BY <2>2, <2>3, <2>4, <2>5, <2>6 DEF captureFile
<1>6. ASSUME NEW c \in ScanConfigs, NEW i \in Images, useScanConfigForImage(c, i)
      PROVE  TypeOK'
  <2>1. scanConfig[c] \in ScanConfigObjects /\ image[i] \in ImageObjects
    BY <1>0, <1>6 DEF useScanConfigForImage, LiveAreObjects
  <2>2. /\ [scanConfig[c] EXCEPT !.DockerImageIdsThatUse = @ \cup {i}] \in ScanConfigObjects
        /\ [image[i] EXCEPT !.ScanConfigsToUse = @ \cup {c}] \in ImageObjects
    BY <2>1 DEF ScanConfigObjects, ImageObjects
  <2> QED  BY <1>6, <2>2 DEF useScanConfigForImage
<1>7. ASSUME NEW c \in ScanConfigs, NEW i \in Images, stopUsingScanConfigForImage(c, i)
      PROVE  TypeOK'
  <2>1. scanConfig[c] \in ScanConfigObjects /\ image[i] \in ImageObjects
    BY <1>0, <1>7 DEF stopUsingScanConfigForImage, LiveAreObjects
  <2>2. /\ [scanConfig[c] EXCEPT !.DockerImageIdsThatUse = @ \ {i}] \in ScanConfigObjects
        /\ [image[i] EXCEPT !.ScanConfigsToUse = @ \ {c}] \in ImageObjects
    BY <2>1 DEF ScanConfigObjects, ImageObjects
  <2> QED  BY <1>7, <2>2 DEF stopUsingScanConfigForImage
<1>8. ASSUME NEW c \in ScanConfigs, NEW d \in Dockerfiles, useScanConfigForImage_NotAnImage(c, d)
      PROVE  TypeOK'
  <2>1. scanConfig[c] \in ScanConfigObjects
    BY <1>0, <1>8 DEF useScanConfigForImage_NotAnImage, LiveAreObjects
  <2>2. [scanConfig[c] EXCEPT !.DockerImageIdsThatUse = @ \cup {d}] \in ScanConfigObjects
    BY <2>1 DEF ScanConfigObjects
  <2> QED  BY <1>8, <2>2 DEF useScanConfigForImage_NotAnImage
<1>9. ASSUME NEW c \in ScanConfigs, NEW d \in Dockerfiles,
             stopUsingScanConfigForImage_NotAnImage(c, d)
      PROVE  TypeOK'
  <2>1. scanConfig[c] \in ScanConfigObjects
    BY <1>0, <1>9 DEF stopUsingScanConfigForImage_NotAnImage, LiveAreObjects
  <2>2. [scanConfig[c] EXCEPT !.DockerImageIdsThatUse = @ \ {d}] \in ScanConfigObjects
    BY <2>1 DEF ScanConfigObjects
  <2> QED  BY <1>9, <2>2 DEF stopUsingScanConfigForImage_NotAnImage
<1> QED  BY <1>1, <1>2, <1>3, <1>4, <1>5, <1>6, <1>7, <1>8, <1>9 DEF ScanConfigStep

\* Flags.
LEMMA FlagStepTypes == Structure /\ FlagStep => TypeOK'
<1> SUFFICES ASSUME Structure, FlagStep PROVE TypeOK'
  OBVIOUS
<1> USE DEF Structure, TypeOK
<1>0. LiveAreObjects
  BY LiveObjects
<1>1. ASSUME NEW f \in Flags, remFlag(f)
      PROVE  TypeOK'
  <2> DEFINE r == flag[f].ParentId
  <2>1. f \in Live(flag) /\ r \in Live(repo)
    BY <1>1 DEF remFlag, ParentsStored
  <2>2. r \in Repos /\ repo[r] \in RepoObjects
    BY <1>0, <2>1 DEF LiveAreObjects
  <2>3. [repo[r] EXCEPT !.FlagIds = @ \ {f}] \in RepoObjects
    BY <2>2 DEF RepoObjects
  <2>4. PurgeArguments({}, {}, {f}, {}, {})
    BY <2>1 DEF PurgeArguments
  <2>5. /\ Purge({}, {}, {f}, {}, {}, {})
        /\ repo' = [repo EXCEPT ![r].FlagIds = @ \ {f}]
        /\ files' \subseteq files
        /\ UNCHANGED <<inMemoryOnly, RepoIds, DefaultRepoId, dockerfile>>
    BY <1>1 DEF remFlag
  <2> HIDE DEF r
  <2> QED  BY <2>2, <2>3, <2>4, <2>5, PurgeTypes
<1>2. ASSUME NEW f \in Flags, remFlag_Aborted(f)
      PROVE  TypeOK'
  BY <1>2 DEF remFlag_Aborted
<1> QED  BY <1>1, <1>2 DEF FlagStep

\* Every step keeps the types.
LEMMA NextTypes == Structure /\ [Next]_vars => TypeOK'
<1> SUFFICES ASSUME Structure, [Next]_vars PROVE TypeOK'
  OBVIOUS
<1>1. ASSUME NEW p \in Paths, AbandonedUpload(p)
      PROVE  TypeOK'
  BY <1>1 DEF AbandonedUpload, captureFile, Structure, TypeOK
<1>2. CASE UNCHANGED vars
  BY <1>2 DEF vars, Structure, TypeOK
<1> QED  BY <1>1, <1>2, RepoStepTypes, DockerStepTypes, ScanConfigStepTypes, FlagStepTypes DEF Next

-----------------------------------------------------------------------------
(***************************************************************************)
(* The lists that repos keep of their resources, and the links between     *)
(* images and configurations, always resolve.                              *)
(*                                                                         *)
(* The four kinds of resources are each a family: their repos are stored,  *)
(* and the lists of the repos are right.  A request changes the resources  *)
(* and the list of one repo only.                                          *)
(***************************************************************************)

\* rs are the repos, f the resources and ids the lists of the repos.  With
\* complete, all resources are listed.
Family(complete, rs, f, ids) ==
    /\ \A x \in Live(f) : f[x].ParentId \in rs
    /\ \A r \in rs : \A x \in ids[r] : x \in Live(f) /\ f[x].ParentId = r
    /\ complete => \A x \in Live(f) : x \in ids[f[x].ParentId]

\* The resources f become g: none comes or goes; x comes to repo r; those in
\* gone go.
Kept(f, g) ==
    /\ Live(g) = Live(f)
    /\ \A y \in Live(f) : g[y].ParentId = f[y].ParentId
Added(f, g, x, r) ==
    /\ x \notin Live(f) /\ Live(g) = Live(f) \cup {x}
    /\ g[x].ParentId = r
    /\ \A y \in Live(f) : g[y].ParentId = f[y].ParentId
Removed(f, g, gone) ==
    /\ Live(g) = Live(f) \ gone
    /\ \A y \in Live(g) : g[y].ParentId = f[y].ParentId

\* Only the list of repo r changes, to now.
ListsFollow(rs, r, ids, ids2, now) ==
    /\ \A q \in rs \ {r} : ids2[q] = ids[q]
    /\ ids2[r] = now
    /\ r \notin rs => ids[r] = {}

\* The list of r follows the resources.
Follows(complete, r, f, g, old, now) ==
    \/ Kept(f, g) /\ now = old
    \/ \E x : Added(f, g, x, r) /\ now = old \cup {x}
    \/ ~complete /\ now = old /\ \E x : Added(f, g, x, r)
    \/ \E gone : /\ Removed(f, g, gone) /\ now = old \ gone
                 /\ \A x \in gone : f[x].ParentId = r

\* A family whose list follows its resources stays one.
LEMMA FamilyStep ==
    ASSUME NEW complete, NEW rs, NEW r, NEW f, NEW g, NEW ids, NEW ids2, NEW now,
           Family(complete, rs, f, ids), ListsFollow(rs, r, ids, ids2, now),
           Follows(complete, r, f, g, ids[r], now)
    PROVE  Family(complete, rs \cup {r}, g, ids2)
<1> USE DEF ListsFollow
<1>1. CASE Kept(f, g) /\ now = ids[r]
  BY <1>1 DEF Kept, Family
<1>2. CASE \E x : Added(f, g, x, r) /\ now = ids[r] \cup {x}
  <2>0. PICK new : Added(f, g, new, r) /\ now = ids[r] \cup {new}
    BY <1>2
  <2>1. \A y \in Live(g) : g[y].ParentId \in rs \cup {r}
    BY <2>0 DEF Added, Family
  <2>2. \A q \in rs \cup {r} : \A y \in ids2[q] : y \in Live(g) /\ g[y].ParentId = q
    BY <2>0 DEF Added, Family
  <2>3. complete => \A y \in Live(g) : y \in ids2[g[y].ParentId]
    BY <2>0 DEF Added, Family
  <2> QED  BY <2>1, <2>2, <2>3 DEF Family
<1>3. CASE ~complete /\ now = ids[r] /\ \E x : Added(f, g, x, r)
  <2>0. PICK new : Added(f, g, new, r)
    BY <1>3
  <2>1. \A y \in Live(g) : g[y].ParentId \in rs \cup {r}
    BY <1>3, <2>0 DEF Added, Family
  <2>2. \A q \in rs \cup {r} : \A y \in ids2[q] : y \in Live(g) /\ g[y].ParentId = q
    BY <1>3, <2>0 DEF Added, Family
  <2>3. complete => \A y \in Live(g) : y \in ids2[g[y].ParentId]
    BY <1>3, <2>0 DEF Added, Family
  <2> QED  BY <2>1, <2>2, <2>3 DEF Family
<1>4. CASE \E gone : /\ Removed(f, g, gone) /\ now = ids[r] \ gone
                     /\ \A x \in gone : f[x].ParentId = r
  <2>0. PICK gone : /\ Removed(f, g, gone) /\ now = ids[r] \ gone
                    /\ \A x \in gone : f[x].ParentId = r
    BY <1>4
  <2>1. \A y \in Live(g) : g[y].ParentId \in rs \cup {r}
    BY <2>0 DEF Removed, Family
  <2>2. \A q \in rs \cup {r} : \A y \in ids2[q] : y \in Live(g) /\ g[y].ParentId = q
    BY <2>0 DEF Removed, Family
  <2>3. complete => \A y \in Live(g) : y \in ids2[g[y].ParentId]
    BY <2>0 DEF Removed, Family
  <2> QED  BY <2>1, <2>2, <2>3 DEF Family
<1> QED  BY <1>1, <1>2, <1>3, <1>4, Zenon DEF Follows

\* The lists of the stored repos.
DockerfileLists  == [r \in Repos |-> IF r \in Live(repo) THEN repo[r].DockerfileIds ELSE {}]
DockerImageLists == [r \in Repos |-> IF r \in Live(repo) THEN repo[r].DockerImageIds ELSE {}]
ScanConfigLists  == [r \in Repos |-> IF r \in Live(repo) THEN repo[r].ScanConfigIds ELSE {}]
FlagLists        == [r \in Repos |-> IF r \in Live(repo) THEN repo[r].FlagIds ELSE {}]

\* All four kinds are families.
Families ==
    /\ Family(~inMemoryOnly, Live(repo), dockerfile, DockerfileLists)
    /\ Family(~inMemoryOnly, Live(repo), image, DockerImageLists)
    /\ Family(~inMemoryOnly, Live(repo), scanConfig, ScanConfigLists)
    /\ Family(~inMemoryOnly, Live(repo), flag, FlagLists)

\* Parents and lists agree.
LEMMA FamiliesAgree == TypeOK => (Families <=> ParentsStored /\ ChildrenListed)
<1> SUFFICES ASSUME TypeOK PROVE Families <=> ParentsStored /\ ChildrenListed
  OBVIOUS
<1>1. Live(repo) \subseteq Repos
  BY LiveObjects DEF LiveAreObjects
<1>2. \A r \in Live(repo) :
         /\ DockerfileLists[r] = repo[r].DockerfileIds
         /\ DockerImageLists[r] = repo[r].DockerImageIds
         /\ ScanConfigLists[r] = repo[r].ScanConfigIds
         /\ FlagLists[r] = repo[r].FlagIds
  BY <1>1 DEF DockerfileLists, DockerImageLists, ScanConfigLists, FlagLists
<1>3. Families => ParentsStored
  BY DEF Families, Family, ParentsStored
<1>4. ASSUME Families PROVE ChildrenListed
  BY <1>2, <1>4 DEF Families, Family, ChildrenListed
<1>5. ASSUME ParentsStored, ChildrenListed PROVE Families
  BY <1>2, <1>5 DEF Families, Family, ParentsStored, ChildrenListed
<1> QED  BY <1>3, <1>4, <1>5

\* The same after a step.
LEMMA FamiliesAgreeNext == TypeOK' => (Families <=> ParentsStored /\ ChildrenListed)'
BY FamiliesAgree, PTL

\* Repo r is stored after a step, and has the lists ds, is, cs, fs then.
RepoLists(r, ds, is, cs, fs) ==
    /\ Live(repo') = Live(repo) \cup {r}
    /\ ListsFollow(Live(repo), r, DockerfileLists, DockerfileLists', ds)
    /\ ListsFollow(Live(repo), r, DockerImageLists, DockerImageLists', is)
    /\ ListsFollow(Live(repo), r, ScanConfigLists, ScanConfigLists', cs)
    /\ ListsFollow(Live(repo), r, FlagLists, FlagLists', fs)

\* Repo r is written.
LEMMA RepoWritten ==
    ASSUME TypeOK, TypeOK', NEW r \in Repos, NEW robj \in RepoObjects,
           repo'[r] = robj, \A q \in Repos \ {r} : repo'[q] = repo[q]
    PROVE  RepoLists(r, robj.DockerfileIds, robj.DockerImageIds, robj.ScanConfigIds,
                     robj.FlagIds)
<1>1. /\ \A q : q \in Live(repo) <=> q \in Repos /\ repo[q] \in RepoObjects
      /\ \A q : q \in Live(repo') <=> q \in Repos /\ repo'[q] \in RepoObjects
  BY LiveObjects, LiveObjectsNext DEF LiveAreObjects
<1>2. Live(repo') = Live(repo) \cup {r}
  <2>1. \A q : q \in Live(repo') <=> q \in Live(repo) \/ q = r
    BY <1>1
  <2> QED  BY <2>1
<1>3. \A q \in Live(repo) \ {r} : q \in Repos /\ q \in Live(repo)' /\ repo'[q] = repo[q]
  BY <1>1
<1>4. r \in Live(repo)'
  BY <1>2
<1>5. ListsFollow(Live(repo), r, DockerfileLists, DockerfileLists', robj.DockerfileIds)
  <2>1. \A q \in Live(repo) \ {r} : DockerfileLists'[q] = DockerfileLists[q]
    BY <1>3 DEF DockerfileLists
  <2>2. DockerfileLists'[r] = robj.DockerfileIds
    BY <1>4 DEF DockerfileLists
  <2>3. r \notin Live(repo) => DockerfileLists[r] = {}
    BY DEF DockerfileLists
  <2> QED  BY <2>1, <2>2, <2>3 DEF ListsFollow
<1>6. ListsFollow(Live(repo), r, DockerImageLists, DockerImageLists', robj.DockerImageIds)
  <2>1. \A q \in Live(repo) \ {r} : DockerImageLists'[q] = DockerImageLists[q]
    BY <1>3 DEF DockerImageLists
  <2>2. DockerImageLists'[r] = robj.DockerImageIds
    BY <1>4 DEF DockerImageLists
  <2>3. r \notin Live(repo) => DockerImageLists[r] = {}
    BY DEF DockerImageLists
  <2> QED  BY <2>1, <2>2, <2>3 DEF ListsFollow
<1>7. ListsFollow(Live(repo), r, ScanConfigLists, ScanConfigLists', robj.ScanConfigIds)
  <2>1. \A q \in Live(repo) \ {r} : ScanConfigLists'[q] = ScanConfigLists[q]
    BY <1>3 DEF ScanConfigLists
  <2>2. ScanConfigLists'[r] = robj.ScanConfigIds
    BY <1>4 DEF ScanConfigLists
  <2>3. r \notin Live(repo) => ScanConfigLists[r] = {}
    BY DEF ScanConfigLists
  <2> QED  BY <2>1, <2>2, <2>3 DEF ListsFollow
<1>8. ListsFollow(Live(repo), r, FlagLists, FlagLists', robj.FlagIds)
  <2>1. \A q \in Live(repo) \ {r} : FlagLists'[q] = FlagLists[q]
    BY <1>3 DEF FlagLists
  <2>2. FlagLists'[r] = robj.FlagIds
    BY <1>4 DEF FlagLists
  <2>3. r \notin Live(repo) => FlagLists[r] = {}
    BY DEF FlagLists
  <2> QED  BY <2>1, <2>2, <2>3 DEF ListsFollow
<1> QED  BY <1>2, <1>5, <1>6, <1>7, <1>8 DEF RepoLists

\* The same for the assignment that handlers make.
LEMMA RepoStored ==
    ASSUME TypeOK, TypeOK', NEW r \in Repos, NEW robj \in RepoObjects,
           repo' = [repo EXCEPT ![r] = robj]
    PROVE  RepoLists(r, robj.DockerfileIds, robj.DockerImageIds, robj.ScanConfigIds,
                     robj.FlagIds)
<1>1. repo'[r] = robj /\ \A q \in Repos \ {r} : repo'[q] = repo[q]
  BY DEF TypeOK
<1> QED  BY <1>1, RepoWritten

\* Repos are not written.
LEMMA RepoUnchanged ==
    ASSUME TypeOK, NEW r \in Live(repo), UNCHANGED repo
    PROVE  RepoLists(r, repo[r].DockerfileIds, repo[r].DockerImageIds, repo[r].ScanConfigIds,
                     repo[r].FlagIds)
<1>1. Live(repo) \subseteq Repos
  BY LiveObjects DEF LiveAreObjects
<1> QED  BY <1>1 DEF RepoLists, ListsFollow, DockerfileLists, DockerImageLists,
                     ScanConfigLists, FlagLists

\* The lists of a repo before a step.
LEMMA ListsOf ==
    ASSUME TypeOK, NEW r \in Live(repo)
    PROVE  /\ DockerfileLists[r] = repo[r].DockerfileIds
           /\ DockerImageLists[r] = repo[r].DockerImageIds
           /\ ScanConfigLists[r] = repo[r].ScanConfigIds
           /\ FlagLists[r] = repo[r].FlagIds
BY LiveObjects DEF LiveAreObjects, DockerfileLists, DockerImageLists, ScanConfigLists, FlagLists

\* A step writes resources of one repo only.
LEMMA FamiliesFollow ==
    ASSUME Families, UNCHANGED inMemoryOnly, NEW r, NEW ds, NEW is, NEW cs, NEW fs,
           RepoLists(r, ds, is, cs, fs),
           Follows(~inMemoryOnly, r, dockerfile, dockerfile', DockerfileLists[r], ds),
           Follows(~inMemoryOnly, r, image, image', DockerImageLists[r], is),
           Follows(~inMemoryOnly, r, scanConfig, scanConfig', ScanConfigLists[r], cs),
           Follows(~inMemoryOnly, r, flag, flag', FlagLists[r], fs)
    PROVE  Families'
<1>1. Live(repo)' = Live(repo) \cup {r}
  BY DEF RepoLists
<1>2. Family(~inMemoryOnly, Live(repo) \cup {r}, dockerfile', DockerfileLists')
  BY FamilyStep DEF Families, RepoLists
<1>3. Family(~inMemoryOnly, Live(repo) \cup {r}, image', DockerImageLists')
  BY FamilyStep DEF Families, RepoLists
<1>4. Family(~inMemoryOnly, Live(repo) \cup {r}, scanConfig', ScanConfigLists')
  BY FamilyStep DEF Families, RepoLists
<1>5. Family(~inMemoryOnly, Live(repo) \cup {r}, flag', FlagLists')
  BY FamilyStep DEF Families, RepoLists
<1> QED  BY <1>1, <1>2, <1>3, <1>4, <1>5 DEF Families

\* A step writes no repo, and resources stay where they are.
LEMMA FamiliesKept ==
    ASSUME Families, UNCHANGED <<inMemoryOnly, repo>>, Kept(dockerfile, dockerfile'),
           Kept(image, image'), Kept(scanConfig, scanConfig'), Kept(flag, flag')
    PROVE  Families'
<1>1. /\ DockerfileLists' = DockerfileLists /\ DockerImageLists' = DockerImageLists
      /\ ScanConfigLists' = ScanConfigLists /\ FlagLists' = FlagLists
      /\ Live(repo)' = Live(repo)
  BY DEF DockerfileLists, DockerImageLists, ScanConfigLists, FlagLists
<1>2. Family(~inMemoryOnly, Live(repo), dockerfile', DockerfileLists)
  BY DEF Families, Family, Kept
<1>3. Family(~inMemoryOnly, Live(repo), image', DockerImageLists)
  BY DEF Families, Family, Kept
<1>4. Family(~inMemoryOnly, Live(repo), scanConfig', ScanConfigLists)
  BY DEF Families, Family, Kept
<1>5. Family(~inMemoryOnly, Live(repo), flag', FlagLists)
  BY DEF Families, Family, Kept
<1> QED  BY <1>1, <1>2, <1>3, <1>4, <1>5 DEF Families

-----------------------------------------------------------------------------
(***************************************************************************)
(* Objects that are written.                                               *)
(***************************************************************************)

\* A dockerfile gets an id that was free, or is written again.
LEMMA DockerfileAdded ==
    ASSUME TypeOK, TypeOK', NEW d \in Dockerfiles, dockerfile[d] = NewId, NEW obj \in DockerfileObjects,
           dockerfile'[d] = obj, \A y \in Dockerfiles \ {d} : dockerfile'[y] = dockerfile[y]
    PROVE  Added(dockerfile, dockerfile', d, obj.ParentId)
<1>1. /\ \A y : y \in Live(dockerfile) <=> y \in Dockerfiles /\ dockerfile[y] \in DockerfileObjects
      /\ \A y : y \in Live(dockerfile') <=> y \in Dockerfiles /\ dockerfile'[y] \in DockerfileObjects
  BY LiveObjects, LiveObjectsNext DEF LiveAreObjects
<1>2. d \notin Live(dockerfile)
  BY DEF Live
<1> QED  BY <1>1, <1>2 DEF Added

\* It stays in its repo when written.
LEMMA DockerfileWritten ==
    ASSUME TypeOK, TypeOK', NEW d \in Live(dockerfile), NEW obj \in DockerfileObjects,
           dockerfile'[d] = obj, \A y \in Dockerfiles \ {d} : dockerfile'[y] = dockerfile[y],
           obj.ParentId = dockerfile[d].ParentId
    PROVE  Kept(dockerfile, dockerfile')
<1>1. /\ \A y : y \in Live(dockerfile) <=> y \in Dockerfiles /\ dockerfile[y] \in DockerfileObjects
      /\ \A y : y \in Live(dockerfile') <=> y \in Dockerfiles /\ dockerfile'[y] \in DockerfileObjects
  BY LiveObjects, LiveObjectsNext DEF LiveAreObjects
<1> QED  BY <1>1 DEF Kept

\* The same for an image,
LEMMA ImageAdded ==
    ASSUME TypeOK, TypeOK', NEW i \in Images, image[i] = NewId, NEW obj \in ImageObjects,
           image'[i] = obj, \A y \in Images \ {i} : image'[y] = image[y]
    PROVE  Added(image, image', i, obj.ParentId)
<1>1. /\ \A y : y \in Live(image) <=> y \in Images /\ image[y] \in ImageObjects
      /\ \A y : y \in Live(image') <=> y \in Images /\ image'[y] \in ImageObjects
  BY LiveObjects, LiveObjectsNext DEF LiveAreObjects
<1>2. i \notin Live(image)
  BY DEF Live
<1> QED  BY <1>1, <1>2 DEF Added

\* It stays in its repo when written.
LEMMA ImageWritten ==
    ASSUME TypeOK, TypeOK', NEW i \in Live(image), NEW obj \in ImageObjects,
           image'[i] = obj, \A y \in Images \ {i} : image'[y] = image[y],
           obj.ParentId = image[i].ParentId
    PROVE  Kept(image, image')
<1>1. /\ \A y : y \in Live(image) <=> y \in Images /\ image[y] \in ImageObjects
      /\ \A y : y \in Live(image') <=> y \in Images /\ image'[y] \in ImageObjects
  BY LiveObjects, LiveObjectsNext DEF LiveAreObjects
<1> QED  BY <1>1 DEF Kept

\* for a configuration,
LEMMA ScanConfigAdded ==
    ASSUME TypeOK, TypeOK', NEW c \in ScanConfigs, scanConfig[c] = NewId, NEW obj \in ScanConfigObjects,
           scanConfig'[c] = obj, \A y \in ScanConfigs \ {c} : scanConfig'[y] = scanConfig[y]
    PROVE  Added(scanConfig, scanConfig', c, obj.ParentId)
<1>1. /\ \A y : y \in Live(scanConfig) <=> y \in ScanConfigs /\ scanConfig[y] \in ScanConfigObjects
      /\ \A y : y \in Live(scanConfig') <=> y \in ScanConfigs /\ scanConfig'[y] \in ScanConfigObjects
  BY LiveObjects, LiveObjectsNext DEF LiveAreObjects
<1>2. c \notin Live(scanConfig)
  BY DEF Live
<1> QED  BY <1>1, <1>2 DEF Added

\* It stays in its repo when written.
LEMMA ScanConfigWritten ==
    ASSUME TypeOK, TypeOK', NEW c \in Live(scanConfig), NEW obj \in ScanConfigObjects,
           scanConfig'[c] = obj, \A y \in ScanConfigs \ {c} : scanConfig'[y] = scanConfig[y],
           obj.ParentId = scanConfig[c].ParentId
    PROVE  Kept(scanConfig, scanConfig')
<1>1. /\ \A y : y \in Live(scanConfig) <=> y \in ScanConfigs /\ scanConfig[y] \in ScanConfigObjects
      /\ \A y : y \in Live(scanConfig') <=> y \in ScanConfigs /\ scanConfig'[y] \in ScanConfigObjects
  BY LiveObjects, LiveObjectsNext DEF LiveAreObjects
<1> QED  BY <1>1 DEF Kept

\* and for a flag.
LEMMA FlagAdded ==
    ASSUME TypeOK, TypeOK', NEW f \in Flags, flag[f] = NewId, NEW obj \in FlagObjects,
           flag'[f] = obj, \A y \in Flags \ {f} : flag'[y] = flag[y]
    PROVE  Added(flag, flag', f, obj.ParentId)
<1>1. /\ \A y : y \in Live(flag) <=> y \in Flags /\ flag[y] \in FlagObjects
      /\ \A y : y \in Live(flag') <=> y \in Flags /\ flag'[y] \in FlagObjects
  BY LiveObjects, LiveObjectsNext DEF LiveAreObjects
<1>2. f \notin Live(flag)
  BY DEF Live
<1> QED  BY <1>1, <1>2 DEF Added

\* It stays in its repo when written.
LEMMA FlagWritten ==
    ASSUME TypeOK, TypeOK', NEW f \in Live(flag), NEW obj \in FlagObjects,
           flag'[f] = obj, \A y \in Flags \ {f} : flag'[y] = flag[y],
           obj.ParentId = flag[f].ParentId
    PROVE  Kept(flag, flag')
<1>1. /\ \A y : y \in Live(flag) <=> y \in Flags /\ flag[y] \in FlagObjects
      /\ \A y : y \in Live(flag') <=> y \in Flags /\ flag'[y] \in FlagObjects
  BY LiveObjects, LiveObjectsNext DEF LiveAreObjects
<1> QED  BY <1>1 DEF Kept

\* The repo that a handler works in has the lists that were stored.
LEMMA BaseLists ==
    ASSUME TypeOK, NEW r \in Repos, NEW via
    PROVE  /\ Base(via, r) \in RepoObjects
           /\ Base(via, r).DockerfileIds = DockerfileLists[r]
           /\ Base(via, r).DockerImageIds = DockerImageLists[r]
           /\ Base(via, r).ScanConfigIds = ScanConfigLists[r]
           /\ Base(via, r).FlagIds = FlagLists[r]
BY BaseRepo DEF DockerfileLists, DockerImageLists, ScanConfigLists, FlagLists

\* Resources that are not written are kept.
LEMMA UnchangedKept ==
    ASSUME NEW f, NEW g, g = f
    PROVE  Kept(f, g)
BY DEF Kept

\* A list follows resources that are kept:
LEMMA FollowsKept ==
    ASSUME NEW complete, NEW r, NEW f, NEW g, NEW old, Kept(f, g)
    PROVE  Follows(complete, r, f, g, old, old)
BY DEF Follows

\* Nothing changes,
LEMMA FollowsSame ==
    ASSUME NEW complete, NEW r, NEW f, NEW old
    PROVE  Follows(complete, r, f, f, old, old)
BY UnchangedKept, FollowsKept

\* a resource is added, listed or not,
LEMMA FollowsAdded ==
    ASSUME NEW complete, NEW r, NEW f, NEW g, NEW old, NEW new, Added(f, g, new, r)
    PROVE  /\ Follows(complete, r, f, g, old, old \cup {new})
           /\ ~complete => Follows(complete, r, f, g, old, old)
<1>1. \E x : Added(f, g, x, r) /\ old \cup {new} = old \cup {x}
  OBVIOUS
<1>2. Follows(complete, r, f, g, old, old \cup {new})
  BY <1>1 DEF Follows
<1>3. ASSUME ~complete PROVE Follows(complete, r, f, g, old, old)
  BY <1>3 DEF Follows
<1> QED  BY <1>2, <1>3

\* or resources are removed.
LEMMA FollowsRemoved ==
    ASSUME NEW complete, NEW r, NEW f, NEW g, NEW old, NEW gone, Removed(f, g, gone),
           \A x \in gone : f[x].ParentId = r
    PROVE  Follows(complete, r, f, g, old, old \ gone)
BY DEF Follows

-----------------------------------------------------------------------------
(***************************************************************************)
(* Links between configurations and images.                                *)
(***************************************************************************)

\* Objects stay stored, and only new ids come to be known and live.
Grows(f, g) ==
    /\ Live(f) \subseteq Live(g) /\ Known(f) \subseteq Known(g)
    /\ Live(g) \cap Known(f) \subseteq Live(f)

\* Links stay as they are; what is new has none.
LinksSame ==
    /\ Grows(scanConfig, scanConfig') /\ Grows(image, image')
    /\ \A c \in Live(scanConfig') :
         scanConfig'[c].DockerImageIdsThatUse =
           IF c \in Live(scanConfig) THEN scanConfig[c].DockerImageIdsThatUse ELSE {}
    /\ \A i \in Live(image') :
         image'[i].ScanConfigsToUse =
           IF i \in Live(image) THEN image[i].ScanConfigsToUse ELSE {}

\* What is stored is known, and what is new is not.
LEMMA KnownIds ==
    ASSUME TypeOK
    PROVE  /\ Live(scanConfig) \subseteq Known(scanConfig) /\ Live(image) \subseteq Known(image)
           /\ \A c : c \in Known(scanConfig) <=> c \in ScanConfigs /\ scanConfig[c] # NewId
           /\ \A i : i \in Known(image) <=> i \in Images /\ image[i] # NewId
BY DEF TypeOK, Known, Live

\* The same after a step.
LEMMA KnownIdsNext ==
    TypeOK' => /\ \A c : c \in Known(scanConfig') <=> c \in ScanConfigs /\ scanConfig'[c] # NewId
               /\ \A i : i \in Known(image') <=> i \in Images /\ image'[i] # NewId
BY DEF TypeOK, Known

\* Nor is an object new.
LEMMA ObjectsAreNotNew ==
    NewId \notin ScanConfigObjects /\ NewId \notin ImageObjects
BY RepoConstants, Zenon DEF Objects

\* Then they go on agreeing.
LEMMA LinksKept ==
    ASSUME TypeOK, TypeOK', LinksHold, LinksSame
    PROVE  LinksHold'
<1>1. /\ Live(image) \subseteq Images /\ Live(scanConfig) \subseteq ScanConfigs
      /\ Live(image') \subseteq Images /\ Live(scanConfig') \subseteq ScanConfigs
  BY LiveObjects, LiveObjectsNext DEF LiveAreObjects
<1>2. ASSUME NEW c \in Live(scanConfig'), NEW i \in Live(image')
      PROVE  i \in scanConfig'[c].DockerImageIdsThatUse <=> c \in image'[i].ScanConfigsToUse
  <2>1. CASE c \in Live(scanConfig) /\ i \in Live(image)
    BY <1>2, <2>1 DEF LinksSame, LinksHold, ScanLinksAgree
  <2>2. CASE c \notin Live(scanConfig)
    BY <1>2, <2>2 DEF LinksSame, LinksHold, Grows
  <2>3. CASE c \in Live(scanConfig) /\ i \notin Live(image)
    BY <1>1, <1>2, <2>3 DEF LinksSame, LinksHold, Grows
  <2> QED  BY <2>1, <2>2, <2>3
<1>3. ASSUME NEW c \in Live(scanConfig')
      PROVE  scanConfig'[c].DockerImageIdsThatUse \cap Images \subseteq Known(image')
  BY <1>3 DEF LinksSame, LinksHold, Grows
<1>4. ASSUME NEW i \in Live(image')
      PROVE  image'[i].ScanConfigsToUse \subseteq Known(scanConfig')
  BY <1>4 DEF LinksSame, LinksHold, Grows
<1> QED  BY <1>2, <1>3, <1>4 DEF LinksHold, ScanLinksAgree

\* Configurations that come, or are written again, let their ids grow.
LEMMA ScanConfigsGrow ==
    ASSUME TypeOK, TypeOK', NEW c \in ScanConfigs, scanConfig[c] = NewId \/ c \in Live(scanConfig),
           scanConfig'[c] \in ScanConfigObjects,
           \A y \in ScanConfigs \ {c} : scanConfig'[y] = scanConfig[y]
    PROVE  Grows(scanConfig, scanConfig')
<1>1. LiveAreObjects /\ LiveAreObjects'
  BY LiveObjects, LiveObjectsNext
<1>2. Live(scanConfig) \subseteq Live(scanConfig')
  BY <1>1 DEF LiveAreObjects
<1>3. Known(scanConfig) \subseteq Known(scanConfig')
  BY KnownIds, KnownIdsNext, ObjectsAreNotNew
<1>4. Live(scanConfig') \cap Known(scanConfig) \subseteq Live(scanConfig)
  BY <1>1, KnownIds DEF LiveAreObjects
<1> QED  BY <1>2, <1>3, <1>4 DEF Grows

\* So do images.
LEMMA ImagesGrow ==
    ASSUME TypeOK, TypeOK', NEW i \in Images, image[i] = NewId \/ i \in Live(image),
           image'[i] \in ImageObjects, \A y \in Images \ {i} : image'[y] = image[y]
    PROVE  Grows(image, image')
<1>1. LiveAreObjects /\ LiveAreObjects'
  BY LiveObjects, LiveObjectsNext
<1>2. Live(image) \subseteq Live(image')
  BY <1>1 DEF LiveAreObjects
<1>3. Known(image) \subseteq Known(image')
  BY KnownIds, KnownIdsNext, ObjectsAreNotNew
<1>4. Live(image') \cap Known(image) \subseteq Live(image)
  BY <1>1, KnownIds DEF LiveAreObjects
<1> QED  BY <1>2, <1>3, <1>4 DEF Grows

\* A new configuration has no links,
LEMMA LinksWithNew ==
    ASSUME TypeOK, TypeOK', NEW c \in ScanConfigs, scanConfig[c] = NewId,
           scanConfig'[c].DockerImageIdsThatUse = {}, scanConfig'[c] \in ScanConfigObjects,
           \A y \in ScanConfigs \ {c} : scanConfig'[y] = scanConfig[y], UNCHANGED image
    PROVE  LinksSame
<1>1. LiveAreObjects /\ LiveAreObjects'
  BY LiveObjects, LiveObjectsNext
<1>2. c \notin Live(scanConfig)
  BY DEF Live
<1>3. Grows(scanConfig, scanConfig') /\ Grows(image, image')
  BY ScanConfigsGrow DEF Grows
<1>4. ASSUME NEW y \in Live(scanConfig')
      PROVE  scanConfig'[y].DockerImageIdsThatUse =
               IF y \in Live(scanConfig) THEN scanConfig[y].DockerImageIdsThatUse ELSE {}
  BY <1>1, <1>2, <1>4 DEF LiveAreObjects
<1> QED  BY <1>3, <1>4 DEF LinksSame

\* and one that is written again keeps them.
LEMMA LinksRewritten ==
    ASSUME TypeOK, TypeOK', NEW c \in Live(scanConfig), scanConfig'[c] \in ScanConfigObjects,
           scanConfig'[c].DockerImageIdsThatUse = scanConfig[c].DockerImageIdsThatUse,
           \A y \in ScanConfigs \ {c} : scanConfig'[y] = scanConfig[y], UNCHANGED image
    PROVE  LinksSame
<1>1. LiveAreObjects /\ LiveAreObjects'
  BY LiveObjects, LiveObjectsNext
<1>2. Grows(scanConfig, scanConfig') /\ Grows(image, image')
  BY <1>1, ScanConfigsGrow DEF Grows, LiveAreObjects
<1>3. ASSUME NEW y \in Live(scanConfig')
      PROVE  scanConfig'[y].DockerImageIdsThatUse =
               IF y \in Live(scanConfig) THEN scanConfig[y].DockerImageIdsThatUse ELSE {}
  BY <1>1, <1>3 DEF LiveAreObjects
<1> QED  BY <1>2, <1>3 DEF LinksSame

\* A delete takes links out on both sides.
LEMMA LinksPurged ==
    ASSUME TypeOK, LinksHold, NEW cs, NEW fs, NEW is, NEW vs, NEW links,
           PurgeEffects(cs, fs, is, vs, links)
    PROVE  LinksHold'
<1>1. /\ Live(scanConfig') \subseteq Live(scanConfig) /\ Live(image') \subseteq Live(image)
      /\ Live(scanConfig) \subseteq ScanConfigs /\ Live(image) \subseteq Images
  BY LiveObjects DEF LiveAreObjects, PurgeEffects
<1>2. ASSUME NEW c \in Live(scanConfig'), NEW i \in Live(image')
      PROVE  i \in scanConfig'[c].DockerImageIdsThatUse <=> c \in image'[i].ScanConfigsToUse
  BY <1>1, <1>2 DEF PurgeEffects, LinksHold, ScanLinksAgree
<1>3. ASSUME NEW c \in Live(scanConfig')
      PROVE  scanConfig'[c].DockerImageIdsThatUse \cap Images \subseteq Known(image')
  BY <1>1, <1>3 DEF PurgeEffects, LinksHold
<1>4. ASSUME NEW i \in Live(image')
      PROVE  image'[i].ScanConfigsToUse \subseteq Known(scanConfig')
  BY <1>1, <1>4 DEF PurgeEffects, LinksHold
<1> QED  BY <1>2, <1>3, <1>4 DEF LinksHold, ScanLinksAgree

-----------------------------------------------------------------------------
(***************************************************************************)
(* The steps, one by one.                                                  *)
(***************************************************************************)

\* What the steps are shown to keep, next to the types.
Links == Families /\ LinksHold

\* The image that gets a version is listed, or comes to the repo.
LEMMA BuildLinks ==
    ASSUME TypeOK, TypeOK', Families, NEW d \in Dockerfiles, NEW obj, NEW r \in Repos,
           NEW robj \in RepoObjects, robj.DockerImageIds = DockerImageLists[r],
           NEW n \in Names, NEW i \in Images, NEW v \in Versions,
           buildDockerfile(d, obj, r, robj, n, i, v)
    PROVE  /\ RepoLists(r, robj.DockerfileIds, DockerImageLists[r] \cup {i},
                        robj.ScanConfigIds, robj.FlagIds)
           /\ Follows(~inMemoryOnly, r, image, image', DockerImageLists[r],
                      DockerImageLists[r] \cup {i})
           /\ Grows(image, image')
           /\ \A j \in Live(image') :
                image'[j].ScanConfigsToUse =
                  IF j \in Live(image) THEN image[j].ScanConfigsToUse ELSE {}
<1> DEFINE iobj == IF image[i] = NewId THEN NewDockerImage(r, n) ELSE image[i]
           inew == [iobj EXCEPT !.VersionIds = @ \cup {v}]
           rnew == [robj EXCEPT !.DockerImageIds = @ \cup {i}]
<1>0. LiveAreObjects /\ LiveAreObjects'
  BY LiveObjects, LiveObjectsNext
<1>1. /\ i \in DockerImageLists[r] \/ image[i] = NewId
      /\ image' = [image EXCEPT ![i] = inew]
      /\ repo' = [repo EXCEPT ![r] = rnew]
  BY DEF buildDockerfile
<1>2. /\ rnew \in RepoObjects /\ rnew.DockerfileIds = robj.DockerfileIds
      /\ rnew.DockerImageIds = DockerImageLists[r] \cup {i}
      /\ rnew.ScanConfigIds = robj.ScanConfigIds /\ rnew.FlagIds = robj.FlagIds
  BY DEF RepoObjects
<1>3. CASE image[i] = NewId
  <2>1. NewDockerImage(r, n) \in ImageObjects
    BY DEF NewDockerImage, ImageObjects
  <2>2. iobj \in ImageObjects /\ iobj.ParentId = r /\ iobj.ScanConfigsToUse = {}
    BY <1>3, <2>1 DEF NewDockerImage
  <2> HIDE DEF iobj
  <2>3. inew \in ImageObjects /\ inew.ParentId = r /\ inew.ScanConfigsToUse = {}
    BY <2>2 DEF ImageObjects
  <2> HIDE DEF inew, rnew
  <2>4. image'[i] = inew /\ \A y \in Images \ {i} : image'[y] = image[y]
    BY <1>1 DEF TypeOK
  <2>5. Added(image, image', i, r)
    BY <1>3, <2>3, <2>4, ImageAdded
  <2>6. RepoLists(r, robj.DockerfileIds, DockerImageLists[r] \cup {i},
                  robj.ScanConfigIds, robj.FlagIds)
    BY <1>1, <1>2, RepoStored
  <2>7. Follows(~inMemoryOnly, r, image, image', DockerImageLists[r],
                DockerImageLists[r] \cup {i})
    BY <2>5, FollowsAdded
  <2>8. \A j \in Live(image') :
          image'[j].ScanConfigsToUse =
            IF j \in Live(image) THEN image[j].ScanConfigsToUse ELSE {}
    BY <1>0, <2>3, <2>4, <2>5 DEF Added, LiveAreObjects
  <2>9. Grows(image, image')
    BY <1>3, <2>3, <2>4, ImagesGrow
  <2> QED  BY <2>6, <2>7, <2>8, <2>9
<1>4. CASE i \in DockerImageLists[r] /\ image[i] # NewId
  <2>1. r \in Live(repo)
    BY <1>4 DEF DockerImageLists
  <2>2. i \in Live(image) /\ image[i] \in ImageObjects /\ image[i].ParentId = r
    BY <1>0, <1>4, <2>1 DEF Families, Family, LiveAreObjects
  <2>3. iobj = image[i]
    BY <1>4
  <2> HIDE DEF iobj
  <2>4. /\ inew \in ImageObjects /\ inew.ParentId = image[i].ParentId
        /\ inew.ScanConfigsToUse = image[i].ScanConfigsToUse
    BY <2>2, <2>3 DEF ImageObjects
  <2> HIDE DEF inew, rnew
  <2>5. image'[i] = inew /\ \A y \in Images \ {i} : image'[y] = image[y]
    BY <1>1 DEF TypeOK
  <2>6. Kept(image, image')
    BY <2>2, <2>4, <2>5, ImageWritten
  <2>7. RepoLists(r, robj.DockerfileIds, DockerImageLists[r] \cup {i},
                  robj.ScanConfigIds, robj.FlagIds)
    BY <1>1, <1>2, RepoStored
  <2>8. DockerImageLists[r] \cup {i} = DockerImageLists[r]
    BY <1>4
  <2>9. Follows(~inMemoryOnly, r, image, image', DockerImageLists[r],
                DockerImageLists[r] \cup {i})
    BY <2>6, <2>8, FollowsKept
  <2>10. \A j \in Live(image) : image'[j].ScanConfigsToUse = image[j].ScanConfigsToUse
    BY <1>0, <2>4, <2>5 DEF LiveAreObjects
  <2>11. Grows(image, image')
    BY <2>2, <2>4, <2>5, ImagesGrow
  <2> QED  BY <2>6, <2>7, <2>9, <2>10, <2>11 DEF Kept
<1> QED  BY <1>1, <1>3, <1>4

\* Repos, and what is defined or added in them.
LEMMA RepoStepLinks == Structure /\ TypeOK' /\ RepoStep => Links'
<1> SUFFICES ASSUME Structure, TypeOK', RepoStep PROVE Links'
  OBVIOUS
<1>0. /\ TypeOK /\ LinksHold /\ Families /\ LiveAreObjects
      /\ ChildrenListed
  BY FamiliesAgree, LiveObjects DEF Structure
<1> USE DEF Links
<1>1. ASSUME NEW r \in Repos, createRepo(r)
      PROVE  Links'
  <2>1. EmptyRepo \in RepoObjects
    BY DEF EmptyRepo, RepoObjects
  <2>2. r \notin Live(repo)
    BY <1>1 DEF createRepo, Live
  <2>3. RepoLists(r, {}, {}, {}, {})
    BY <1>0, <1>1, <2>1, RepoStored DEF createRepo, EmptyRepo
  <2>4. /\ DockerfileLists[r] = {} /\ DockerImageLists[r] = {}
        /\ ScanConfigLists[r] = {} /\ FlagLists[r] = {}
    BY <2>2 DEF DockerfileLists, DockerImageLists, ScanConfigLists, FlagLists
  <2>5. UNCHANGED <<inMemoryOnly, dockerfile, image, scanConfig, flag>>
    BY <1>1 DEF createRepo
  <2>6. Families'
    <3>1. Follows(~inMemoryOnly, r, dockerfile, dockerfile', DockerfileLists[r], {})
      BY <1>0, <2>3, <2>4, <2>5, FollowsSame, FollowsAdded
    <3>2. Follows(~inMemoryOnly, r, image, image', DockerImageLists[r], {})
      BY <1>0, <2>3, <2>4, <2>5, FollowsSame, FollowsAdded
    <3>3. Follows(~inMemoryOnly, r, scanConfig, scanConfig', ScanConfigLists[r], {})
      BY <1>0, <2>3, <2>4, <2>5, FollowsSame, FollowsAdded
    <3>4. Follows(~inMemoryOnly, r, flag, flag', FlagLists[r], {})
      BY <1>0, <2>3, <2>4, <2>5, FollowsSame, FollowsAdded
    <3> QED  BY <1>0, <2>3, <2>4, <2>5, <3>1, <3>2, <3>3, <3>4, FamiliesFollow
  <2> QED  BY <1>0, <2>5, <2>6, LinksKept DEF LinksSame, Grows
<1>2. ASSUME NEW r \in Repos, NEW d \in Dockerfiles, NEW n \in Names, NEW p \in Paths,
             NEW via \in Vias, addDockerfile(via, r, d, n, p)
      PROVE  Links'
  <2> DEFINE robj == [Base(via, r) EXCEPT !.DockerfileIds = @ \cup {d}]
  <2>1. /\ robj \in RepoObjects /\ robj.DockerfileIds = DockerfileLists[r] \cup {d}
        /\ robj.DockerImageIds = DockerImageLists[r]
        /\ robj.ScanConfigIds = ScanConfigLists[r] /\ robj.FlagIds = FlagLists[r]
    BY <1>0, BaseLists DEF RepoObjects
  <2>2. /\ repo' = [repo EXCEPT ![r] = robj]
        /\ UNCHANGED <<inMemoryOnly, image, scanConfig, flag>>
        /\ dockerfile[d] = NewId
        /\ dockerfile' = [dockerfile EXCEPT ![d] = NewDockerfile(r, n, p)]
    BY <1>2 DEF addDockerfile
  <2> HIDE DEF robj
  <2>3. RepoLists(r, DockerfileLists[r] \cup {d}, DockerImageLists[r], ScanConfigLists[r],
                  FlagLists[r])
    BY <1>0, <2>1, <2>2, RepoStored
  <2>4. Added(dockerfile, dockerfile', d, r)
    <3>1. NewDockerfile(r, n, p) \in DockerfileObjects /\ NewDockerfile(r, n, p).ParentId = r
      BY DEF NewDockerfile, DockerfileObjects
    <3>2. /\ dockerfile'[d] = NewDockerfile(r, n, p)
          /\ \A y \in Dockerfiles \ {d} : dockerfile'[y] = dockerfile[y]
      BY <1>0, <2>2 DEF TypeOK
    <3> QED  BY <1>0, <2>2, <3>1, <3>2, DockerfileAdded
  <2>5. Families'
    <3>1. Follows(~inMemoryOnly, r, dockerfile, dockerfile', DockerfileLists[r], DockerfileLists[r] \cup {d})
      BY <1>0, <2>2, <2>3, <2>4, FollowsSame, FollowsAdded
    <3>2. Follows(~inMemoryOnly, r, image, image', DockerImageLists[r], DockerImageLists[r])
      BY <1>0, <2>2, <2>3, <2>4, FollowsSame, FollowsAdded
    <3>3. Follows(~inMemoryOnly, r, scanConfig, scanConfig', ScanConfigLists[r], ScanConfigLists[r])
      BY <1>0, <2>2, <2>3, <2>4, FollowsSame, FollowsAdded
    <3>4. Follows(~inMemoryOnly, r, flag, flag', FlagLists[r], FlagLists[r])
      BY <1>0, <2>2, <2>3, <2>4, FollowsSame, FollowsAdded
    <3> QED  BY <1>0, <2>2, <2>3, <2>4, <3>1, <3>2, <3>3, <3>4, FamiliesFollow
  <2> QED  BY <1>0, <2>2, <2>5, LinksKept DEF LinksSame, Grows
<1>3. ASSUME NEW r \in Repos, NEW d \in Dockerfiles, NEW n \in Names, NEW p \in Paths,
             addDockerfile_NameTaken(r, d, n, p)
      PROVE  Links'
  <2>1. /\ r \in Live(repo) /\ inMemoryOnly
        /\ UNCHANGED <<inMemoryOnly, repo, image, scanConfig, flag>>
        /\ dockerfile[d] = NewId
        /\ dockerfile' = [dockerfile EXCEPT ![d] = NewDockerfile(r, n, p)]
    BY <1>3 DEF addDockerfile_NameTaken
  <2>2. RepoLists(r, DockerfileLists[r], DockerImageLists[r], ScanConfigLists[r], FlagLists[r])
    BY <1>0, <2>1, RepoUnchanged, ListsOf
  <2>3. Added(dockerfile, dockerfile', d, r)
    <3>1. NewDockerfile(r, n, p) \in DockerfileObjects /\ NewDockerfile(r, n, p).ParentId = r
      BY DEF NewDockerfile, DockerfileObjects
    <3>2. /\ dockerfile'[d] = NewDockerfile(r, n, p)
          /\ \A y \in Dockerfiles \ {d} : dockerfile'[y] = dockerfile[y]
      BY <1>0, <2>1 DEF TypeOK
    <3> QED  BY <1>0, <2>1, <3>1, <3>2, DockerfileAdded
  <2>4. Families'
    <3>1. Follows(~inMemoryOnly, r, dockerfile, dockerfile', DockerfileLists[r], DockerfileLists[r])
      BY <1>0, <2>1, <2>2, <2>3, FollowsSame, FollowsAdded
    <3>2. Follows(~inMemoryOnly, r, image, image', DockerImageLists[r], DockerImageLists[r])
      BY <1>0, <2>1, <2>2, <2>3, FollowsSame, FollowsAdded
    <3>3. Follows(~inMemoryOnly, r, scanConfig, scanConfig', ScanConfigLists[r], ScanConfigLists[r])
      BY <1>0, <2>1, <2>2, <2>3, FollowsSame, FollowsAdded
    <3>4. Follows(~inMemoryOnly, r, flag, flag', FlagLists[r], FlagLists[r])
      BY <1>0, <2>1, <2>2, <2>3, FollowsSame, FollowsAdded
    <3> QED  BY <1>0, <2>1, <2>2, <2>3, <3>1, <3>2, <3>3, <3>4, FamiliesFollow
  <2> QED  BY <1>0, <2>1, <2>4, LinksKept DEF LinksSame, Grows
<1>5. ASSUME NEW r \in Repos, NEW c \in ScanConfigs, NEW n \in Names, NEW via \in Vias,
             defineScanConfig(via, r, c, n)
      PROVE  Links'
  <2> DEFINE robj == [Base(via, r) EXCEPT !.ScanConfigIds = @ \cup {c}]
             cobj == NewScanConfig(r, n, NoId)
  <2>1. /\ robj \in RepoObjects /\ robj.DockerfileIds = DockerfileLists[r]
        /\ robj.DockerImageIds = DockerImageLists[r]
        /\ robj.ScanConfigIds = ScanConfigLists[r] \cup {c} /\ robj.FlagIds = FlagLists[r]
    BY <1>0, BaseLists DEF RepoObjects
  <2>2. /\ cobj \in ScanConfigObjects /\ cobj.ParentId = r
        /\ cobj.DockerImageIdsThatUse = {}
    BY DEF NewScanConfig, ScanConfigObjects
  <2>3. /\ repo' = [repo EXCEPT ![r] = robj]
        /\ UNCHANGED <<inMemoryOnly, dockerfile, image, flag>>
        /\ scanConfig[c] = NewId
        /\ scanConfig' = [scanConfig EXCEPT ![c] = cobj]
    BY <1>5 DEF defineScanConfig
  <2> HIDE DEF robj, cobj
  <2>4. RepoLists(r, DockerfileLists[r], DockerImageLists[r], ScanConfigLists[r] \cup {c},
                  FlagLists[r])
    BY <1>0, <2>1, <2>3, RepoStored
  <2>5. scanConfig'[c] = cobj /\ \A y \in ScanConfigs \ {c} : scanConfig'[y] = scanConfig[y]
    BY <1>0, <2>3 DEF TypeOK
  <2>6. Added(scanConfig, scanConfig', c, r)
    BY <1>0, <2>2, <2>3, <2>5, ScanConfigAdded
  <2>7. Families'
    <3>1. Follows(~inMemoryOnly, r, dockerfile, dockerfile', DockerfileLists[r], DockerfileLists[r])
      BY <1>0, <2>3, <2>4, <2>6, FollowsSame, FollowsAdded
    <3>2. Follows(~inMemoryOnly, r, image, image', DockerImageLists[r], DockerImageLists[r])
      BY <1>0, <2>3, <2>4, <2>6, FollowsSame, FollowsAdded
    <3>3. Follows(~inMemoryOnly, r, scanConfig, scanConfig', ScanConfigLists[r], ScanConfigLists[r] \cup {c})
      BY <1>0, <2>3, <2>4, <2>6, FollowsSame, FollowsAdded
    <3>4. Follows(~inMemoryOnly, r, flag, flag', FlagLists[r], FlagLists[r])
      BY <1>0, <2>3, <2>4, <2>6, FollowsSame, FollowsAdded
    <3> QED  BY <1>0, <2>3, <2>4, <2>6, <3>1, <3>2, <3>3, <3>4, FamiliesFollow
  <2>8. LinksSame
    BY <1>0, <2>2, <2>3, <2>5, LinksWithNew
  <2> QED  BY <1>0, <2>7, <2>8, LinksKept
<1>6. ASSUME NEW r \in Repos, NEW c \in ScanConfigs, NEW n \in Names, NEW f \in Flags,
             NEW p \in Paths, NEW via \in Vias, defineScanConfig_WithFlag(via, r, c, n, f, p)
      PROVE  Links'
  <2> DEFINE robj == [Base(via, r) EXCEPT !.ScanConfigIds = @ \cup {c}, !.FlagIds = @ \cup {f}]
             cobj == NewScanConfig(r, n, f)
             fobj == NewFlag(r, n, p, {c})
  <2>1. /\ robj \in RepoObjects /\ robj.DockerfileIds = DockerfileLists[r]
        /\ robj.DockerImageIds = DockerImageLists[r]
        /\ robj.ScanConfigIds = ScanConfigLists[r] \cup {c}
        /\ robj.FlagIds = FlagLists[r] \cup {f}
    BY <1>0, BaseLists DEF RepoObjects
  <2>2. /\ cobj \in ScanConfigObjects /\ cobj.ParentId = r
        /\ cobj.DockerImageIdsThatUse = {}
        /\ fobj \in FlagObjects /\ fobj.ParentId = r
    BY DEF NewScanConfig, ScanConfigObjects, NewFlag, FlagObjects
  <2>3. /\ repo' = [repo EXCEPT ![r] = robj]
        /\ UNCHANGED <<inMemoryOnly, dockerfile, image>>
        /\ scanConfig[c] = NewId /\ flag[f] = NewId
        /\ scanConfig' = [scanConfig EXCEPT ![c] = cobj]
        /\ flag' = [flag EXCEPT ![f] = fobj]
    BY <1>6 DEF defineScanConfig_WithFlag
  <2> HIDE DEF robj, cobj, fobj
  <2>4. RepoLists(r, DockerfileLists[r], DockerImageLists[r], ScanConfigLists[r] \cup {c},
                  FlagLists[r] \cup {f})
    BY <1>0, <2>1, <2>3, RepoStored
  <2>5. /\ scanConfig'[c] = cobj /\ \A y \in ScanConfigs \ {c} : scanConfig'[y] = scanConfig[y]
        /\ flag'[f] = fobj /\ \A y \in Flags \ {f} : flag'[y] = flag[y]
    BY <1>0, <2>3 DEF TypeOK
  <2>6. Added(scanConfig, scanConfig', c, r) /\ Added(flag, flag', f, r)
    BY <1>0, <2>2, <2>3, <2>5, ScanConfigAdded, FlagAdded
  <2>7. Families'
    <3>1. Follows(~inMemoryOnly, r, dockerfile, dockerfile', DockerfileLists[r], DockerfileLists[r])
      BY <1>0, <2>3, <2>4, <2>6, FollowsSame, FollowsAdded
    <3>2. Follows(~inMemoryOnly, r, image, image', DockerImageLists[r], DockerImageLists[r])
      BY <1>0, <2>3, <2>4, <2>6, FollowsSame, FollowsAdded
    <3>3. Follows(~inMemoryOnly, r, scanConfig, scanConfig', ScanConfigLists[r], ScanConfigLists[r] \cup {c})
      BY <1>0, <2>3, <2>4, <2>6, FollowsSame, FollowsAdded
    <3>4. Follows(~inMemoryOnly, r, flag, flag', FlagLists[r], FlagLists[r] \cup {f})
      BY <1>0, <2>3, <2>4, <2>6, FollowsSame, FollowsAdded
    <3> QED  BY <1>0, <2>3, <2>4, <2>6, <3>1, <3>2, <3>3, <3>4, FamiliesFollow
  <2>8. LinksSame
    BY <1>0, <2>2, <2>3, <2>5, LinksWithNew
  <2> QED  BY <1>0, <2>7, <2>8, LinksKept
<1>7. ASSUME NEW r \in Repos, NEW c \in ScanConfigs, NEW n \in Names, NEW f \in Flags,
             NEW p \in Paths, defineScanConfig_FlagNameTaken(r, c, n, f, p)
      PROVE  Links'
  <2> DEFINE robj == [repo[r] EXCEPT !.ScanConfigIds = @ \cup {c}]
             cobj == NewScanConfig(r, n, NoId)
             fobj == NewFlag(r, n, p, {})
  <2>1. r \in Live(repo) /\ repo[r] \in RepoObjects
    BY <1>0, <1>7 DEF defineScanConfig_FlagNameTaken, LiveAreObjects
  <2>2. /\ robj \in RepoObjects /\ robj.DockerfileIds = DockerfileLists[r]
        /\ robj.DockerImageIds = DockerImageLists[r]
        /\ robj.ScanConfigIds = ScanConfigLists[r] \cup {c} /\ robj.FlagIds = FlagLists[r]
    BY <1>0, <2>1, ListsOf DEF RepoObjects
  <2>3. /\ cobj \in ScanConfigObjects /\ cobj.ParentId = r
        /\ cobj.DockerImageIdsThatUse = {}
        /\ fobj \in FlagObjects /\ fobj.ParentId = r
    BY DEF NewScanConfig, ScanConfigObjects, NewFlag, FlagObjects
  <2>4. /\ repo' = [repo EXCEPT ![r] = robj] /\ inMemoryOnly
        /\ UNCHANGED <<inMemoryOnly, dockerfile, image>>
        /\ scanConfig[c] = NewId /\ flag[f] = NewId
        /\ scanConfig' = [scanConfig EXCEPT ![c] = cobj]
        /\ flag' = [flag EXCEPT ![f] = fobj]
    BY <1>7 DEF defineScanConfig_FlagNameTaken
  <2> HIDE DEF robj, cobj, fobj
  <2>5. RepoLists(r, DockerfileLists[r], DockerImageLists[r], ScanConfigLists[r] \cup {c},
                  FlagLists[r])
    BY <1>0, <2>2, <2>4, RepoStored
  <2>6. /\ scanConfig'[c] = cobj /\ \A y \in ScanConfigs \ {c} : scanConfig'[y] = scanConfig[y]
        /\ flag'[f] = fobj /\ \A y \in Flags \ {f} : flag'[y] = flag[y]
    BY <1>0, <2>4 DEF TypeOK
  <2>7. Added(scanConfig, scanConfig', c, r) /\ Added(flag, flag', f, r)
    BY <1>0, <2>3, <2>4, <2>6, ScanConfigAdded, FlagAdded
  <2>8. Families'
    <3>1. Follows(~inMemoryOnly, r, dockerfile, dockerfile', DockerfileLists[r], DockerfileLists[r])
      BY <1>0, <2>4, <2>5, <2>7, FollowsSame, FollowsAdded
    <3>2. Follows(~inMemoryOnly, r, image, image', DockerImageLists[r], DockerImageLists[r])
      BY <1>0, <2>4, <2>5, <2>7, FollowsSame, FollowsAdded
    <3>3. Follows(~inMemoryOnly, r, scanConfig, scanConfig', ScanConfigLists[r], ScanConfigLists[r] \cup {c})
      BY <1>0, <2>4, <2>5, <2>7, FollowsSame, FollowsAdded
    <3>4. Follows(~inMemoryOnly, r, flag, flag', FlagLists[r], FlagLists[r])
      BY <1>0, <2>4, <2>5, <2>7, FollowsSame, FollowsAdded
    <3> QED  BY <1>0, <2>4, <2>5, <2>7, <3>1, <3>2, <3>3, <3>4, FamiliesFollow
  <2>9. LinksSame
    BY <1>0, <2>3, <2>4, <2>6, LinksWithNew
  <2> QED  BY <1>0, <2>8, <2>9, LinksKept
<1>8. ASSUME NEW r \in Repos, NEW f \in Flags, NEW n \in Names, NEW p \in Paths,
             NEW via \in Vias, defineFlag(via, r, f, n, p)
      PROVE  Links'
  <2> DEFINE robj == [Base(via, r) EXCEPT !.FlagIds = @ \cup {f}]
             fobj == NewFlag(r, n, p, {})
  <2>1. /\ robj \in RepoObjects /\ robj.DockerfileIds = DockerfileLists[r]
        /\ robj.DockerImageIds = DockerImageLists[r]
        /\ robj.ScanConfigIds = ScanConfigLists[r] /\ robj.FlagIds = FlagLists[r] \cup {f}
    BY <1>0, BaseLists DEF RepoObjects
  <2>2. fobj \in FlagObjects /\ fobj.ParentId = r
    BY DEF NewFlag, FlagObjects
  <2>3. /\ repo' = [repo EXCEPT ![r] = robj]
        /\ UNCHANGED <<inMemoryOnly, dockerfile, image, scanConfig>>
        /\ flag[f] = NewId
        /\ flag' = [flag EXCEPT ![f] = fobj]
    BY <1>8 DEF defineFlag
  <2> HIDE DEF robj, fobj
  <2>4. RepoLists(r, DockerfileLists[r], DockerImageLists[r], ScanConfigLists[r],
                  FlagLists[r] \cup {f})
    BY <1>0, <2>1, <2>3, RepoStored
  <2>5. flag'[f] = fobj /\ \A y \in Flags \ {f} : flag'[y] = flag[y]
    BY <1>0, <2>3 DEF TypeOK
  <2>6. Added(flag, flag', f, r)
    BY <1>0, <2>2, <2>3, <2>5, FlagAdded
  <2>7. Families'
    <3>1. Follows(~inMemoryOnly, r, dockerfile, dockerfile', DockerfileLists[r], DockerfileLists[r])
      BY <1>0, <2>3, <2>4, <2>6, FollowsSame, FollowsAdded
    <3>2. Follows(~inMemoryOnly, r, image, image', DockerImageLists[r], DockerImageLists[r])
      BY <1>0, <2>3, <2>4, <2>6, FollowsSame, FollowsAdded
    <3>3. Follows(~inMemoryOnly, r, scanConfig, scanConfig', ScanConfigLists[r], ScanConfigLists[r])
      BY <1>0, <2>3, <2>4, <2>6, FollowsSame, FollowsAdded
    <3>4. Follows(~inMemoryOnly, r, flag, flag', FlagLists[r], FlagLists[r] \cup {f})
      BY <1>0, <2>3, <2>4, <2>6, FollowsSame, FollowsAdded
    <3> QED  BY <1>0, <2>3, <2>4, <2>6, <3>1, <3>2, <3>3, <3>4, FamiliesFollow
  <2> QED  BY <1>0, <2>3, <2>7, LinksKept DEF LinksSame, Grows
<1>9. ASSUME NEW r \in Repos, NEW f \in Flags, NEW n \in Names, NEW p \in Paths,
             defineFlag_NameTaken(r, f, n, p)
      PROVE  Links'
  <2> DEFINE fobj == NewFlag(r, n, p, {})
  <2>1. fobj \in FlagObjects /\ fobj.ParentId = r
    BY DEF NewFlag, FlagObjects
  <2>2. /\ r \in Live(repo) /\ inMemoryOnly
        /\ UNCHANGED <<inMemoryOnly, repo, dockerfile, image, scanConfig>>
        /\ flag[f] = NewId
        /\ flag' = [flag EXCEPT ![f] = fobj]
    BY <1>9 DEF defineFlag_NameTaken
  <2> HIDE DEF fobj
  <2>3. RepoLists(r, DockerfileLists[r], DockerImageLists[r], ScanConfigLists[r], FlagLists[r])
    BY <1>0, <2>2, RepoUnchanged, ListsOf
  <2>4. flag'[f] = fobj /\ \A y \in Flags \ {f} : flag'[y] = flag[y]
    BY <1>0, <2>2 DEF TypeOK
  <2>5. Added(flag, flag', f, r)
    BY <1>0, <2>1, <2>2, <2>4, FlagAdded
  <2>6. Families'
    <3>1. Follows(~inMemoryOnly, r, dockerfile, dockerfile', DockerfileLists[r], DockerfileLists[r])
      BY <1>0, <2>2, <2>3, <2>5, FollowsSame, FollowsAdded
    <3>2. Follows(~inMemoryOnly, r, image, image', DockerImageLists[r], DockerImageLists[r])
      BY <1>0, <2>2, <2>3, <2>5, FollowsSame, FollowsAdded
    <3>3. Follows(~inMemoryOnly, r, scanConfig, scanConfig', ScanConfigLists[r], ScanConfigLists[r])
      BY <1>0, <2>2, <2>3, <2>5, FollowsSame, FollowsAdded
    <3>4. Follows(~inMemoryOnly, r, flag, flag', FlagLists[r], FlagLists[r])
      BY <1>0, <2>2, <2>3, <2>5, FollowsSame, FollowsAdded
    <3> QED  BY <1>0, <2>2, <2>3, <2>5, <3>1, <3>2, <3>3, <3>4, FamiliesFollow
  <2> QED  BY <1>0, <2>2, <2>6, LinksKept DEF LinksSame, Grows
<1>4. ASSUME NEW r \in Repos, NEW d \in Dockerfiles, NEW dn \in Names, NEW p \in Paths,
             NEW via \in Vias, NEW n \in Names, NEW i \in Images, NEW v \in Versions,
             addAndExecDockerfile(via, r, d, dn, p, n, i, v)
      PROVE  Links'
  <2> DEFINE robj == [Base(via, r) EXCEPT !.DockerfileIds = @ \cup {d}]
             dobj == NewDockerfile(r, dn, p)
             dnew == [dobj EXCEPT !.DockerfileExecEventIds = @ \cup {v}]
  <2>1. /\ robj \in RepoObjects /\ robj.DockerfileIds = DockerfileLists[r] \cup {d}
        /\ robj.DockerImageIds = DockerImageLists[r]
        /\ robj.ScanConfigIds = ScanConfigLists[r] /\ robj.FlagIds = FlagLists[r]
    BY <1>0, BaseLists DEF RepoObjects
  <2>2. dobj \in DockerfileObjects /\ dobj.ParentId = r
    BY DEF NewDockerfile, DockerfileObjects
  <2>3. buildDockerfile(d, dobj, r, robj, n, i, v) /\ dockerfile[d] = NewId
    BY <1>4 DEF addAndExecDockerfile
  <2> HIDE DEF robj, dobj
  <2>4. dnew \in DockerfileObjects /\ dnew.ParentId = r
    BY <2>2 DEF DockerfileObjects
  <2>5. /\ dockerfile' = [dockerfile EXCEPT ![d] = dnew]
        /\ UNCHANGED <<inMemoryOnly, scanConfig, flag>>
    BY <2>3 DEF buildDockerfile
  <2> HIDE DEF dnew
  <2>6. dockerfile'[d] = dnew /\ \A y \in Dockerfiles \ {d} : dockerfile'[y] = dockerfile[y]
    BY <1>0, <2>5 DEF TypeOK
  <2>7. Added(dockerfile, dockerfile', d, r)
    BY <1>0, <2>3, <2>4, <2>6, DockerfileAdded
  <2>8. /\ RepoLists(r, DockerfileLists[r] \cup {d}, DockerImageLists[r] \cup {i},
                     ScanConfigLists[r], FlagLists[r])
        /\ Follows(~inMemoryOnly, r, image, image', DockerImageLists[r],
                   DockerImageLists[r] \cup {i})
        /\ Grows(image, image')
        /\ \A j \in Live(image') :
             image'[j].ScanConfigsToUse =
               IF j \in Live(image) THEN image[j].ScanConfigsToUse ELSE {}
    <3>1. /\ RepoLists(r, robj.DockerfileIds, DockerImageLists[r] \cup {i},
                       robj.ScanConfigIds, robj.FlagIds)
          /\ Follows(~inMemoryOnly, r, image, image', DockerImageLists[r],
                     DockerImageLists[r] \cup {i})
          /\ Grows(image, image')
          /\ \A j \in Live(image') :
               image'[j].ScanConfigsToUse =
                 IF j \in Live(image) THEN image[j].ScanConfigsToUse ELSE {}
      BY <1>0, <2>1, <2>3, BuildLinks
    <3> QED  BY <2>1, <3>1
  <2>9. Follows(~inMemoryOnly, r, dockerfile, dockerfile', DockerfileLists[r],
                DockerfileLists[r] \cup {d})
    BY <2>7, FollowsAdded
  <2>10. /\ Follows(~inMemoryOnly, r, scanConfig, scanConfig', ScanConfigLists[r], ScanConfigLists[r])
         /\ Follows(~inMemoryOnly, r, flag, flag', FlagLists[r], FlagLists[r])
    BY <2>5, FollowsSame
  <2>11. Families'
    BY <1>0, <2>5, <2>8, <2>9, <2>10, FamiliesFollow
  <2> QED  BY <1>0, <2>5, <2>8, <2>11, LinksKept DEF LinksSame, Grows
<1>10. ASSUME NEW r \in Repos, deleteRepo(r)
       PROVE  Links'
  <2> DEFINE ds == repo[r].DockerfileIds
             is == repo[r].DockerImageIds
             fs == repo[r].FlagIds
             vs == UNION {image[i].VersionIds : i \in is}
  <2>1. repo[r] \in RepoObjects /\ r \in Live(repo)
    BY <1>0, <1>10 DEF deleteRepo, LiveAreObjects
  <2>2. PICK cs, links :
          /\ PurgeArguments(ds, cs, fs, is, vs) /\ Purge(ds, cs, fs, is, vs, links)
          /\ repo' = [repo EXCEPT ![r] =
               [EmptyRepo EXCEPT !.DockerfileIds = ds, !.ScanConfigIds = repo[r].ScanConfigIds \ cs]]
          /\ cs \subseteq repo[r].ScanConfigIds
    BY <1>10, RepoPurge
  <2> DEFINE robj == [EmptyRepo EXCEPT !.DockerfileIds = ds,
                                       !.ScanConfigIds = repo[r].ScanConfigIds \ cs]
  <2>3. repo' = [repo EXCEPT ![r] = robj] /\ UNCHANGED <<inMemoryOnly, dockerfile>>
    BY <1>10, <2>2 DEF deleteRepo
  <2>4. /\ robj \in RepoObjects /\ robj.DockerfileIds = ds
        /\ robj.DockerImageIds = {} /\ robj.ScanConfigIds = ScanConfigLists[r] \ cs
        /\ robj.FlagIds = {}
    BY <1>0, <2>1, ListsOf DEF EmptyRepo, RepoObjects
  <2>5. DockerfileLists[r] = ds /\ DockerImageLists[r] = is /\ FlagLists[r] = fs
    BY <1>0, <2>1, ListsOf
  <2>6. /\ \A i \in is : image[i].ParentId = r
        /\ \A c \in cs : scanConfig[c].ParentId = r
        /\ \A f \in fs : flag[f].ParentId = r
    BY <1>0, <2>1, <2>2 DEF ChildrenListed
  <2> HIDE DEF ds, is, fs, vs, robj
  <2>7. PurgeEffects(cs, fs, is, vs, links)
    BY <1>0, <2>2, PurgeEffect
  <2>8. RepoLists(r, ds, {}, ScanConfigLists[r] \ cs, {})
    BY <1>0, <2>3, <2>4, RepoStored
  <2>9. Removed(image, image', is) /\ Removed(scanConfig, scanConfig', cs)
        /\ Removed(flag, flag', fs)
    BY <2>7 DEF PurgeEffects, Removed
  <2>10. is \ is = {} /\ fs \ fs = {}
    OBVIOUS
  <2>11. /\ Follows(~inMemoryOnly, r, dockerfile, dockerfile', DockerfileLists[r], ds)
         /\ Follows(~inMemoryOnly, r, image, image', DockerImageLists[r], {})
         /\ Follows(~inMemoryOnly, r, scanConfig, scanConfig', ScanConfigLists[r],
                    ScanConfigLists[r] \ cs)
         /\ Follows(~inMemoryOnly, r, flag, flag', FlagLists[r], {})
    BY <2>3, <2>5, <2>6, <2>9, <2>10, FollowsSame, FollowsRemoved
  <2>12. Families'
    BY <1>0, <2>3, <2>8, <2>11, FamiliesFollow
  <2> QED  BY <1>0, <2>7, <2>12, LinksPurged
<1>11. ASSUME NEW r \in Repos, deleteRepo_Aborted(r) \/ deleteRepo_Fails(r)
       PROVE  Links'
  <2>1. UNCHANGED <<inMemoryOnly, repo, dockerfile, image, scanConfig, flag>>
    BY <1>11 DEF deleteRepo_Aborted, deleteRepo_Fails
  <2>2. Families'
    BY <1>0, <2>1, FamiliesKept, UnchangedKept
  <2> QED  BY <1>0, <2>1, <2>2, LinksKept DEF LinksSame, Grows
<1> QED  BY <1>1, <1>2, <1>3, <1>4, <1>5, <1>6, <1>7, <1>8, <1>9, <1>10, <1>11 DEF RepoStep

\* Dockerfiles, images and versions.
LEMMA DockerStepLinks == Structure /\ TypeOK' /\ DockerStep => Links'
<1> SUFFICES ASSUME Structure, TypeOK', DockerStep PROVE Links'
  OBVIOUS
<1>0. /\ TypeOK /\ LinksHold /\ Families /\ LiveAreObjects
      /\ ChildrenListed /\ ParentsStored
  BY FamiliesAgree, LiveObjects DEF Structure
<1> USE DEF Links
<1>1. ASSUME NEW d \in Dockerfiles, remDockerfile(d)
      PROVE  Links'
  <2>1. UNCHANGED <<inMemoryOnly, repo, dockerfile, image, scanConfig, flag>>
    BY <1>1 DEF remDockerfile
  <2>2. Families'
    BY <1>0, <2>1, FamiliesKept, UnchangedKept
  <2> QED  BY <1>0, <2>1, <2>2, LinksKept DEF LinksSame, Grows
<1>2. ASSUME NEW d \in Dockerfiles, NEW p \in Paths, replaceDockerfile(d, p)
      PROVE  Links'
  <2> DEFINE dnew == [dockerfile[d] EXCEPT !.FilePath = p]
  <2>1. d \in Live(dockerfile) /\ dockerfile[d] \in DockerfileObjects
    BY <1>0, <1>2 DEF replaceDockerfile, LiveAreObjects
  <2>2. dnew \in DockerfileObjects /\ dnew.ParentId = dockerfile[d].ParentId
    BY <2>1 DEF DockerfileObjects
  <2>3. /\ dockerfile' = dockerfile \/ dockerfile' = [dockerfile EXCEPT ![d] = dnew]
        /\ UNCHANGED <<inMemoryOnly, repo, image, scanConfig, flag>>
    BY <1>2 DEF replaceDockerfile, WrittenIfInMemory
  <2> HIDE DEF dnew
  <2>4. Kept(dockerfile, dockerfile')
    <3>1. CASE dockerfile' = dockerfile
      BY <3>1, UnchangedKept
    <3>2. CASE dockerfile' = [dockerfile EXCEPT ![d] = dnew]
      <4>1. dockerfile'[d] = dnew /\ \A y \in Dockerfiles \ {d} : dockerfile'[y] = dockerfile[y]
        BY <1>0, <2>1, <3>2 DEF TypeOK, LiveAreObjects
      <4> QED  BY <1>0, <2>1, <2>2, <4>1, DockerfileWritten
    <3> QED  BY <2>3, <3>1, <3>2
  <2>5. Families'
    BY <1>0, <2>3, <2>4, FamiliesKept, UnchangedKept
  <2> QED  BY <1>0, <2>3, <2>5, LinksKept DEF LinksSame, Grows
<1>3. ASSUME NEW d \in Dockerfiles, NEW n \in Names, NEW i \in Images,
             execDockerfile_BuildFails(d, n, i)
      PROVE  Links'
  <2> DEFINE r == dockerfile[d].ParentId
             iobj == NewDockerImage(r, n)
             robj == [repo[r] EXCEPT !.DockerImageIds = @ \cup {i}]
  <2>1. r \in Live(repo) /\ r \in Repos /\ repo[r] \in RepoObjects
    BY <1>0, <1>3 DEF execDockerfile_BuildFails, ParentsStored, LiveAreObjects
  <2>2. /\ image' = [image EXCEPT ![i] = iobj] /\ image[i] = NewId
        /\ repo' = [repo EXCEPT ![r] = robj]
        /\ UNCHANGED <<inMemoryOnly, dockerfile, scanConfig, flag>>
    BY <1>3 DEF execDockerfile_BuildFails
  <2> HIDE DEF r
  <2>3. iobj \in ImageObjects /\ iobj.ParentId = r /\ iobj.ScanConfigsToUse = {}
    BY <2>1 DEF NewDockerImage, ImageObjects
  <2>4. /\ robj \in RepoObjects /\ robj.DockerfileIds = DockerfileLists[r]
        /\ robj.DockerImageIds = DockerImageLists[r] \cup {i}
        /\ robj.ScanConfigIds = ScanConfigLists[r] /\ robj.FlagIds = FlagLists[r]
    BY <1>0, <2>1, ListsOf DEF RepoObjects
  <2> HIDE DEF iobj, robj
  <2>5. RepoLists(r, DockerfileLists[r], DockerImageLists[r] \cup {i}, ScanConfigLists[r],
                  FlagLists[r])
    BY <1>0, <2>1, <2>2, <2>4, RepoStored
  <2>6. image'[i] = iobj /\ \A y \in Images \ {i} : image'[y] = image[y]
    BY <1>0, <2>2 DEF TypeOK
  <2>7. Added(image, image', i, r)
    BY <1>0, <2>2, <2>3, <2>6, ImageAdded
  <2>8. Families'
    <3>1. Follows(~inMemoryOnly, r, dockerfile, dockerfile', DockerfileLists[r], DockerfileLists[r])
      BY <2>2, FollowsSame
    <3>2. Follows(~inMemoryOnly, r, image, image', DockerImageLists[r], DockerImageLists[r] \cup {i})
      BY <2>7, FollowsAdded
    <3>3. Follows(~inMemoryOnly, r, scanConfig, scanConfig', ScanConfigLists[r], ScanConfigLists[r])
      BY <2>2, FollowsSame
    <3>4. Follows(~inMemoryOnly, r, flag, flag', FlagLists[r], FlagLists[r])
      BY <2>2, FollowsSame
    <3> QED  BY <1>0, <2>2, <2>5, <3>1, <3>2, <3>3, <3>4, FamiliesFollow
  <2>9. \A j \in Live(image') :
          image'[j].ScanConfigsToUse =
            IF j \in Live(image) THEN image[j].ScanConfigsToUse ELSE {}
    BY <1>0, <2>3, <2>6, <2>7 DEF Added, LiveAreObjects
  <2>10. Grows(image, image')
    BY <1>0, <2>2, <2>3, <2>6, ImagesGrow
  <2> QED  BY <1>0, <2>2, <2>8, <2>9, <2>10, LinksKept DEF LinksSame, Grows
<1>4. ASSUME NEW d \in Dockerfiles, NEW n \in Names, NEW i \in Images, NEW v \in Versions,
             execDockerfile(d, n, i, v)
      PROVE  Links'
  <2> DEFINE r == dockerfile[d].ParentId
             dnew == [dockerfile[d] EXCEPT !.DockerfileExecEventIds = @ \cup {v}]
  <2>1. /\ d \in Live(dockerfile) /\ dockerfile[d] \in DockerfileObjects
        /\ r \in Live(repo) /\ r \in Repos /\ repo[r] \in RepoObjects
    BY <1>0, <1>4 DEF execDockerfile, ParentsStored, LiveAreObjects
  <2>2. buildDockerfile(d, dockerfile[d], r, repo[r], n, i, v)
    BY <1>4 DEF execDockerfile
  <2>3. dnew \in DockerfileObjects /\ dnew.ParentId = dockerfile[d].ParentId
    BY <2>1 DEF DockerfileObjects
  <2>4. /\ dockerfile' = [dockerfile EXCEPT ![d] = dnew]
        /\ UNCHANGED <<inMemoryOnly, scanConfig, flag>>
    BY <2>2 DEF buildDockerfile
  <2> HIDE DEF r, dnew
  <2>5. dockerfile'[d] = dnew /\ \A y \in Dockerfiles \ {d} : dockerfile'[y] = dockerfile[y]
    BY <1>0, <2>4 DEF TypeOK
  <2>6. Kept(dockerfile, dockerfile')
    BY <1>0, <2>1, <2>3, <2>5, DockerfileWritten
  <2>7. /\ repo[r].DockerfileIds = DockerfileLists[r]
        /\ repo[r].DockerImageIds = DockerImageLists[r]
        /\ repo[r].ScanConfigIds = ScanConfigLists[r] /\ repo[r].FlagIds = FlagLists[r]
    BY <1>0, <2>1, ListsOf
  <2>8. /\ RepoLists(r, repo[r].DockerfileIds, DockerImageLists[r] \cup {i},
                     repo[r].ScanConfigIds, repo[r].FlagIds)
        /\ Follows(~inMemoryOnly, r, image, image', DockerImageLists[r],
                   DockerImageLists[r] \cup {i})
        /\ Grows(image, image')
        /\ \A j \in Live(image') :
             image'[j].ScanConfigsToUse =
               IF j \in Live(image) THEN image[j].ScanConfigsToUse ELSE {}
    BY <1>0, <2>1, <2>2, <2>7, BuildLinks
  <2>9. Families'
    <3>0. RepoLists(r, DockerfileLists[r], DockerImageLists[r] \cup {i},
                    ScanConfigLists[r], FlagLists[r])
      BY <2>7, <2>8
    <3>1. Follows(~inMemoryOnly, r, dockerfile, dockerfile', DockerfileLists[r], DockerfileLists[r])
      BY <2>6, FollowsKept
    <3>2. Follows(~inMemoryOnly, r, scanConfig, scanConfig', ScanConfigLists[r], ScanConfigLists[r])
      BY <2>4, FollowsSame
    <3>3. Follows(~inMemoryOnly, r, flag, flag', FlagLists[r], FlagLists[r])
      BY <2>4, FollowsSame
    <3> QED  BY <1>0, <2>4, <2>8, <3>0, <3>1, <3>2, <3>3, FamiliesFollow
  <2> QED  BY <1>0, <2>4, <2>8, <2>9, LinksKept DEF LinksSame, Grows
<1>5. ASSUME NEW i \in Images, remDockerImage(i)
      PROVE  Links'
  <2> DEFINE r == image[i].ParentId
             vs == image[i].VersionIds
             robj == [repo[r] EXCEPT !.DockerImageIds = @ \ {i}]
  <2>1. /\ i \in Live(image) /\ r \in Live(repo) /\ r \in Repos /\ repo[r] \in RepoObjects
    BY <1>0, <1>5 DEF remDockerImage, ParentsStored, LiveAreObjects
  <2>2. PICK links :
          /\ Purge({}, {}, {}, {i}, vs, links)
          /\ repo' = [repo EXCEPT ![r] = robj]
          /\ UNCHANGED <<inMemoryOnly, dockerfile>>
    BY <1>5 DEF remDockerImage
  <2>3. image[i].ParentId = r
    OBVIOUS
  <2> HIDE DEF r, vs
  <2>4. PurgeArguments({}, {}, {}, {i}, vs)
    BY <2>1 DEF PurgeArguments
  <2>5. PurgeEffects({}, {}, {i}, vs, links)
    BY <1>0, <2>2, <2>4, PurgeEffect
  <2>6. /\ robj \in RepoObjects /\ robj.DockerfileIds = DockerfileLists[r]
        /\ robj.DockerImageIds = DockerImageLists[r] \ {i}
        /\ robj.ScanConfigIds = ScanConfigLists[r] /\ robj.FlagIds = FlagLists[r]
    BY <1>0, <2>1, ListsOf DEF RepoObjects
  <2> HIDE DEF robj
  <2>7. RepoLists(r, DockerfileLists[r], DockerImageLists[r] \ {i}, ScanConfigLists[r], FlagLists[r])
    BY <1>0, <2>1, <2>2, <2>6, RepoStored
  <2>8. /\ Removed(image, image', {i})
        /\ Kept(scanConfig, scanConfig') /\ Kept(flag, flag')
    BY <2>5 DEF PurgeEffects, Removed, Kept
  <2>9. Families'
    <3>1. Follows(~inMemoryOnly, r, dockerfile, dockerfile', DockerfileLists[r], DockerfileLists[r])
      BY <2>2, FollowsSame
    <3>2. Follows(~inMemoryOnly, r, image, image', DockerImageLists[r], DockerImageLists[r] \ {i})
      BY <2>3, <2>8, FollowsRemoved
    <3>3. Follows(~inMemoryOnly, r, scanConfig, scanConfig', ScanConfigLists[r], ScanConfigLists[r])
      BY <2>8, FollowsKept
    <3>4. Follows(~inMemoryOnly, r, flag, flag', FlagLists[r], FlagLists[r])
      BY <2>8, FollowsKept
    <3> QED  BY <1>0, <2>2, <2>7, <3>1, <3>2, <3>3, <3>4, FamiliesFollow
  <2> QED  BY <1>0, <2>5, <2>9, LinksPurged
<1>6. ASSUME NEW v \in Versions, remImageVersion(v)
      PROVE  Links'
  <2>1. /\ PurgeArguments({}, {}, {}, {}, {v}) /\ Purge({}, {}, {}, {}, {v}, {})
        /\ UNCHANGED <<inMemoryOnly, repo, dockerfile>>
    BY <1>6 DEF PurgeArguments, remImageVersion
  <2>2. PurgeEffects({}, {}, {}, {v}, {})
    BY <1>0, <2>1, PurgeEffect
  <2>3. Kept(image, image') /\ Kept(scanConfig, scanConfig') /\ Kept(flag, flag')
    BY <2>2 DEF PurgeEffects, Kept
  <2>4. Families'
    BY <1>0, <2>1, <2>3, FamiliesKept, UnchangedKept
  <2> QED  BY <1>0, <2>2, <2>4, LinksPurged
<1>7. ASSUME NEW v \in Versions, remImageVersion_DockerFails(v)
      PROVE  Links'
  <2>1. UNCHANGED <<inMemoryOnly, repo, dockerfile, image, scanConfig, flag>>
    BY <1>7 DEF remImageVersion_DockerFails
  <2>2. Families'
    BY <1>0, <2>1, FamiliesKept, UnchangedKept
  <2> QED  BY <1>0, <2>1, <2>2, LinksKept DEF LinksSame, Grows
<1>8. ASSUME NEW c \in ScanConfigs, NEW v \in Versions, NEW e \in ScanEvents, scanImage(c, v, e)
      PROVE  Links'
  <2> DEFINE cnew == [scanConfig[c] EXCEPT !.ScanEventIds = @ \cup {e}]
  <2>1. /\ c \in Live(scanConfig) /\ scanConfig[c] \in ScanConfigObjects
        /\ scanConfig' = [scanConfig EXCEPT ![c] = cnew]
        /\ UNCHANGED <<inMemoryOnly, repo, dockerfile, image, flag>>
    BY <1>0, <1>8 DEF scanImage, LiveAreObjects
  <2>2. /\ cnew \in ScanConfigObjects /\ cnew.ParentId = scanConfig[c].ParentId
        /\ cnew.DockerImageIdsThatUse = scanConfig[c].DockerImageIdsThatUse
    BY <2>1 DEF ScanConfigObjects
  <2> HIDE DEF cnew
  <2>3. scanConfig'[c] = cnew /\ \A y \in ScanConfigs \ {c} : scanConfig'[y] = scanConfig[y]
    BY <1>0, <2>1 DEF TypeOK
  <2>4. Kept(scanConfig, scanConfig')
    BY <1>0, <2>1, <2>2, <2>3, ScanConfigWritten
  <2>5. Families'
    BY <1>0, <2>1, <2>4, FamiliesKept, UnchangedKept
  <2>6. LinksSame
    BY <1>0, <2>1, <2>2, <2>3, LinksRewritten
  <2> QED  BY <1>0, <2>5, <2>6, LinksKept
<1>9. ASSUME NEW i \in Images, remDockerImage_Fails(i)
      PROVE  Links'
  <2>1. PICK vs, links : Purge({}, {}, {}, {}, vs, links)
    BY <1>9 DEF remDockerImage_Fails
  <2>2. PurgeArguments({}, {}, {}, {}, vs) /\ UNCHANGED <<inMemoryOnly, repo, dockerfile>>
    BY <1>9 DEF PurgeArguments, remDockerImage_Fails
  <2>3. PurgeEffects({}, {}, {}, vs, links)
    BY <1>0, <2>1, <2>2, PurgeEffect
  <2>4. Kept(image, image') /\ Kept(scanConfig, scanConfig') /\ Kept(flag, flag')
    BY <2>3 DEF PurgeEffects, Kept
  <2>5. Families'
    BY <1>0, <2>2, <2>4, FamiliesKept, UnchangedKept
  <2> QED  BY <1>0, <2>3, <2>5, LinksPurged
<1> QED  BY <1>1, <1>2, <1>3, <1>4, <1>5, <1>6, <1>7, <1>8, <1>9 DEF DockerStep

\* Flags.
LEMMA FlagStepLinks == Structure /\ TypeOK' /\ FlagStep => Links'
<1> SUFFICES ASSUME Structure, TypeOK', FlagStep PROVE Links'
  OBVIOUS
<1>0. TypeOK /\ LinksHold /\ Families /\ LiveAreObjects /\ ParentsStored
  BY FamiliesAgree, LiveObjects DEF Structure
<1> USE DEF Links
<1>1. ASSUME NEW f \in Flags, remFlag(f)
      PROVE  Links'
  <2> DEFINE r == flag[f].ParentId
             robj == [repo[r] EXCEPT !.FlagIds = @ \ {f}]
  <2>1. /\ f \in Live(flag) /\ r \in Live(repo) /\ r \in Repos /\ repo[r] \in RepoObjects
    BY <1>0, <1>1 DEF remFlag, ParentsStored, LiveAreObjects
  <2>2. /\ Purge({}, {}, {f}, {}, {}, {})
        /\ repo' = [repo EXCEPT ![r] = robj]
        /\ UNCHANGED <<inMemoryOnly, dockerfile>>
    BY <1>1 DEF remFlag
  <2>3. flag[f].ParentId = r
    OBVIOUS
  <2> HIDE DEF r
  <2>4. PurgeArguments({}, {}, {f}, {}, {})
    BY <2>1 DEF PurgeArguments
  <2>5. PurgeEffects({}, {f}, {}, {}, {})
    BY <1>0, <2>2, <2>4, PurgeEffect
  <2>6. /\ robj \in RepoObjects /\ robj.DockerfileIds = DockerfileLists[r]
        /\ robj.DockerImageIds = DockerImageLists[r]
        /\ robj.ScanConfigIds = ScanConfigLists[r] /\ robj.FlagIds = FlagLists[r] \ {f}
    BY <1>0, <2>1, ListsOf DEF RepoObjects
  <2> HIDE DEF robj
  <2>7. RepoLists(r, DockerfileLists[r], DockerImageLists[r], ScanConfigLists[r], FlagLists[r] \ {f})
    BY <1>0, <2>1, <2>2, <2>6, RepoStored
  <2>8. /\ Removed(flag, flag', {f})
        /\ Kept(scanConfig, scanConfig') /\ Kept(image, image')
    BY <2>5 DEF PurgeEffects, Removed, Kept
  <2>9. Families'
    <3>1. Follows(~inMemoryOnly, r, dockerfile, dockerfile', DockerfileLists[r], DockerfileLists[r])
      BY <2>2, FollowsSame
    <3>2. Follows(~inMemoryOnly, r, image, image', DockerImageLists[r], DockerImageLists[r])
      BY <2>8, FollowsKept
    <3>3. Follows(~inMemoryOnly, r, scanConfig, scanConfig', ScanConfigLists[r], ScanConfigLists[r])
      BY <2>8, FollowsKept
    <3>4. Follows(~inMemoryOnly, r, flag, flag', FlagLists[r], FlagLists[r] \ {f})
      BY <2>3, <2>8, FollowsRemoved
    <3> QED  BY <1>0, <2>2, <2>7, <3>1, <3>2, <3>3, <3>4, FamiliesFollow
  <2> QED  BY <1>0, <2>5, <2>9, LinksPurged
<1>2. ASSUME NEW f \in Flags, remFlag_Aborted(f)
      PROVE  Links'
  <2>1. UNCHANGED <<inMemoryOnly, repo, dockerfile, image, scanConfig, flag>>
    BY <1>2 DEF remFlag_Aborted
  <2>2. Families'
    BY <1>0, <2>1, FamiliesKept, UnchangedKept
  <2> QED  BY <1>0, <2>1, <2>2, LinksKept DEF LinksSame, Grows
<1> QED  BY <1>1, <1>2 DEF FlagStep

\* Configurations.
LEMMA ScanConfigStepLinks == Structure /\ TypeOK' /\ ScanConfigStep => Links'
<1> SUFFICES ASSUME Structure, TypeOK', ScanConfigStep PROVE Links'
  OBVIOUS
<1>0. TypeOK /\ LinksHold /\ Families /\ LiveAreObjects /\ LiveAreObjects' /\ ParentsStored
  BY FamiliesAgree, LiveObjects, LiveObjectsNext DEF Structure
<1> USE DEF Links
<1>1. ASSUME NEW c \in ScanConfigs, remScanConfig(c)
      PROVE  Links'
  <2> DEFINE r == scanConfig[c].ParentId
             robj == [repo[r] EXCEPT !.ScanConfigIds = @ \ {c}]
  <2>1. /\ c \in Live(scanConfig) /\ r \in Live(repo) /\ r \in Repos /\ repo[r] \in RepoObjects
    BY <1>0, <1>1 DEF remScanConfig, ParentsStored, LiveAreObjects
  <2>2. PICK links :
          /\ Purge({}, {c}, {}, {}, {}, links)
          /\ repo' = [repo EXCEPT ![r] = robj]
          /\ UNCHANGED <<inMemoryOnly, dockerfile>>
    BY <1>1 DEF remScanConfig
  <2>3. scanConfig[c].ParentId = r
    OBVIOUS
  <2> HIDE DEF r
  <2>4. PurgeArguments({}, {c}, {}, {}, {})
    BY <1>1, <2>1 DEF PurgeArguments, remScanConfig
  <2>5. PurgeEffects({c}, {}, {}, {}, links)
    BY <1>0, <2>2, <2>4, PurgeEffect
  <2>6. /\ robj \in RepoObjects /\ robj.DockerfileIds = DockerfileLists[r]
        /\ robj.DockerImageIds = DockerImageLists[r]
        /\ robj.ScanConfigIds = ScanConfigLists[r] \ {c} /\ robj.FlagIds = FlagLists[r]
    BY <1>0, <2>1, ListsOf DEF RepoObjects
  <2> HIDE DEF robj
  <2>7. RepoLists(r, DockerfileLists[r], DockerImageLists[r], ScanConfigLists[r] \ {c}, FlagLists[r])
    BY <1>0, <2>1, <2>2, <2>6, RepoStored
  <2>8. /\ Removed(scanConfig, scanConfig', {c})
        /\ Kept(flag, flag') /\ Kept(image, image')
    BY <2>5 DEF PurgeEffects, Removed, Kept
  <2>9. Families'
    <3>1. Follows(~inMemoryOnly, r, dockerfile, dockerfile', DockerfileLists[r], DockerfileLists[r])
      BY <2>2, FollowsSame
    <3>2. Follows(~inMemoryOnly, r, image, image', DockerImageLists[r], DockerImageLists[r])
      BY <2>8, FollowsKept
    <3>3. Follows(~inMemoryOnly, r, scanConfig, scanConfig', ScanConfigLists[r], ScanConfigLists[r] \ {c})
      BY <2>3, <2>8, FollowsRemoved
    <3>4. Follows(~inMemoryOnly, r, flag, flag', FlagLists[r], FlagLists[r])
      BY <2>8, FollowsKept
    <3> QED  BY <1>0, <2>2, <2>7, <3>1, <3>2, <3>3, <3>4, FamiliesFollow
  <2> QED  BY <1>0, <2>5, <2>9, LinksPurged
<1>2. ASSUME NEW c \in ScanConfigs, remScanConfig_Fails(c)
      PROVE  Links'
  <2>1. /\ c \in Live(scanConfig) /\ scanConfig[c] \in ScanConfigObjects
        /\ UNCHANGED <<inMemoryOnly, repo, dockerfile>>
    BY <1>0, <1>2 DEF remScanConfig_Fails, LiveAreObjects
  <2>2. CASE UNCHANGED <<scanConfig, flag, image>>
    <3>1. Families'
      BY <1>0, <2>1, <2>2, FamiliesKept, UnchangedKept
    <3> QED  BY <1>0, <2>2, <3>1, LinksKept DEF LinksSame, Grows
  <2>3. ASSUME NEW x \in scanConfig[c].DockerImageIdsThatUse \ Live(image),
               NEW is \in SUBSET (scanConfig[c].DockerImageIdsThatUse \cap Live(image)),
               FlagReadable(c),
               scanConfig' = [scanConfig EXCEPT ![c].DockerImageIdsThatUse = @ \ (is \cup {x})],
               image' = [i \in Images |->
                  IF i \in is THEN [image[i] EXCEPT !.ScanConfigsToUse = @ \ {c}] ELSE image[i]],
               flag' = [f \in Flags |->
                  IF f = scanConfig[c].FlagId
                  THEN [flag[f] EXCEPT !.UsedByScanConfigIds = @ \ {c}] ELSE flag[f]]
        PROVE  Links'
    <3> DEFINE cnew == [scanConfig[c] EXCEPT !.DockerImageIdsThatUse = @ \ (is \cup {x})]
    <3>1. /\ cnew \in ScanConfigObjects /\ cnew.ParentId = scanConfig[c].ParentId
          /\ cnew.DockerImageIdsThatUse = scanConfig[c].DockerImageIdsThatUse \ (is \cup {x})
      BY <2>1 DEF ScanConfigObjects
    <3>2. scanConfig'[c] = cnew /\ \A y \in ScanConfigs \ {c} : scanConfig'[y] = scanConfig[y]
      BY <1>0, <2>3 DEF TypeOK
    <3> HIDE DEF cnew
    <3>3. Kept(scanConfig, scanConfig')
      BY <1>0, <2>1, <3>1, <3>2, ScanConfigWritten
    <3>4. /\ Live(image') = Live(image)
          /\ \A i \in Live(image) :
               /\ image'[i].ParentId = image[i].ParentId
               /\ image'[i].ScanConfigsToUse =
                    IF i \in is THEN image[i].ScanConfigsToUse \ {c} ELSE image[i].ScanConfigsToUse
      <4>1. \A i \in is : /\ [image[i] EXCEPT !.ScanConfigsToUse = @ \ {c}] \in ImageObjects
                          /\ [image[i] EXCEPT !.ScanConfigsToUse = @ \ {c}].ParentId = image[i].ParentId
                          /\ [image[i] EXCEPT !.ScanConfigsToUse = @ \ {c}].ScanConfigsToUse
                               = image[i].ScanConfigsToUse \ {c}
        BY <1>0 DEF LiveAreObjects, ImageObjects
      <4> QED  BY <1>0, <2>3, <4>1 DEF LiveAreObjects
    <3>5. Kept(image, image')
      BY <3>4 DEF Kept
    <3>6. Kept(flag, flag')
      <4>1. \A f \in Flags : f = scanConfig[c].FlagId =>
              /\ flag[f] \in FlagObjects
              /\ [flag[f] EXCEPT !.UsedByScanConfigIds = @ \ {c}] \in FlagObjects
              /\ [flag[f] EXCEPT !.UsedByScanConfigIds = @ \ {c}].ParentId = flag[f].ParentId
        BY <1>0, <2>3, RepoConstants DEF FlagReadable, LiveAreObjects, FlagObjects
      <4>2. \A f \in Flags : flag'[f] \in FlagObjects <=> flag[f] \in FlagObjects
        BY <2>3, <4>1
      <4>3. \A f \in Flags : flag[f] \in FlagObjects => flag'[f].ParentId = flag[f].ParentId
        BY <2>3, <4>1
      <4> QED  BY <1>0, <4>2, <4>3 DEF Kept, LiveAreObjects
    <3>7. Families'
      BY <1>0, <2>1, <3>3, <3>5, <3>6, FamiliesKept, UnchangedKept
    <3>8. /\ Live(scanConfig') = Live(scanConfig)
          /\ \A y \in Live(scanConfig) :
               scanConfig'[y].DockerImageIdsThatUse =
                 IF y = c THEN scanConfig[c].DockerImageIdsThatUse \ (is \cup {x})
                          ELSE scanConfig[y].DockerImageIdsThatUse
      BY <1>0, <3>1, <3>2, <3>3 DEF Kept, LiveAreObjects
    <3>9. Grows(scanConfig, scanConfig')
      BY <1>0, <2>1, <3>1, <3>2, ScanConfigsGrow
    <3>10. Known(image) \subseteq Known(image')
      <4>1. \A i \in Live(image) : image'[i] \in ImageObjects
        BY <1>0, <3>4 DEF LiveAreObjects
      <4>2. \A i \in Images \ Live(image) : image'[i] = image[i]
        BY <2>3
      <4> QED  BY <1>0, <4>1, <4>2, KnownIds, KnownIdsNext, ObjectsAreNotNew
    <3>11. LinksHold'
      <4>1. ASSUME NEW y \in Live(scanConfig'), NEW i \in Live(image')
            PROVE  i \in scanConfig'[y].DockerImageIdsThatUse <=> y \in image'[i].ScanConfigsToUse
        <5>1. /\ y \in Live(scanConfig) /\ i \in Live(image) /\ i # x
              /\ i \in scanConfig[y].DockerImageIdsThatUse <=> y \in image[i].ScanConfigsToUse
          BY <1>0, <2>3, <3>4, <3>8, <4>1 DEF LinksHold, ScanLinksAgree
        <5>2. CASE y = c
          BY <3>4, <3>8, <5>1, <5>2
        <5>3. CASE y # c
          BY <3>4, <3>8, <5>1, <5>3
        <5> QED  BY <5>2, <5>3
      <4>2. ASSUME NEW y \in Live(scanConfig')
            PROVE  scanConfig'[y].DockerImageIdsThatUse \cap Images \subseteq Known(image')
        BY <1>0, <3>8, <3>10, <4>2 DEF LinksHold
      <4>3. ASSUME NEW i \in Live(image')
            PROVE  image'[i].ScanConfigsToUse \subseteq Known(scanConfig')
        BY <1>0, <3>4, <3>9, <4>3 DEF LinksHold, Grows
      <4> QED  BY <4>1, <4>2, <4>3 DEF LinksHold, ScanLinksAgree
    <3> QED  BY <3>7, <3>11
  <2> QED  BY <1>2, <2>2, <2>3 DEF remScanConfig_Fails
<1>3. ASSUME NEW c \in ScanConfigs, NEW n \in Names, updateScanConfig(c, n)
      PROVE  Links'
  <2>1. /\ c \in Live(scanConfig) /\ scanConfig[c] \in ScanConfigObjects
        /\ scanConfig' = [scanConfig EXCEPT ![c] = Renamed(c, n)]
        /\ UNCHANGED <<inMemoryOnly, repo, dockerfile, image, flag>>
    BY <1>0, <1>3 DEF updateScanConfig, LiveAreObjects
  <2>2. /\ Renamed(c, n) \in ScanConfigObjects
        /\ Renamed(c, n).ParentId = scanConfig[c].ParentId
        /\ Renamed(c, n).DockerImageIdsThatUse = scanConfig[c].DockerImageIdsThatUse
    BY <2>1 DEF Renamed, ScanConfigObjects
  <2>3. /\ scanConfig'[c] = Renamed(c, n)
        /\ \A y \in ScanConfigs \ {c} : scanConfig'[y] = scanConfig[y]
    BY <1>0, <2>1 DEF TypeOK
  <2>4. Kept(scanConfig, scanConfig')
    BY <1>0, <2>1, <2>2, <2>3, ScanConfigWritten
  <2>5. Families'
    BY <1>0, <2>1, <2>4, FamiliesKept, UnchangedKept
  <2>6. LinksSame
    BY <1>0, <2>1, <2>2, <2>3, LinksRewritten
  <2> QED  BY <1>0, <2>5, <2>6, LinksKept
<1>4. ASSUME NEW c \in ScanConfigs, NEW n \in Names \cup {NoName}, NEW f \in Flags, NEW p \in Paths,
             updateScanConfig_WithFlag(c, n, f, p)
      PROVE  Links'
  <2> DEFINE r == scanConfig[c].ParentId
             robj == [repo[r] EXCEPT !.FlagIds = @ \cup {f}]
             cnew == [Renamed(c, n) EXCEPT !.FlagId = f]
             fobj == NewFlag(r, n, p, {c})
  <2>1. /\ c \in Live(scanConfig) /\ scanConfig[c] \in ScanConfigObjects
        /\ r \in Live(repo) /\ r \in Repos /\ repo[r] \in RepoObjects
    BY <1>0, <1>4 DEF updateScanConfig_WithFlag, ParentsStored, LiveAreObjects
  <2>2. /\ FlagReadable(c) /\ flag[f] = NewId
        /\ scanConfig' = [scanConfig EXCEPT ![c] = cnew]
        /\ flag' = [g \in Flags |->
                      IF g = f THEN fobj
                      ELSE IF g = scanConfig[c].FlagId
                      THEN [flag[g] EXCEPT !.UsedByScanConfigIds = @ \ {c}]
                      ELSE flag[g]]
        /\ repo' = [repo EXCEPT ![r] = robj]
        /\ UNCHANGED <<inMemoryOnly, dockerfile, image>>
    BY <1>4 DEF updateScanConfig_WithFlag
  <2>3. /\ Renamed(c, n) \in ScanConfigObjects
        /\ Renamed(c, n).ParentId = scanConfig[c].ParentId
        /\ Renamed(c, n).DockerImageIdsThatUse = scanConfig[c].DockerImageIdsThatUse
    BY <2>1 DEF Renamed, ScanConfigObjects
  <2>4. /\ cnew \in ScanConfigObjects /\ cnew.ParentId = scanConfig[c].ParentId
        /\ cnew.DockerImageIdsThatUse = scanConfig[c].DockerImageIdsThatUse
    BY <2>3 DEF ScanConfigObjects
  <2> HIDE DEF r, cnew
  <2>5. fobj \in FlagObjects /\ fobj.ParentId = r
    BY <2>1 DEF NewFlag, FlagObjects
  <2>6. /\ robj \in RepoObjects /\ robj.DockerfileIds = DockerfileLists[r]
        /\ robj.DockerImageIds = DockerImageLists[r]
        /\ robj.ScanConfigIds = ScanConfigLists[r] /\ robj.FlagIds = FlagLists[r] \cup {f}
    BY <1>0, <2>1, ListsOf DEF RepoObjects
  <2> HIDE DEF fobj, robj
  <2>7. RepoLists(r, DockerfileLists[r], DockerImageLists[r], ScanConfigLists[r], FlagLists[r] \cup {f})
    BY <1>0, <2>1, <2>2, <2>6, RepoStored
  <2>8. scanConfig'[c] = cnew /\ \A y \in ScanConfigs \ {c} : scanConfig'[y] = scanConfig[y]
    BY <1>0, <2>2 DEF TypeOK
  <2>9. Kept(scanConfig, scanConfig')
    BY <1>0, <2>1, <2>4, <2>8, ScanConfigWritten
  <2>10. Added(flag, flag', f, r)
    <3>1. f \notin Live(flag)
      BY <2>2 DEF Live
    <3>2. \A g \in Flags : g = scanConfig[c].FlagId =>
            /\ flag[g] \in FlagObjects
            /\ [flag[g] EXCEPT !.UsedByScanConfigIds = @ \ {c}] \in FlagObjects
            /\ [flag[g] EXCEPT !.UsedByScanConfigIds = @ \ {c}].ParentId = flag[g].ParentId
      BY <1>0, <2>2, RepoConstants DEF FlagReadable, LiveAreObjects, FlagObjects
    <3>3. flag'[f] = fobj
      BY <2>2
    <3>4. \A g \in Flags \ {f} : flag'[g] \in FlagObjects <=> flag[g] \in FlagObjects
      BY <2>2, <3>2
    <3>5. \A g \in Flags \ {f} : flag[g] \in FlagObjects => flag'[g].ParentId = flag[g].ParentId
      BY <2>2, <3>2
    <3>6. Live(flag') = Live(flag) \cup {f}
      BY <1>0, <2>5, <3>3, <3>4 DEF LiveAreObjects
    <3> QED  BY <1>0, <2>5, <3>1, <3>3, <3>5, <3>6 DEF Added, LiveAreObjects
  <2>11. Families'
    <3>1. Follows(~inMemoryOnly, r, dockerfile, dockerfile', DockerfileLists[r], DockerfileLists[r])
      BY <2>2, FollowsSame
    <3>2. Follows(~inMemoryOnly, r, image, image', DockerImageLists[r], DockerImageLists[r])
      BY <2>2, FollowsSame
    <3>3. Follows(~inMemoryOnly, r, scanConfig, scanConfig', ScanConfigLists[r], ScanConfigLists[r])
      BY <2>9, FollowsKept
    <3>4. Follows(~inMemoryOnly, r, flag, flag', FlagLists[r], FlagLists[r] \cup {f})
      BY <2>10, FollowsAdded
    <3> QED  BY <1>0, <2>2, <2>7, <3>1, <3>2, <3>3, <3>4, FamiliesFollow
  <2>12. LinksSame
    BY <1>0, <2>1, <2>2, <2>4, <2>8, LinksRewritten
  <2> QED  BY <1>0, <2>11, <2>12, LinksKept
<1>5. ASSUME NEW c \in ScanConfigs, NEW n \in Names \cup {NoName}, NEW f \in Flags, NEW p \in Paths,
             updateScanConfig_Fails(c, n, f, p)
      PROVE  Links'
  <2> DEFINE r == scanConfig[c].ParentId
             robj == [repo[r] EXCEPT !.FlagIds = @ \cup {f}]
             fobj == NewFlag(r, n, p, {})
  <2>1. /\ c \in Live(scanConfig) /\ scanConfig[c] \in ScanConfigObjects
        /\ r \in Live(repo) /\ r \in Repos /\ repo[r] \in RepoObjects
    BY <1>0, <1>5 DEF updateScanConfig_Fails, ParentsStored, LiveAreObjects
  <2>2. /\ inMemoryOnly /\ flag[f] = NewId
        /\ scanConfig' = [scanConfig EXCEPT ![c] = Renamed(c, n)]
        /\ flag' = [flag EXCEPT ![f] = fobj]
        /\ UNCHANGED repo \/ repo' = [repo EXCEPT ![r] = robj]
        /\ UNCHANGED <<inMemoryOnly, dockerfile, image>>
    BY <1>5 DEF updateScanConfig_Fails
  <2>3. /\ Renamed(c, n) \in ScanConfigObjects
        /\ Renamed(c, n).ParentId = scanConfig[c].ParentId
        /\ Renamed(c, n).DockerImageIdsThatUse = scanConfig[c].DockerImageIdsThatUse
    BY <2>1 DEF Renamed, ScanConfigObjects
  <2> HIDE DEF r
  <2>4. fobj \in FlagObjects /\ fobj.ParentId = r
    BY <2>1 DEF NewFlag, FlagObjects
  <2>5. /\ robj \in RepoObjects /\ robj.DockerfileIds = DockerfileLists[r]
        /\ robj.DockerImageIds = DockerImageLists[r]
        /\ robj.ScanConfigIds = ScanConfigLists[r] /\ robj.FlagIds = FlagLists[r] \cup {f}
    BY <1>0, <2>1, ListsOf DEF RepoObjects
  <2> HIDE DEF fobj, robj
  <2>6. /\ scanConfig'[c] = Renamed(c, n)
        /\ \A y \in ScanConfigs \ {c} : scanConfig'[y] = scanConfig[y]
        /\ flag'[f] = fobj /\ \A y \in Flags \ {f} : flag'[y] = flag[y]
    BY <1>0, <2>2 DEF TypeOK
  <2>7. Kept(scanConfig, scanConfig')
    BY <1>0, <2>1, <2>3, <2>6, ScanConfigWritten
  <2>8. Added(flag, flag', f, r)
    BY <1>0, <2>2, <2>4, <2>6, FlagAdded
  <2>9. /\ Follows(~inMemoryOnly, r, dockerfile, dockerfile', DockerfileLists[r], DockerfileLists[r])
        /\ Follows(~inMemoryOnly, r, image, image', DockerImageLists[r], DockerImageLists[r])
        /\ Follows(~inMemoryOnly, r, scanConfig, scanConfig', ScanConfigLists[r], ScanConfigLists[r])
    BY <2>2, <2>7, FollowsSame, FollowsKept
  <2>10. Families'
    <3>1. CASE UNCHANGED repo
      <4>1. RepoLists(r, DockerfileLists[r], DockerImageLists[r], ScanConfigLists[r], FlagLists[r])
        BY <1>0, <2>1, <3>1, RepoUnchanged, ListsOf
      <4>2. Follows(~inMemoryOnly, r, flag, flag', FlagLists[r], FlagLists[r])
        BY <2>2, <2>8, FollowsAdded
      <4> QED  BY <1>0, <2>2, <2>9, <4>1, <4>2, FamiliesFollow
    <3>2. CASE repo' = [repo EXCEPT ![r] = robj]
      <4>1. RepoLists(r, DockerfileLists[r], DockerImageLists[r], ScanConfigLists[r],
                      FlagLists[r] \cup {f})
        BY <1>0, <2>1, <2>5, <3>2, RepoStored
      <4>2. Follows(~inMemoryOnly, r, flag, flag', FlagLists[r], FlagLists[r] \cup {f})
        BY <2>8, FollowsAdded
      <4> QED  BY <1>0, <2>2, <2>9, <4>1, <4>2, FamiliesFollow
    <3> QED  BY <2>2, <3>1, <3>2
  <2>11. LinksSame
    BY <1>0, <2>1, <2>2, <2>3, <2>6, LinksRewritten
  <2> QED  BY <1>0, <2>10, <2>11, LinksKept
<1>6. ASSUME NEW c \in ScanConfigs, NEW i \in Images,
             useScanConfigForImage(c, i) \/ stopUsingScanConfigForImage(c, i)
      PROVE  Links'
  <2>1. PICK use \in BOOLEAN :
          /\ c \in Live(scanConfig) /\ i \in Live(image)
          /\ scanConfig' = [scanConfig EXCEPT ![c].DockerImageIdsThatUse =
                              IF use THEN @ \cup {i} ELSE @ \ {i}]
          /\ image' = [image EXCEPT ![i].ScanConfigsToUse =
                         IF use THEN @ \cup {c} ELSE @ \ {c}]
          /\ UNCHANGED <<inMemoryOnly, repo, dockerfile, flag>>
    BY <1>6 DEF useScanConfigForImage, stopUsingScanConfigForImage
  <2> DEFINE cids == IF use THEN scanConfig[c].DockerImageIdsThatUse \cup {i}
                            ELSE scanConfig[c].DockerImageIdsThatUse \ {i}
             iids == IF use THEN image[i].ScanConfigsToUse \cup {c}
                            ELSE image[i].ScanConfigsToUse \ {c}
             cnew == [scanConfig[c] EXCEPT !.DockerImageIdsThatUse = cids]
             inew == [image[i] EXCEPT !.ScanConfigsToUse = iids]
  <2>2. scanConfig[c] \in ScanConfigObjects /\ image[i] \in ImageObjects
    BY <1>0, <2>1 DEF LiveAreObjects
  <2>3. scanConfig' = [scanConfig EXCEPT ![c] = cnew] /\ image' = [image EXCEPT ![i] = inew]
    BY <2>1
  <2>4. cids \in SUBSET (Images \cup Dockerfiles) /\ iids \in SUBSET ScanConfigs
    BY <2>2 DEF ScanConfigObjects, ImageObjects
  <2>5. /\ i \in cids <=> c \in iids
        /\ \A j \in Images \ {i} : j \in cids <=> j \in scanConfig[c].DockerImageIdsThatUse
        /\ \A y \in ScanConfigs \ {c} : y \in iids <=> y \in image[i].ScanConfigsToUse
    OBVIOUS
  <2> HIDE DEF cids, iids
  <2>6. /\ cnew \in ScanConfigObjects /\ cnew.ParentId = scanConfig[c].ParentId
        /\ cnew.DockerImageIdsThatUse = cids
        /\ inew \in ImageObjects /\ inew.ParentId = image[i].ParentId
        /\ inew.ScanConfigsToUse = iids
    BY <2>2, <2>4 DEF ScanConfigObjects, ImageObjects
  <2> HIDE DEF cnew, inew
  <2>7. /\ scanConfig'[c] = cnew /\ \A y \in ScanConfigs \ {c} : scanConfig'[y] = scanConfig[y]
        /\ image'[i] = inew /\ \A y \in Images \ {i} : image'[y] = image[y]
    BY <1>0, <2>3 DEF TypeOK
  <2>8. Kept(scanConfig, scanConfig') /\ Kept(image, image')
    BY <1>0, <2>1, <2>6, <2>7, ScanConfigWritten, ImageWritten
  <2>9. Families'
    BY <1>0, <2>1, <2>8, FamiliesKept, UnchangedKept
  <2>10. /\ Live(scanConfig') = Live(scanConfig) /\ Live(image') = Live(image)
         /\ Live(scanConfig) \subseteq ScanConfigs /\ Live(image) \subseteq Images
    BY <1>0, <2>8 DEF Kept, LiveAreObjects
  <2>11. Grows(scanConfig, scanConfig') /\ Grows(image, image')
    BY <1>0, <2>1, <2>6, <2>7, ScanConfigsGrow, ImagesGrow
  <2>12. LinksHold'
    <3>1. ASSUME NEW y \in Live(scanConfig'), NEW j \in Live(image')
          PROVE  j \in scanConfig'[y].DockerImageIdsThatUse <=> y \in image'[j].ScanConfigsToUse
      BY <1>0, <2>5, <2>6, <2>7, <2>10, <3>1 DEF LinksHold, ScanLinksAgree
    <3>2. ASSUME NEW y \in Live(scanConfig'), NEW j \in Images,
                 j \in scanConfig'[y].DockerImageIdsThatUse
          PROVE  j \in Known(image')
      <4>1. j \in Known(image)
        BY <1>0, <2>1, <2>5, <2>6, <2>7, <2>10, <3>2, KnownIds DEF LinksHold
      <4> QED  BY <2>11, <4>1 DEF Grows
    <3>3. ASSUME NEW j \in Live(image'), NEW y \in image'[j].ScanConfigsToUse
          PROVE  y \in Known(scanConfig')
      <4>1. CASE j # i \/ y = c
        BY <1>0, <2>1, <2>7, <2>10, <2>11, <3>3, <4>1, KnownIds DEF LinksHold, Grows
      <4>2. CASE j = i /\ y # c
        <5>1. y \in ScanConfigs
          BY <2>4, <2>6, <2>7, <3>3, <4>2
        <5>2. y \in Known(scanConfig)
          BY <1>0, <2>1, <2>5, <2>6, <2>7, <3>3, <4>2, <5>1 DEF LinksHold
        <5> QED  BY <2>11, <5>2 DEF Grows
      <4> QED  BY <4>1, <4>2
    <3> QED  BY <3>1, <3>2, <3>3 DEF LinksHold, ScanLinksAgree
  <2> QED  BY <2>9, <2>12
<1>7. ASSUME NEW c \in ScanConfigs, NEW d \in Dockerfiles,
             useScanConfigForImage_NotAnImage(c, d) \/ stopUsingScanConfigForImage_NotAnImage(c, d)
      PROVE  Links'
  <2>1. PICK use \in BOOLEAN :
          /\ c \in Live(scanConfig)
          /\ scanConfig' = [scanConfig EXCEPT ![c].DockerImageIdsThatUse =
                              IF use THEN @ \cup {d} ELSE @ \ {d}]
          /\ UNCHANGED <<inMemoryOnly, repo, dockerfile, image, flag>>
    BY <1>7 DEF useScanConfigForImage_NotAnImage, stopUsingScanConfigForImage_NotAnImage
  <2> DEFINE cids == IF use THEN scanConfig[c].DockerImageIdsThatUse \cup {d}
                            ELSE scanConfig[c].DockerImageIdsThatUse \ {d}
             cnew == [scanConfig[c] EXCEPT !.DockerImageIdsThatUse = cids]
  <2>2. scanConfig[c] \in ScanConfigObjects
    BY <1>0, <2>1 DEF LiveAreObjects
  <2>3. scanConfig' = [scanConfig EXCEPT ![c] = cnew]
    BY <2>1
  <2>4. cids \in SUBSET (Images \cup Dockerfiles)
    BY <2>2 DEF ScanConfigObjects
  <2>5. \A j \in Images : j \in cids <=> j \in scanConfig[c].DockerImageIdsThatUse
    BY RepoConstants
  <2> HIDE DEF cids
  <2>6. /\ cnew \in ScanConfigObjects /\ cnew.ParentId = scanConfig[c].ParentId
        /\ cnew.DockerImageIdsThatUse = cids
    BY <2>2, <2>4 DEF ScanConfigObjects
  <2> HIDE DEF cnew
  <2>7. /\ scanConfig'[c] = cnew /\ \A y \in ScanConfigs \ {c} : scanConfig'[y] = scanConfig[y]
    BY <1>0, <2>3 DEF TypeOK
  <2>8. Kept(scanConfig, scanConfig')
    BY <1>0, <2>1, <2>6, <2>7, ScanConfigWritten
  <2>9. Families'
    BY <1>0, <2>1, <2>8, FamiliesKept, UnchangedKept
  <2>10. /\ Live(scanConfig') = Live(scanConfig) /\ Live(image') = Live(image)
         /\ Live(scanConfig) \subseteq ScanConfigs /\ Live(image) \subseteq Images
    BY <1>0, <2>1, <2>8 DEF Kept, LiveAreObjects
  <2>11. Grows(scanConfig, scanConfig')
    BY <1>0, <2>1, <2>6, <2>7, ScanConfigsGrow
  <2>12. LinksHold'
    <3>1. ASSUME NEW y \in Live(scanConfig'), NEW j \in Images
          PROVE  j \in scanConfig'[y].DockerImageIdsThatUse
                   <=> j \in scanConfig[y].DockerImageIdsThatUse
      BY <2>5, <2>6, <2>7, <2>10, <3>1
    <3> QED  BY <1>0, <2>1, <2>10, <2>11, <3>1 DEF LinksHold, ScanLinksAgree, Grows
  <2> QED  BY <2>9, <2>12
<1> QED  BY <1>1, <1>2, <1>3, <1>4, <1>5, <1>6, <1>7 DEF ScanConfigStep

-----------------------------------------------------------------------------
(***************************************************************************)
(* The inductive invariant, and what follows from it.                      *)
(***************************************************************************)

\* Nothing is stored at first.
LEMMA StructureInit == Init => Structure
<1> SUFFICES ASSUME Init PROVE Structure
  OBVIOUS
<1>1. TypeOK
  BY DEF Init, TypeOK
<1>2. /\ Live(repo) = {} /\ Live(dockerfile) = {} /\ Live(image) = {}
      /\ Live(scanConfig) = {} /\ Live(flag) = {}
  BY DEF Init, Live
<1>3. ParentsStored /\ ChildrenListed /\ LinksHold
  BY <1>2 DEF ParentsStored, ChildrenListed, LinksHold, ScanLinksAgree
<1> QED  BY <1>1, <1>3 DEF Structure

\* Every step, failing requests included, keeps the structure.
LEMMA StructureNext == Structure /\ [Next]_vars => Structure'
<1> SUFFICES ASSUME Structure, [Next]_vars PROVE Structure'
  OBVIOUS
<1>1. TypeOK'
  BY NextTypes
<1>2. Links'
  <2>1. CASE UNCHANGED <<inMemoryOnly, repo, dockerfile, image, scanConfig, flag>>
    <3>1. TypeOK /\ Families /\ LinksHold
      BY FamiliesAgree DEF Structure
    <3>2. Families'
      BY <2>1, <3>1, FamiliesKept, UnchangedKept
    <3> QED  BY <1>1, <2>1, <3>1, <3>2, LinksKept DEF Links, LinksSame, Grows
  <2>2. CASE \E p \in Paths : AbandonedUpload(p)
    BY <2>1, <2>2 DEF AbandonedUpload
  <2>3. CASE UNCHANGED vars
    BY <2>1, <2>3 DEF vars
  <2> QED  BY <1>1, <2>2, <2>3, RepoStepLinks, DockerStepLinks, ScanConfigStepLinks,
              FlagStepLinks DEF Next
<1> QED  BY <1>1, <1>2, FamiliesAgreeNext DEF Links, Structure

\* Types, parents, lists and links are right in every state: none of them is
\* inductive without the others.
THEOREM StructureHolds == Spec => []Structure
BY StructureInit, StructureNext, PTL DEF Spec

\* Every object keeps the fields and kinds of ids of its Go type.
THEOREM TypeCorrect == Spec => []TypeOK
<1>1. Structure => TypeOK
  BY DEF Structure
<1> QED  BY <1>1, StructureHolds, PTL

\* Whatever the requests and their failures, a repo lists only resources that
\* are stored and its own, and with redis all of them.
THEOREM ListsResolve == Spec => []ChildrenListed
<1>1. Structure => ChildrenListed
  BY DEF Structure
<1> QED  BY <1>1, StructureHolds, PTL

\* A stored configuration names a stored image exactly if the image names it, for
\* any number of both, whatever ids a loop misses while it shortens a list.
THEOREM LinksAgree == Spec => []ScanLinksAgree
<1>1. Structure => ScanLinksAgree
  BY DEF Structure, LinksHold
<1> QED  BY <1>1, StructureHolds, PTL

=============================================================================
