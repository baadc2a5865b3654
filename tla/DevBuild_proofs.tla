-------------------------- MODULE DevBuild_proofs --------------------------
(***************************************************************************)
(* Theorems about DevBuild, for any number of terminals, versions,         *)
(* submodules and disturbances.                                            *)
(***************************************************************************)
EXTENDS DevBuild, TLAPS

-----------------------------------------------------------------------------
(* Types.  A download or an extraction works in a directory that is there. *)

InDirectory == \A t \in Terminals : pc[t] \in {"wget", "tar", "untar"} => directory

Types == TypeOK /\ InDirectory

LEMMA InitTypes == Init => Types
  <1> SUFFICES ASSUME Init PROVE Types
    OBVIOUS
  <1> USE TerminalsAssumption, SubmodulesAssumption, DisturbancesAssumption
      DEF Init, ContainerInit, ToolchainInit, PatchInit, None, Index
  <1>1. /\ pc \in [Terminals -> Entering \cup Making \cup {"host", "shell"}]
        /\ advice \in [Terminals -> {"make", "distclean", "untar", "update", "restore"}]
        /\ building \in [Terminals -> Version \cup {None}]
    OBVIOUS
  <1>2. 1 \in Index
    OBVIOUS
  <1>3. /\ expected \in [Index -> BOOLEAN] /\ tree \in [Index -> {"clean", "torn", "patched"}]
        /\ turn \in [Terminals -> Index]
    BY <1>2
  <1>4. InDirectory
    BY DEF InDirectory
  <1>5. running \in BOOLEAN /\ raced \in BOOLEAN /\ directory \in BOOLEAN /\ crossed \in BOOLEAN
    OBVIOUS
  <1>6. ~running /\ files = "none" /\ disturbances \in 0 .. MaxDisturbances
    OBVIOUS
  <1>7. {dockerfile, gcc} \subseteq Version /\ {image, container, installed} \subseteq Version \cup {None}
    OBVIOUS
  <1> QED BY <1>1, <1>3, <1>4, <1>5, <1>6, <1>7 DEF Types, TypeOK

USE TerminalsAssumption, DisturbancesAssumption

LEMMA FirstIndex == 1 \in Index
  BY SubmodulesAssumption DEF Index

\* enter-container.sh changes neither the toolchain nor the submodules.
LEMMA ContainerTypes ==
  ASSUME Types, NEW t \in Terminals,
         Container(Enter(t) \/ EnterSteps(t) \/ BuildImage(t) \/ BuildImageFails(t)),
         Same, disturbances' \in 0 .. MaxDisturbances
  PROVE  Types'
  <1> USE DEF Types, TypeOK, InDirectory, Container, Same, Goto, Entering, Making, Inside, None,
              toolchainVars, patchVars, containerVars
  <1>1. CASE Enter(t) BY <1>1 DEF Enter
  <1>2. CASE CheckImage(t) BY <1>2 DEF CheckImage
  <1>3. CASE RemoveImage(t)
    <2>1. CASE container = image /\ container' = None /\ running' = FALSE
               /\ pc' = [u \in Terminals |-> IF u = t THEN "check missing"
                                             ELSE IF pc[u] \in Inside THEN "host" ELSE pc[u]]
               /\ advice' = [u \in Terminals |-> "make"]
      <3>1. pc' \in [Terminals -> Entering \cup Making \cup {"host", "shell"}]
        BY <2>1
      <3>2. advice' \in [Terminals -> {"make", "distclean", "untar", "update", "restore"}]
        BY <2>1
      <3>3. InDirectory'
        BY <1>3, <2>1 DEF RemoveImage
      <3> QED BY <1>3, <2>1, <3>1, <3>2, <3>3 DEF RemoveImage
    <2>2. CASE Goto(t, "check missing") /\ UNCHANGED <<container, running, advice>>
      BY <1>3, <2>2, ZenonT(60) DEF RemoveImage
    <2> QED BY <1>3, <2>1, <2>2 DEF RemoveImage
  <1>4. CASE CheckMissing(t)
    <2>1. CASE image = None /\ building' = [building EXCEPT ![t] = dockerfile] /\ Goto(t, "build")
      <3>1. dockerfile \in Version
        OBVIOUS
      <3>2. building' \in [Terminals -> Version \cup {None}]
        BY <2>1, <3>1
      <3> QED BY <1>4, <2>1, <3>2 DEF CheckMissing
    <2>2. CASE image # None /\ building' = building /\ Goto(t, "check container")
      BY <1>4, <2>2 DEF CheckMissing
    <2> QED BY <1>4, <2>1, <2>2 DEF CheckMissing
  <1>5. CASE BuildImage(t) BY <1>5, ZenonT(60) DEF BuildImage
  <1>6. CASE BuildImageFails(t) BY <1>6 DEF BuildImageFails
  <1>7. CASE CheckContainer(t) BY <1>7 DEF CheckContainer
  <1>8. CASE RunContainer(t)
    <2>1. CASE container' = image /\ image # None /\ running' = TRUE /\ Goto(t, "check running")
      BY <1>8, <2>1, ZenonT(60) DEF RunContainer
    <2>2. CASE Goto(t, "host") /\ UNCHANGED <<container, running>>
      BY <1>8, <2>2 DEF RunContainer
    <2> QED BY <1>8, <2>1, <2>2 DEF RunContainer
  <1>9. CASE CheckRunning(t) BY <1>9 DEF CheckRunning
  <1>10. CASE StartContainer(t) BY <1>10 DEF StartContainer
  <1>11. CASE Exec(t) BY <1>11 DEF Exec
  <1> QED BY <1>1, <1>2, <1>3, <1>4, <1>5, <1>6, <1>7, <1>8, <1>9, <1>10, <1>11
          DEF EnterSteps

\* Where the steps of the other scripts may lead.
LEMMA EndsTypes ==
  ASSUME TypeOK, NEW t \in Terminals,
         NEW next \in {"make", "distclean", "untar", "update", "restore"}, Ends(t, next)
  PROVE  /\ pc' \in [Terminals -> Entering \cup Making \cup {"host", "shell"}]
         /\ advice' \in [Terminals -> {"make", "distclean", "untar", "update", "restore"}]
         /\ \A u \in Terminals : pc'[u] = (IF u = t THEN "shell" ELSE pc[u])
  BY DEF TypeOK, Ends, Goto

LEMMA PatchedTypes ==
  ASSUME TypeOK, NEW t \in Terminals, Patched(t)
  PROVE  /\ pc' \in [Terminals -> Entering \cup Making \cup {"host", "shell"}]
         /\ turn' \in [Terminals -> Index]
         /\ \A u \in Terminals : pc'[u] = (IF u # t THEN pc[u]
                                        ELSE IF turn[t] < Len(Submodules) THEN "check submodule"
                                        ELSE "modules")
  <1>1. PICK n \in Nat \ {0} : Len(Submodules) = n /\ Index = 1 .. n
    BY SubmodulesAssumption DEF Index
  <1>2. turn \in [Terminals -> 1 .. n] /\ pc \in [Terminals -> Entering \cup Making \cup {"host", "shell"}]
    BY <1>1 DEF TypeOK
  <1>3. CASE turn[t] < n
    <2>1. turn[t] + 1 \in 1 .. n
      BY <1>2, <1>3
    <2>2. turn' = [turn EXCEPT ![t] = turn[t] + 1] /\ pc' = [pc EXCEPT ![t] = "check submodule"]
      <3>1. turn[t] # Len(Submodules)
        BY <1>1, <1>2, <1>3
      <3> QED BY <3>1, Zenon DEF Patched, Goto
    <2> QED BY <1>1, <1>2, <1>3, <2>1, <2>2 DEF Making
  <1>4. CASE turn[t] = n
    <2>1. turn' = [turn EXCEPT ![t] = 1] /\ pc' = [pc EXCEPT ![t] = "modules"]
      <3>1. ~(turn[t] < Len(Submodules))
        BY <1>1, <1>2, <1>4
      <3> QED BY <3>1, Zenon DEF Patched, Goto
    <2>2. 1 \in 1 .. n
      OBVIOUS
    <2>3. turn' \in [Terminals -> 1 .. n]
      BY <1>2, <2>1, <2>2
    <2>4. ~(turn[t] < Len(Submodules))
      BY <1>1, <1>2, <1>4
    <2> QED BY <1>1, <1>2, <2>1, <2>3, <2>4 DEF Making
  <1> QED BY <1>1, <1>2, <1>3, <1>4 DEF Patched

LEMMA ToolTypes ==
  ASSUME Types, NEW t \in Terminals,
         \/ ToolchainSteps(t) \/ Download(t) \/ DownloadFails(t) \/ TarFails(t)
         \/ MakeDistclean(t) \/ Untar(t),
         UNCHANGED <<containerVars, patchVars>>, crossed' \in BOOLEAN,
         Same, disturbances' \in 0 .. MaxDisturbances
  PROVE  Types'
  <1> USE DEF Types, TypeOK, InDirectory, Same, Goto, Ends, Entering, Making, Inside, None,
              toolchainVars, patchVars, containerVars
  <1>1. CASE CheckDirectory(t) BY <1>1 DEF CheckDirectory
  <1>2. CASE Download(t) BY <1>2 DEF Download
  <1>3. CASE DownloadFails(t) BY <1>3, EndsTypes DEF DownloadFails, DownloadError
  <1>4. CASE TarEnds(t) BY <1>4 DEF TarEnds
  <1>5. CASE DirectoryGone(t) BY <1>5, EndsTypes DEF DirectoryGone, DownloadError
  <1>6. CASE CheckVersion(t) BY <1>6 DEF CheckVersion
  <1>7. CASE MakeDistclean(t)
    <2>1. pc' \in [Terminals -> Entering \cup Making \cup {"host", "shell"}]
      BY <1>7 DEF MakeDistclean, Removing
    <2>2. InDirectory'
      BY <1>7 DEF MakeDistclean, Removing
    <2>3. files' \in {"none", "torn", "whole"} /\ (~directory' => files' = "none")
      BY <1>7 DEF MakeDistclean
    <2> QED BY <1>7, <2>1, <2>2, <2>3 DEF MakeDistclean
  <1>8. CASE Distclean(t) BY <1>8 DEF Distclean, Removing
  <1>9. CASE Untar(t)
    <2>1. CASE directory /\ files' = "torn" /\ installed' = gcc /\ Goto(t, "untar")
               /\ UNCHANGED <<advice, directory>>
      BY <1>9, <2>1
    <2>2. CASE Ends(t, "make") /\ UNCHANGED toolchainVars
      BY <1>9, <2>2, EndsTypes
    <2> QED BY <1>9, <2>1, <2>2 DEF Untar
  <1>10. CASE TarFails(t) BY <1>10, EndsTypes DEF TarFails, DownloadError
  <1>11. CASE UntarEnds(t) BY <1>11, EndsTypes DEF UntarEnds
  <1> QED BY <1>1, <1>2, <1>3, <1>4, <1>5, <1>6, <1>7, <1>8, <1>9, <1>10, <1>11 DEF ToolchainSteps

LEMMA PatchTypes ==
  ASSUME Types, NEW t \in Terminals,
         PatchSteps(t) \/ UpdateSubmodules(t) \/ RestoreSubmodules(t),
         UNCHANGED <<containerVars, toolchainVars>>, crossed' \in BOOLEAN,
         Same, disturbances' \in 0 .. MaxDisturbances
  PROVE  Types'
  <1> USE DEF Types, TypeOK, InDirectory, Same, toolchainVars, patchVars, containerVars
  <1>1. CASE CheckSubmodule(t)
    <2> USE <1>1 DEF CheckSubmodule
    <2>1. CASE (Fails(t, "update") \/ Fails(t, "restore")) /\ tree' = tree
      <3>1. turn' \in [Terminals -> Index]
        BY <2>1, FirstIndex DEF Fails
      <3> QED BY <2>1, <3>1, EndsTypes DEF Fails
    <2>2. CASE Patched(t) /\ tree' = tree
      BY <2>2, PatchedTypes DEF Patched
    <2>3. CASE /\ tree' = [tree EXCEPT ![turn[t]] = "torn"]
               /\ Goto(t, "write") /\ UNCHANGED <<advice, turn>>
      BY <2>3 DEF Goto, Making
    <2> QED BY <2>1, <2>2, <2>3
  <1>2. CASE Write(t)
    <2>1. tree' \in [Index -> {"clean", "torn", "patched"}]
      BY <1>2 DEF Write
    <2>2. advice' = advice /\ expected' = expected /\ Patched(t)
      BY <1>2 DEF Write, Patched
    <2> QED BY <2>1, <2>2, PatchedTypes
  <1>3. CASE UpdateSubmodules(t) BY <1>3, EndsTypes DEF UpdateSubmodules
  <1>4. CASE RestoreSubmodules(t) BY <1>4, EndsTypes DEF RestoreSubmodules
  <1> QED BY <1>1, <1>2, <1>3, <1>4 DEF PatchSteps

\* The other steps of a developer, and what happens to all of them.
LEMMA MakeTypes ==
  ASSUME Types, NEW t \in Terminals,
         MakeAll(t) \/ BuildModules(t) \/ Stitched(t),
         Same, disturbances' \in 0 .. MaxDisturbances
  PROVE  Types'
  <1> USE DEF Types, TypeOK, InDirectory, Same, Crosses, toolchainVars, patchVars, containerVars
  <1>1. CASE MakeAll(t)
    <2>1. turn' \in [Terminals -> Index]
      BY <1>1, FirstIndex DEF MakeAll
    <2> QED BY <1>1, <2>1 DEF MakeAll, Goto, Making
  <1>2. CASE BuildModules(t)
    <2>1. CASE Goto(t, "stitched") /\ advice' = advice
      BY <1>2, <2>1 DEF BuildModules, Goto, Making
    <2>2. CASE Ends(t, "make")
      BY <1>2, <2>2, EndsTypes DEF BuildModules
    <2> QED BY <1>2, <2>1, <2>2 DEF BuildModules
  <1>3. CASE Stitched(t)
    BY <1>3, EndsTypes DEF Stitched
  <1> QED BY <1>1, <1>2, <1>3

LEMMA StopTypes ==
  ASSUME Types,
         NEW T \in SUBSET Terminals, NEW next \in [Terminals -> {"shell", "host"}],
         Stop(T, next), running' \in {running, FALSE},
         Same, disturbances' \in 0 .. MaxDisturbances
  PROVE  Types'
  <1> USE DEF Stop, Same, toolchainVars, patchVars
  <1>1. pc' \in [Terminals -> Entering \cup Making \cup {"host", "shell"}]
    BY DEF Types, TypeOK
  <1>2. building' \in [Terminals -> Version \cup {None}]
    BY DEF Types, TypeOK
  <1>3. InDirectory'
    BY DEF Types, TypeOK, InDirectory
  <1>4. running' \in BOOLEAN /\ (running' => container' # None)
    <2>1. running \in BOOLEAN /\ (running => container # None)
      BY DEF Types, TypeOK
    <2>2. container' = container /\ running' \in {running, FALSE}
      OBVIOUS
    <2>3. CASE running' = running
      BY <2>1, <2>2, <2>3, Zenon
    <2>4. CASE running' = FALSE
      BY <2>4
    <2> QED BY <2>2, <2>3, <2>4
  <1>5. advice' \in [Terminals -> {"make", "distclean", "untar", "update", "restore"}]
    BY DEF Types, TypeOK
  <1> QED BY <1>1, <1>2, <1>3, <1>4, <1>5 DEF Types, TypeOK

LEMMA PullTypes ==
  ASSUME Types, Pull
  PROVE  Types'
  <1>1. disturbances' \in 0 .. MaxDisturbances
    BY DEF Types, TypeOK, Pull, Disturbs
  <1>2. expected' \in [Index -> BOOLEAN]
    BY DEF Types, TypeOK, Pull
  <1> QED BY <1>1, <1>2 DEF Types, TypeOK, InDirectory, Pull, toolchainVars, containerVars

LEMMA NextTypes ==
  ASSUME Types, [Next]_vars
  PROVE  Types'
  <1>1. ASSUME NEW t \in Terminals, Quiet \/ Disturbs
        PROVE  disturbances' \in 0 .. MaxDisturbances
    BY <1>1 DEF Types, TypeOK, Quiet, Disturbs
  <1>2. ASSUME NEW t \in Terminals, Runs(t)
        PROVE  Types'
    BY <1>1, <1>2, ContainerTypes, ToolTypes, PatchTypes, MakeTypes
    DEF Runs, Container, Tools, Patches, Types, TypeOK
  <1>3. ASSUME NEW t \in Terminals, CommandFails(t)
        PROVE  Types'
    BY <1>1, <1>3, ContainerTypes, ToolTypes DEF CommandFails, Container, Tools, Types, TypeOK
  <1>4. ASSUME NEW t \in Terminals, Crosses(t)
        PROVE  crossed' \in BOOLEAN
    BY <1>4 DEF Crosses
  <1>5. ASSUME NEW t \in Terminals, Follows(t)
        PROVE  Types'
    BY <1>1, <1>4, <1>5, ContainerTypes, ToolTypes, PatchTypes, MakeTypes DEF Follows, Container
  <1>6. ASSUME NEW t \in Terminals, Wanders(t)
        PROVE  Types'
    <2>1. CASE MakeDistclean(t) /\ Crosses(t) /\ UNCHANGED <<containerVars, patchVars>>
      BY <1>1, <1>4, <1>6, <2>1, ToolTypes DEF Wanders
    <2>2. CASE /\ pc[t] = "shell" /\ Goto(t, "host")
               /\ advice' = [advice EXCEPT ![t] = "make"]
               /\ UNCHANGED <<containerVars, toolchainVars, patchVars, crossed>>
      BY <1>1, <1>6, <2>2
      DEF Wanders, Types, TypeOK, InDirectory, Goto, Same, containerVars, toolchainVars, patchVars
    <2> QED BY <1>6, <2>1, <2>2 DEF Wanders
  <1>7. ASSUME NEW t \in Terminals, Interrupt(t)
        PROVE  Types'
    BY <1>1, <1>7, StopTypes DEF Interrupt
  <1>8. CASE HostRestart
    <2>1. disturbances' \in 0 .. MaxDisturbances
      BY <1>8 DEF HostRestart, Types, TypeOK, Disturbs
    <2> QED BY <1>8, <2>1, StopTypes DEF HostRestart
  <1>9. CASE UNCHANGED vars
    BY <1>9 DEF vars, Types, TypeOK, InDirectory, containerVars, toolchainVars, patchVars
  <1> QED BY <1>2, <1>3, <1>5, <1>6, <1>7, <1>8, <1>9, PullTypes DEF Next

(* Types hold, and no file is without its directory: whatever the          *)
(* terminals interrupt and remove.                                         *)
THEOREM TypesHold == Spec => []TypeOK
  <1>1. Types => TypeOK
    BY DEF Types
  <1> QED BY <1>1, InitTypes, NextTypes, PTL DEF Spec

-----------------------------------------------------------------------------
(* The container.  Until two scripts have overlapped, one at most is       *)
(* running; what it found out about the image stays true, and the          *)
(* container is made of the image.  No version is newer than the           *)
(* Dockerfile, so an outdated image stays outdated whatever is pulled.     *)

OneEnters == ~raced => \A t, u \in Terminals : pc[t] \in Entering /\ pc[u] \in Entering => t = u

Older == /\ image <= dockerfile /\ container <= dockerfile
         /\ \A t \in Terminals : building[t] <= dockerfile

FromImage ==
    ~raced => /\ container \in {None, image}
              /\ \A t \in Terminals : /\ pc[t] = "build" => image = None
                                      /\ pc[t] = "remove" => image \notin {None, dockerfile}

ContainerInv == OneEnters /\ Older /\ FromImage

\* What every step does that is none of a running enter-container.sh: it ends
\* commands only by a disturbance.
Elsewhere ==
    /\ UNCHANGED <<image, container, raced>>
    /\ dockerfile <= dockerfile'
    /\ \A u \in Terminals :
          /\ building'[u] \in {building[u], None}
          /\ pc'[u] \in Entering => pc'[u] = pc[u]
          /\ pc[u] \in Inside /\ disturbances' = disturbances => pc'[u] # "host"

LEMMA VersionsAreNumbers ==
  /\ \A v \in Version : v \in Nat \ {0}
  /\ \A v \in Version \cup {None} : v \in Nat
  BY DEF None

LEMMA Numbers ==
  ASSUME TypeOK
  PROVE  /\ dockerfile \in Nat \ {0} /\ gcc \in Nat \ {0} /\ image \in Nat /\ container \in Nat
         /\ \A u \in Terminals : building[u] \in Nat
  <1>1. /\ dockerfile \in Version /\ gcc \in Version
        /\ image \in Version \cup {None} /\ container \in Version \cup {None}
        /\ building \in [Terminals -> Version \cup {None}]
    BY DEF TypeOK
  <1>2. \A u \in Terminals : building[u] \in Version \cup {None}
    BY <1>1
  <1> QED BY <1>1, <1>2, VersionsAreNumbers

LEMMA InitContainer == Init => ContainerInv
  BY DEF Init, ContainerInit, ContainerInv, OneEnters, Older, FromImage, Entering, None

LEMMA ElsewhereKeeps ==
  ASSUME TypeOK, TypeOK', ContainerInv, Elsewhere
  PROVE  ContainerInv'
  <1> USE DEF ContainerInv, Elsewhere
  <1>1. OneEnters'
    BY DEF OneEnters
  <1>4. dockerfile' \in Nat
    <2>1. dockerfile' \in Version
      BY DEF TypeOK
    <2> QED BY <2>1, VersionsAreNumbers
  <1>2. Older'
    BY <1>4, Numbers DEF Older, None
  <1>3. FromImage'
    <2> SUFFICES ASSUME ~raced'
                 PROVE  FromImage'
      BY DEF FromImage
    <2>1. container' \in {None, image'}
      BY DEF FromImage
    <2>2. ASSUME NEW t \in Terminals, pc'[t] = "build"
          PROVE  image' = None
      BY <2>2 DEF FromImage, Entering
    <2>3. ASSUME NEW t \in Terminals, pc'[t] = "remove"
          PROVE  image' \notin {None, dockerfile'}
      <3>1. pc[t] = "remove" /\ image \notin {None, dockerfile}
        BY <2>3 DEF FromImage, Entering
      <3>2. image < dockerfile
        BY <3>1, Numbers DEF Older
      <3>3. image < dockerfile' /\ dockerfile' \in Nat
        BY <1>4, <3>2, Numbers
      <3> QED BY <3>1, <3>3, Numbers
    <2> QED BY <2>1, <2>2, <2>3 DEF FromImage
  <1> QED BY <1>1, <1>2, <1>3

\* One step of a terminal that runs the script.
LEMMA EnteringKeeps ==
  ASSUME TypeOK, ContainerInv, NEW t \in Terminals, pc[t] \in Entering,
         raced' = raced, dockerfile' = dockerfile,
         \A u \in Terminals \ {t} : pc'[u] \in Entering => pc'[u] = pc[u],
         image' \in {None, image, building[t]}, container' \in {None, container, image},
         \A u \in Terminals : building'[u] \in {building[u], None, dockerfile},
         ~raced => /\ container' \in {None, image'}
                   /\ pc'[t] = "build" => image' = None
                   /\ pc'[t] = "remove" => image' \notin {None, dockerfile}
  PROVE  ContainerInv'
  <1>1. OneEnters'
    BY DEF ContainerInv, OneEnters
  <1>2. Older'
    BY Numbers DEF ContainerInv, Older, None
  <1>3. ~raced => \A u \in Terminals \ {t} : pc'[u] \notin Entering
    BY DEF ContainerInv, OneEnters
  <1>4. FromImage'
    BY <1>3 DEF FromImage, Entering
  <1> QED BY <1>1, <1>2, <1>4 DEF ContainerInv

\* The steps of enter-container.sh.
LEMMA ScriptKeeps ==
  ASSUME TypeOK, ContainerInv, NEW t \in Terminals,
         Enter(t) \/ EnterSteps(t) \/ BuildImage(t) \/ BuildImageFails(t), Same
  PROVE  ContainerInv'
  <1> USE DEF Same, Goto, containerVars
  <1>1. /\ pc \in [Terminals -> Entering \cup Making \cup {"host", "shell"}]
        /\ building \in [Terminals -> Version \cup {None}]
    BY DEF TypeOK
  <1>2. ~raced => /\ container \in {None, image}
                  /\ pc[t] = "build" => image = None
                  /\ pc[t] = "remove" => image \notin {None, dockerfile}
    BY DEF ContainerInv, FromImage
  <1>3. CASE Enter(t)
    <2>1. OneEnters'
      BY <1>1, <1>3 DEF Enter, Others, ContainerInv, OneEnters
    <2>2. Older'
      BY <1>3 DEF Enter, ContainerInv, Older
    <2>3. FromImage'
      BY <1>1, <1>3 DEF Enter, ContainerInv, FromImage
    <2> QED BY <2>1, <2>2, <2>3 DEF ContainerInv
  <1>4. CASE CheckImage(t) \/ CheckContainer(t) \/ CheckRunning(t) \/ Exec(t)
    BY <1>1, <1>2, <1>4, EnteringKeeps
    DEF CheckImage, CheckContainer, CheckRunning, Exec, Entering
  <1>5. CASE RemoveImage(t)
    <2>1. ASSUME NEW u \in Terminals \ {t}, pc'[u] \in Entering
          PROVE  pc'[u] = pc[u]
      BY <1>1, <1>5, <2>1 DEF RemoveImage, Entering
    <2>2. container' \in {None, container} /\ (~raced => container' = None) /\ image' = None
      BY <1>2, <1>5 DEF RemoveImage
    <2>3. pc'[t] = "check missing" /\ pc[t] \in Entering
      BY <1>1, <1>5 DEF RemoveImage, Entering
    <2> QED BY <1>5, <2>1, <2>2, <2>3, EnteringKeeps DEF RemoveImage
  <1>6. CASE CheckMissing(t)
    BY <1>1, <1>2, <1>6, EnteringKeeps DEF CheckMissing, Entering
  <1>7. CASE BuildImage(t) \/ BuildImageFails(t)
    BY <1>1, <1>2, <1>7, EnteringKeeps DEF BuildImage, BuildImageFails, Entering
  <1>8. CASE RunContainer(t) \/ StartContainer(t)
    BY <1>1, <1>2, <1>8, EnteringKeeps DEF RunContainer, StartContainer, Entering
  <1> QED BY <1>3, <1>4, <1>5, <1>6, <1>7, <1>8 DEF EnterSteps

\* Every other step is Elsewhere.
LEMMA MakingElsewhere ==
  ASSUME TypeOK, NEW t \in Terminals, Same,
         pc[t] \in Making \/ pc[t] = "shell",
         \A u \in Terminals \ {t} : pc'[u] = pc[u] \/ pc'[u] = "gone",
         pc'[t] \in Making \/ pc'[t] = "shell",
         UNCHANGED containerVars
  PROVE  Elsewhere
  <1>1. dockerfile <= dockerfile'
    BY Numbers DEF Same
  <1>2. ASSUME NEW u \in Terminals
        PROVE  /\ pc'[u] \in Entering => pc'[u] = pc[u]
               /\ pc[u] \in Inside => pc'[u] # "host"
    BY DEF Making, Entering, Inside
  <1> QED BY <1>1, <1>2 DEF Elsewhere, containerVars

LEMMA ToolsElsewhere ==
  ASSUME TypeOK, NEW t \in Terminals, Same,
         \/ ToolchainSteps(t) \/ Download(t) \/ DownloadFails(t) \/ TarFails(t)
         \/ MakeDistclean(t) \/ Untar(t)
         \/ PatchSteps(t) \/ UpdateSubmodules(t) \/ RestoreSubmodules(t)
         \/ MakeAll(t) \/ BuildModules(t) \/ Stitched(t),
         UNCHANGED containerVars
  PROVE  Elsewhere
  <1> USE DEF Goto, Ends, Making
  <1>1. pc \in [Terminals -> Entering \cup Making \cup {"host", "shell"}]
    BY DEF TypeOK
  <1>2. CASE \/ CheckDirectory(t) \/ TarEnds(t) \/ DirectoryGone(t) \/ CheckVersion(t)
             \/ Download(t) \/ DownloadFails(t) \/ TarFails(t) \/ Untar(t) \/ UntarEnds(t)
    BY <1>1, <1>2, MakingElsewhere
    DEF CheckDirectory, TarEnds, DirectoryGone, CheckVersion, Download, DownloadFails, TarFails,
        Untar, UntarEnds, DownloadError
  <1>3. CASE Distclean(t) \/ MakeDistclean(t)
    BY <1>1, <1>3, MakingElsewhere DEF Distclean, MakeDistclean, Removing
  <1>4. CASE PatchSteps(t) \/ UpdateSubmodules(t) \/ RestoreSubmodules(t)
    BY <1>1, <1>4, MakingElsewhere
    DEF PatchSteps, CheckSubmodule, Write, Patched, Fails, UpdateSubmodules, RestoreSubmodules
  <1>5. CASE MakeAll(t) \/ BuildModules(t) \/ Stitched(t)
    BY <1>1, <1>5, MakingElsewhere DEF MakeAll, BuildModules, Stitched
  <1> QED BY <1>2, <1>3, <1>4, <1>5 DEF ToolchainSteps

LEMMA DisturbedElsewhere ==
  ASSUME TypeOK, TypeOK',
         \/ \E t \in Terminals : Wanders(t) \/ Interrupt(t)
         \/ HostRestart \/ Pull \/ UNCHANGED vars
  PROVE  Elsewhere
  <1>1. pc \in [Terminals -> Entering \cup Making \cup {"host", "shell"}]
    BY DEF TypeOK
  <1>2. ASSUME NEW T \in SUBSET Terminals, NEW next \in [Terminals -> {"shell", "host"}],
               Stop(T, next), Same, Disturbs
        PROVE  Elsewhere
    <2>1. dockerfile <= dockerfile'
      BY <1>2, Numbers DEF Same
    <2>2. disturbances' # disturbances
      BY <1>2 DEF Disturbs, TypeOK
    <2>3. ASSUME NEW u \in Terminals
          PROVE  /\ building'[u] \in {building[u], None}
                 /\ pc'[u] \in Entering => pc'[u] = pc[u]
      BY <1>1, <1>2 DEF Stop, Entering
    <2> QED BY <1>2, <2>1, <2>2, <2>3 DEF Elsewhere, Stop
  <1>3. ASSUME NEW t \in Terminals, Interrupt(t)
        PROVE  Elsewhere
    BY <1>2, <1>3 DEF Interrupt
  <1>4. CASE HostRestart
    BY <1>2, <1>4 DEF HostRestart
  <1>5. ASSUME NEW t \in Terminals, Wanders(t)
        PROVE  Elsewhere
    <2>1. CASE MakeDistclean(t) /\ UNCHANGED containerVars
      BY <1>5, <2>1, ToolsElsewhere DEF Wanders
    <2>2. CASE pc[t] = "shell" /\ Goto(t, "host") /\ UNCHANGED containerVars
      <3>1. dockerfile <= dockerfile'
        BY <1>5, Numbers DEF Wanders, Same
      <3>2. disturbances' # disturbances
        BY <1>5, <2>2 DEF Wanders, Disturbs, TypeOK, Same, MakeDistclean, Removing, Goto
      <3>3. ASSUME NEW u \in Terminals
            PROVE  pc'[u] \in Entering => pc'[u] = pc[u]
        BY <1>1, <2>2 DEF Goto, Entering
      <3> QED BY <2>2, <3>1, <3>2, <3>3 DEF Elsewhere, containerVars
    <2> QED BY <1>5, <2>1, <2>2 DEF Wanders
  <1>6. CASE Pull
    <2>1. dockerfile <= dockerfile'
      BY <1>6, Numbers DEF Pull
    <2>2. disturbances' # disturbances
      BY <1>6 DEF Pull, Disturbs, TypeOK
    <2> QED BY <1>6, <2>1, <2>2 DEF Pull, Elsewhere, containerVars
  <1>7. CASE UNCHANGED vars
    <2>1. dockerfile <= dockerfile'
      BY <1>7, Numbers DEF vars
    <2> QED BY <1>7, <2>1 DEF vars, Elsewhere, containerVars, Inside, Making
  <1> QED BY <1>3, <1>4, <1>5, <1>6, <1>7

\* So a step is one of a running script or one of these.
LEMMA Split ==
  ASSUME TypeOK, TypeOK', [Next]_vars
  PROVE  \/ Elsewhere
         \/ \E t \in Terminals :
               /\ Enter(t) \/ EnterSteps(t) \/ BuildImage(t) \/ BuildImageFails(t)
               /\ Same
  <1>1. ASSUME NEW t \in Terminals, Runs(t) \/ CommandFails(t) \/ Follows(t)
        PROVE  \/ Elsewhere
               \/ /\ Enter(t) \/ EnterSteps(t) \/ BuildImage(t) \/ BuildImageFails(t)
                  /\ Same
    BY <1>1, ToolsElsewhere DEF Runs, CommandFails, Follows, Container, Tools, Patches,
                                MakeAll, BuildModules, Stitched
  <1> QED BY <1>1, DisturbedElsewhere DEF Next

LEMMA NextContainer ==
  ASSUME TypeOK, TypeOK', ContainerInv, [Next]_vars
  PROVE  ContainerInv'
  BY Split, ElsewhereKeeps, ScriptKeeps

LEMMA ContainerHolds == Spec => [](Types /\ ContainerInv)
  <1>1. Types /\ ContainerInv /\ [Next]_vars => (Types /\ ContainerInv)'
    BY NextTypes, NextContainer DEF Types
  <1> QED BY <1>1, InitTypes, InitContainer, PTL DEF Spec

(* The container is made of the image that is there, unless two scripts    *)
(* overlapped (step 2 of enter-container.sh).                              *)
THEOREM NoneLingersEver == Spec => []NoneLingers
  <1>1. Types /\ ContainerInv => NoneLingers
    BY DEF Types, TypeOK, ContainerInv, FromImage, NoneLingers
  <1> QED BY <1>1, ContainerHolds, PTL

(* Only a terminal that finds the image outdated ends the commands of      *)
(* others, unless two scripts overlapped: the container is outdated too,   *)
(* at that very moment.                                                    *)
THEOREM EndsOnlyTheOutdated == Spec => EndsOnlyOutdated
  <1>1. ASSUME Types, Types', ContainerInv, [Next]_vars,
               NEW u \in Terminals, pc[u] \in Inside, pc'[u] = "host",
               disturbances' = disturbances
        PROVE  raced \/ container # dockerfile
    <2>1. ~Elsewhere
      BY <1>1 DEF Elsewhere
    <2>2. PICK t \in Terminals : Enter(t) \/ EnterSteps(t) \/ BuildImage(t) \/ BuildImageFails(t)
      BY <1>1, <2>1, Split DEF Types
    <2>3. pc[t] \notin Inside /\ t # u
      BY <1>1, <2>2
      DEF Enter, EnterSteps, BuildImage, BuildImageFails, CheckImage, RemoveImage, CheckMissing,
          CheckContainer, RunContainer, CheckRunning, StartContainer, Exec, Inside, Making
    <2>4. RemoveImage(t)
      <3>1. pc[u] # "host" /\ pc'[u] # pc[u]
        BY <1>1 DEF Inside, Making
      <3>2. ASSUME NEW step, Goto(t, step)
            PROVE  FALSE
        BY <2>3, <3>1, <3>2 DEF Goto, Types, TypeOK
      <3> QED BY <2>2, <3>2
              DEF Enter, EnterSteps, BuildImage, BuildImageFails, CheckImage, CheckMissing,
                  CheckContainer, RunContainer, CheckRunning, StartContainer, Exec
    <2>5. container = image \/ raced
      <3>1. ~Goto(t, "check missing")
        BY <1>1, <2>3 DEF Goto, Types, TypeOK, Inside, Making
      <3> QED BY <2>4, <3>1 DEF RemoveImage
    <2> QED BY <1>1, <2>4, <2>5 DEF ContainerInv, FromImage, RemoveImage
  <1>2. Types /\ Types' /\ ContainerInv /\ [Next]_vars =>
          [\A t \in Terminals :
             pc[t] \in Inside /\ pc'[t] = "host" /\ disturbances' = disturbances
             => raced \/ container # dockerfile]_vars
    BY <1>1
  <1> QED BY <1>2, ContainerHolds, PTL DEF Spec, EndsOnlyOutdated

-----------------------------------------------------------------------------
(* The files.  Until two terminals have worked on them at the same time,   *)
(* one at most does, so what its scripts have found out stays true until   *)
(* the modules are built.                                                  *)

OneMakes == \A t, u \in Terminals : pc[t] \in Making /\ pc[u] \in Making => t = u

Fits(i) == expected[i] /\ tree[i] = "patched"

Ready(t) ==
    /\ pc[t] \in {"check directory", "wget", "tar", "gone", "check version"} => turn[t] = 1
    /\ pc[t] \in {"check submodule", "write", "modules"} => ToolchainFits
    /\ pc[t] \in {"check submodule", "write"} => \A i \in Index : i < turn[t] => Fits(i)
    /\ pc[t] = "write" => expected[turn[t]]
    /\ pc[t] = "modules" => SubmodulesFit

\* Nothing but a disturbance tears a toolchain for longer than a command runs.
Torn == disturbances = 0 /\ files = "torn"
          => \E t \in Terminals : pc[t] \in {"tar", "untar", "distclean"}

FilesInv == ~crossed => OneMakes /\ (\A t \in Terminals : Ready(t)) /\ Torn

\* And nothing else makes an image outdated.
Calm == disturbances = 0 =>
          /\ dockerfile = 1 /\ image \in {None, 1}
          /\ \A t \in Terminals : building[t] \in {None, 1} /\ pc[t] # "remove"

LEMMA InitFiles == Init => FilesInv /\ Calm
  <1>1. Init => Calm
    BY DEF Init, ContainerInit, Calm, None
  <1>2. Init => FilesInv
    BY DEF Init, ToolchainInit, FilesInv, OneMakes, Ready, Torn, Making
  <1> QED BY <1>1, <1>2

LEMMA Undisturbed ==
  ASSUME TypeOK, [Next]_vars, disturbances' = 0
  PROVE  disturbances = 0 /\ dockerfile' = dockerfile
  <1>1. ~Disturbs
    BY DEF TypeOK, Disturbs
  <1> QED BY <1>1 DEF Next, Runs, CommandFails, Follows, Wanders, Interrupt, HostRestart, Pull,
                      Quiet, Same, vars

LEMMA NextCalm ==
  ASSUME TypeOK, TypeOK', Calm, [Next]_vars
  PROVE  Calm'
  <1> SUFFICES ASSUME disturbances' = 0
               PROVE  Calm'
    BY DEF Calm
  <1>1. /\ disturbances = 0 /\ dockerfile' = dockerfile
        /\ dockerfile = 1 /\ image \in {None, 1}
        /\ \A t \in Terminals : building[t] \in {None, 1} /\ pc[t] # "remove"
    BY Undisturbed DEF Calm
  <1>2. CASE Elsewhere
    BY <1>1, <1>2 DEF Elsewhere, Calm, Entering
  <1>3. ASSUME NEW t \in Terminals,
               Enter(t) \/ EnterSteps(t) \/ BuildImage(t) \/ BuildImageFails(t)
        PROVE  Calm'
    <2>1. /\ pc \in [Terminals -> Entering \cup Making \cup {"host", "shell"}]
          /\ building \in [Terminals -> Version \cup {None}]
      BY DEF TypeOK
    <2>2. CASE Enter(t) \/ CheckImage(t) \/ CheckContainer(t) \/ CheckRunning(t) \/ Exec(t)
               \/ RunContainer(t) \/ StartContainer(t)
      BY <1>1, <2>1, <2>2
      DEF Enter, CheckImage, CheckContainer, CheckRunning, Exec, RunContainer, StartContainer,
          Goto, containerVars, Calm
    <2>3. CASE CheckMissing(t) \/ BuildImage(t) \/ BuildImageFails(t)
      BY <1>1, <2>1, <2>3 DEF CheckMissing, BuildImage, BuildImageFails, Goto, Calm
    <2>4. CASE RemoveImage(t)
      BY <1>1, <2>4 DEF RemoveImage
    <2> QED BY <1>3, <2>2, <2>3, <2>4 DEF EnterSteps
  <1> QED BY <1>2, <1>3, Split

\* Steps that leave the files alone: they may end a command on them.
LeavesFiles ==
    /\ UNCHANGED <<toolchainVars, tree, turn, crossed>>
    /\ \A u \in Terminals : pc'[u] \in Making => pc'[u] = pc[u] /\ gcc' = gcc /\ expected' = expected
    /\ disturbances' = 0 =>
          /\ disturbances = 0
          /\ \A u \in Terminals : pc[u] \in {"tar", "untar", "distclean"} => pc'[u] = pc[u]

LEMMA LeavingKeeps ==
  ASSUME FilesInv, LeavesFiles
  PROVE  FilesInv'
  <1> SUFFICES ASSUME ~crossed'
               PROVE  (OneMakes /\ (\A t \in Terminals : Ready(t)) /\ Torn)'
    BY DEF FilesInv
  <1>1. OneMakes /\ (\A t \in Terminals : Ready(t)) /\ Torn
    BY DEF FilesInv, LeavesFiles
  <1>2. OneMakes'
    BY <1>1 DEF OneMakes, LeavesFiles
  <1>3. Torn'
    BY <1>1 DEF Torn, LeavesFiles, toolchainVars
  <1>4. ASSUME NEW t \in Terminals
        PROVE  Ready(t)'
    <2>1. CASE pc'[t] \notin Making
      BY <2>1 DEF Ready, Making
    <2>2. CASE pc'[t] \in Making
      BY <1>1, <2>2, ZenonT(60)
      DEF LeavesFiles, Ready, ToolchainFits, SubmodulesFit, Fits, toolchainVars, Index
    <2> QED BY <2>1, <2>2
  <1> QED BY <1>2, <1>3, <1>4

\* A step of a command on the files.
LEMMA WorkKeeps ==
  ASSUME FilesInv, NEW t \in Terminals,
         ~crossed' => ~crossed,
         ~crossed' => \A u \in Terminals \ {t} : pc[u] \notin Making /\ pc'[u] \notin Making,
         ~crossed' => Ready(t)',
         ~crossed' /\ disturbances' = 0 /\ files' = "torn" => pc'[t] \in {"tar", "untar", "distclean"}
  PROVE  FilesInv'
  <1>1. ASSUME ~crossed', NEW u \in Terminals
        PROVE  Ready(u)'
    <2>1. CASE u = t
      BY <1>1, <2>1
    <2>2. CASE u # t
      BY <1>1, <2>2 DEF Ready, Making
    <2> QED BY <2>1, <2>2
  <1> QED BY <1>1 DEF FilesInv, OneMakes, Torn

LEMMA OneWorks ==
  ASSUME FilesInv, NEW t \in Terminals, ~crossed',
         \/ pc[t] \in Making /\ crossed' = crossed
         \/ Crosses(t)
  PROVE  /\ ~crossed /\ \A u \in Terminals \ {t} : pc[u] \notin Making
         /\ Ready(t)
         /\ disturbances = 0 /\ files = "torn" => pc[t] \in {"tar", "untar", "distclean"}
  <1>1. ~crossed /\ \A u \in Terminals \ {t} : pc[u] \notin Making
    <2>1. ~crossed
      BY Zenon DEF Crosses
    <2>2. CASE pc[t] \in Making
      BY <2>1, <2>2 DEF FilesInv, OneMakes
    <2>3. CASE Crosses(t)
      <3>1. Others(t, Making) = {}
        BY <2>3, Zenon DEF Crosses
      <3> QED BY <2>1, <3>1 DEF Others
    <2> QED BY <2>2, <2>3
  <1> QED BY <1>1 DEF FilesInv, Torn, Making

\* download-gnu-toolchain.sh, distclean, and tar by hand.
LEMMA ToolsKeep ==
  ASSUME TypeOK, FilesInv, NEW t \in Terminals,
         \/ /\ ToolchainSteps(t) \/ Download(t) \/ DownloadFails(t)
            /\ crossed' = crossed
         \/ TarFails(t) /\ crossed' = crossed /\ disturbances' # 0
         \/ (MakeDistclean(t) \/ Untar(t)) /\ Crosses(t),
         UNCHANGED <<containerVars, patchVars>>, Same,
         disturbances' = 0 => disturbances = 0
  PROVE  FilesInv'
  <1> USE DEF Goto, Same
  <1>1. /\ pc \in [Terminals -> Entering \cup Making \cup {"host", "shell"}]
        /\ turn \in [Terminals -> Index]
    BY DEF TypeOK
  <1>2. \/ pc[t] \in Making /\ crossed' = crossed
        \/ Crosses(t)
    BY DEF ToolchainSteps, CheckDirectory, TarEnds, DirectoryGone, CheckVersion, Distclean,
           Download, DownloadFails, TarFails, UntarEnds, Making
  <1>3. ~crossed' => /\ ~crossed /\ \A u \in Terminals \ {t} : pc[u] \notin Making
                     /\ Ready(t)
                     /\ disturbances = 0 /\ files = "torn" => pc[t] \in {"tar", "untar", "distclean"}
    BY <1>2, OneWorks
  <1>4. CASE \/ CheckDirectory(t) \/ TarEnds(t) \/ Download(t) \/ DownloadFails(t)
             \/ DirectoryGone(t) \/ Untar(t) \/ UntarEnds(t)
             \/ TarFails(t) /\ disturbances' # 0
    <2>1. \A u \in Terminals \ {t} : pc'[u] = pc[u]
      BY <1>1, <1>4 DEF CheckDirectory, TarEnds, Download, DownloadFails, DirectoryGone, Untar,
                        TarFails, UntarEnds, DownloadError, Ends
    <2>2. pc'[t] \in {"wget", "check version", "tar", "untar", "shell"} /\ turn' = turn
      BY <1>1, <1>4 DEF CheckDirectory, TarEnds, Download, DownloadFails, DirectoryGone, Untar,
                        TarFails, UntarEnds, DownloadError, Ends, patchVars
    <2>3. ~crossed' => Ready(t)'
      BY <1>1, <1>3, <1>4, <2>2
      DEF Ready, CheckDirectory, TarEnds, Download, DownloadFails, DirectoryGone, Untar,
          TarFails, UntarEnds, DownloadError, Ends
    <2>4. ~crossed' /\ disturbances' = 0 /\ files' = "torn" => pc'[t] \in {"tar", "untar", "distclean"}
      <3>1. CASE TarEnds(t) \/ UntarEnds(t)
        BY <3>1 DEF TarEnds, UntarEnds
      <3>2. CASE Download(t)
        BY <1>1, <3>2 DEF Download
      <3>3. CASE Untar(t)
        BY <1>1, <1>3, <3>3 DEF Untar, toolchainVars
      <3>4. CASE CheckDirectory(t) \/ DownloadFails(t) \/ DirectoryGone(t)
        BY <1>3, <3>4 DEF CheckDirectory, DownloadFails, DirectoryGone, toolchainVars
      <3>5. CASE disturbances' # 0
        BY <3>5
      <3> QED BY <1>4, <3>1, <3>2, <3>3, <3>4, <3>5
    <2> QED BY <1>3, <2>1, <2>3, <2>4, WorkKeeps
  <1>5. CASE CheckVersion(t)
    <2>1. \A u \in Terminals \ {t} : pc'[u] = pc[u]
      BY <1>1, <1>5 DEF CheckVersion, Ends
    <2>2. \/ pc'[t] = "shell"
          \/ pc'[t] = "check submodule" /\ files # "none" /\ installed = gcc
      BY <1>1, <1>5 DEF CheckVersion, Ends
    <2>3. ~crossed' => Ready(t)'
      <3>1. ~crossed' => turn'[t] = 1
        BY <1>3, <1>5 DEF CheckVersion, Ready, patchVars
      <3>2. \A i \in Index : ~(i < 1)
        BY SubmodulesAssumption DEF Index
      <3> QED BY <1>5, <2>2, <3>1, <3>2 DEF CheckVersion, Ready, ToolchainFits, toolchainVars
    <2>4. ~crossed' /\ disturbances' = 0 => files' # "torn"
      BY <1>3, <1>5 DEF CheckVersion, toolchainVars
    <2> QED BY <1>3, <2>1, <2>3, <2>4, WorkKeeps
  <1>6. CASE Distclean(t) \/ MakeDistclean(t)
    <2>1. ~crossed' => \A u \in Terminals \ {t} : pc'[u] \notin Making
      BY <1>1, <1>3, <1>6 DEF Distclean, MakeDistclean, Removing, Making
    <2>2. pc'[t] \in {"shell", "distclean"}
      BY <1>1, <1>6 DEF Distclean, MakeDistclean, Removing
    <2>3. Ready(t)'
      BY <2>2 DEF Ready
    <2>4. files' = "torn" => pc'[t] = "distclean"
      BY <1>1, <1>6 DEF Distclean, MakeDistclean, Removing
    <2> QED BY <1>3, <2>1, <2>3, <2>4, WorkKeeps
  <1> QED BY <1>4, <1>5, <1>6 DEF ToolchainSteps

\* The patch scripts, and what a user does after their messages.
LEMMA PatchesKeep ==
  ASSUME TypeOK, FilesInv, NEW t \in Terminals,
         \/ PatchSteps(t) /\ crossed' = crossed
         \/ (UpdateSubmodules(t) \/ RestoreSubmodules(t)) /\ Crosses(t),
         UNCHANGED <<containerVars, toolchainVars>>, Same,
         disturbances' = 0 => disturbances = 0
  PROVE  FilesInv'
  <1> USE DEF Goto, Same
  <1>1. /\ pc \in [Terminals -> Entering \cup Making \cup {"host", "shell"}]
        /\ turn \in [Terminals -> Index] /\ turn[t] \in Index
        /\ expected \in [Index -> BOOLEAN] /\ tree \in [Index -> {"clean", "torn", "patched"}]
    BY DEF TypeOK
  <1>2. \/ pc[t] \in Making /\ crossed' = crossed
        \/ Crosses(t)
    BY DEF PatchSteps, CheckSubmodule, Write, Making
  <1>3. ~crossed' => /\ ~crossed /\ \A u \in Terminals \ {t} : pc[u] \notin Making
                     /\ Ready(t)
                     /\ disturbances = 0 /\ files = "torn" => pc[t] \in {"tar", "untar", "distclean"}
    BY <1>2, OneWorks
  <1>4. ~crossed' /\ disturbances' = 0 => files' # "torn"
    BY <1>3 DEF PatchSteps, CheckSubmodule, Write, UpdateSubmodules, RestoreSubmodules,
                toolchainVars
  <1>5. \A u \in Terminals \ {t} : pc'[u] = pc[u]
    BY <1>1 DEF PatchSteps, CheckSubmodule, Write, UpdateSubmodules, RestoreSubmodules, Ends,
                Fails, Patched
  <1>6. ToolchainFits' = ToolchainFits
    BY DEF ToolchainFits, toolchainVars
  <1>7. ASSUME Patched(t), pc[t] \in {"check submodule", "write"}, ~crossed',
               \A i \in Index : i <= turn[t] => Fits(i)'
        PROVE  Ready(t)'
    <2>1. PICK n \in Nat \ {0} : Len(Submodules) = n /\ Index = 1 .. n
      BY SubmodulesAssumption DEF Index
    <2>2. ToolchainFits'
      BY <1>3, <1>6, <1>7 DEF Ready
    <2>3. CASE turn[t] < n
      <3>1. turn[t] # Len(Submodules)
        BY <1>1, <2>1, <2>3
      <3>2. turn' = [turn EXCEPT ![t] = turn[t] + 1] /\ pc' = [pc EXCEPT ![t] = "check submodule"]
        BY <1>7, <3>1, Zenon DEF Patched, Goto
      <3>3. turn'[t] = turn[t] + 1 /\ pc'[t] = "check submodule"
        BY <1>1, <3>2
      <3>4. \A i \in Index : i < turn'[t] => Fits(i)'
        <4>1. \A i \in Index : i < turn'[t] => i <= turn[t]
          <5>1. turn[t] \in 1 .. n
            BY <1>1, <2>1
          <5>2. turn'[t] = turn[t] + 1
            BY <3>3
          <5> QED BY <2>1, <5>1, <5>2
        <4> QED BY <1>7, <4>1, Zenon
      <3> QED BY <2>2, <3>3, <3>4 DEF Ready
    <2>4. CASE turn[t] = n
      <3>1. ~(turn[t] < Len(Submodules))
        BY <2>1, <2>4
      <3>2. pc' = [pc EXCEPT ![t] = "modules"]
        BY <1>7, <3>1, Zenon DEF Patched, Goto
      <3>3. pc'[t] = "modules"
        BY <1>1, <3>2
      <3>4. \A i \in Index : Fits(i)'
        <4>1. \A i \in Index : i <= turn[t]
          BY <1>1, <2>1, <2>4
        <4> QED BY <1>7, <4>1, Zenon
      <3> QED BY <2>2, <3>3, <3>4 DEF Ready, SubmodulesFit, Fits
    <2> QED BY <1>1, <2>1, <2>3, <2>4
  <1>8. CASE Write(t)
    <2>1. ~crossed' => Ready(t)'
      <3> SUFFICES ASSUME ~crossed'
                   PROVE  Ready(t)'
        OBVIOUS
      <3>1. (\A i \in Index : i < turn[t] => Fits(i)) /\ expected[turn[t]]
        BY <1>3, <1>8 DEF Write, Ready
      <3>2. expected' = expected /\ \A i \in Index : tree'[i] = IF i = turn[t] THEN "patched" ELSE tree[i]
        BY <1>1, <1>8 DEF Write
      <3>3. ASSUME NEW i \in Index, i <= turn[t]
            PROVE  Fits(i)'
        <4>1. CASE i = turn[t]
          BY <1>1, <3>1, <3>2, <4>1 DEF Fits
        <4>2. CASE i # turn[t]
          <5>1. i < turn[t]
            BY <1>1, <3>3, <4>2, SubmodulesAssumption DEF Index
          <5> QED BY <3>1, <3>2, <4>2, <5>1 DEF Fits
        <4> QED BY <4>1, <4>2
      <3> QED BY <1>7, <1>8, <3>3 DEF Write
    <2> QED BY <1>3, <1>4, <1>5, <2>1, WorkKeeps
  <1>9. CASE CheckSubmodule(t)
    <2> SUFFICES ASSUME ~crossed'
                 PROVE  Ready(t)'
      BY <1>3, <1>4, <1>5, WorkKeeps
    <2>1. ToolchainFits' /\ \A i \in Index : i < turn[t] => Fits(i)
      BY <1>3, <1>6, <1>9 DEF CheckSubmodule, Ready
    <2>2. CASE (Fails(t, "update") \/ Fails(t, "restore")) /\ tree' = tree
      BY <1>1, <2>2 DEF Fails, Ends, Ready
    <2>3. CASE expected[turn[t]] /\ tree[turn[t]] = "patched" /\ Patched(t) /\ tree' = tree
      <3>1. expected' = expected /\ tree' = tree
        BY <1>9, <2>3 DEF CheckSubmodule
      <3>2. ASSUME NEW i \in Index, i <= turn[t]
            PROVE  Fits(i)'
        <4>1. CASE i = turn[t]
          BY <2>3, <3>1, <4>1 DEF Fits
        <4>2. CASE i # turn[t]
          <5>1. i < turn[t]
            BY <1>1, <3>2, <4>2, SubmodulesAssumption DEF Index
          <5> QED BY <2>1, <3>1, <5>1 DEF Fits
        <4> QED BY <4>1, <4>2
      <3> QED BY <1>7, <1>9, <2>3, <3>2 DEF CheckSubmodule
    <2>4. CASE /\ expected[turn[t]] /\ tree[turn[t]] = "clean"
               /\ tree' = [tree EXCEPT ![turn[t]] = "torn"]
               /\ Goto(t, "write") /\ UNCHANGED <<advice, turn>>
      <3>1. pc'[t] = "write" /\ turn'[t] = turn[t] /\ expected' = expected
        BY <1>1, <1>9, <2>4 DEF CheckSubmodule
      <3>2. \A i \in Index : i < turn[t] => Fits(i)'
        <4>1. \A i \in Index : i # turn[t] => tree'[i] = tree[i]
          BY <1>1, <2>4
        <4>2. \A i \in Index : i < turn[t] => i # turn[t]
          BY <1>1, SubmodulesAssumption DEF Index
        <4> QED BY <2>1, <3>1, <4>1, <4>2 DEF Fits
      <3> QED BY <2>1, <2>4, <3>1, <3>2 DEF Ready
    <2> QED BY <1>9, <2>2, <2>3, <2>4 DEF CheckSubmodule
  <1>10. CASE UpdateSubmodules(t) \/ RestoreSubmodules(t)
    <2>1. pc'[t] = "shell"
      BY <1>1, <1>10 DEF UpdateSubmodules, RestoreSubmodules, Ends
    <2> QED BY <1>3, <1>4, <1>5, <2>1, WorkKeeps DEF Ready
  <1> QED BY <1>8, <1>9, <1>10 DEF PatchSteps

\* The recipe of `all'.
LEMMA MakeKeeps ==
  ASSUME TypeOK, FilesInv, NEW t \in Terminals,
         MakeAll(t) \/ BuildModules(t) \/ Stitched(t), Same,
         disturbances' = 0 => disturbances = 0
  PROVE  FilesInv'
  <1>1. /\ pc \in [Terminals -> Entering \cup Making \cup {"host", "shell"}]
        /\ turn \in [Terminals -> Index]
    BY DEF TypeOK
  <1>2. \/ pc[t] \in Making /\ crossed' = crossed
        \/ Crosses(t)
    BY DEF MakeAll, BuildModules, Stitched, Making
  <1>3. ~crossed' => /\ ~crossed /\ \A u \in Terminals \ {t} : pc[u] \notin Making
                     /\ disturbances = 0 /\ files = "torn" => pc[t] \in {"tar", "untar", "distclean"}
    BY <1>2, OneWorks
  <1>4. /\ \A u \in Terminals \ {t} : pc'[u] = pc[u]
        /\ pc'[t] \in {"check directory", "stitched", "shell"}
        /\ pc'[t] = "check directory" => turn'[t] = 1
        /\ files' = files /\ pc[t] \notin {"tar", "untar", "distclean"}
    BY <1>1 DEF MakeAll, BuildModules, Stitched, Goto, Ends, toolchainVars
  <1>5. Ready(t)'
    BY <1>4 DEF Ready
  <1> QED BY <1>3, <1>4, <1>5, WorkKeeps

LEMMA ScriptLeaves ==
  ASSUME TypeOK, Calm, NEW t \in Terminals,
         Container(Enter(t) \/ EnterSteps(t) \/ BuildImage(t) \/ BuildImageFails(t)), Same,
         disturbances' = 0 => disturbances = 0
  PROVE  LeavesFiles
  <1> USE DEF Container, Goto, Same, patchVars
  <1>1. pc \in [Terminals -> Entering \cup Making \cup {"host", "shell"}]
    BY DEF TypeOK
  <1>2. ASSUME pc[t] \notin Making,
               \A u \in Terminals \ {t} : pc'[u] = pc[u], pc'[t] \notin Making
        PROVE  LeavesFiles
    BY <1>2 DEF LeavesFiles, Making
  <1>3. CASE Enter(t) \/ CheckImage(t) \/ CheckMissing(t) \/ BuildImage(t) \/ BuildImageFails(t)
    BY <1>1, <1>2, <1>3
    DEF Enter, CheckImage, CheckMissing, BuildImage, BuildImageFails, Making
  <1>4. CASE CheckContainer(t) \/ RunContainer(t) \/ CheckRunning(t) \/ StartContainer(t) \/ Exec(t)
    BY <1>1, <1>2, <1>4
    DEF CheckContainer, RunContainer, CheckRunning, StartContainer, Exec, Making
  <1>5. CASE RemoveImage(t)
    <2>1. \A u \in Terminals : pc'[u] \in Making => pc'[u] = pc[u]
      BY <1>1, <1>5 DEF RemoveImage, Making
    <2>2. disturbances # 0
      BY <1>5 DEF RemoveImage, Calm
    <2> QED BY <2>1, <2>2 DEF LeavesFiles
  <1> QED BY <1>3, <1>4, <1>5 DEF EnterSteps, Container

LEMMA StopLeaves ==
  ASSUME NEW T \in SUBSET Terminals, NEW next \in [Terminals -> {"shell", "host"}],
         Stop(T, next), Same, disturbances' # 0
  PROVE  LeavesFiles
  BY DEF Stop, Same, LeavesFiles, patchVars, Making

LEMMA NextFiles ==
  ASSUME Types, Types', FilesInv, Calm, [Next]_vars
  PROVE  FilesInv'
  <1>1. disturbances' = 0 => disturbances = 0
    BY Undisturbed DEF Types
  <1>2. ASSUME Disturbs
        PROVE  disturbances' # 0
    BY <1>2 DEF Disturbs, Types, TypeOK
  <1>3. ASSUME NEW t \in Terminals, Runs(t) \/ CommandFails(t) \/ Follows(t)
        PROVE  FilesInv'
    <2>1. Same
      BY <1>3 DEF Runs, CommandFails, Follows
    <2>2. CASE Container(Enter(t) \/ EnterSteps(t) \/ BuildImage(t) \/ BuildImageFails(t))
      BY <1>1, <2>1, <2>2, ScriptLeaves, LeavingKeeps DEF Types
    <2>3. CASE /\ \/ /\ ToolchainSteps(t) \/ Download(t) \/ DownloadFails(t)
                     /\ crossed' = crossed
                  \/ TarFails(t) /\ crossed' = crossed /\ disturbances' # 0
                  \/ (MakeDistclean(t) \/ Untar(t)) /\ Crosses(t)
               /\ UNCHANGED <<containerVars, patchVars>>
      BY <1>1, <2>1, <2>3, ToolsKeep DEF Types
    <2>4. CASE /\ \/ PatchSteps(t) /\ crossed' = crossed
                  \/ (UpdateSubmodules(t) \/ RestoreSubmodules(t)) /\ Crosses(t)
               /\ UNCHANGED <<containerVars, toolchainVars>>
      BY <1>1, <2>1, <2>4, PatchesKeep DEF Types
    <2>5. CASE MakeAll(t) \/ BuildModules(t) \/ Stitched(t)
      BY <1>1, <2>1, <2>5, MakeKeeps DEF Types
    <2>6. CommandFails(t) => disturbances' # 0
      BY <1>2 DEF CommandFails
    <2> QED BY <1>3, <2>2, <2>3, <2>4, <2>5, <2>6
            DEF Runs, CommandFails, Follows, Container, Tools, Patches
  <1>4. ASSUME NEW t \in Terminals, Wanders(t)
        PROVE  FilesInv'
    <2>1. CASE MakeDistclean(t) /\ Crosses(t) /\ UNCHANGED <<containerVars, patchVars>>
      BY <1>1, <1>4, <2>1, ToolsKeep DEF Wanders, Types
    <2>2. CASE /\ pc[t] = "shell" /\ Goto(t, "host")
               /\ UNCHANGED <<containerVars, toolchainVars, patchVars, crossed>>
      <3>1. Same /\ disturbances' # 0
        BY <1>2, <1>4 DEF Wanders
      <3>2. LeavesFiles
        BY <2>2, <3>1 DEF LeavesFiles, Goto, Same, patchVars, Making, Types, TypeOK
      <3> QED BY <3>2, LeavingKeeps
    <2> QED BY <1>4, <2>1, <2>2 DEF Wanders
  <1>5. ASSUME NEW t \in Terminals, Interrupt(t)
        PROVE  FilesInv'
    <2>1. LeavesFiles
      BY <1>2, <1>5, StopLeaves DEF Interrupt
    <2> QED BY <2>1, LeavingKeeps
  <1>6. CASE HostRestart
    <2>1. LeavesFiles
      BY <1>2, <1>6, StopLeaves DEF HostRestart
    <2> QED BY <2>1, LeavingKeeps
  <1>7. CASE Pull
    <2>1. disturbances' # 0
      BY <1>2, <1>7 DEF Pull
    <2>2. LeavesFiles
      BY <1>7, <2>1 DEF Pull, LeavesFiles, toolchainVars
    <2> QED BY <2>2, LeavingKeeps
  <1>8. CASE UNCHANGED vars
    <2>1. LeavesFiles
      BY <1>8 DEF vars, LeavesFiles, toolchainVars, patchVars
    <2> QED BY <2>1, LeavingKeeps
  <1> QED BY <1>3, <1>4, <1>5, <1>6, <1>7, <1>8 DEF Next

(* What the modules are built with is what the scripts promise, until two  *)
(* terminals have worked on the files at the same time: whatever was       *)
(* interrupted, pulled or done by hand before.                             *)
THEOREM BuildsAsPrepared == Spec => []BuiltAsPrepared
  <1>1. Types /\ FilesInv => BuiltAsPrepared
    <2> SUFFICES ASSUME Types, FilesInv, ~crossed, NEW t \in Terminals, pc[t] = "modules"
                 PROVE  Prepared /\ (disturbances = 0 => files = "whole")
      BY DEF BuiltAsPrepared
    <2>1. Prepared
      BY DEF FilesInv, Ready, Prepared
    <2>2. ASSUME disturbances = 0
          PROVE  files # "torn"
      BY <2>2 DEF FilesInv, OneMakes, Torn, Making
    <2> QED BY <2>1, <2>2 DEF Types, TypeOK, Prepared, ToolchainFits
  <1>2. Types /\ FilesInv /\ Calm /\ [Next]_vars => (Types /\ FilesInv /\ Calm)'
    BY NextTypes, NextFiles, NextCalm DEF Types
  <1> QED BY <1>1, <1>2, InitTypes, InitFiles, PTL DEF Spec
=============================================================================
