--------------------------- MODULE EnterContainer ---------------------------
(***************************************************************************)
(* enter-container.sh, run from the host by any number of terminals.  Each *)
(* test of a step and the podman command it leads to are steps of their    *)
(* own, so another terminal may act in between.                            *)
(***************************************************************************)
EXTENDS Terminals

VARIABLES image,      \* the version the image odp-orion-o6 was built with
          container,  \* the version of the image the container was made from
          running,    \* the container runs
          building,   \* terminal -> the version its podman build read
          raced       \* two scripts have run at the same time

containerVars == <<image, container, running, building, raced>>

ContainerInit ==
    /\ image = None /\ container = None /\ running = FALSE
    /\ building = [t \in Terminals |-> None] /\ raced = FALSE

Enter(t) ==
    /\ pc[t] = "host"
    /\ Goto(t, "check image")
    /\ raced' = (raced \/ Others(t, Entering) # {})
    /\ UNCHANGED <<advice, image, container, running, building>>

\* Variant: whatever image there is is rebuilt.
CheckImageAlways(t) ==
    /\ pc[t] = "check image"
    /\ Goto(t, IF image # None THEN "remove" ELSE "check missing")
    /\ UNCHANGED <<advice, containerVars>>

\* Step 2.  Step 1 finds the version that Dockerfile:14 declares.
CheckImage(t) ==
    /\ pc[t] = "check image"
    /\ Goto(t, IF image \notin {None, dockerfile} THEN "remove" ELSE "check missing")
    /\ UNCHANGED <<advice, containerVars>>

\* Variant: without --force, and a container that is left is no error.
RemoveImageOnly(t) ==
    /\ pc[t] = "remove"
    /\ image' = None
    /\ Goto(t, "check missing")
    /\ UNCHANGED <<advice, container, running, building, raced>>

\* podman rmi --force: the containers of this image go, and their processes with
\* them.  After a race there may be two images of one version.
RemoveImage(t) ==
    /\ pc[t] = "remove"
    /\ image' = None
    /\ \/ /\ container = image
          /\ container' = None /\ running' = FALSE
          /\ pc' = [u \in Terminals |-> IF u = t THEN "check missing"
                                        ELSE IF pc[u] \in Inside THEN "host" ELSE pc[u]]
          /\ advice' = [u \in Terminals |-> "make"]
       \/ /\ container # image \/ raced
          /\ Goto(t, "check missing") /\ UNCHANGED <<container, running, advice>>
    /\ UNCHANGED <<building, raced>>

\* Step 3: podman build reads the Dockerfile as it starts.
CheckMissing(t) ==
    /\ pc[t] = "check missing"
    /\ \/ image = None /\ building' = [building EXCEPT ![t] = dockerfile] /\ Goto(t, "build")
       \/ image # None /\ building' = building /\ Goto(t, "check container")
    /\ UNCHANGED <<advice, image, container, running, raced>>

BuildImage(t) ==
    /\ pc[t] = "build"
    /\ image' = building[t] /\ building' = [building EXCEPT ![t] = None]
    /\ Goto(t, "check container")
    /\ UNCHANGED <<advice, container, running, raced>>

BuildImageFails(t) ==
    /\ pc[t] = "build"
    /\ building' = [building EXCEPT ![t] = None]
    /\ Goto(t, "host")
    /\ UNCHANGED <<advice, image, container, running, raced>>

\* Step 4: podman run refuses a name that is taken and an image that is missing.
CheckContainer(t) ==
    /\ pc[t] = "check container"
    /\ Goto(t, IF container = None THEN "run" ELSE "check running")
    /\ UNCHANGED <<advice, containerVars>>

RunContainer(t) ==
    /\ pc[t] = "run"
    /\ \/ /\ container = None /\ image # None
          /\ container' = image /\ running' = TRUE /\ Goto(t, "check running")
       \/ /\ container # None \/ image = None
          /\ Goto(t, "host") /\ UNCHANGED <<container, running>>
    /\ UNCHANGED <<advice, image, building, raced>>

\* Step 5
CheckRunning(t) ==
    /\ pc[t] = "check running"
    /\ Goto(t, IF running THEN "exec" ELSE "start")
    /\ UNCHANGED <<advice, containerVars>>

StartContainer(t) ==
    /\ pc[t] = "start"
    /\ running' = (container # None)
    /\ Goto(t, IF container # None THEN "exec" ELSE "host")
    /\ UNCHANGED <<advice, image, container, building, raced>>

Exec(t) ==
    /\ pc[t] = "exec"
    /\ Goto(t, IF running THEN "shell" ELSE "host")
    /\ UNCHANGED <<advice, containerVars>>

EnterSteps(t) ==
    \/ CheckImage(t) \/ RemoveImage(t) \/ CheckMissing(t) \/ CheckContainer(t)
    \/ RunContainer(t) \/ CheckRunning(t) \/ StartContainer(t) \/ Exec(t)
=============================================================================
