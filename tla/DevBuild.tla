------------------------------ MODULE DevBuild ------------------------------
(***************************************************************************)
(* Building the boot chain as its README describes: terminals enter the    *)
(* development container and call make, which fetches the toolchain,       *)
(* patches the submodules and builds the modules.  A user does what the    *)
(* last message says; disturbances are commands that are interrupted or    *)
(* fail, a host that restarts, a pull that changes what is wanted, and     *)
(* users who clean or leave of their own accord.                           *)
(***************************************************************************)
EXTENDS EnterContainer, Toolchain, PatchSubmodules, FiniteSets

CONSTANT MaxDisturbances    \* how many there are

ASSUME DisturbancesAssumption == MaxDisturbances \in Nat

VARIABLES crossed,       \* two terminals have worked on the files at the same time
          disturbances   \* so far

vars == <<pc, advice, dockerfile, gcc, containerVars, toolchainVars, patchVars, crossed,
          disturbances>>

Init == /\ pc = [t \in Terminals |-> "host"] /\ advice = [t \in Terminals |-> "make"]
        /\ dockerfile = 1 /\ gcc = 1
        /\ ContainerInit /\ ToolchainInit /\ PatchInit
        /\ crossed = FALSE /\ disturbances = 0

Crosses(t) == crossed' = (crossed \/ Others(t, Making) # {})

\* The recipe of `all', from its first line.
MakeAll(t) ==
    /\ pc[t] = "shell" /\ advice[t] = "make"
    /\ Goto(t, "check directory")
    /\ turn' = [turn EXCEPT ![t] = 1]
    /\ Crosses(t)
    /\ UNCHANGED <<advice, containerVars, toolchainVars, expected, tree>>

\* The toolchain is the wanted one, the submodules are what the patches make of them.
ToolchainFits == files # "none" /\ installed = gcc
SubmodulesFit == \A i \in Index : expected[i] /\ tree[i] = "patched"
Prepared == ToolchainFits /\ SubmodulesFit

\* The rest of the recipe: pre-built files, modules and image.  Only a whole
\* toolchain and patched trees are sure to build.
BuildModules(t) ==
    /\ pc[t] = "modules"
    /\ \/ Goto(t, "stitched") /\ advice' = advice
       \/ ~(Prepared /\ files = "whole") /\ Ends(t, "make")
    /\ UNCHANGED <<containerVars, toolchainVars, patchVars, crossed>>

Stitched(t) ==
    /\ pc[t] = "stitched"
    /\ Ends(t, "make")
    /\ UNCHANGED <<containerVars, toolchainVars, patchVars, crossed>>

-----------------------------------------------------------------------------
Container(A) == A /\ UNCHANGED <<toolchainVars, patchVars, crossed>>
Tools(A)     == A /\ UNCHANGED <<containerVars, patchVars, crossed>>
Patches(A)   == A /\ UNCHANGED <<containerVars, toolchainVars, crossed>>
Same == UNCHANGED <<dockerfile, gcc>>
Quiet == UNCHANGED disturbances
Disturbs == disturbances < MaxDisturbances /\ disturbances' = disturbances + 1

\* What a running script does next, when no command of it fails.
Runs(t) == /\ \/ Container(EnterSteps(t) \/ BuildImage(t))
              \/ Tools(ToolchainSteps(t) \/ Download(t))
              \/ Patches(PatchSteps(t))
              \/ BuildModules(t) \/ Stitched(t)
           /\ Same /\ Quiet

\* A network, a disk or an archive that fails a command.
CommandFails(t) == /\ \/ Tools(DownloadFails(t) \/ TarFails(t))
                      \/ Container(BuildImageFails(t))
                   /\ Same /\ Disturbs

\* What a user does next: as the last message says.
Follows(t) ==
    /\ \/ Container(Enter(t))
       \/ MakeAll(t)
       \/ /\ (advice[t] = "distclean" /\ MakeDistclean(t)) \/ Untar(t)
          /\ Crosses(t) /\ UNCHANGED <<containerVars, patchVars>>
       \/ /\ UpdateSubmodules(t) \/ RestoreSubmodules(t)
          /\ Crosses(t) /\ UNCHANGED <<containerVars, toolchainVars>>
    /\ Same /\ Quiet

\* What a user may do instead: clean, or leave the container.
Wanders(t) ==
    /\ \/ /\ advice[t] # "distclean" /\ MakeDistclean(t)
          /\ Crosses(t) /\ UNCHANGED <<containerVars, patchVars>>
       \/ /\ pc[t] = "shell" /\ Goto(t, "host")
          /\ advice' = [advice EXCEPT ![t] = "make"]
          /\ UNCHANGED <<containerVars, toolchainVars, patchVars, crossed>>
    /\ Same /\ Disturbs

\* The commands of T stop wherever they are.
Stop(T, next) ==
    /\ pc' = [u \in Terminals |-> IF u \in T THEN next[u] ELSE pc[u]]
    /\ advice' = [u \in Terminals |-> IF u \in T THEN "make" ELSE advice[u]]
    /\ building' = [u \in Terminals |-> IF u \in T THEN None ELSE building[u]]
    /\ UNCHANGED <<image, container, raced, toolchainVars, patchVars, crossed>>

\* Ctrl-C
Interrupt(t) ==
    /\ pc[t] \in Making \cup Entering
    /\ Stop({t}, [u \in Terminals |-> IF pc[u] \in Making THEN "shell" ELSE "host"])
    /\ UNCHANGED running /\ Same /\ Disturbs

HostRestart ==
    /\ Stop(Terminals, [u \in Terminals |-> "host"])
    /\ running' = FALSE /\ Same /\ Disturbs

\* A pull while no make runs.
Pull ==
    /\ \A t \in Terminals : pc[t] \notin Making
    /\ \/ dockerfile' = dockerfile + 1 /\ UNCHANGED <<gcc, expected>>
       \/ gcc' = gcc + 1 /\ UNCHANGED <<dockerfile, expected>>
       \/ expected' = [i \in Index |-> FALSE] /\ UNCHANGED <<dockerfile, gcc>>
    /\ {dockerfile', gcc'} \subseteq Version
    /\ UNCHANGED <<pc, advice, containerVars, toolchainVars, tree, turn, crossed>>
    /\ Disturbs

Next == \/ \E t \in Terminals : Runs(t) \/ CommandFails(t) \/ Follows(t) \/ Wanders(t) \/ Interrupt(t)
        \/ HostRestart \/ Pull

\* A script that runs goes on.  No user has to do anything.
Fairness == \A t \in Terminals : WF_vars(Runs(t))

Spec == Init /\ [][Next]_vars /\ Fairness

-----------------------------------------------------------------------------
(* Types, and what the states that the scripts test stand for: what is in  *)
(* the toolchain's directory is there only while the directory is, and a   *)
(* container runs only while there is one.                                 *)
TypeOK ==
    /\ pc \in [Terminals -> Entering \cup Making \cup {"host", "shell"}]
    /\ advice \in [Terminals -> {"make", "distclean", "untar", "update", "restore"}]
    /\ {dockerfile, gcc} \subseteq Version
    /\ {image, container, installed} \subseteq Version \cup {None}
    /\ running \in BOOLEAN /\ (running => container # None)
    /\ building \in [Terminals -> Version \cup {None}] /\ raced \in BOOLEAN
    /\ directory \in BOOLEAN /\ (~directory => files = "none")
    /\ files \in {"none", "torn", "whole"}
    /\ crossed \in BOOLEAN /\ disturbances \in 0 .. MaxDisturbances
    /\ expected \in [Index -> BOOLEAN] /\ tree \in [Index -> {"clean", "torn", "patched"}]
    /\ turn \in [Terminals -> Index]

(* When make comes to the modules, the toolchain has the version its       *)
(* script wants, and is whole unless something disturbed it before, and    *)
(* both submodules are at their commits with every file patched: whatever  *)
(* was interrupted, pulled or done by hand before, unless another terminal *)
(* ran a command at the same time.                                         *)
BuiltAsPrepared ==
    ~crossed => \A t \in Terminals :
        pc[t] = "modules" => Prepared /\ (disturbances = 0 => files = "whole")

(* An outdated container never lingers alongside a fresh image (step 2 of  *)
(* enter-container.sh), unless two runs of the script overlapped.          *)
NoneLingers == {image, container} \cap {None} = {} /\ image # container => raced

(* It is safe to run the script repeatedly: what it does ends no command   *)
(* of another terminal, unless the container is out of date or two runs    *)
(* overlapped.                                                             *)
EndsOnlyOutdated ==
    [][\A t \in Terminals :
         pc[t] \in Inside /\ pc'[t] = "host" /\ disturbances' = disturbances
         => raced \/ container # dockerfile]_vars

(* Whatever has happened, a user who does what the messages say while the  *)
(* other terminals rest builds the image again and again, unless a torn    *)
(* toolchain passes for a whole one.                                       *)
Alone(t) == Others(t, Entering \cup Making) = {}
Recovers ==
    \A t \in Terminals :
        (WF_vars(Follows(t)) /\ <>[]Alone(t) /\ []<>(files # "torn"))
          => []<>(pc[t] = "stitched")
=============================================================================
