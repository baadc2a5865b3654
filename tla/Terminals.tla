----------------------------- MODULE Terminals -----------------------------
(***************************************************************************)
(* The terminals of a developer who works on one checkout: each is at a    *)
(* prompt of the host or of the development container, or runs a script.   *)
(* All of them share the container and, as the container maps the          *)
(* checkout, its files.                                                    *)
(***************************************************************************)
EXTENDS Naturals, Sequences

CONSTANTS Terminals, Version      \* versions are numbers; 0 is none

ASSUME TerminalsAssumption == Version \subseteq Nat \ {0} /\ 1 \in Version

VARIABLES pc,          \* terminal -> where it is
          advice,      \* terminal -> what the last message says to do next
          dockerfile,  \* ODP_IMAGE_VERSION of the checkout's Dockerfile
          gcc          \* GCC_VERSION of the checkout's download script

None == 0

Entering == {"check image", "remove", "check missing", "build", "check container", "run",
             "check running", "start", "exec"}
Making == {"check directory", "wget", "tar", "gone", "check version", "check submodule",
           "write", "modules", "stitched", "distclean", "untar"}
Inside == Making \cup {"shell"}

Goto(t, step) == pc' = [pc EXCEPT ![t] = step]
Others(t, steps) == {u \in Terminals \ {t} : pc[u] \in steps}

\* A script of the build ends, and its user is told what to do.
Ends(t, next) == Goto(t, "shell") /\ advice' = [advice EXCEPT ![t] = next]
=============================================================================
