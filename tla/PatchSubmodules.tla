-------------------------- MODULE PatchSubmodules --------------------------
(***************************************************************************)
(* The two scripts of `make patch-submodules', which differ in names only: *)
(* the submodule must be at the commit the patch was made for; the patch   *)
(* is applied, or found applied.  git apply checks the whole patch before  *)
(* it touches a file, and then replaces one file after the other.          *)
(***************************************************************************)
EXTENDS Terminals

CONSTANT Submodules    \* in the order of the makefile

ASSUME SubmodulesAssumption == /\ Len(Submodules) \in Nat \ {0}
                               /\ DOMAIN Submodules = 1 .. Len(Submodules)

VARIABLES expected,  \* submodule -> it is at the expected commit
          tree,      \* submodule -> "clean", "torn" or "patched"
          turn       \* terminal -> which of them it is at

patchVars == <<expected, tree, turn>>
Index == DOMAIN Submodules

PatchInit ==
    /\ expected = [i \in Index |-> TRUE]
    /\ tree = [i \in Index |-> "clean"]
    /\ turn = [t \in Terminals |-> 1]

Fails(t, next) == Ends(t, next) /\ turn' = [turn EXCEPT ![t] = 1]

\* The script ends well: the makefile calls the next one, or goes on.
Patched(t) ==
    /\ advice' = advice
    /\ \/ /\ turn[t] < Len(Submodules) /\ Goto(t, "check submodule")
          /\ turn' = [turn EXCEPT ![t] = turn[t] + 1]
       \/ turn[t] = Len(Submodules) /\ Goto(t, "modules") /\ turn' = [turn EXCEPT ![t] = 1]

\* Variant: a patch that does not apply is taken to be applied.
CheckSubmoduleLoose(t) ==
    /\ pc[t] = "check submodule"
    /\ \/ ~expected[turn[t]] /\ Fails(t, "update") /\ tree' = tree
       \/ /\ expected[turn[t]] /\ tree[turn[t]] = "clean"
          /\ tree' = [tree EXCEPT ![turn[t]] = "torn"]
          /\ Goto(t, "write") /\ UNCHANGED <<advice, turn>>
       \/ expected[turn[t]] /\ tree[turn[t]] # "clean" /\ Patched(t) /\ tree' = tree
    /\ expected' = expected

\* rev-parse, apply --check, apply --reverse --check; git apply starts to write.
CheckSubmodule(t) ==
    /\ pc[t] = "check submodule"
    /\ \/ ~expected[turn[t]] /\ Fails(t, "update") /\ tree' = tree
       \/ /\ expected[turn[t]] /\ tree[turn[t]] = "clean"
          /\ tree' = [tree EXCEPT ![turn[t]] = "torn"]
          /\ Goto(t, "write") /\ UNCHANGED <<advice, turn>>
       \/ expected[turn[t]] /\ tree[turn[t]] = "patched" /\ Patched(t) /\ tree' = tree
       \/ expected[turn[t]] /\ tree[turn[t]] = "torn" /\ Fails(t, "restore") /\ tree' = tree
    /\ expected' = expected

Write(t) ==
    /\ pc[t] = "write"
    /\ tree' = [tree EXCEPT ![turn[t]] = "patched"]
    /\ Patched(t)
    /\ expected' = expected

\* What a user does after "is at commit ...": git submodule update --force, which
\* checks every submodule out again.
UpdateSubmodules(t) ==
    /\ pc[t] = "shell" /\ advice[t] = "update"
    /\ expected' = [i \in Index |-> TRUE]
    /\ tree' = [i \in Index |-> "clean"]
    /\ Ends(t, "make")
    /\ turn' = turn

\* What a user does after "does not apply cleanly, check for conflicts".
RestoreSubmodules(t) ==
    /\ pc[t] = "shell" /\ advice[t] = "restore"
    /\ tree' = [i \in Index |-> IF tree[i] = "torn" THEN "clean" ELSE tree[i]]
    /\ Ends(t, "make")
    /\ UNCHANGED <<expected, turn>>

PatchSteps(t) == CheckSubmodule(t) \/ Write(t)
=============================================================================
