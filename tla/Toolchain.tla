----------------------------- MODULE Toolchain -----------------------------
(***************************************************************************)
(* download-gnu-toolchain.sh and what `make distclean' does to its         *)
(* directory, which marks the toolchain as there from the moment it is     *)
(* made.  The long steps are wget (with sha256sum) and tar: a short one    *)
(* before them belongs to them.                                            *)
(***************************************************************************)
EXTENDS Terminals

VARIABLES directory,  \* downloads/gnu-toolchain exists
          files,      \* what is extracted in it: "none", "torn" or "whole"
          installed   \* and its version

toolchainVars == <<directory, files, installed>>

ToolchainInit == directory = FALSE /\ files = "none" /\ installed = None

\* After download_error a user extracts the archive by hand or calls make again.
DownloadError(t) == \E next \in {"make", "untar"} : Ends(t, next)

\* mkdir -p, and wget starts.
CheckDirectory(t) ==
    /\ pc[t] = "check directory"
    /\ directory' = TRUE
    /\ Goto(t, IF directory THEN "check version" ELSE "wget")
    /\ UNCHANGED <<advice, files, installed>>

\* wget and sha256sum end well, and tar starts.
Download(t) ==
    /\ pc[t] = "wget"
    /\ files' = "torn" /\ installed' = gcc
    /\ Goto(t, "tar")
    /\ UNCHANGED <<advice, directory>>

\* Either fails: the archive, or a part of it, stays in the directory.
DownloadFails(t) ==
    /\ pc[t] = "wget"
    /\ DownloadError(t)
    /\ UNCHANGED toolchainVars

\* tar fails, of the script or by hand: what it has extracted stays.
TarFails(t) ==
    /\ pc[t] \in {"tar", "untar"}
    /\ DownloadError(t)
    /\ UNCHANGED toolchainVars

\* tar ends, and the archive is removed.
TarEnds(t) ==
    /\ pc[t] = "tar"
    /\ files' = "whole"
    /\ Goto(t, "check version")
    /\ UNCHANGED <<advice, directory, installed>>

\* The directory was removed under wget or tar.
DirectoryGone(t) ==
    /\ pc[t] = "gone"
    /\ DownloadError(t)
    /\ UNCHANGED toolchainVars

\* gcc --version.  Of a torn toolchain the driver may be there.
CheckVersion(t) ==
    /\ pc[t] = "check version"
    /\ \/ /\ files # "none" /\ installed = gcc
          /\ Goto(t, "check submodule") /\ advice' = advice
       \/ /\ files # "whole" \/ installed # gcc
          /\ Ends(t, "distclean")
    /\ UNCHANGED toolchainVars

\* rm -drf of the downloads, from its start to its end: wget and tar lose their files.
Removing(t, step) == pc' = [u \in Terminals |-> IF u = t THEN step
                                               ELSE IF pc[u] \in {"wget", "tar", "untar"} THEN "gone"
                                               ELSE pc[u]]

MakeDistclean(t) ==
    /\ pc[t] = "shell"
    /\ files' = (IF files = "none" THEN files ELSE "torn")
    /\ Removing(t, "distclean")
    /\ UNCHANGED <<advice, directory, installed>>

\* Variant: the downloads stay.
CleanOnly(t) == pc[t] = "distclean" /\ Ends(t, "make") /\ UNCHANGED toolchainVars

Distclean(t) ==
    /\ pc[t] = "distclean"
    /\ directory' = FALSE /\ files' = "none" /\ installed' = None
    /\ Removing(t, "shell")
    /\ advice' = [advice EXCEPT ![t] = "make"]

\* Variant: it is not looked at whether the directory is there.
UntarAnyway(t) ==
    /\ pc[t] = "shell" /\ advice[t] = "untar"
    /\ files' = "torn" /\ installed' = gcc
    /\ Goto(t, "untar")
    /\ UNCHANGED <<advice, directory>>

\* What download_error says to do by hand: tar, which needs the directory.
Untar(t) ==
    /\ pc[t] = "shell" /\ advice[t] = "untar"
    /\ \/ /\ directory
          /\ files' = "torn" /\ installed' = gcc
          /\ Goto(t, "untar") /\ UNCHANGED <<advice, directory>>
       \/ /\ ~directory
          /\ Ends(t, "make") /\ UNCHANGED toolchainVars

UntarEnds(t) ==
    /\ pc[t] = "untar"
    /\ files' = "whole"
    /\ Ends(t, "make")
    /\ UNCHANGED <<directory, installed>>

ToolchainSteps(t) == \/ CheckDirectory(t) \/ TarEnds(t) \/ DirectoryGone(t) \/ CheckVersion(t)
                     \/ Distclean(t) \/ UntarEnds(t)
=============================================================================
