------------------------------- MODULE Install --------------------------------
(***************************************************************************)
(* effector install (native/src/install.rs): a process loads the token, or    *)
(* makes it, and then replaces the manifest; brokers that start meanwhile     *)
(* only do the former (load_mcp_settings in native/src/settings.rs).         *)
(*                                                                         *)
(* TokenStore is the first part and Installer the second.  A process is       *)
(* killed, and the machine stops, in both at once.                           *)
(***************************************************************************)
EXTENDS TokenStore

CONSTANTS Installers,      \* the processes that install; the others are brokers
          Before,          \* the owner of a manifest of an earlier installation
          Windows          \* whether this is Windows

ASSUME InstallAssumption ==
    /\ Installers \subseteq Processes /\ Installers # {} /\ Before \notin Processes
    /\ Windows \in BOOLEAN

VARIABLES manifest, drafts, whole, flushed, registered, at, failed, seen    \* of Installer

manifest_vars == <<manifest, drafts, whole, flushed, registered, at, failed, seen>>

Manifest == INSTANCE Installer
    WITH Processes <- Installers, temporaries <- drafts, synced <- flushed,
         pc <- at, erred <- failed

InstallInit == Init /\ Manifest!Init

TokenPart(p) ==
    /\ Step(p) \/ Fail(p) \/ FailToRemove(p) \/ Kill(p)
    /\ UNCHANGED manifest_vars

\* Without a token the installation ends.
ManifestPart(p) ==
    /\ Ended(p)
    /\ \/ result[p] # "error" /\ Manifest!Step(p)
       \/ Manifest!Fail(p)
       \/ Manifest!FailToDiscard(p)
       \/ Manifest!Kill(p)
    /\ UNCHANGED vars

StopBoth == Stop /\ Manifest!Stop

InstallNext ==
    \/ StopBoth
    \/ \E p \in Processes : TokenPart(p)
    \/ \E p \in Installers : ManifestPart(p)

InstallSpec == InstallInit /\ [][InstallNext]_<<vars, manifest_vars>>

-----------------------------------------------------------------------------
(* Properties *)

\* Whatever fails, is killed or is lost when the machine stops, in either part: a
\* manifest that is there is whole, and missing only while or after one replaces
\* it on Windows; installations that all end well leave one, registered; and none
\* that has ended leaves its temporary file (ManifestIsSound of Installer).
ManifestIsSound == Manifest!ManifestIsSound
=============================================================================
