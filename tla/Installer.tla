------------------------------ MODULE Installer ------------------------------
(***************************************************************************)
(* install of native/src/install.rs: processes that register themselves as   *)
(* Chrome's native host by replacing one manifest, with Chrome reading it at  *)
(* any time.  Each writes the manifest under a temporary name and renames it; *)
(* on Windows it removes the old one first, and registers the path.           *)
(***************************************************************************)
EXTENDS Integers, FiniteSets

CONSTANTS Processes,
          Before,          \* the owner of a manifest of an earlier installation
          Windows,         \* whether this is Windows
          MaxStops         \* bound: how often the machine stops

VARIABLES
    manifest,      \* the owner of the manifest, an Option
    temporaries,   \* owners of the temporary names
    whole, synced, \* files that are written, and on the disk
    registered,    \* whether the Windows registry has the path
    pc,            \* of each process
    stops,
    \* since the machine started
    erred,         \* processes that were killed, or one of whose calls has failed
    seen           \* what manifest and registered have been

vars == <<manifest, temporaries, whole, synced, registered, pc, stops, erred, seen>>

Files == Processes \cup {Before}

Manifests == {{}} \cup {{file} : file \in Files}
Now == [manifest |-> manifest, registered |-> registered]

TypeOK ==
    /\ manifest \in Manifests
    /\ temporaries \subseteq Processes
    /\ whole \subseteq Files /\ synced \subseteq Files
    /\ registered \in {FALSE, Windows}
    /\ pc \in [Processes -> {"settings", "create", "write", "sync", "look", "removeOld", "rename",
                             "register", "discard", "done", "doneLeaving", "killed"}]
    /\ stops \in 0..MaxStops
    /\ erred \subseteq Processes
    /\ seen \subseteq [manifest : Manifests, registered : {FALSE, Windows}]

Init ==
    /\ manifest \in {{}, {Before}}
    /\ temporaries = {}
    /\ whole = {Before} /\ synced = {Before}
    /\ registered \in {FALSE, Windows /\ manifest # {}}
    /\ pc = [p \in Processes |-> "settings"]
    /\ stops = 0
    /\ erred = {} /\ seen = {Now}

-----------------------------------------------------------------------------

Go(p, from, to) == pc[p] = from /\ pc' = [pc EXCEPT ![p] = to]
Remember == seen' = seen \cup {Now'}

\* The extension's name is one, the program has a path, and there is a token.
LoadSettings(p) ==
    /\ Go(p, "settings", "create")
    /\ UNCHANGED <<manifest, temporaries, whole, synced, registered, stops, erred, seen>>

CreateTemporary(p) ==
    /\ Go(p, "create", "write")
    /\ temporaries' = temporaries \cup {p}
    /\ UNCHANGED <<manifest, whole, synced, registered, stops, erred, seen>>

WriteAll(p) ==
    /\ Go(p, "write", "sync")
    /\ whole' = whole \cup {p}
    /\ UNCHANGED <<manifest, temporaries, synced, registered, stops, erred, seen>>

\* (a wrong variant: the contents stay in memory)
SyncLater(p) ==
    /\ Go(p, "sync", IF Windows THEN "look" ELSE "rename")
    /\ UNCHANGED <<manifest, temporaries, whole, synced, registered, stops, erred, seen>>

SyncAll(p) ==
    /\ Go(p, "sync", IF Windows THEN "look" ELSE "rename")
    /\ synced' = synced \cup {p}
    /\ UNCHANGED <<manifest, temporaries, whole, registered, stops, erred, seen>>

LookForOld(p) ==
    /\ Go(p, "look", IF manifest = {} THEN "rename" ELSE "removeOld")
    /\ UNCHANGED <<manifest, temporaries, whole, synced, registered, stops, erred, seen>>

\* Another process may have removed it since.
RemoveOld(p) ==
    /\ Go(p, "removeOld", IF manifest = {} THEN "discard" ELSE "rename")
    /\ manifest' = {}
    /\ erred' = IF manifest = {} THEN erred \cup {p} ELSE erred
    /\ UNCHANGED <<temporaries, whole, synced, registered, stops>>
    /\ Remember

\* (a wrong variant: a copy, which leaves the temporary file)
RenameCopying(p) ==
    /\ Go(p, "rename", IF Windows THEN "register" ELSE "done")
    /\ manifest' = {p}
    /\ UNCHANGED <<temporaries, whole, synced, registered, stops, erred>>
    /\ Remember

\* (a wrong variant: a failure goes unnoticed)
RenameUnchecked(p) ==
    /\ Go(p, "rename", IF Windows THEN "register" ELSE "done")
    /\ manifest' \in {manifest, {p}}
    /\ temporaries' = temporaries \ {p}
    /\ UNCHANGED <<whole, synced, registered, stops, erred>>
    /\ Remember

Rename(p) ==
    /\ Go(p, "rename", IF Windows THEN "register" ELSE "done")
    /\ manifest' = {p}
    /\ temporaries' = temporaries \ {p}
    /\ UNCHANGED <<whole, synced, registered, stops, erred>>
    /\ Remember

Register(p) ==
    /\ Go(p, "register", "done")
    /\ registered' = TRUE
    /\ UNCHANGED <<manifest, temporaries, whole, synced, stops, erred>>
    /\ Remember

Discard(p) ==
    /\ Go(p, "discard", "done")
    /\ temporaries' = temporaries \ {p}
    /\ UNCHANGED <<manifest, whole, synced, registered, stops, erred, seen>>

\* (a wrong variant: an early return that leaves the temporary file)
FailAndReturn(p) ==
    /\ pc[p] \notin {"look", "discard", "done", "doneLeaving", "killed"}
    /\ pc' = [pc EXCEPT ![p] = "done"]
    /\ erred' = erred \cup {p}
    /\ UNCHANGED <<manifest, temporaries, whole, synced, registered, stops, seen>>

\* A call fails, before the manifest's file exists, while it does, or after.
Fail(p) ==
    /\ pc[p] \notin {"look", "discard", "done", "doneLeaving", "killed"}
    /\ pc' = [pc EXCEPT ![p] = IF @ \in {"settings", "register"} THEN "done" ELSE "discard"]
    /\ erred' = erred \cup {p}
    /\ UNCHANGED <<manifest, temporaries, whole, synced, registered, stops, seen>>

\* The failure of the removal is ignored.
FailToDiscard(p) ==
    /\ Go(p, "discard", "doneLeaving")
    /\ UNCHANGED <<manifest, temporaries, whole, synced, registered, stops, erred, seen>>

Kill(p) ==
    /\ pc[p] \notin {"settings", "done", "doneLeaving", "killed"}
    /\ pc' = [pc EXCEPT ![p] = "killed"]
    /\ erred' = erred \cup {p}
    /\ UNCHANGED <<manifest, temporaries, whole, synced, registered, stops, seen>>

\* What is written and not synchronized may be cut short.  Names and the registry
\* are never synchronized: what was done to them since the start may be lost.
Stop ==
    /\ stops < MaxStops
    /\ stops' = stops + 1
    /\ pc' = [p \in Processes |-> IF pc[p] = "settings" THEN "settings" ELSE "killed"]
    /\ \E cut \in SUBSET (whole \ synced) : whole' = whole \ cut
    /\ synced' = whole'
    /\ temporaries' \in SUBSET {p \in Processes : pc[p] \notin {"settings", "create"}}
    /\ manifest' \in {now.manifest : now \in seen}
    /\ registered' \in {now.registered : now \in seen}
    /\ erred' = {} /\ seen' = {Now'}

Step(p) == LoadSettings(p) \/ CreateTemporary(p) \/ WriteAll(p) \/ SyncAll(p) \/ LookForOld(p)
           \/ RemoveOld(p) \/ Rename(p) \/ Register(p) \/ Discard(p)

Next == Stop \/ \E p \in Processes : Step(p) \/ Fail(p) \/ FailToDiscard(p) \/ Kill(p)

Spec == Init /\ [][Next]_vars

-----------------------------------------------------------------------------
(* Properties *)

\* Whenever Chrome looks, whatever has failed and whatever was lost when the
\* machine stopped, a manifest that is there is whole (write_manifest).
NeverPartial == manifest \subseteq whole

\* Once there has been a manifest Chrome finds one, but on Windows, and there only
\* while a process is between the removal of the old one and its rename, or
\* after one has failed or was killed (the removal in write_manifest).
NeverMissing ==
    manifest = {} /\ (\E now \in seen : now.manifest # {}) =>
        Windows /\ \E p \in Processes : pc[p] = "rename" \/ p \in erred

\* When nobody is at work, and since the machine started an installation has ended
\* and none has failed, Chrome has the manifest of one of those that have ended,
\* registered on Windows, in whatever order they took their steps.
GoodEnd ==
    /\ \A p \in Processes : pc[p] \in {"settings", "done", "killed"}
    /\ \E p \in Processes : pc[p] = "done"
    /\ erred = {}
    => /\ \E p \in Processes : manifest = {p} /\ pc[p] = "done"
       /\ registered = Windows

\* An installation that has come to its end leaves no temporary file, however it
\* ended, unless the removal itself failed (the clean-up in write_manifest).
NoLeftovers == \A p \in temporaries : pc[p] # "done"

\* All of this at once.
ManifestIsSound ==
    /\ TypeOK
    /\ NeverPartial
    /\ NeverMissing
    /\ GoodEnd
    /\ NoLeftovers

\* How far an installation is: what it is about to rename is on the disk; and after
\* the first one there is a manifest of one of those that have got that far, unless
\* another process is about to replace it or something has failed.
InstallerInv(p) ==
    /\ pc[p] = "sync" => p \in whole
    /\ pc[p] \in {"look", "removeOld", "rename"} => p \in synced
    /\ pc[p] \in {"look", "removeOld", "register"} => Windows
    /\ p \in temporaries => pc[p] \notin {"settings", "create", "register", "done"}
    /\ pc[p] \in {"discard", "doneLeaving"} => p \in erred
    /\ pc[p] = "done" => p \in erred \/ registered = Windows
    /\ pc[p] \in {"register", "done"} =>
           \/ erred # {}
           \/ \E q \in Processes : \/ manifest = {q} /\ pc[q] \in {"register", "done"}
                                   \/ pc[q] = "rename"

\* The invariant that the properties rest on: whatever the manifest has been since
\* the machine started, and may be again after a stop, is on the disk.
IInv ==
    /\ TypeOK
    /\ synced \subseteq whole
    /\ Now \in seen /\ \A now \in seen : now.manifest \subseteq synced
    /\ NeverMissing
    /\ \A p \in Processes : InstallerInv(p)

=============================================================================
