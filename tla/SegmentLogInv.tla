--------------------------- MODULE SegmentLogInv ---------------------------
(***************************************************************************)
(* The inductive invariant behind SegmentLog's safety properties, in named *)
(* parts.  It is checked by TLC as an invariant and proved in              *)
(* SegmentLogProofs for every value of the constants.                      *)
(***************************************************************************)
EXTENDS SegmentLog

\* A process has built its Log and serves calls.
Serving == phase \notin {"down", "scan", "orphans"}

\* The files present, and those a power loss may bring back.
Files == segments \cup removed

\* Every intact frame continues the one before it, lies at or after the base
\* of its file and before all later ones.
FilesChained ==
    \A b \in Position :
        /\ b \notin Files => frames[b] = <<>>
        /\ synced[b] <= Len(frames[b])
        /\ \A i \in 1 .. Len(frames[b]) :
              /\ End(frames[b][i]) <= MaxPosition
              /\ frames[b][i].whole => Follows(b, i) /\ b <= frames[b][i].first
              /\ \A j \in 1 .. i - 1 : frames[b][i].whole =>
                    frames[b][j].whole /\ End(frames[b][j]) <= frames[b][i].first

\* A torn frame is the last of the active file, not synced, and no process
\* has scanned the file since.
TornOnlyAtTail ==
    \A b \in Position : \A i \in 1 .. Len(frames[b]) :
        ~frames[b][i].whole =>
            /\ i = Len(frames[b])
            /\ synced[b] < i
            /\ End(frames[b][i]) = 0
            /\ phase \in {"down", "scan"}

\* Files do not overlap: a frame ends at or before the base of any later file.
\* Only an empty file that an unfinished roll left behind may be overtaken.
FilesOrdered ==
    \A b, c \in Files :
        b < c /\ (c <= manifest.active \/ (Serving /\ c \in segments)) =>
            \A i \in 1 .. Len(frames[b]) : End(frames[b][i]) <= c

\* Only the file both manifests call active holds unsynced frames, and during
\* a roll not even that one does.
DirtyOnlyActive ==
    \A b \in Position : synced[b] < Len(frames[b]) =>
        /\ b = manifest.active
        /\ b = durableManifest.active
        /\ phase \notin {"roll_create", "roll_link", "roll_write"}

\* Either manifest opens the directory and has a floor on a file boundary.
ManifestSound(m) ==
    /\ m.active \in linked
    /\ m.floor <= m.active
    /\ \A b \in Files : b > m.active => frames[b] = <<>>
    /\ \A b \in Files : b < m.floor =>
          \A i \in 1 .. Len(frames[b]) : End(frames[b][i]) <= m.floor

\* An acknowledged frame above the manifest's floor is among the synced frames
\* of a file that cannot vanish.
Located(m) ==
    \A fr \in acked : Above(fr, m.floor) =>
        \E b \in linked : /\ b <= m.active
                          /\ \E i \in 1 .. synced[b] : frames[b][i] = fr

\* Directory changes not yet durable: a new file, inside the roll that makes it
\* and, after a crash, until the next open removes it again; a removed file,
\* until the next roll; a renamed manifest, until it is synced or built on.
Settled ==
    /\ removed \cap segments = {}
    /\ phase \in {"roll_write", "roll_sync"} => removed = {}
    /\ \A b \in segments \ linked : b > manifest.active
    /\ Serving /\ phase # "roll_link" => linked = segments
    /\ durableManifest.active <= manifest.active
    /\ phase \notin {"down", "roll_sync", "floor_sync"} => manifest = durableManifest

\* What next holds once file b was scanned or appended to.
HeadOf(b) ==
    next = IF frames[b] = <<>> THEN b ELSE End(frames[b][Len(frames[b])])

\* The memory of a serving process agrees with the disk.
MemorySound ==
    /\ phase # "down" => lock
    /\ phase = "orphans" => HeadOf(manifest.active)
    /\ Serving =>
        /\ active \in segments
        /\ closed = {b \in segments : b < active}
        /\ \A b \in segments : b <= active \/ (phase = "roll_link" /\ b = next)
        /\ HeadOf(active)
        /\ floor <= active
        /\ durableManifest.floor <= floor
        /\ phase = "roll_link" => next \in segments /\ active < next
        /\ phase \in {"roll_write", "roll_sync"} => durableManifest.active < active
        /\ phase \in {"roll_write", "roll_sync", "rolled"} => frames[active] = <<>>
        /\ phase # "roll_write" => manifest.active = active
        /\ phase \notin {"roll_write", "roll_sync"} => durableManifest.active = active
        /\ phase # "floor_sync" => manifest.floor = floor
        /\ phase = "floor_sync" => durableManifest.floor = floor

IInv ==
    /\ TypeOK
    /\ FilesChained
    /\ TornOnlyAtTail
    /\ FilesOrdered
    /\ DirtyOnlyActive
    /\ ManifestSound(manifest) /\ ManifestSound(durableManifest)
    /\ Located(manifest) /\ Located(durableManifest)
    /\ Settled
    /\ MemorySound

\* The invariant holds until a power loss undoes a rename that an open had built
\* on without syncing it.
Sound == ~reverted => IInv
=============================================================================
