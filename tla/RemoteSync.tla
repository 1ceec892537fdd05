----------------------------- MODULE RemoteSync -----------------------------
(***************************************************************************)
(* Bringing the remote inputs to disk: at start and at each poll the OSM   *)
(* extract and the GTFS archive are probed and downloaded, one after the   *)
(* other, before anything is built from them.                              *)
(*                                                                         *)
(* A file on disk is [version, mtime]: what it contains, and the count of  *)
(* its writings (its length and modification time tell the same apart).    *)
(* Beside it lies the sidecar, the version its download was told.          *)
(***************************************************************************)
EXTENDS Naturals, FiniteSets

CONSTANTS NoFile,      \* no such file
          Mixed,       \* bytes of two versions one after the other
          Newest,      \* Newest[s]: the last version source s publishes
          MaxFaults    \* bound on what goes wrong

Sources == {"osm", "gtfs"}

ASSUME SyncAssumption ==
    /\ Newest \in [Sources -> Nat \ {0}] /\ MaxFaults \in Nat
    /\ NoFile \notin [version : Nat, mtime : Nat]

VARIABLES remote,      \* remote[s]: the version the server has
          cached,      \* cached[s]: the file on disk
          mtime,       \* mtime[s]: how often it has been written
          sidecar,     \* sidecar[s]: the version noted beside it
          partial,     \* the OSM download on disk, [version, full] or NoFile
          phase,       \* what the reloading task does
          mode,        \* "bootstrap" or "poll"
          got,         \* the version the download in progress is told
          faults       \* how much has gone wrong

disk == <<cached, mtime, sidecar, partial>>
sync == <<remote, cached, mtime, sidecar, partial, phase, mode, got, faults>>

SyncPhases == Sources \X {"probe", "replace", "rename", "note"}
At(s, step) == phase = <<s, step>>
Present(s) == cached[s] # NoFile

SyncInit ==
    /\ remote = [s \in Sources |-> 1]
    /\ cached = [s \in Sources |-> NoFile]
    /\ mtime = [s \in Sources |-> 0]
    /\ sidecar = [s \in Sources |-> NoFile]
    /\ partial = NoFile
    /\ phase = <<"down">> /\ mode = "bootstrap"
    /\ got = NoFile
    /\ faults = 0

Fault == faults < MaxFaults /\ faults' = faults + 1

\* The extract first, then the archive; then the inputs are on disk.
Done(s) == phase' = IF s = "osm" THEN <<"gtfs", "probe">> ELSE <<"compare">>
\* An error at start ends the process, an error at a poll the poll.
Abandon == phase' = IF mode = "bootstrap" THEN <<"down">> ELSE <<"idle">>

\* A new version appears at the server.
Publish(s) ==
    /\ remote[s] < Newest[s]
    /\ remote' = [remote EXCEPT ![s] = @ + 1]
    /\ UNCHANGED <<disk, phase, mode, got, faults>>

\* The file on disk is good enough: always at start, at a poll if the server
\* tells the version in the sidecar.
Keep(s) ==
    /\ At(s, "probe") /\ Present(s)
    /\ mode = "bootstrap" \/ sidecar[s] = remote[s]
    /\ Done(s)
    /\ UNCHANGED <<remote, disk, mode, got, faults>>

\* The probe or the request fails: the file on disk goes on to be used.
KeepUnreached(s) ==
    /\ At(s, "probe") /\ Present(s) /\ mode = "poll"
    /\ sidecar[s] # remote[s]
    /\ Fault
    /\ Done(s)
    /\ UNCHANGED <<remote, disk, mode, got>>

Downloads(s) == At(s, "probe") /\ ~(Present(s) /\ (mode = "bootstrap" \/ sidecar[s] = remote[s]))

\* Mutant: the version is noted before the file is replaced.
FetchArchiveAndNote ==
    /\ Downloads("gtfs")
    /\ got' = remote["gtfs"]
    /\ sidecar' = [sidecar EXCEPT !["gtfs"] = remote["gtfs"]]
    /\ phase' = <<"gtfs", IF Present("gtfs") /\ cached["gtfs"].version = remote["gtfs"]
                          THEN "note" ELSE "replace">>
    /\ UNCHANGED <<remote, cached, mtime, partial, mode, faults>>

\* The archive is read into memory; when it equals the file only the sidecar
\* is renewed.
FetchArchive ==
    /\ Downloads("gtfs")
    /\ got' = remote["gtfs"]
    /\ phase' = <<"gtfs", IF Present("gtfs") /\ cached["gtfs"].version = remote["gtfs"]
                          THEN "note" ELSE "replace">>
    /\ UNCHANGED <<remote, disk, mode, faults>>

\* The body of the archive breaks off.
FetchArchiveFails ==
    /\ Downloads("gtfs")
    /\ Fault
    /\ Abandon
    /\ UNCHANGED <<remote, disk, mode, got>>

\* What a download of the extract can leave: a part found on disk is continued
\* when there is no extract yet, whatever version it is of; not by a server
\* that ignores the range asked for, where it starts anew.
Downloaded(full) ==
    LET appended == ~Present("osm") /\ partial # NoFile /\ partial.version # remote["osm"]
    IN  [version : {remote["osm"]} \union (IF appended THEN {Mixed} ELSE {}), full : {full}]

FetchExtract ==
    /\ Downloads("osm")
    /\ partial' \in Downloaded(TRUE)
    /\ got' = remote["osm"]
    /\ phase' = <<"osm", "replace">>
    /\ UNCHANGED <<remote, cached, mtime, sidecar, mode, faults>>

\* The part found has no rest to ask for: the range is refused.
RangeRefused ==
    /\ Downloads("osm")
    /\ ~Present("osm") /\ partial # NoFile /\ partial.full
    /\ Abandon
    /\ UNCHANGED <<remote, disk, mode, got, faults>>

\* The download breaks off: with an extract on disk the part is removed and
\* the extract used, without one the part stays to be continued.
FetchExtractFails ==
    /\ Downloads("osm")
    /\ Fault
    /\ IF Present("osm") THEN partial' = NoFile /\ Done("osm")
                         ELSE partial' \in {partial} \union Downloaded(FALSE) /\ Abandon
    /\ UNCHANGED <<remote, cached, mtime, sidecar, mode, got>>

\* The file is removed, then the download renamed to it.
RemoveCached(s) ==
    /\ At(s, "replace")
    /\ cached' = [cached EXCEPT ![s] = NoFile]
    /\ phase' = <<s, "rename">>
    /\ UNCHANGED <<remote, mtime, sidecar, partial, mode, got, faults>>

RenameDownload(s) ==
    /\ At(s, "rename")
    /\ mtime' = [mtime EXCEPT ![s] = @ + 1]
    /\ cached' = [cached EXCEPT ![s] =
                     [version |-> IF s = "osm" THEN partial.version ELSE got,
                      mtime |-> mtime[s] + 1]]
    /\ partial' = IF s = "osm" THEN NoFile ELSE partial
    /\ phase' = <<s, "note">>
    /\ UNCHANGED <<remote, sidecar, mode, got, faults>>

ReplaceFails(s) ==
    /\ At(s, "replace") \/ At(s, "rename")
    /\ Fault
    /\ Abandon
    /\ UNCHANGED <<remote, disk, mode, got>>

StoreSidecar(s) ==
    /\ At(s, "note")
    /\ sidecar' = [sidecar EXCEPT ![s] = got]
    /\ Done(s)
    /\ UNCHANGED <<remote, cached, mtime, partial, mode, got, faults>>

\* Only warned of: the old one stays, or one that does not parse.
StoreSidecarFails(s) ==
    /\ At(s, "note")
    /\ Fault
    /\ sidecar' \in {sidecar, [sidecar EXCEPT ![s] = NoFile]}
    /\ Done(s)
    /\ UNCHANGED <<remote, cached, mtime, partial, mode, got>>

\* The steps of the process that go well, and the others.
SyncStep ==
    \/ FetchArchive \/ FetchExtract \/ RangeRefused
    \/ \E s \in Sources : Keep(s) \/ RemoveCached(s) \/ RenameDownload(s) \/ StoreSidecar(s)

SyncFault ==
    \/ FetchArchiveFails \/ FetchExtractFails
    \/ \E s \in Sources : KeepUnreached(s) \/ ReplaceFails(s) \/ StoreSidecarFails(s)
=============================================================================
