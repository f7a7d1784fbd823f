---------------------------- MODULE DatasetRecord ----------------------------
(***************************************************************************)
(* One dataset of dataset-service: its Mongo document, its item rows, its   *)
(* files in file-service, its jobs on the queue, and the memory of the      *)
(* processes that work on them.  Shared by the modules that model           *)
(* runImport / runRemoveGroup / runDelete (DatasetWorker), the requests     *)
(* (DatasetRequests) and the recovery sweep (DatasetRecovery).              *)
(*                                                                          *)
(* Abstractions.  The archive stays the same (DatasetArchive is about its   *)
(* replacement).  A path stands for one importable entry of the zip.  The   *)
(* summary a dataset shows (groups, imageCount, cover) is the set of stored *)
(* paths it was computed from.  Progress counters are left out.  Every      *)
(* ObjectId the code makes up is the next number of one counter.            *)
(***************************************************************************)
EXTENDS DatasetQueue, FiniteSets

CONSTANTS Groups,       \* image groups of the zip
          Paths,        \* importable entries of the zip
          GroupOf,      \* the group each entry is imported into
          BadPaths,     \* entries that are not readable images or JSON
          Mappings,     \* the mappings users choose: sets of groups
          Refs,         \* label jobs that may hold the dataset
          Clients,      \* requests in flight at once
          Ops,          \* bound: what users send, and whether the sweep runs, in an instance
          DeleteJob,    \* the id of the dataset's delete job
          Sweeper,      \* names the recovery sweep among those closing an import
          Zip,          \* the error path markImportFailed reports
          CONCURRENCY,  \* entries stored in parallel
          MaxIds,       \* bound: ObjectIds handed out
          MaxFaults     \* bound: crashes, stalls, lost jobs and aborted sweeps

Ids == 1..MaxIds
OpKinds == {"start", "resume", "cancel", "removeGroup", "trash", "restore", "purge", "hold",
            "sweep"}

ASSUME RecordAssumption ==
    /\ GroupOf \in [Paths -> Groups]
    /\ BadPaths \subseteq Paths
    /\ Mappings \subseteq SUBSET Groups
    /\ Ops \subseteq OpKinds
    /\ Zip \notin Paths
    /\ Sweeper \notin Workers
    /\ DeleteJob \notin Groups
    /\ \A i \in Ids : i \notin Groups /\ i # DeleteJob
    /\ CONCURRENCY \in Nat \ {0}
    /\ MaxIds \in Nat
    /\ MaxFaults \in Nat

VARIABLES ds,        \* the dataset document
          issued,    \* ObjectIds handed out so far
          rows,      \* item rows, one per path (unique index): the import that stored it, or 0
          files,     \* extracted files, as <<import, path>>: one folder per import
          jobs,      \* the queue
          work,      \* what each worker's processor remembers
          closings,  \* calls of markImportFailed under way
          sweep,     \* the recovery sweep's cursor
          reqs,      \* requests in flight
          faults     \* faults so far

vars == <<ds, issued, rows, files, jobs, work, closings, sweep, reqs, faults>>

-----------------------------------------------------------------------------
(* Types. *)

Status == {"none", "queued", "running", "done", "failed", "cancelled"}
Pending == {"queued", "running"}      \* pendingWork

\* A missing deliveryId is 0.  `stale`: the heartbeat is missing or older than IMPORT_STALE_MS.
Import ==
    [id : 0..MaxIds, delivery : 0..MaxIds, status : Status, mapping : SUBSET Groups,
     errors : SUBSET (Paths \cup {Zip}), stale : BOOLEAN]

NoImport ==
    [id |-> 0, delivery |-> 0, status |-> "none", mapping |-> {}, errors |-> {}, stale |-> TRUE]

Dataset ==
    [exists : BOOLEAN, trashed : BOOLEAN, deleting : BOOLEAN, holds : SUBSET Refs,
     removing : SUBSET Groups, import : Import, shown : SUBSET Paths]

NewDataset ==
    [exists |-> TRUE, trashed |-> FALSE, deleting |-> FALSE, holds |-> {}, removing |-> {},
     import |-> NoImport, shown |-> {}]

NoDataset == [NewDataset EXCEPT !.exists = FALSE]

Delivery == [id : 0..MaxIds, delivery : 0..MaxIds]
NoDelivery == [id |-> 0, delivery |-> 0]
DeliveryOf(import) == [id |-> import.id, delivery |-> import.delivery]

JobIds == Ids \cup Groups \cup {DeleteJob}

\* importJobId: deliveryId ?? importId.
ImportJobId(d) == IF d.delivery = 0 THEN d.id ELSE d.delivery

-----------------------------------------------------------------------------
(* Filters the updates share. *)

LIVE == ds.exists /\ ~ds.trashed /\ ~ds.deleting

\* importDelivery: the document still records this very delivery.
ImportDelivery(d) == ds.exists /\ DeliveryOf(ds.import) = d

IsImportActive(import) == import.status \in Pending

\* What is stored, read by summarizeItems.
Stored == {p \in Paths : rows[p] # 0}

=============================================================================
