# Visin in TLA+

Visin is a platform for image datasets, labelling jobs and training runs: Express services over
MongoDB, a BullMQ queue on Redis, a file service, and web frontends. This directory models what the
services do when several requests, workers, sweeps and failures meet on the same records. TLC checks
the models on small instances; TLAPS proves the main safety results for every instance.

The core is the life of one dataset in `dataset-service`: its imports, groups, holds, trash and
deletion (`Dataset`), and its zip (`DatasetArchive`). It is where the platform keeps the most state
outside one document (a Mongo document, item rows, stored files, queue jobs, holds of another
service), and where the most actors act on it. Around it are six services with a module each:
uploads and deletions of files, OAuth connections, groups, questions to the chat assistant, the life
of a label job, and the answers of its annotators.

- [Inventory](#inventory)
- [The dataset: modules and code](#the-dataset-modules-and-code)
- [The zip](#the-zip)
- [The services](#the-services)
- [Properties](#properties)
- [Runs](#runs)
- [Proofs](#proofs)
- [Where documentation and code differ](#where-documentation-and-code-differ)
- [Not modelled](#not-modelled)

Source paths are relative to the repository's root; `ds/` is
`apps/backend/dataset-service/src/`.

## Inventory

### dataset-service

| Part | State it keeps | Operations |
|---|---|---|
| Dataset document (`ds/models/Dataset.ts`) | `import` (id, deliveryId, status, mapping, errors, heartbeat), `scan`, `archive`, `pendingUpload`, `contents`, `groups`, `imageCount`, `removingGroups`, `holds`, `trashedAt`, `deletingAt` | all of the below |
| Item rows (`ds/models/DatasetItem.ts`) | one row per stored entry, unique by dataset and path, naming the import and the file | created by imports, removed by imports, group removals and deletion |
| Queue (`ds/queue/`) | one BullMQ job per import delivery, scan, group removal and deletion, under a stable id | add, retry, remove, take, stalled check, `failed` event |
| Import worker (`ds/services/importService.ts`, `deleteService.ts`, `scanService.ts`) | the memory of one running processor | `runImport`, `runRemoveGroup`, `runDelete`, `runScan` |
| Requests (`datasetImport.ts`, `datasetService.ts`, `datasetTrash.ts`, `internalService.ts`, `datasetArchive.ts`) | what a request read before its update | start, resume and cancel an import; remove a group; trash, restore, delete; add and remove holds; reserve, discard, complete and rescan an archive |
| Sweeps (`jobRecoveryService.ts`, `datasetTrash.ts`) | a cursor's snapshot | re-enqueue lost work, close lost imports and scans, empty the trash |
| Reads, sharing, Hub sources, activity | none of their own | `itemService.ts`, `shareService.ts`, `hubService.ts`, `activityService.ts` |

Parts meet through the dataset document and the queue. A request checks what it read and then
updates under a Mongo filter that repeats some of the checks; after that it tells the queue. The
worker fences its updates by the delivery's identity (`ds/services/workIdentity.ts`). The sweep is
what makes up for a call to the queue that never happened.

Hard behaviours: stale reads (request, sweep); a processor that lost its lock and runs on; a
cancelled or superseded delivery whose processor has not noticed; a crash between a file and its
row; retries that must neither lose nor repeat work; a removal whose attempts are used up and whose
id is still taken; holds of label-service against imports, removals and deletion. What makes it
correct: a hold is respected whatever races with it; a delivery is settled once; an import reported
done is complete; rows have bytes; nothing of a deleted dataset stays; whatever was asked for
happens in the end.

### The other services

| Service | State, operations, hard behaviour | Correctness | Module |
|---|---|---|---|
| file-service (`uploadStore.ts`, `uploadService.ts`, `utils/storage.ts`) | an upload document per file id with a lease, chunks and published bytes on a volume. Reserve, write a chunk at an offset, assemble, publish, replace, delete one or many, read. A lease lapses while its holder still works; bulk deletion races publication | what the document says was uploaded is on the volume; nothing is published under a deleted id; a reader finds what is there | `UploadStore`, `FileLife` |
| label-service jobs (`jobLifecycleService.ts`, `jobService.ts`, `taskSetService.ts`, `materializationService.ts`) | job documents with a creation or deletion lease, task sets with a lease of their own, tasks; holds in dataset-service. Each is a sequence of steps in two services that recovery may take over | a job that shows a dataset holds it; a deleted job leaves no hold and no task; the set it shows is whole | `LabelJobs` |
| label-service tasks (`taskService.ts`, `taskItem.ts`) | task leases, annotations, counts. Next task, save, finish, skip. Answers arrive late and twice | no answer lost or counted twice; a job completes exactly when its tasks are | `LabelTasks` |
| chat-service (`worker.ts`, `runService.ts`, `messageService.ts`) | runs with a lease and a state, a lock per conversation, a daily budget. Ask, claim, execute, publish, cancel, reclaim | turns neither overlap nor overtake; a dropped question is not answered; the limit holds; every question is settled | `ChatRuns` |
| backend-core OAuth (`oauth/service.ts`, `oauthController.ts`) | clients, grants, codes, rotating refresh tokens. Requests are repeated when answers are lost | a code and a token are exchanged once; a replay ends its connection and no other | `OAuthGrants` |
| group-service | groups, members, invitations. Invite, accept, decline, change roles, leave, trash, delete | an invitation is used once; a group has an owner; only owners make owners | `Groups` |
| auth-service (`sessionService.ts`, `bootstrapService.ts`) | sessions, accounts | one first owner; a revoked session stays revoked | none |
| vision-service | trainings, epochs, evaluations, uploads, aggregates; purge | the rest is aggregation over reads | none |
| backend-core sweeper (`sweeper.ts`) | a lease per sweep | at most one sweep of a name runs | part of `DatasetRecovery` |
| mcp-service, frontends | none: they translate or show | | none |

`PROJECT.json` lists every component with its status, and the hazards of the code at their lines.

## The dataset: modules and code

| Module | Models | Code |
|---|---|---|
| `DatasetQueue` | what each queue operation makes of a job: states, attempts, stalls, lock | `ds/queue/importQueue.ts`, `ds/queue/importWorker.ts`; BullMQ's side external |
| `DatasetRecord` | constants, variables, types and the filters updates share | `ds/models/`, `ds/services/workIdentity.ts`, `accessService.ts` |
| `DatasetWorker` | `runImport`, `runRemoveGroup`, `runDelete`, the end of an attempt, crashes, lost locks, lost jobs, stalled checks | `ds/services/importService.ts`, `deleteService.ts` |
| `DatasetRequests` | every request: its read, its update, its calls to the queue | `datasetImport.ts`, `datasetService.ts`, `datasetTrash.ts`, `internalService.ts` |
| `DatasetRecovery` | `markImportFailed` and the sweep, each await a step; heartbeats that go stale | `jobRecoveryService.ts`, `importService.ts` |
| `Dataset` | composition, fairness, properties | `ds/index.ts` |
| `ImportLifecycle` | the abstract specification: what clients may rely on about the recorded delivery | refined by `Dataset` |
| `Dataset_proofs` | TLAPS proofs | |
| `MCDataset` | zip layouts for TLC | |
| `DatasetArchive` | uploads, adoption and scans of the dataset's zip, and the scan half of the sweep | `datasetArchive.ts`, `scanService.ts`, `jobRecoveryService.ts` |
| `MCArchive` | the symmetry of clients for TLC | |
| `DatasetArchive_proofs` | TLAPS proofs | |
| `DatasetQueue_proofs` | what the queue's operators keep, for both proof modules | |

`DatasetRecord` to `Dataset` each EXTEND the one before; `DatasetQueue` is shared by `Dataset` and
`DatasetArchive`, which are otherwise models of their own.

**State.** `ds` is the Mongo document. `rows[p]` is the item row of an entry, the number of the
import that stored it. `files` holds `<<import, path>>`: an import stores under a folder of its own.
`jobs[j]` is the job under each id the queue may know: an import delivery (a number), a group
removal (the group) or the deletion (`DeleteJob`). `work[w]` is what a processor remembers between
two awaits. `reqs[c]` is what a request remembers. `closings` are calls of `markImportFailed`
under way: the worker's `failed` event starts them without waiting. `sweep` is the recovery
cursor's snapshot. `issued` is the last ObjectId handed out; deliveries are compared for identity by the code
and for age only in the properties.

**Steps.** Every `await` that reads or writes shared state is an action, and what lies between two
awaits belongs to the action of the first. A request is a read with its checks (`ReadStart`), then
its update under the filter the code gives Mongo (`Start`), then its queue calls (`Drop`,
`EnqueueImport`); any of the later ones may be cut off by an unavailable queue or a dead instance
(`Abandon`). A single Mongo update is one atomic step. `AddHold`, `RemoveHold` and `Trash` are one
conditional update each.

**Storing entries.** Up to `CONCURRENCY` entries are in flight: a file is put (`PutEntry`), then its row
created (`CreateRow`), and an entry in flight lands even while the attempt is stopping or failing,
as the code awaits them. `EntryError` is a row that cannot be created after its file was put.

**Errors.** `AttemptError` may end any attempt at any await: inside the `try` of `runImport` it is
caught and partial progress saved, elsewhere it ends the attempt as it is. An archive that cannot be
read (`NonRetryableImportError`) is the outcome `"fatal"`.

**Faults**, at most `MaxFaults` of them: an instance is killed (`Crash`), a live processor loses its
lock and runs on (`LoseLock`), Redis forgets a job (`LoseJob`), a sweep dies (`SweepAborts`).

**The queue.** BullMQ is external: a job is `unknown`, `waiting` (delayed and backed off jobs
included, so jobs are taken in any order), `active`, `completed` or `failed`; adding an id that is
still held does nothing; removing is refused while the job is locked. When a job is out of stalls
BullMQ reports an error of its own; `willRetry` may take it for a retry and then nothing is closed,
so `CheckStalled` allows both.

**Left out, deliberately.** The archive does not change here (that is `DatasetArchive`). A path stands for an importable entry; how a zip is parsed and mapped to groups is a choice
(`BadPaths`, `GroupOf`). `groups`, `imageCount` and the cover are the set of paths they summarise.
Progress counters, manifests, JSON entries, items migrated without a folder, permissions, renaming
and activity are not modelled. Requests are modelled past their permission check.

## The zip

`DatasetArchive` models the other half of the document: `archive`, `pendingUpload`, `contents` and
`scan`. Files and scans are numbered; 0 is a missing one. `store[f]` is what file-service holds under
a file's id: it is reserved until a client is given its URL, uploading until the last byte arrives,
and once deleted it is retired, as file-service never writes a deleted id again. That is all
this module asks of file-service, and each call of it is one step.

A request is a read (`ReadUpload`), the calls of file-service it makes (`SizeOfPending`,
`ResumeReservation`, `Reserve`), and its update under the filter `archiveMutation` (`Pend`, `Extend`,
`Adopt`); what follows the update, the deletion of a replaced zip (`DropOld`, `DropPending`) and the
enqueue of its scan, are steps of their own that may be cut off. `Conflict` is every update whose
filter matches nothing. Discarding claims the upload first (`Claim`), because its bytes go before
the record does.

The scan's worker, its queue job and its closing call work as an import's do, with the conditions of
`runScan` and `markScanFailed`. `SweepIdentify` is the sweep giving an id to a scan that an older
release queued under a random one; such a scan, with or without its job, is an initial state.

A hold and a pending import are one flag, `inUse`: every filter here asks for the absence of both.
Imports themselves do not run in this module, and scan jobs have the worker to themselves; in
production they share it, and nothing here depends on how long a job waits.

## The services

The six modules share no state with each other nor with `Dataset`: services meet over HTTP, and each
module takes what it needs of the other side as a step of its own (a hold is placed, a file is
there). In each, one call of MongoDB, of another service or of the volume is a step; what lies
between two of them belongs to the action before.

**`UploadStore`** (file-service). `upload[f]` is the document of a file id: the lease (`owner`,
`live`) and the progress (`state`: offset, parts, pointer to the published bytes). `bytes[f]` is
what lies in the file's directory, under names that carry the lease that wrote them; `plain` are
files from before the store. `writer[c]` is a request, with its copy of the state (`mine`).
`OpenUploadStore` takes the lease, `Save` is every update under it (`Fenced`), `CloseStore` gives it
back, `LapseLease` is the passing of time under a slow or dead holder. Chunks (`BeginChunk`,
`Receive`, `CommitChunk`, `Assemble`, `Publish`), whole uploads, internal replacement, single
(`RetireFile`, `RemoveBytes`) and bulk deletion (`ClaimBulk` to `DeleteNext`) and reads
(`ResolvePointer`, `FetchBytes`) are a few actions each. **`FileLife`** is what file-service
promises of a file; `UploadStore` refines it, and it is what `DatasetArchive` takes for granted.

**`OAuthGrants`** (backend-core `oauth/service.ts`, the token endpoint). One user, one application,
which may be registered more than once. Tokens are numbered; a generation, the chain from one code,
is named after its first token. `uses` counts per token how often it was presented, answered and
exchanged: history the properties speak of. An answer may be lost; then the client, which never
held the new token, presents the old one again.

**`Groups`** (group-service). A request reads the document, checks rights on that copy and prepares
what it will save (`Prepare`); `SaveGroup` is mongoose's save, which writes the changed paths if the
version is still the one read. Members are an array saved whole by a removal and one by one by the
others (`changed`); invitations are appended to, or replaced (`replaces`). Declining pulls an
invitation out without a version.

**`ChatRuns`** (chat-service). Per question: the message, its run, what a replica does with the run
(`exec`). Per conversation: the lock. Per replica: the phase of its tick and the list it read for
it. `LapseRun` and `LapseLock` are five minutes without a heartbeat; `WorkersStall` says whether
that can happen to a worker that is still at work.

**`LabelJobs`** (label-service). One job, its dataset's hold, the batches of task rows per set, and
who is at work: the creator, the requests that delete (`Deleters`), the recoveries, the builds of task
sets (`Builders`), the sweep over retired sets (`cleaner`), an annotator late with labels. The recovery
sweep may run more than once at a time (`Recoverers`), as its own lease is best-effort. A call about the
hold that fails for its caller arrived, never will, or is on its way (`Uncertain`): then it is counted in
`late` and arrives some time after the lease was released (`Arrive`), since the code releases it at once.
A dataset refuses a hold it does not have yet whenever it likes (`AddHold`): it may be importing, losing
a group, in the trash or deleted, and stop being so before the next attempt. Two constants say what time
allows: `CallsLinger`, that a call arrives late, and `RequestsPause`, that a lifecycle lease runs out on work
still going on (`LapseLifecycle`), as after a pause of the process or a slow database; both are faults, bounded
with the others. Labels and tasks removed once more by a deletion that another overtook are not told apart from
those removed once: nothing of a job that is being deleted is wanted. `LapseBuild` may come at any time.

**`LabelTasks`** (label-service). The tasks of the published set, the labels of each annotator, and
requests that read the job and the task once and then write label, count and job one by one. The
lease of a task only decides what is offered next; no request that follows looks at it, so it is
left out.

| Module | Code |
|---|---|
| `UploadStore` | `apps/backend/file-service/src/services/uploadStore.ts`, `uploadService.ts`, `utils/storage.ts` |
| `OAuthGrants` | `libs/backend-core/src/oauth/service.ts`, `apps/backend/auth-service/src/controllers/oauthController.ts` |
| `Groups` | `apps/backend/group-service/src/services/` |
| `ChatRuns` | `apps/backend/chat-service/src/services/worker.ts`, `runService.ts`, `messageService.ts`, `sharedAssistants.ts` |
| `LabelJobs` | `apps/backend/label-service/src/services/jobLifecycleService.ts`, `taskSetService.ts`, `materializationService.ts`, `jobService.ts` |
| `LabelTasks` | `apps/backend/label-service/src/services/taskService.ts` |
| `MCServices`, `MCBackground` | compositions for TLC: an instance picks one service and lets it run alone |
| `Access_proofs` (of `OAuthGrants` and of `Groups`), `ChatRuns_proofs`, `UploadStore_proofs`, `Label_proofs` (of `LabelJobs` and of `LabelTasks`) | TLAPS proofs |
| `Services_proofs` | TLAPS proofs about all of them side by side |

## Properties

The others than the type invariants (`TypeOK`, a part of `IInv`, and `ServicesTypeOK`) are aimed at what one request's
tests cannot reach.

- `HeldInPeace`: while a label job holds the dataset, no import is pending, no group is being
  removed and no deletion has begun. Four kinds of request decide this on a read of their own.
- `DoneIsComplete`: a done import stored every readable entry its mapping takes, over retries,
  resumes, crashes and group removals (an unreadable entry is reported instead).
- `RowsHaveFiles`: a row of the recorded import has its bytes, unless its group or the dataset is on
  its way out.
- `NoOrphans`: a deleted dataset leaves no row and no file, and none comes back.
- `LifecycleSpec`: `Dataset` implements `ImportLifecycle`. A delivery that was settled stays so until a newer one replaces
  it; only a running delivery becomes done; none begins under a hold or after deletion began. One queued
  before the deletion began may still run (see below). A late processor, a late closing call or a late sweep cannot settle somebody else's delivery.
- `ImportsSettle`, `RemovalsComplete`, `DeletionCompletes`: what was asked for happens in the end.
- `IInv`: the inductive invariant of the proofs, with types and budgets of attempts.

Of the zip:

- `ReferencedStored`: the archive's bytes are stored, and so is an upload nobody is discarding. Four
  requests delete files, each one that its own read or update told it about.
- `NothingForgotten`: bytes that arrived belong to the archive or the pending upload when no request
  is under way, even after a queue outage. A deletion that fails, or an instance that dies before it, is the
  exception, since the code logs it or answers an error and nothing repeats it; each such
  fault leaves one zip behind at most, however the other requests interleave.
- `ContentsOfArchive`: contents were read from the archive the dataset has, and a scan that is done is
  of that archive, whatever replaced it while a worker was reading.
- `UsedArchiveStays`: the zip is not replaced under a hold or an import.
- `ScanVerdictStays`: a scan that is done or failed stays so until a newer one is queued.
- `ScansSettle`: every scan gets a verdict or gives way.
- `IInv`: the inductive invariant of the proofs.

Of the services (`ServicesTypeOK` types whichever runs):

- `CommittedIsStored`: the parts an upload document counts, and the file it points at, are on the
  volume, whichever writer collects leftovers or deletes meanwhile.
- `ReadersFind`: a reader who was there before a replacement finds the old bytes or the new ones.
- `FileLifeSpec`: `UploadStore` implements `FileLife`: what readers see changes only by publication, an
  uploaded file is never replaced, a deleted one is gone for good.
- `ExchangedOnce`, `ReplayIsNoticed`, `NoFalseAlarm`: a code and a token are good for one exchange; once
  two requests with the same token were answered the connection is over; and nothing else ends it
  but its user.
- `AlwaysOwned`, `SpentStaysSpent`, `OwnersMakeOwners`: a group keeps an owner whatever two of them do at
  once; an invitation that was used or revoked is never pending again, also when an older copy is
  saved; nobody becomes an owner but by the will of one who is an owner at the moment of the save.
- `JoinsAreInvited`: nobody joins by an invitation that was withdrawn, declined or used while the request was
  under way, nor a group deleted meanwhile, nor when its author lost the right to invite. Declining does not
  raise the version, so the save must ask for the invitation again.
- `TurnsInOrder`: a run starts only when the one before it in its conversation is over and no older one
  waits. `DroppedNeverAnswered`: what a finished cancellation found unanswered stays so.
  `WithinDailyLimit`: what analyses use stays within the limit, also when they fail or run at once.
- `HoldFollowsJob`: a job in use holds its dataset, and one being deleted keeps the hold while it shows
  tasks. `HoldEndsWithJob`: one that is gone leaves no hold, which nobody could release. They are two properties
  because only the first holds whatever arrives late. `PublishedIsWhole`: the set a job shows has every batch.
- `CompletedMeansAnswered`: a job is complete only when every task has its answers, and then it is,
  unless a request died or the job was paused.
- `EveryQuestionSettles`, `LifecycleEnds`, `RetiredAreRemoved`: what the background work owes: questions
  are settled, creations and deletions end, rows of sets that are not current go.

**One worker or two.** `HeldInPeace`, `LifecycleSpec` and `IInv` hold with any number of processors
side by side. `DoneIsComplete`, `RowsHaveFiles` and `NoOrphans` are checked and proved with one worker: `compose.yml`
starts one dataset-service, and `IMPORT_WORKERS` is 1. With two, a processor that lost its lock
could store an entry while its successor clears folders; the code has no fence between them. This
is an assumption of those runs and theorems, not a result.

## Runs

The runs named `archive` are of `MCArchive`, `services` and `background` are of `MCServices` and
`MCBackground`, the others of `MCDataset`. A run's `Ops` names the
kinds of request its clients send and whether the recovery sweep runs.

| Run | Checks | Instance |
|---|---|---|
| `dataset_import` | `DoneIsComplete`, `RowsHaveFiles`, `LifecycleSpec` | start, resume, cancel; two ids, a good and an unreadable entry in a group each, imported together or the good one alone, one attempt, one stall, one fault |
| `dataset_requests` | `HeldInPeace`, `DoneIsComplete`, `NoOrphans`, `LifecycleSpec` | two clients sending start, cancel, group removal, trash, restore, purge, and a label job's hold; one entry, one fault |
| `dataset_workers` | `IInv`, `LifecycleSpec` | two workers, two faults: a processor without its lock beside the next one |
| `dataset_recovery` | `ImportsSettle`, `RemovalsComplete` | start, cancel, group removal and the sweep under fairness, one fault |
| `dataset_deletion` | `DeletionCompletes` | start, trash, purge and the sweep under fairness; one entry, which cannot be read, one fault |
| `archive_upload` | `ReferencedStored`, `NothingForgotten`, `ContentsOfArchive`, `IInv`, `UsedArchiveStays` | two clients sending every request about uploads, holds that come and go, a worker; two files, two scans, one fault |
| `archive_recovery` | `ScanVerdictStays`, `ScansSettle` | a scan of a stored zip, anonymous or not, rescan, trash and restore, the worker and the sweep under fairness, one fault |
| `services` | the safety of the six services (17 properties) | each alone: two upload clients and one file with three leases; two OAuth requests, two codes, three tokens; two users, one group, one invitation, two requests; two questions on two replicas with cancellation; two deletions and two builds of a job, one fault; two submissions of two annotators, one lost |
| `background` | `HoldFollowsJob`, `EveryQuestionSettles`, `LifecycleEnds`, `RetiredAreRemoved` | under fairness: two questions, a replica with one crash, members that change; a label job with its creator, a deletion and a recovery at once, calls that arrive late, leases that run out on work going on, two faults |
| `restored_then_deleted` | violates `OnlyTrashIsDeleted` | trash, restore, purge by two clients |
| `held_files_deleted` | violates `HeldFilesStay` | start, cancel, hold |
| `cancelled_hides` | violates `CancelledShows` | start, cancel |

**Why the bounds are enough.** The properties relate one delivery to the one before or after it, so
two numbers (an import and its resume, or two imports) show every order of two deliveries. One good
and one unreadable entry show every verdict of an import; two entries in flight show every order of
landing. Two clients suffice because each update is decided by one read and one other request that
came in between. One fault is enough to lose a job, a lock, a processor or a sweep once; two faults
and two workers are needed to have a lost processor and a successor that is lost too. One attempt
reaches the `failed` event soonest; a stalled job is handed out again within it, a failed import is
resumed, and `dataset_workers` has two attempts. The entry of `dataset_deletion` cannot be
read because what is stored does not decide whether a deletion ends; that nothing of it stays is
`NoOrphans`, in `dataset_requests`. Two files are an archive and what replaces it, or
an upload and what replaces it; the dataset may start without a zip, so both may be new. 
The larger products are out of the time these runs are given, and are what the proofs are for.

`services` sums up six state spaces in a million states (about 460,000 of the upload store, 180,000 each of
chat and label jobs, 90,000 of groups, 75,000 of tasks, 65,000 of OAuth). Its `VIEW` is the state
of the service that runs, which is sound as the others stay at their initial state and no property
looks at two; its `SYMMETRY` is of what is in flight and of the users of a group, which no definition
tells apart. Three leases are a writer, the one that took over and a deletion. Three tokens are the
first, its successor and one more after a replay or a reconnection; one registration suffices there,
as a grant is per client. Two questions are a turn and the next; two builds are a set and its
replacement, and two batches make a set that is half there. `MaxVersion` is four saves of a group,
enough for two owners made, one of them demoted while the other acts; one invitation suffices to race its
acceptance with its withdrawal, its refusal and the group's deletion. What the proofs call the
inductive invariants were also checked by TLC on larger instances while they were found: two
registrations and three OAuth requests; two groups, two invitations and two requests; three task sets;
both kinds of chat operation with a fault.

The label job of `background` is small in tasks (one set of one batch, whose races are those of `services`) and wide
in what works on the lifecycle. `RetiredAreRemoved` is thus about builds that were abandoned or expired and labels of a
deleted job; a set that was replaced is retired by the same condition. Two faults are a late call and a lease that ran out under its holder, or a recovery
that fails after the request it took over from. In `services` `CallsLinger` and `RequestsPause` are false.

**Deadlock** is not checked (`CHECK_DEADLOCK FALSE`): once its ids are used up and its faults spent, an
instance in which nothing is pending has nothing left to do, as the service has when nobody asks
anything of it.

**Fairness of the background.** `ChatFairness`: a replica's tick goes on (`setInterval`, every second), a
claimed run goes on (the analysis is bounded by a signal), and leases of dead workers lapse.
`LabelJobsFairness`: requests under way go on, leases lapse, and both sweeps come round (`startSweeper`
in `index.ts`), the recovery on some replica or other. A late call need not arrive. A lease that
runs out on live work is a fault, of which there are finitely many: else a request and
a recovery could take the job from each other for ever. Users owe nothing; a crash (`Die`, `WorkerDies`,
`BuilderDies`) may take the place of any step, up to the bound on faults. Conditions: a call that fails for ever would keep a deletion
waiting for ever, so the bound is part of what is assumed.

**Fairness of a dataset** (`FairSpec`) is weak fairness of: taking a waiting job and the next step of a live
processor (the event loop); the stalled check (BullMQ runs it every 30 s in every worker); the sweep
(`ds/index.ts` starts it every minute, and at startup); the passing of time that makes a heartbeat
stale; and the return of a closing call. Users owe nothing, and so do requests: what a request leaves
undone the sweep must find. `RemovalsComplete` and
`DeletionCompletes` further assume `ErrorsStop`: from some moment no attempt fails. Without it a
removal may be retried for ever; that it is retried again after its attempts are used up is what the
property is about. `ImportsSettle` needs no such assumption: an import that keeps failing is settled
as failed.

## Proofs

`Dataset_proofs` proves, for every number of workers, clients, groups, entries, ids, attempts,
stalls and faults, from `QueueAssumption` and `RecordAssumption` only:

- `Typing`: `Spec => [](TypeOK /\ BudgetsKept)`. The queue is well typed only together with its
  budgets: `AttemptFailed` counts up, so a job that is handed out must have an attempt left.
- `Invariance`: `Spec => []IInv`. `HeldInPeace` is not inductive by itself. `RemoveGroup` and
  `Purge` set their marks under the filter `holds = {}`, but `DeleteRecord` ends the document
  altogether, and only a document whose deletion is marked may be ended: hence `DeletionMarked`, that
  a processor past its first read found the mark and nobody takes it back. `LifecycleSpec` needs that a
  new delivery is newer, hence `Numbered`, and that a request that replaces a delivery read a settled
  one, hence `RequestsRemember`.
- `Peace`: `Spec => []HeldInPeace`.
- `Implementation`: `Spec => LifecycleSpec`, the refinement.
- `ContentInvariance`: `Spec => []ContentIInv`, and from it `DoneImportsAreComplete` (`DoneIsComplete`),
  `RowsAreBacked` (`RowsHaveFiles`) and `DeletionIsFinal` (`NoOrphans`), each where `Workers = {w}`: one processor, as
  `compose.yml` runs it (see "One worker or two"), and any number of everything else.

The argument: a lemma per group of actions shows typing. Then `Effect` sums up what any step does
to the document as one of eight kinds of change, and a lemma shows that every step has one. The rest
of `IInv`, and that each step is one of the abstract lifecycle or leaves it alone, follow from
`Effect` without looking at the actions again.

`ContentIInv` adds to `IInv` what the processor has in mind and may rely on (`InMind`), place by place. The
folders it is about to clear are never the recorded import's, even of one begun after it listed them,
because a new import's number is higher than that of any row (`ClearsOthers`, `RowsIssued`). Past the
clearing, every entry its mapping takes is stored, still to come, in flight or reported (`Accounted`);
its copy of the mapping stays the recorded one as long as its delivery does, because the removal that takes
a group out of it needs the same worker (`ImportInMind`). An entry in flight
has its file (`EntriesPut`). A removal lifts its mark when no row of the group is left (`GroupInMind`), and
a deletion removes the record last, so that nobody is left who could bring a row back (`RecordLast`). What
requests, the sweep and closing calls do to all this is little (`Elsewhere`): they leave the recorded import as it
is or put a delivery of a fresh number in its place, and take no mark back. Then each step of the processor
is a lemma.

`DatasetArchive_proofs` proves, for every number of clients, workers, files, scans, attempts, stalls
and faults, and whatever `Ops` holds, from `QueueAssumption` and `ArchiveAssumption` only:

- `ArchiveTyping`: `Spec => [](TypeOK /\ BudgetsKept)`.
- `ArchiveInvariance`: `Spec => []IInv`.
- `NothingReferencedIsDeleted`, `ContentsAreOfTheArchive`: `ReferencedStored` and `ContentsOfArchive`.
- `UseProtects`, `VerdictsStay`: the action properties `UsedArchiveStays` and `ScanVerdictStays`.
- `NothingIsForgotten`: `NothingForgotten`.

`ReferencedStored` is not inductive, as a request deletes by an id it remembers, long after its
read. `IInv` says why no such id is in use: what was replaced, by the very update after which it is
deleted, is never recorded again (`DropIsSafe`), because only a file reserved since is ever recorded,
and that one nobody else knows (`Alone`) as it was none of the files known before (`KnownFiles`). An
upload being discarded is the exception: it is still recorded while its bytes go, and `discarding`
keeps it from being adopted. `ScanOfArchive` is inductive with `scan.id <= scanned`: an adoption
replaces the scan in the update that replaces the zip, so a late delivery finds another id. The
argument: `ElsewhereEffect` sums up what a step that is not a request's does to the document and to
storage; the steps of requests are treated by what they do to storage (`QuietStorage`: nothing;
`FileStorage`: to files they know) and, where they record something, one by one.
`NothingForgotten` speaks of moments without requests, so `KeptIInv` says who accounts for a file while there
are some: the document, or the request that replaced it and deletes it next (`Held`). Bytes arrive only
under a URL that was given out or is about to be (`Arrives`), however long after its reservation another request
replaced it. What may arrive and nobody holds is `Forgotten`, and `KeptIInv` counts it: its cardinality never
exceeds the number of faults, because a request without a fault lets go of a file only by deleting it or by
passing it on, and one that fails lets go of the one file it was about to delete (`RequestKeeps`).

The services' proofs hold for any number of requests, users, tokens, questions, sets and tasks, from the
assumption named in each module, and start from an inductive invariant each:

- `Access_proofs`, first part (`OneExchange`, `NoAlarmWithoutReplay`, `ReplayEndsConnection`). The current token of a
  grant was never exchanged; a token of the live generation is current or was exchanged; so a
  request that finds its token exchanged is at least the second to present it. Counting
  presentations needs the requests in flight: each one under way was counted and not yet answered.
- `Access_proofs`, second part (`OwnerRemains`, `InvitationsUsedOnce`, `OwnersByOwners`, `JoiningIsInvited`). While the version a request read
  is still the document's, the members of its copy are the document's except those it changes, and
  what it writes to the list of invitations was not spent (`Sound`, `Abreast`). Declining changes the
  list without a version; it can only take away what a copy still has, and the code's whole-array
  save may bring a declined invitation back (see below), which is why `spent` counts what the group
  used or revoked. A request that accepts stays `Invited` while its version is the document's: the status of
  the group and the rights of the author change only with a version; what does not, that the invitation is
  still there, the save itself asks for.
- `Label_proofs`, jobs (`HoldFollows`, `PublishedWhole`). `HoldFollows` needs no time: the life of a job has one
  order. Its hold is confirmed before it is made ready, and no hold is released before the deletion is
  on record, which none undoes; so as long as nobody began to delete it, no release was ever sent, late or not, and
  whoever began to removes the tasks before it releases (`StagesKept`, `HoldKept`, `TasksGone`, `Ending`). That
  two may be at it at once does not matter. Sets are numbered and never current again once retired
  (`SetsNumbered`), so what the sweep removes is not what a build publishes.
- `Label_proofs`, leases (`HoldsEnd`, under `~CallsLinger` and `~RequestsPause`). Then whoever works on the
  lifecycle has the lease, there is one of them (`LeaseKept`), and nothing is on its way that it did not
  wait for; it removes the job only after its own release was answered (`ReleaseKept`). Without the first
  assumption the property is false (see below).
- `Label_proofs`, tasks (`CompletedIsAnswered`). A task's count is the size of its set of annotators and never
  goes down; when all are answered, the request that made it so is on its way to see it, unless it
  died or the job was paused (`CompletionKept`).
- `ChatRuns_proofs` (`DroppedUnanswered`, `WithinDailyLimit`, and under `~WorkersStall` `TurnsTaken`). A dropped question's run ended or has
  the trigger check before it (`DroppedKept`); this needs no assumption about time. That turns keep
  their order rests on the lock, which follows a run from claim to release while no worker outlives
  it (`LockKept`), and on the order of births: what a list of candidates lacks is younger than what it
  has (`InTurn`), so an old list takes nothing out of turn.
  The daily limit needs neither the lock nor the trigger check: at any time what was used, and what
  the runs that are not settled may still use, is within what was reserved, and a reservation is made only
  below the limit (`BudgetKept`). The sum over the questions is counted as a set: a `Unit` is a question and a
  number below its reservation, so "what may still be used" is the cardinality of the set of
  units still pending, and a step adds or takes away the units of one question.
- `UploadStore_proofs` (`UploadTyping`; where deletions do not outlive their claim, `~BulkStalls`, also
  `CommittedIsStored`, `ReadersFind`, and for one content `FileLifeSpec`). Three invariants, one on the other.
  The types. Then `UploadIInv`, who may still write: a lease goes to a newer owner only, the
  bytes a request names carry its number, and a request that holds its lease remembers the record as it is
  (`LeasesKept`, `RecordsKept`, `Remembers`). Then `VolumeIInv`, what is on the volume: what a request is about to
  remove is referenced by no record or its file is retired (`Removes`, `Collects`); what it is about to save as
  stored is there already (`Stores`); and a reader's failed tries never exceed the versions that were published
  while it read, so that it gives up only where the code does (`Reads`). Each step is summed up by what it
  touches (`Touched`, `WritesOnly`), and steps that touch nothing somebody relies on keep the rest (`Keeps`, `Sees`).
  The refinement maps a step to a publication, a deletion or a stutter by what it does to the bytes
  readers are served (`SameLife`).

`Services_proofs` puts the services side by side. `JointSpec` lets all of them take steps in any order. Since each
keeps its state to itself, a step of the composition is a step of one and a stutter of the others
(`ServicesCompose`), so what is proved of each holds of all together (`ServicesKeepPromises`, and under
`~BulkStalls`, `~WorkersStall`, `~CallsLinger` and `~RequestsPause` `LeasesKeepPromises`). `ServicesSpec`, which TLC runs and which lets one
service run per behaviour, is a special case (`AloneIsJoint`); that, too, is why running them one at a time
misses nothing. `ServicesTyping` is `ServicesSpec => []ServicesTypeOK`, from the six type invariants.
The inductive invariants were checked by TLC on small instances before they were proved.

Every invariant and every action property of the runs that pass is proved. Model-checked only: liveness (fairness
and ENABLED are out of the prover's reach). `DoneIsComplete`, `RowsHaveFiles` and `NoOrphans` are neither checked
nor proved for two workers, which is a limit of the code, described above.
`CommittedIsStored` and `ReadersFind` are false with `BulkStalls`, and `HoldEndsWithJob` with `CallsLinger`
(see below); the theorems assume the contrary, and the runs that check them set the constants so.

## Where documentation and code differ

Three have a run that shows the behaviour:

- `restored_then_deleted`: `purge` (`ds/services/datasetTrash.ts`) asks again for holds and
  `deletingAt`, not for `trashedAt`. A dataset restored after the read is deleted.
- `held_files_deleted`: a hold asks that no import is pending. A cancelled import is not pending,
  but its processor may still clear the folders of an earlier one; `datasetSupport.ts` says a job's
  files "must not be deleted from under them".
- `cancelled_hides`: an import cancelled while a retry waits in the queue. `cancelImport`
  (`ds/services/datasetImport.ts:98`) removes the waiting job, so no attempt follows, and what the first one stored
  is not shown; dataset-service's README says it "stays and shows". (A retry that had started and finds
  the import cancelled returns without `showStoredItems` as well, `ds/services/importService.ts:271`.)

Five more were met while modelling and are visible in the actions:

- `removeGroup` (`ds/services/datasetService.ts:155`) repeats the check for holds in its update but
  not the one for a running import: a group can be marked while an import is pending.
- `clearPreviousImports` (`ds/services/importService.ts:58-66`) finds folders through rows. Files of
  an attempt that stored no row stay until the dataset is deleted.
- `FinishStatus` counts what this attempt stored (`ds/services/importService.ts:356`): a retry that
  finds everything stored and one entry unreadable reports failure.
- Deleting a dataset "cancels a running import" (dataset-service's `README.md:133-135`). `purge` decides on its
  read whether there is one (`ds/services/datasetTrash.ts:59-66`): an import started after it, of a dataset
  restored meanwhile, is not cancelled, and runs on until it is finished or the deletion removes the record.
- `purge`'s comment says a running import "removes what it stored" once it stops; `runImport` keeps
  it, and it is the deletion that removes it.

Met while modelling the services, visible in the modules and without a run of their own:

- `retireInBulk` (`apps/backend/file-service/src/utils/storage.ts:135`): "Retired rows refuse every later write"
  holds while the deletion does not outlive its own claim; with `BulkStalls` a writer that takes the lapsed lease
  publishes into a directory that is then removed.
- `finishJobCreation` (`apps/backend/label-service/src/services/jobLifecycleService.ts:67`) promises to "never discard" the
  owner of a hold "after uncertain delivery". With `CallsLinger` `HoldEndsWithJob` fails: the call for the hold
  times out and is still on its way; the lease is let go; a retry is refused, because the dataset is importing,
  losing a group or in the trash, which makes the creation a deletion (line 74); the deletion releases the
  hold, the first call arrives, and the job is removed. The dataset keeps a hold that nobody releases, and
  can be neither imported into nor deleted.
- With `Contents = {1, 2}` `FileLifeSpec` fails: a writer of a chunk whose lease lapsed still writes at its
  offset into a part its successor has gone on from. Clients that resume send the same bytes, which
  is what `Contents = {1}` says (`apps/backend/file-service/README.md:78-79`).
- `registerClient` (`libs/backend-core/src/oauth/service.ts:49`) finds and then creates: two requests
  can register one application twice.
- A declined invitation comes back when a request that read the group before saves the whole array.
- `worker.ts:216` of chat-service says that a question posted while an answer is running "still sees that
  answer"; the next question may be claimed after the run completed and before a later tick
  publishes the answer.
- A request that dies between `recordTaskCompletion` and `maybeCompleteJob`, or a pause there, leaves a
  job active with every task answered; nothing looks again.
- A skip judged before the same annotator's answer arrived overwrites its label with "skipped"; the
  count stays.

## Not modelled

- `vision-service`: aggregation over reads, and updates of single documents. `mcp-service` and the
  frontends keep no shared state. They, the schemas, routes, permission checks and formatting are
  most of the repository's 110,000 lines, which is why the map covers a small share of it: it names
  the lines that change shared state in several steps.
- `auth-service` sessions: each is one row renewed and revoked by a single conditional update under a
  token version; the first account is one insert under a unique index. There is no second step for
  another request to come in before.
- `chat-service`: conversations and members are single-document updates; their effect on a question in
  flight is `ChangeMembers`. Of the runs, revoking a shared assistant
  (`sharedAssistants.ts:133-144`), the switch that turns the assistant off, and the limit on runs at
  once are left out: they end or delay runs as cancellation and crashes do.
- `label-service`: renaming, access, imports of bundles, task leases and skip lists, reviews,
  suggestions and masks. A call to remove a job's folder that arrives late is not tracked: the folder's name is the
  job's, which is being deleted then. A recovery sweep that claims a job with a lease already old (its clock is the
  sweep's start, `jobLifecycleService.ts:108`) is a lease that runs out on live work, before its first renewal.
- `group-service`: the picture, which is written beside the version so that it neither loses nor fails
  another edit. What a group owns is asked before it is purged (`groupService.ts:140`): a transfer to the
  group in between is not modelled.
- `dataset-service`: zip reading and the mapping of entries, reads, sharing, Hub sources and activity;
  ownership (`transferDataset`, `datasetService.ts:112-119`, saves over a transfer it did not read).
- The sweeper's own lease: it is best-effort, and each sweep tolerates another beside it by conditional updates. Runs
  have one sweep at a time; the proofs about label jobs allow any number of recoveries.
