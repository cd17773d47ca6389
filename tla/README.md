# VMS-Lite: formal specification

TLA+ specifications of VMS-Lite, an on-premise video recorder: MediaMTX writes
segment files to a recordings volume, one Node.js process catalogues them in
PostgreSQL, keeps what motion, bookmarks, exports or incidents ask for, deletes the
rest when it is old or the disk is full, watches the cameras and tells people, and
serves a console in the browser. Paths in this file are relative to the repository
(`recordings/...` stands for `src/src/recordings/...`, `client/...` for
`src/client/src/...`).

Contents: [the system](#1-the-system) · [the modules](#2-the-modules) ·
[runs](#3-runs-bounds-and-fairness) · [what the code does differently](#4-what-the-code-does-differently) ·
[proofs](#5-proofs) · [not modelled](#6-what-is-only-model-checked-and-what-is-not-modelled) ·
[plan](#7-plan)

## 1. The system

The process is single-threaded, but every database, file system and network call is
awaited, so any two of the activities below interleave at their awaits; it may end at
any of them and is restarted by the service manager. The console is a React program
whose effects, timers and requests interleave in the same way.

| Component | State | Operations | Talks to |
| --- | --- | --- | --- |
| Recording catalog (`recordings/recording-catalog.ts`) | the rows of `recording`, the files of the volume | two-phase delete, reconcile, queries | database, file system |
| Storage invariants, storage controller, retention policy | thresholds, page and iteration bounds | audit, tick, rollover, purge by age | catalog, event bus |
| Recording engine | single-flight flags, timers | boot, ticks, cleanup and purge for the API | all of `recordings/` |
| Segment ingest, validator | watermark per camera, motion window | scan, catalogue, keep near motion, expire the motion buffer | catalog, event bus |
| Recording scheduler, camera media paths | announced flags, orphan candidates, previews | evaluate schedules, provision, sweep | MediaMTX |
| Cameras and sites, licensing | `camera` rows, limit | onboard, preview, move, remove | paths, health, ONVIF |
| Event bus, ONVIF listener, websocket feed | subscriptions, poll timers, sockets | persist then fan out; subscribe, renew, poll, back off; heartbeats | every service |
| Motion zones, spatial filter | zone rows, cache of the filter | list, change, filter ONVIF motion | ONVIF listener |
| Processing jobs, AI coordinator | `processing_job` and `detection` rows | enqueue, claim, complete, fail, analyse | event bus |
| Export, pruning, evidence | `export_job` rows, files | create, execute in the background, expire | catalog, ffmpeg |
| Tiered storage | tasks, upload slots | queue, upload, drain | file systems |
| Incidents, bookmarks | rows | holds on footage, promotion of the tier | catalog |
| Camera health, site outages | status per camera, link state per site | poll cycle, transitions, attribution to a site | event bus |
| Notifications (WhatsApp, e-mail) | settings and their cache, token buckets | alert policy, rate limit, send | SMTP, HTTP |
| Webhooks | endpoint rows, queue, slots | fan out, post, retry | HTTP |
| Users, sessions, login throttle, grants | rows, token versions, session cache, failure windows | log in, revoke, throttle, grant | every route |
| Backups | archives, partial files | hourly tick, prune, restore in a transaction | file system, database |
| PTZ | watchdogs, presets | move, stop, tour | camera |
| Audit log, playback, media proxy, diagnostics | small or none | append, read | |
| Console: live player, synchronous playback | layers and sessions; clock, tiles and stall lock | switch, reconnect, tear down; seek, fetch | MediaMTX, playback routes |
| Console: session, feed client | token, lists, socket | sign in and out, poll, reconnect | API, websocket |
| Console: wizard, zone editor, rights editor | what the modal shows, requests under way | scan, preview, commit; draw, drag, test; load, save | API |

What is hard about it:

* **Interleaving.** The storage tick is single-flight, but a cleanup or a purge over HTTP,
  the expiry of the motion buffer and motion handlers run beside it on the same rows.
  Holds, lists of cameras, accounts and zones are read, then used after several awaits. In
  the console, an answer returns to a component that has moved on: another camera, another
  account, another session, or a modal that was closed and opened again.
* **Crash and restart** between marking a row, unlinking its file and removing the row;
  between a row and its announcement; between a partial archive and its rename. What memory
  held (watermark, orphans, zone cache, health) is rebuilt or lost. MediaMTX restarts alone
  and forgets every path.
* **Partial failure**: lost updates, failing unlinks, volumes that turn read-only or mount
  late, cameras that do not answer, one of two requests of a save.
* **Bounds**: pages, iterations, offsets of shrinking lists; queues, slots, buckets.
* **Timeouts and retries**: pull points that lapse, watchdogs that overtake a later move,
  heartbeats, reconnects, retries of deliveries.
* **Liveness**: a full disk must come down, every file be catalogued, every subscription
  resume, the common clock not stop for ever.

What makes each component correct is listed with its module below; PROJECT.json
`hazards` lists, line by line, what could go wrong, and the properties that would show it.

## 2. The modules

```
recordings   SegmentLifecycle      abstract: unwritten -> listed -> doomed -> erased -> forgotten
                   ^ refines
             RecordingCatalog      rows and files, any number of workers   (RecordingCatalogProofs)
                   ^ refines
             StorageController     which rows are deleted, when, by whom   (StorageControllerProofs)
             SegmentIngest         how rows come to be, one camera         (SegmentIngestProofs)
             ExportJobs            what becomes of a clip export           (ExportJobsProofs)
             TieredStorage, AnalysisJobs           (ServerProofs)
cameras      MediaPaths, CameraHealth (CameraHealthProofs), OnvifEvents,
             MotionZones, Ptz      (ServerProofs)
events out   EventFeed, AlertChannels (ServerProofs), Webhooks (EventProofs)
access       ApiAccess, Sessions, LoginThrottle    (ServerProofs)
appliance    BackupScheduler, BackupRestore        (the last one: ServerProofs)
console      LivePlayer (ConsoleProofs), PlaybackSync, ConsoleSession, ZoneEditor,
             OnboardingWizard, UserRights          (ServerProofs)
```

Components that share state are composed: StorageController instantiates the catalog for
its deletions and is refined to it; SegmentIngest has expiry and motion on the rows it makes;
ExportJobs has the deletion passes and prunes; MediaPaths has onboarding, the scheduler and
the sweep; EventFeed, OnboardingWizard, ZoneEditor, Ptz and UserRights have the console *and*
the server in one module, with the requests between them. Most modules state a type
invariant (`TypeOK`, or `JobTypeOK` and the like where names would meet). A module that is
proved about also states its inductive invariant, after the properties it is behind.

### SegmentLifecycle
The promise `ARCHITECTURE.md` draws for one segment: it is listed while its file is
there, doomed before its file goes, and forgotten last. Four moves, no step back.

### RecordingCatalog
State: `file` (the volume), `row` (the status column, "NONE" without a row), and per
worker `pc`, `todo` and `seg`, the program counter and locals of one asynchronous
invocation. One action per await:

| Action | Code |
| --- | --- |
| `Mark`, `UnlinkFile`, `UnlinkFindsNothing`, `UnlinkFails`, `RemoveRow`, `RowRemovalFailed`, `StaleRowRemovalThrows`, `MarkGarbage` | `deleteSegmentInternal` |
| `StartReconcile`, `AccessFinds`, `AccessRejects`, `ReUnlinkFails`, `ReconcileThrows`, ... | `reconcilePendingDeletions` |
| `StartAudit`, `AuditFinds`, `AuditMisses`, `MarkMissing` | `auditAndReconcile` |
| `StartKeep`, `Keep` | the status update of `onMotion` |
| `Ingest`, `Crash` | a new row; the end of the process |

`Faults` selects which failures the environment may inject. `StartDelete` lets a worker
choose any rows: the protocol must be safe whatever the callers choose.

Properties: `ListedHasFile` (offered footage exists), `FileHasRow` (no file is
forgotten), `UnlinkOnlyDoomed` (no unlink under an offered row), `CatalogInv` (the
inductive invariant), `ImplementsLifecycle`.

### StorageController
Instantiates the catalog for the deletion primitive and adds the choice: `run[w]` is the
invocation of `deleteOldestSegments` of worker `w` (pass, iteration, page, offset, the
eligible rows of the page), `boot` the progress of `start()`, `hold`, `tier`, `age` and
`volume` the world. The tick worker and the API workers share the code; the index worker
expires the motion buffer, the motion worker keeps from it. `shielded` is a history
variable: segments held since before any worker had chosen them.

Properties: `HoldKeepsFootage` (as far as the code can promise it), `NoPendingLeftBehind`
(after the boot audit), `PendingIsResolved`, `PressureIsRelieved` (liveness),
`ImplementsCatalog` (every step is one RecordingCatalog allows).

### SegmentIngest
One camera; one unit of time is one segment. `scan` is the single-flight scan with its
locals, `keep[h]` a concurrent call of `onMotion`, `watermark` the in-memory cache,
`promised`, `announced` and `unsaid` are history variables: footage that motion came near while the
code could still know it, segments the bus was told of, and segments whose announcement was cut
off. The announcement is a step of its own after the row is AVAILABLE, since `emitSegmentCreated`
looks the camera up first; a rejected lookup puts the segment into `unsaid`, and so does a `Crash`
between row and event. A `Crash` takes out of `promised` what only the memory of the process knew. Properties: `OnlyFinishedFiles`, `NoFileIsSkipped`, `PromisedIsKept`,
`AvailableIsAnnounced`, `EveryFileIsCatalogued` (liveness).

### ExportJobs
`export/export.service.ts` and `export-prune.service.ts` for one camera. `status` is the
row, `pc` the background task of the request, whose locals are `found`, `copied`, `name`,
`sum`; `output` the files of the exports directory, `prune` the prune passes, `chosen` the
deletion passes of the Storage Controller, which read the QUEUED and RUNNING rows as holds
(`Held`) once and delete afterwards. A checksum is the content it was computed from; a
file name is the millisecond the execution started in, modelled as the first job of that
millisecond. `asked` and `shielded` are history: the footage in the window at the request,
and the jobs no pass had chosen footage of by then (the other case is `HeldIsNeverDeleted` of StorageController).
Properties: `HeldExportIsWhole`, `ChecksumIsOfTheFile`, `OverHoldsNothing`,
`ExpiredIsPruned` (liveness). A download is not a process of its own: `ChecksumIsOfTheFile`
covers every moment at which its two reads can fall.

### CameraHealth
`health/`: `mem` is `cameraStates` (status, failures up to the second, how long the camera has
been unreachable, the last network check), `pending`, `suppressed` and `link` are the fields
of the service and of the `SiteOutageDetector`, `phase`, `listed`, `check` and `held` the locals
of a poll cycle: `held` is the state object of a check under way, which `camera.deleted` may
have taken out of the map meanwhile. `finishCycle` is one step per announcement (`AnnounceDown`,
`Resurface`, `Emit`, `AnnounceUp`), in the order of the code. Time is counted in firings of the
poll timer: a cycle starts at a firing, and a firing during a cycle is `SkippedPoll`. A sample is healthy, poor or unreachable, which is all
`nextCameraStatus` tells apart. The process keeps nothing on disk, so `Init` stands for every
restart: any rows, and any alerts former processes may have sent. `alert`, `told` and `stale`
are history: the last alert about each camera and site, and whose last alert is a former
process's. Properties: `StatusIsEarned`, `FailingIsAnnounced`, `RecoveryIsAnnounced`,
`OnlyListedIsKnown`, `SilentSiteIsOneAlert`, `UnreachableIsReported` (liveness).

### AlertChannels
`notifications/`: `bucket` is the map of the rate limiter, with times as ages (`sinceRefill`,
`sinceAcquired`) that `Tick` advances; one unit of time is the shortest cooldown. `rows` is the
table of the WhatsApp settings, `cache` is `activeConfigCache`, `request[a]` an update of
the settings (`UpdateRead`, `UpdateFind`, `UpdateWrite`: its three awaits), `handler[h]` the
handling of one event (`Broadcast`, `HandleEvent`, one `SendEnds` per phone). E-mail has its settings
in memory and decides within the step of the bus. An alert is abstracted to its type and to
whether an outage covers it, credentials to the provider they are for or the mask that
the API shows. All alerts are about one camera and its site, since limiter keys of different
subjects share nothing. Motion and failure of the camera have a key each, so the bounds are per
type of alert and not per camera (section 4). `sent` is history: how long ago an alert of each key passed.
The clock only goes forward. Properties: `AlertsAreBounded`, `SuppressionIsJustified`, `CredentialsAreKept`.

### Webhooks
`webhooks/webhook-dispatcher.service.ts`: `svc` is the queue, the jobs being posted and
`activeDeliveries`; `row` the endpoints; `edit` an update between its read and its write; `event`
the handlers that await the list of endpoints. A job is `due` or in its pause (`BackoffEnds`).
The two reactions to an answer are two steps, `Answer` (`then`: the retry is queued) and
`Finally` (the slot is given back and the queue run), since others get in between. An address
is not modelled: whether it is blocked is the choice between `UpdateWrite` and
`UpdateRejected`, or a failed post. Properties: `DeliveryIsAccounted`, `QueueIsBounded`,
`FreshNeverWaits`, `EverythingSettles` (liveness while the service is started: after `stop`
nothing wakes a job in its pause).

### MediaPaths
`cameras/camera.service.ts`, `recordings/recording-scheduler.ts`, `mediamtx/camera-media-paths.ts`.
`path` is what MediaMTX has, `cam[c]` where the onboarding or removal of a camera is, `eval[e]`
the evaluation of one camera by the tick or by a request that set a schedule, `tick` the locals
of the scheduler tick: the list of cameras it began with, the paths it doomed. The calendar is
`inWindow`. `MediaMtxRestarts` forgets all paths, `ProcessRestarts` the flags and the orphans.
Properties: `SweepSparesOwned`, `PathsConverge`.

### OnvifEvents
`events/onvif-events.service.ts`, one camera. `subs` are the subscription objects with the
lifetime of their pull point, `watched` the one in the map, `timer` the poll timer of the camera,
`cycle[c]` a `pollOnce` at one of its requests with the object it began with; `handler` is
`onAvailable` between its await and its subscription. The camera goes dark, comes back, reboots
(and forgets its pull points); the process restarts. Properties: `ActiveIsPolled`, `EventsResume`.

### EventFeed
`events/websocket-feed.service.ts` and `client/utils/events-ws-client.ts` over a network that
fails without a word: `peer[s]` and `feed[s]` are the two ends of a socket, `loads[s]` the lookups
of the access resolver under way, whose answers may overtake each other, `granted` what an
administrator grants. Buffers above `MaxBuffer` drop the connection. Properties: `ClientIsLive`,
`FeedConverges`.

### ApiAccess
Every route as a record: its guard, how it reaches camera data (path, query, body, owner of a
resource, a list), what its handler gives. `Serve` is the guards in their order followed by the
handler's use; `CanSee`, `EventListed` and the scope operators are `users/camera-scope.ts`.
`Entitled` is the policy in the words of its head comment, and independent of them. Properties:
`AccessIsEarned`, `ListsAreExact`, `FeedAgreesWithList`.

### Sessions and LoginThrottle
`users/auth.service.ts` and `users/session.ts`: `op`, `check` and `login` are account changes,
token checks and logins at their awaits; `cache` and `generation` are those of `session.ts`;
`check[c].void` is history: the token was revoked, and answered so, before the check began.
`users/login-throttle.ts`: `failures` are the windows of an address and of each name, `attempt`
the logins between `retryAfterSeconds` and `recordFailure`. Properties: `RevokedIsRefused` and
`GuessesAreBounded` (`EntryIsGuarded` in the run).

### AnalysisJobs, TieredStorage
`jobs/processing-job.queue.ts` with `ai/ai-pipeline-coordinator.ts`: one job, whose event may
come twice, and users of `claimNext`; every statement is a step and may fail; `Dies` ends the
process. Property: `CompletedIsAnalysed`. `storage/tiered-storage-manager.ts`: tasks, slots, a
secondary provider that is set late, sources that retention removes. Property:
`UploadsFillTheirSlots`.

### BackupScheduler, BackupRestore
`system/backup-scheduler.ts`: `files` is the directory, newest first, each name with a whole, torn
or no archive and with a partial file, `tick[t]` ticks that overlap (`slow` is the history of
it), steps list, write, rename, prune. Properties: `ListedIsWhole`, `BackupsStayFresh`.
`system/backup.service.ts`: `createBackup` reads table by table (`FindMany`) while others `Write`;
`Restore` is one transaction of both modes, in which one failing statement undoes all. Sites, users,
cameras and permissions stand for the ten tables, with what the schema makes unique of each: names
of sites and users, media paths, the pair of a permission. A row that is added gets an id that no
row of its table ever had, also when it is a permission given again. A restore that skips looks a
user up by id or name, a camera by id or path, and the others by id. Property: `RestoreAnswered`: it
gives what the archive has and leaves everything as it was when refused, and is refused only for a torn
archive or for a row of the system that has under another id what is unique in a row of the archive (`Clash`).

### MotionZones, ZoneEditor
`zones/`: the rows, the zones in memory that stand in for them, the cache of the filter; a
request at each of its statements. A change that the database refuses goes into the memory and is
answered as done. `fresh` is history: requests whose list no change of the table has overtaken.
The filter is the code's even-odd test on integer points.
Properties: `VerdictsFollowTheTable` (against a truth table that uses a definition of its own of
*inside*), `FilterIsCurrent`: with requests that overlap in any way, the filter comes to hold the
table, unless an older list arrives after a newer one or the table could not be read. It says
nothing of what was answered (section 4: `WritesAreKept`). `client/components/MotionZoneEditorModal.tsx`: the hooks by their names, the
effect that lists the zones on every selection, and the server of its requests; each function has the
selection of the render it was made in. Properties:
`EditorSettles`, by hand `DrawingIsTheUsers` and more.

### Ptz
`ptz/ptz.service.ts` with `PtzControlsOverlay.tsx`: `call[p]` is a request or a watchdog at its
awaits, `watchdog` the timer in `activeWatchdogs`, `moving` the camera. MCServer has it
twice: moves and their watchdogs, and the tour over presets. Property: `MovesAreWatched`.

### OnboardingWizard, UserRights
The two modals of the console that are closed by rendering nothing and keep their state, with
the server behind them: `request[s]` and `call[s]` are requests under way, `Serve` the server's step,
`Receive*` what the answer does to whatever is shown by then. In UserRights a save is two
requests, one for each half (cameras, sites), and the matrix may have no entry: the server changes
the grants of the cameras that are listed, and replaces those of sites. `whose` and `saved` are history. Properties: `OneCameraPerOpening`;
`SavesAreWhole`, and `MatrixIsOfTheSelected`, which fails.

### LivePlayer, PlaybackSync, ConsoleSession
`components/WhepHlsPlayer.tsx`: two layers, `pending` the `connectWhep` calls and playlist checks,
each with the load that started it, `teardown` the timer of the layer that was left, `open` the
sessions of the server, `orphans` those of a `connectWhep` that failed after its POST was accepted.
`IceFails` is the failure of the connection a layer plays, `IceFailsEarly` that of one `connectWhep`
has not returned. Properties: `SessionsAreHeld`, `PlayerSettles`. `PlaybackSyncContext.tsx`
and the tiles of `PlaybackPage.tsx`: `target` is the clock, `buffering` the tiles that hold the stall
lock, `Footage` which span (or gap) a camera has at each time; a tile whose `<video>` had a media
error (`failed`) fires no event any more. Property: `ClockRuns`.
`AuthContext.tsx`, `api/client.ts`, `App.tsx`: tokens are numbered as they are issued,
`requests` are under way with the token they were sent with. An answer is right, or a 401 of a lookup that
threw, or an error of server or proxy, or none. Properties: `OnlyDeadSessionsEnd`,
`DeadSessionsEnd`.

### MC modules
`MCRecordingCatalog`, `MCStorageController`, `MCSegmentIngest`, `MCExportJobs` and `MCCameraHealth`
declare the model values and symmetry of one module each. `MCStorageLiveness`, `MCEvents`,
`MCServer`, `MCServices` and `MCConsole` instantiate several modules that share no state: `part` is
chosen at the start and stays, only the part's own variables move, so a behaviour is
one of one part, and the states of the run are the sum and not the product of those of its parts.
The constants of a part stand where it is instantiated, or in the cfg for the parts that are
proved about, where theorems need them without a value. A safety property of a part is that of
its module; fairness and liveness are conditional on the part that moves, with the module's own
fairness formulas. In `MCServer` and `MCConsole` the runs explore `BoundedSpec`, which is `Spec` with a bound on what
parts begin with and on what they do beside each other (each is named there); theorems are about
`Spec`. Definitions marked *Mutant* are plausible bugs of the definition after them.

## 3. Runs, bounds and fairness

| Run | Instance | Shows |
| --- | --- | --- |
| MCRecordingCatalog | 2 segments, 2 workers, failing row removals and unlinks, crashes | rows and files agree; lifecycle refined |
| MCStorageController | 1 segment, with the tick, one API worker, the index and motion; a hold, a promotion, failing unlinks, a read-only volume, a restart | holds keep footage; every step is one of the catalog's |
| MCStorageLiveness | (1) 2 segments, the tick and one API worker; (2) 2 segments, a volume unmounted and remounted, promotions, a restart; (3) 3 segments of any fate, pages of 2, a hold; fairness | interrupted deletions are resolved; pressure is relieved |
| MCSegmentIngest | 2 files, 2 motion handlers as slow as the grace allows, stat failures, a failed statement or lookup, mode changes, a restart | footage near motion is kept; announcements |
| MCExportJobs | 2 exports that share a segment, a deletion pass, a prune, failing ffmpeg, removal of the camera, a restart, fairness | clips whole, checksums true, holds end, expired exports pruned |
| MCCameraHealth | 2 cameras, one site, moves, additions, removals, a camera a former process reported OFFLINE | failures announced once, by camera or site; recoveries announced |
| MCEvents | OnvifEvents (2 cycles, 2 subscriptions, 2 faults); Webhooks (2 endpoints, 2 events, a queue of 1, 2 slots, 2 attempts, an edit); fairness | events resume; deliveries neither lost nor doubled, all settled |
| MCServer | ApiAccess, Sessions, LoginThrottle, AlertChannels, BackupRestore, AnalysisJobs, TieredStorage, OnboardingWizard, MotionZones (2 zones of 2 shapes, 2 requests, 2 changes, a failure, a restart), Ptz (twice), UserRights | the safety of each |
| MCServices | MediaPaths (with a sub-stream; with a preview), BackupScheduler, SegmentIngest with a restart; fairness | paths converge and the sweep spares what is owned; usable fresh backups; every file catalogued |
| MCConsole | LivePlayer (one fault and two changes, or the reverse), PlaybackSync (a fetch, a stream or a media element fails), ConsoleSession (one answer fails), ZoneEditor, EventFeed; fairness | sessions are held; players, editor and feed settle; the clock runs; sessions end when dead, and when alive only for an answer that failed |
| MCMotionRace | SegmentIngest, 2 files, 1 handler | a violation: section 4 |
| MCUserRights | UserRights, 2 accounts | a violation: section 4 |

Why the bounds are enough. The catalog's steps touch one segment each, and a worker
meets another only at a row they share, so two workers on two segments show each pair of
overlapping steps; the theorems then remove the bound. Rollover's arithmetic needs a page
that is full, one that is not, an offset above zero and a last iteration: pages of 1
and 2 over 2 or 3 rows have all four. Ingest needs a newest file and an older one that the
watermark might pass. Exports meet in a shared segment, in the exports directory
and in the prune; an outage takes two cameras; the theorems remove these bounds too. Four
deliveries over 2 slots and a queue of 1 fill both and let a retry in above the depth.

* *Server parts.* Two cameras and a site give every pair of a camera that a guard checks and
  another that a handler uses; rights are a union, so one flag per grant (`MaxFlags`), on one camera and
  one site (`MaxGrants`), shows what more would add to. Two users, a change, a check and a login put a
  lookup on either side of every await of a revocation. Two names and two logins over
  2 and 3 failures reach both limits with one attempt too many under way. A bucket of 1 with
  cooldowns of 1 and 3 and a refill of 2 is empty, full and has a remainder (the code: 3
  tokens, one a minute, cooldowns from 10 to 3600 s). Two handlers of the same event and a
  consumer over 2 detections and 2 attempts claim twice, crash half way and exhaust the
  attempts. Three tasks over 2 slots make one wait. Five writes change a row between
  any two of the four tables' reads. Two openings of the wizard over 2 requests let an
  answer come into the next opening. Two zones, each of one of two shapes, and three
  cells of the grid that lie in both shapes, in one or in neither. Two requests and two watchdogs overtake each other; two presets
  make a tour. Two accounts and two requests of a load or a save let both interleave with a selection,
  and five acts are what a second save needs; one of them may be a request that fails. Two sorts
  of alerts meet by email, one sort meets changes of the settings.
* *Services.* One camera, one evaluation over HTTP beside the tick's, one onboarding, one
  schedule change and one fault; `Prompt` says that an onboarding is shorter than the 30 s between
  two sweeps, which `sweepOrphans` relies on. Two backup ticks overlap; a day of 2 hours and one
  archive to keep make each prune do something; one fault is a crash or a failed write anywhere.
* *Console.* Two streams, two changes, a reconnect and a fault, against two layers, and one change with two
  faults and no reconnect, so that HLS fails after WebRTC has; two cameras,
  one with a gap between spans and one that begins late, streams of one unit over 4; two tokens and
  two requests; two zones of 1 or 2 vertices (the code asks for 3, which adds clicks and no other
  step), six acts of the user and one failed request; two sockets, one fault, one grant
  change.

Counters without a bound in the code (`crashes`, `age`, `now`, `faults`, `moves`, `edits`,
`updates`, `changes`, `acts`, `writes`, `opens`, `boots`) are capped by the constants `Max...`; `Managed`,
`Handlers`, `Admins`, `Slots`, `Timers` and `Window` bound what is under way and how far history goes back.
At these bounds the system may stop, so those runs do not check for deadlock.

Fairness. `setInterval` repeats the storage tick, the scan, the scheduler, the backup tick, health,
heartbeats and the polls of the console; awaited calls settle (`fs` and Prisma reject
rather than hang; HTTP requests, probes and SOAP have timeouts; the browser answers or fails
a fetch). Hence weak fairness of those ticks, of each step of a worker, handler, cycle, task or
request under way, of timers, and of time. In particular:

* `PathsFairness` assumes the steps of cameras, previews, evaluations and the tick; nothing of
  MediaMTX, administrators or the calendar. `PathsConverge` speaks of the time after the last change.
* `OnvifFairness`: a cycle goes on, an armed timer fires. Not that a camera comes back: `EventsResume`
  assumes that it stays reachable and subscribed.
* `PlayerFairness`, `PlaybackFairness`: pending calls return, timers fire, a stream that was loaded
  plays or can play, unless its connection was dead when it was put there or its element had a media
  error. `FetchFails`, `Waiting`, `MediaFails`, `IceFails` and `IceFailsEarly` are bounded faults, and not fair.
* `ConsoleFairness`: an answer comes and is handled, right or wrong.
* `OnClose` in the feed is fair for the console too: the client has no heartbeat of its own, so it
  relies on TCP to report a connection whose server end is gone.
* `SF(Poll)` in the session: the interval runs for ever, though `Poll` is disabled while as many requests as the
  bound allows are under way. `SF(Broadcast)` in the feed: events of the cameras go on, though a
  socket is closed and opened between them; `NetworkReturns`: no outage lasts for ever.
* ffmpeg ends: an assumption, the code sets no timeout on it.

Nothing is assumed of crashes, holds, motion, API requests, users, grants, the volume or new files.

## 4. What the code does differently

Two disagreements with the repository's own words are runs of PROJECT.json, and its `findings`
quote the lines:

* **MCMotionRace**, `NearMotionIsKept`: motion that falls between the question whether there was
  any and the BUFFERED row is seen by neither side, and the segment expires.
* **MCUserRights**, `MatrixIsOfTheSelected`: the matrix of the selected operator shows the rights of
  another account once every answer is there, and Save would give them away.

Others are stated as properties beside those that hold, and the passing runs leave their
cause out (`Faults`, `Volumes`, `MaxCrashes`, `StatFails`, `Prompt`) or do not check
them. To see one, write a configuration of its module with the property alone and the
constants given, the others as in the run above. For StorageController the others are: 2 segments,
all AVAILABLE, pages of 1, one iteration, Critical 2, Target 1, no API worker, no faults, no
holds, promotions, expiry or restarts, a volume that is "ok":

| Property | Constants | What happens |
| --- | --- | --- |
| RecordingCatalog `ListedHasFile` | Faults {"updateLost"} | a lost DELETE_PENDING update does not stop the unlink |
| `FileHasRow` | Faults {"accessFails"} | any rejection of `access` counts as a missing file |
| `UnlinkOnlyDoomed` | Faults {"lateKeep"} | a motion handler that outlasts its grace revives a row under deletion |
| StorageController `HeldIsNeverDeleted` | 1 segment, Critical 1, Target 0, Holdable {1}, MaxAge 1 | a hold placed during a page is not seen |
| `TierLifetimeDecides` | Promotable {1}, MaxAge 2, an API worker | the settings purge has one lifetime for all tiers |
| `IncidentFootageLocked` | Promotable {1} | the INCIDENT tier does not stop rollover |
| `RolloverReachesTarget` | 3 segments, Critical 3 | rollover may end above its target |
| `PressureIsRelieved` | Holdable {1}; or 3 segments of any fate, BatchSize 2, MaxIterations 3, Target 3 | a held head is never passed; a low critical threshold never acts |
| `OldestFirst` | 3 segments, MaxIterations 3, Target 0, some BUFFERED | the offset may pass over the oldest row |
| `ExhaustionMeansHeld` | Faults {"unlinkFails"}, BatchSize and MaxIterations 2 | failures are called protection |
| `ReadOnlyHaltsDeletion`, `UnmountedKeepsCatalog` | Volumes with "readonly", "unmounted" and Faults {"volumeGone"}, MaxAge 1 | purge by age ignores the volume |
| `LateMountIsNotMissing` | Volumes with "unmounted", MaxCrashes 1 | an unmounted volume looks healthy to the boot audit |
| SegmentIngest `PromisedIsKept` | MaxCrashes 1, and `Crash` leaves `promised` alone | a crash loses what motion asked for |
| `EveryAvailableIsAnnounced` | MaxFaults 1, or MaxCrashes 1 | the lookup of the camera rejects, or the process ends, between the row and the event: the segment is never announced |
| `NoFileIsSkipped` | StatFails TRUE | a failed stat loses a file |
| `IncidentTierStays` | 1 handler | motion lowers the INCIDENT tier |
| ExportJobs `ActiveIsRunning` | MaxCrashes 1 | an interrupted export stays RUNNING and holds its footage for ever |
| `ExpiredHasNoFile` | Faults {"unlinkFails"} | a failed unlink leaves the file of an EXPIRED export |
| `ChecksumIsOfTheFile` | Faults {"sameInstant"} | two exports that start in one millisecond share a file |
| CameraHealth `BackMeansAnswered` | as the run | a removal or a move ends an outage though no camera answered |
| `DeletionIsNoOutage` | as the run | a camera is announced as failing after its `camera.deleted` |
| `ReturnIsAnnounced` | FormerNews {"down"} | after a restart nobody announces that a site is back |
| AlertChannels `CredentialsAreKept` | PartialUpdates TRUE | an update without credentials stores the masks |
| `SettingsAreOneRow` | 2 administrators, MaxUpdates 2 | two first updates make two rows |
| `MessagesUseTheirProvider` | 2 providers | later phones get the message through a provider changed meanwhile |
| `CameraBurstIsLimited` | Capacity 1, RefillInterval 2, Cooldowns {3}, MaxUpdates 0, Window 2, the alerts as in the run | each type of alert has a bucket of its own, and the comment on the limiter (`token-bucket-rate-limiter.ts:7-8`) promises one bound for a camera |
| `SecondOutageIsTold` | Alerts site.offline, site.online | the cooldown silences a second outage |
| Webhooks `SecretIsKept` | Secrets {"short", "long"} | of the two masks `maskSecret` makes, one replaces the secret |
| MediaPaths `WithinLicense` | MaxOnboarding 2 | two onboardings pass the limit together |
| `SweepSparesOwned` | Prompt FALSE | the sweep takes the path of a camera whose onboarding took two sweeps |
| OnvifEvents `DeletedIsUnsubscribed`, `OnePollAtATime` | as the run | a removed camera is subscribed; two cycles poll one subscription |
| Sessions `RevokedIsRefused` | 1 user, 2 Ops, MaxVersion 2 | a change writes the version it read, plus one: one that read 0 and hashes a password meanwhile writes 1 after others have gone from 1 to 2; the next change writes 2 again, and the tokens that were revoked are accepted |
| Sessions `AnAdminRemains` | 2 Ops | two changes leave no administrator |
| AnalysisJobs `CompletedStays`, `AttemptsAreBounded`, `DetectionsAreOnce`, `ClaimedIsHeld` | as the run | two claims, or a crash: COMPLETED goes back, attempts pass their maximum, detections are stored twice, a claim is nobody's |
| TieredStorage `NoSlotIsFree`, `ObjectsAreWhole` | as the run | tasks from before the second storage wait for another; a torn object stays |
| BackupScheduler `PartialsGo` | as the run | a partial file of a crash stays |
| BackupRestore `ArchivesRestore`, `NewApplianceRestores`, `GrantedAgainRestores` | as the run | an archive taken during a write, one for an appliance with a namesake under another id, or one from before a permission was taken away and given again, cannot be restored |
| MotionZones `ChangesTakeEffect` | as the run | the filter keeps an older list, or none after a restart |
| MotionZones `WritesAreKept` | as the run | a change the database refuses is answered as done (`motion-zone.service.ts:166-170, 226-228, 248`) |
| UserRights `SavesGiveWhatIsShown` | as the run | a save before the rights were loaded is answered well, leaves the grants of cameras and takes those of sites away |
| Ptz `EveryMoveIsWatched`, `TimersAreKept`, `TourHasPreset` | as the run | a failed second move leaves the first unwatched; a watchdog forgets a later timer; a tour goes past its list |
| LivePlayer `ShowsWhatIsWanted` | as the run | a switch there and back shows the other stream |
| LivePlayer `NothingIsLeft` | MaxStreamFaults 1 | a `connectWhep` that fails after its POST was accepted closes the connection and sends no DELETE (`whep-client.ts:97-108`) |
| LivePlayer `PlayerAlwaysSettles` | MaxStreamFaults 1 | ICE fails before `connectWhep` has returned; the dead stream is then put over the HLS picture |
| PlaybackSync `ClockAlwaysRuns` | as the run | a video with a media error never fires `canplay`, and its tile keeps the stall lock |
| PlaybackSync `RestsAtPlayhead` | as the run | a seek there and back while paused shows another time |
| ConsoleSession `LiveSessionsStay` | as the run | a 500 or a 502, or the 401 of a lookup that threw, ends a session the server accepts ("Token expired or revoked", `AuthContext.tsx:84`) |
| ConsoleSession `ShowsItsOwn` | as the run | an answer of the former session fills the new one |
| OnboardingWizard `AddressIsOfStream`, `PreviewsAreKnown`, `CommitFollowsPreview` | 2 devices, MaxPreviews 2 | an answer of one device writes into the form of another; a preview is forgotten; a commit without one |
| ZoneEditor `DrawingIsTheUsers`, `OneZonePerDrawing`, `ResultIsOfPoint`, `ShownIsSaved` | as the run | a list that arrives drops the drawing; two clicks make two zones; the result of another point; a stale list |

## 5. Proofs

`RecordingCatalogProofs` proves for any sets of segments and workers:

* `TypeCorrect`: `Spec => []TypeOK`, whatever fails;
* under `HonestFaults` (updates are not lost, `access` rejects only for missing files, the
  volume is mounted, motion handlers keep their grace; removals and unlinks may fail at will):
  `CatalogCorrect` (`[]CatalogInv`), `OfferedFootageExists`, `NoFileIsOrphaned`,
  `UnlinkIsSafe` and `CatalogImplementsLifecycle`.

`HonestFaults` is a hypothesis of the theorems, not an assumption of the module; the first
three lines of the table above show that it cannot be dropped.

`ListedHasFile` and `FileHasRow` are not inductive: a worker about to remove a row must
know that the file is gone, and one about to unlink that no one has offered the row
again. `WorkerInv` says what a worker may rely on at each await. The argument is
rely/guarantee: no step makes a removed file present or an unlisted row listed
(`NothingReturns`), so a step of one worker keeps the `WorkerInv` of the others
(`OthersKeepInv`), and `InvFromParts` puts it together; then there is one lemma per group of
actions (`DeleteKeepsInv`, `ReconcileKeepsInv`, `AuditKeepsInv`, `MotionKeepsInv`). The
refinement reduces every step to a legal write of one row and file (`WritesLegally`),
and a legal write to a move of the lifecycle.

`ExportJobsProofs` proves for any sets of jobs, segments, deletion passes and prunes, and
any number of restarts:

* `TypeCorrect`, whatever fails;
* under `UniqueNames` (no two exports of the camera start in one millisecond)
  `ExportsCorrect` (`[]ExportInv`), `HoldsServeExports` (`HeldExportIsWhole`) and
  `ChecksumsHold` (`ChecksumIsOfTheFile`);
* if also the database answers, `HoldsEnd` (`OverHoldsNothing`).

`ChecksumIsOfTheFile` with two exports in one instant shows that `UniqueNames` cannot be dropped. `ExportInv` adds what the
properties leave out: a row is active as long as its task works (`RowInv`), a file is
written by its own job alone and only finished jobs are pruned (`FileInv`, `PruneInv`), and
the footage of a shielded job is on offer and unchosen until it is copied (`HoldInv`), which
is where the order of writing the row and looking up the recordings enters. A step
of a job leaves the others alone (`JobStepFrame`), so the proof has one lemma per group of
actions about the job that moves; `NothingCutOff` is the fact about the limited range query.
`ExportAssumption` asks that segments are numbered by start time and finitely many.

`CameraHealthProofs` proves for any sets of cameras and sites, any thresholds, moves and
restarts: `HealthCorrect` (`[](TypeOK /\ HealthInv)`) and from it `TypeCorrect`,
`StatusesAreEarned`, `FailuresAreAnnounced`, `RecoveriesAreAnnounced`, `NothingIsLeftBehind` and
the action property `OneAlertForASite`. `FailingIsAnnounced` speaks of the time between
cycles only; `HealthInv` says what holds during one: a failing camera has been announced, or
its transition is buffered with its present status, or a site covers it (`AnnouncementInv`);
outside `finishCycle` no cover belongs to a site that is up (`CycleInv`); a silent site is at
least suspected until the cycle ends (`SilenceInv`). `SampleFacts` is the one lemma about
`nextCameraStatus`; then there is one lemma per action. `HealthAssumption` asks for finitely many cameras
and thresholds above zero.

`StorageControllerProofs` proves for any sets of segments, requests over HTTP and holds, any
page, threshold and number of restarts: `ControllerConsistent` (`[]ControllerInv`) and
`ControllerImplementsCatalog` (`Spec => ImplementsCatalog`). `ControllerInv` has the types of the catalog's state and
of the passes, and `ChoiceInv`: what a pass has chosen was written once, which the catalog asks of a
deletion. Every action is mapped to the catalog action
it uses, or to a stutter. So what is proved of the catalog is lifted, not proved again: `CatalogStaysCorrect`
(under the same `HonestFaults`) cites `CatalogCorrect` through the refinement. On top of both,
`ShieldInv` gives `HeldFootageStays` (`HoldKeepsFootage`, under `HonestFaults`): shielded footage is
still held, and no worker has it in hand or on its list, but for an audit that will find its file.

`SegmentIngestProofs` proves for any number of files, calls of `onMotion`, restarts and failed
insertions, any buffers, any grace and a quiet period that may be zero: `IngestIsConsistent`
(`[]IngestInv`), `TypeCorrect`, `KeptFootage` (`PromisedIsKept`) and `Announced`
(`AvailableIsAnnounced`: each AVAILABLE row was announced, will be by the step under way, or is in
`unsaid`, where only a rejected lookup or a restart at that very point puts it). The invariant says what the scan knows of the file it is at (`ScanInv`),
what a row says of its file (`FileInv`), how old a call of `onMotion` may be (`CallInv`, which
is where `Latency <= LateMotionGrace` enters), and that footage that is promised is AVAILABLE, or will be made so
by a call under way, or has no row and will be found near motion (`PromiseInv`). Two theorems need
more, and say so: `FinishedFiles` (`QuietPeriod > 0`; the code: 2 s) and `NothingSkipped` (no `stat`
fails on a file that is there; section 4 has what happens otherwise).

`ConsoleProofs` proves of the live player, for any streams, changes, reconnects and faults:
`PlayerConsistent` (`[]Player!PlayerInv`), `ReturnedSessionsAreHeld` (`SessionsAreHeld`) and `ShownLayerStays`. The invariant
is about numbers of loads: no two layers or connections under way have the same, so an answer
that still has its layer's number finds no session there. `SessionsAreHeld` is about sessions of
connections that came back; what a failed one leaves at the server is in `orphans`, of which it
says nothing (section 4: `NothingIsLeft`).

`ServerProofs` proves of the eleven parts of MCServer that a safety property speaks of, for any bounds,
each from an invariant of its own:

| Theorems | Invariant | Why the property alone is not inductive |
| --- | --- | --- |
| `JobsConsistent`, `CompletedJobsAreAnalysed` | `JobInv` | a handler at detection *n* has stored all before it |
| `ThrottleConsistent`, `GuessesStayBounded` | `ThrottleInv` | logins under way count against the bound while the window is open |
| `SessionsConsistent`, `EntryStaysGuarded` | `SessionInv` | what the cache holds, or a lookup would put there, is the row or is about to be dropped; versions only go up |
| `OffloadConsistent`, `UploadsFillSlots` | `OffloadInv` | types only; the counting needs the finite sets of tasks |
| `WatchesConsistent`, `EveryMoveWatched` | `WatchInv` | a stop or a watchdog that gave its command watches no longer |
| `WizardConsistent`, `OneCameraEachOpening` | `WizardInv` | one commit under way, and none when this opening has its camera |
| `RightsConsistent`, `SavesStayWhole` | `RightsInv` | one save at a time; the half that is done is in the grants as the server writes it, and the other half will be |
| `LimiterConsistent`, `LimiterStaysExact` | `LimiterInv` | the worth of the bucket pays for the alerts of a span |
| `CredentialsStayKept` | `CredentialsInv` | what an update under way has read and will write |
| `AccessConsistent`, `AccessStaysExact` | `AccessInv` | an answer is the one its request gets with the grants and sites of now |
| `RestoresConsistent`, `RestoresAnswerRight` | `RestoreInv` | the rows of the system, and those of an archive no write went through, meet every constraint on keys and references |
| `ZonesConsistent`, `ZonesStayApplied` | `ZonesInv` | a request no change has overtaken brings the rows of the table; only one that has written may have left the filter behind it |

Their assumptions on the constants are `ThrottleAssumption`, `JobsAssumption`, ... in MCServer:
bounds are numbers, the slots of logins and the tasks are finite sets, and the value that stands
for nothing is not a request, a call or a row of rights. `EveryMoveWatched` speaks of a camera that
answers (`ptzFaults = 0`), as its property does. The two theorems about sessions assume
`[]OneChangeAtATime`, that no two changes of one account are under way together; section 4 shows
that they fail without it (`auth.service.ts:222`). `OffloadConsistent` speaks of the part that moves, since the
queue is set up only in it.

`LimiterStaysExact` holds for any capacity, refill interval, cooldowns and events. That few alerts
pass in every span is not inductive: it says nothing of the tokens that are left. `HistoryIsPaid` does, in units of time: a bucket is worth
its tokens and what is left of an interval (`Credit`); an alert costs an interval (`CreditSpent`), a
unit of time brings at most one (`CreditGrows`), also when the bucket is full and the rest is lost, so the alerts of
a span and the worth of the bucket are together less than `(Capacity + 1) * RefillInterval + span`.
`LastIsRemembered` ties the two ages of a bucket to the history. `ChannelsAssumption` asks that
capacity, interval and cooldowns are above zero, that there is a longest cooldown, that no provider
has the name of a mask, and that the history reaches back as far as a cooldown or a refill (a matter
of the model, not of the code). `CredentialsStayKept` is under `~PartialUpdates`, that every update
carries credentials or the mask: section 4 shows what one without them does.

`ZonesStayApplied` is for any zones, requests, failures and restarts. `ZonesAssumption` asks that on the
polygons and cells of the instance the code's ray casting agrees with `Inside`, a fact about two
recursive computations over points that TLC evaluates for the shapes it is given; the theorem is
that the verdicts then follow the table, through the fallback, the cache and the overlapping requests.

`AccessStaysExact` is for any cameras, sites, grants and moves of cameras between sites. Its
middle is `RoutesAskForWhatTheyUse`: of every route, that its guard asks for the right its handler uses
and of the camera its handler uses, that configuration is behind the administrator's role, and that
a list filters. What a guard that is passed says (`GuardsSay`), what a handler gives (`HandlerGives`), and
that the scope grants what the policy does (`ScopeIsThePolicy`) then give the three parts of `AccessIsExact`.
`RoutesAssumption`: the names of no camera and no site are not those of one.

`RestoresAnswerRight` is for any names and paths and any number of writes. `Restore` is followed record
by record (`RestoreFromFacts`, `TransactionSteps`): once a statement has failed the transaction stays
failed, a record leaves the other rows alone, and a row is refused only for a reference or a key. With an
archive whose rows agree (`Kept`), which it is if no write came between the reads, the order of
the tables leaves only a key that a row of the system has under another id (`TransactionFacts`).
`RestoresAssumption`: the value that stands for nothing is no row's and no id.

`EventProofs` proves of the webhook deliveries of MCEvents, for any endpoints, events, queue depth,
slots and attempts: `HooksConsistent` (`[]HooksInv`) and `DeliveriesStayKept` (`DeliveriesAreKept`).
`HooksInv` adds where the jobs are (`OnePlace`: no two jobs of one delivery, in the queue or in the
slots), that a job has as many attempts as its delivery was posted, that one without an attempt is due,
and that an event not handled yet has queued nothing. A run of the queue takes a prefix of the jobs
that are due (`TakenFills`, `RunOfTheQueue`) and an event queues one job after the other
(`EnqueueAllProgress`): both go through indices, and both are done by the smallest index that would be
wrong (`Smallest`: a set of numbers has a smallest one, from the well-foundedness of `<`), which
needs no induction rule. So does the existence of the function that `EnqueueAll` is defined
by (`EnqueueAllRuns`). `HooksAssumption` asks that there are finitely many endpoints and that depth, slots and
attempts are at least one.

## 6. What is only model-checked, and what is not modelled

Liveness is out of the prover's reach and is model-checked, as are the modules without
a proof module in section 2: whether ray casting is *inside* is compared with a definition of its own
over all inputs, which is a matter for TLC; BackupScheduler, MediaPaths and OnvifEvents have no proofs
yet. Every invariant and action property of a run is stated by a theorem, but for the safety in
`PathsAreKept` and `BackupsAreUsable`. All of it holds on the instances above. The runs list the properties that can go wrong; every type
invariant that is not proved, and the properties named in section 2 that no run lists, have been
checked on the same instances (with the restarts taken out where section 4 says so) and are not
repeated there.

Abstracted in the modules: the catalog's page limits (200 pending rows, 500 audited rows),
hashing, probing and byte accounting; even time in SegmentIngest, and in the limiters (a clock that steps back is not modelled); SOAP, SMTP, WhatsApp, WHEP and HLS as answers and failures; the DELETE of a session, which is sent and not
awaited, as received; the events of hls.js as one success or failure of the playlist; message texts; the
calendar of schedules; the fields of forms that are typed and sent.

Not modelled, and why:

* deployment and end-to-end scripts: shell and containers, none of the state;
* settings forms, dashboards and layout of the console: they load one record and save it; the
  server side is AlertChannels and StorageController;
* database access and diagnostics: single statements are atomic and may fail, which is how
  the modules use them; the in-memory doubles are for tests;
* the chain of the audit log, the verification of the licence file, password hashes, signatures:
  cryptography over data nobody else reads;
* ONVIF discovery and probing, NTP, telemetry, shutdown: network and operating system;
* the event bus's fallback that keeps events in memory when the database is away;
* playback, streaming and the media proxy beyond their access rules: they read and stream.

## 7. Plan

1. Proofs: `ListedIsWhole` of BackupScheduler; `SweepSparesOwned` of MediaPaths.
2. Modules: the event bus with its fallback; incidents (entity matching and promotion); the
   stores of the settings with the forms that edit them; first-run setup.
3. Composition: OnvifEvents with MotionZones and SegmentIngest, from a camera's message to the
   footage that is kept.
