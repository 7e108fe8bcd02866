# pocket-coder, specified

pocket-coder is a single-user server (Go, `src/server/`) with a web client
(`src/web/`): it keeps one Docker container per project, opens terminals into
them, runs coding harnesses, previews the project's web page, synchronises work
with a laptop, and answers questions with two chat assistants. This directory
holds TLA+ models of its core, the TLC runs that check them and the TLAPS proofs
about them. `PROJECT.json` links every definition to the lines it models.

Paths below are relative to `src/server/internal/` unless they start with `src/`.

## 1. Inventory

| component | state it keeps | operations | what is hard about it |
|---|---|---|---|
| thread store `threads/` | a folder per chat: `1.json`, `2.json`, ..., lineage, `approvals.json` | ReserveNewThread, ReserveFollowup, CompleteTurn, BeginRetry, Delete, DeleteScope, Purge, AddApproval, ResolveApproval | survives crashes; a turn spans two calls with minutes between them |
| run tracker `httpapi/runs.go` | map from scope to the thread of the run, in memory | take, set, running, done | lost at a restart; released by deferred calls; unnamed while the thread is unknown |
| Butler chat `httpapi/butler*.go` | none of its own | turn, retry, apply, discard, delete | handlers check, then act; apply holds the slot, discard and delete do not |
| CodeMap chat `httpapi/codemap*.go` | none of its own | turn, retry, delete, per project | a project and its chats can go while a run is in flight |
| agent loop `agent/` | the messages of one run | gather, answer tools, close out, history | must end, and answer every tool call |
| preview manager `preview/` | workers, starts in flight, tokens, last seen; containers | Ensure, Stop, Close, Touch, Sweep, boot clean-up | starts outside the lock; a sweeper against polls; leftovers of a crash |
| project service `project/`, state store `state/` | `state.json`; containers and volumes | Create, Delete by scope, Start, Stop, Reconcile, BringAllUp | several external steps, each may fail; creates race |
| harnesses `harness/`, `httpapi/harnesses.go` | registry file; install marks in `state.json` | save, remove, install, clear marks at boot | check, then mark; marks of a dead server |
| sessions and terminal `session/`, `httpapi/terminal.go` | tmux sessions; metadata in `state.json` | create, rename, delete, restart, attach | two records of one thing; "not the last one" is check, then act |
| work sync `sync/` | codes, sessions, backups, files of a project | generate, hello, plan, send, receive, abort, rollback | codes with limits; a receive may fail half way |
| push `push/` | key pair, subscriptions | subscribe, send, prune, wipe, regenerate | prunes on a stale snapshot; two files for one fact |
| event log `events/` | a file and the last id | append, list, reset | ids across reset, torn lines and restarts |
| observability `obs/` | a numbered log of two files per project, a counter and a queue in memory | append, flush, rotate, tail, delete | a line is numbered, queued, drained and written at different times |
| CodeMap ask pipeline `codemap/` | none | options, search, read, references | the references into one file are read in one command and cut apart again |
| auth, config, ssh keys, git operations, docker client, start-up, web client | small files or none | | not at the core; see section 10 |

Interactions: the handlers of `httpapi/` are goroutines of the HTTP server and
share only the stores (each behind one mutex), the trackers and the Docker
daemon. A chat handler takes the slot of its scope, reserves a turn in the
store, and hands both to a detached goroutine that runs the model, stores the
outcome and releases the slot. Deleting a project calls the thread store's
DeleteScope; the settings wipe purges both chat stores. A crash loses the
trackers, the sync codes and the queues, and keeps every file.

What makes each part correct, and where its models state it, is the list of
`hazards` in `PROJECT.json`.

## 2. Plan

Most important first; each line is a module, or a group of modules, with its
runs and proofs.

1. **Chats** (done): `ThreadStore`, `RunTracker`, `TurnRequests`, composed into
   `ButlerTurns` and `CodemapTurns`; abstract specification `SerialChat`; proofs
   of the invariants and of both refinements.
2. **Preview manager** (done): `PreviewManager` with the names and ids of a Docker
   daemon; the sweeper, joined starts, shutdown, crash and the boot clean-up.
   Abstract specification `OnePreview`. Proofs: single start, ownership of containers,
   no leaks, the refinement. Left: the cache of browser sessions.
3. **Projects** (done): `Projects`, the service, the state store and the Docker
   daemon; races of creates and deletes; what a failed step leaves; keys; the boot.
   Proofs: the marker vouches for the key, a deleted project leaves nothing, the boot
   brings all up.
4. **Sessions and terminal** (done): `Sessions`, tmux and its names against the records,
   plugins and their installs; `Terminal`, the bridge to one
   browser. Proofs: all three properties of the sessions, no send on a closed channel,
   whole characters.
5. **Work sync** (done): `Sync`, codes and their limits; send, receive, backup, undo.
   Abstract specification `OneTransfer`. Proofs: a failed transfer restores, one upload at a
   time, the refinement, a transfer is honest.
6. **Services** (done): `AgentLoop`, `ObsLog`, `PushStore`, `EventLog`,
   `CodemapRefs`. Proofs: every safety property of theirs.
7. **Left.** The pruning of backups; the components that section 10 lists.

Components that share no variable are checked in one run, each moved by itself; a
run more is there for each disagreement between the code and what it says of itself.

## 3. The chats: modules

| module | models | state |
|---|---|---|
| `ChatIds` | ids of threads, scopes and cards | constants only |
| `ThreadStore` | `threads/threads.go` | `turns` (thread to sequence of turn states), `minted`, `cards` |
| `RunTracker` | `httpapi/runs.go`, `runningFor` | `slots` (scope to thread, `Blank` while unnamed, `Free`) |
| `TurnRequests` | the steps both products share: take, reserve, repoint, settle, release, rewrite, delete, restart | `req` (where each request stands), `faults` |
| `ButlerTurns` | `httpapi/butler.go`, `butler_confirms.go` | also `executed` (how often a card's write ran) |
| `CodemapTurns` | `httpapi/codemap.go`, `codemap_threads.go`, the delete of a project's chats | as `TurnRequests` |
| `SerialChat` | what a chat promises: at most one open turn per scope, outcomes land on it | `turns`, `open` |
| `MCButlerTurns`, `MCCodemapTurns` | the scopes of the instances TLC checks | |
| `TurnRequestsProofs`, `ButlerProofs`, `CodemapProofs` | the proofs | |

**Turns.** A file `N.json` is *reserved* while it holds the prompt alone, *failed*
once it has an error, *answered* once it has a payload. Prompts, answers, steps,
titles, times and lineage files are left out: no decision of the handlers reads
them. `persistTurn` writes `N.json` first and the lineage second, so a failed
lineage write leaves the same state as a success.

**Atomic steps.** The store has one mutex and replaces files by renaming, and the
tracker has one mutex: a call is a step, and between two calls of a request every
other request may run. Two calls are folded where the second decides again
everything the first did (Get then ReserveFollowup).

**A request** is a record: where it stands, its scope, thread, turn number and
card. The detached goroutine of a run goes on in the record of its handler; the
handler does nothing more after starting it than write the response.

**Butler and CodeMap differ** in what they do first. Butler takes the slot under an
empty name and names it after the reservation; its retry reads the thread before
it takes the slot. CodeMap takes the slot under the thread's name, and its retry
reads the thread after. These differences are kept, and the properties show what
follows from them.

**Cards** (approvals): a write tool of a run stores a pending card under the run's
turn; the user applies it (find, point the slot, execute, resolve, all under the
slot) or discards it (find, resolve, without the slot). What the write itself does
is a counter here; the write may fail and leave the card pending.

**Faults.** `faults` counts crashes and failed file writes, at most `MaxFaults` of
them. A restart empties the tracker and drops every request; folders and cards
stay.

## 4. The preview manager

`PreviewManager` models `preview/worker.go`, the manager; `preview/docker_runtime.go`,
the factory that starts a worker's containers and the worker that closes them;
`preview/janitor.go`, the clean-up at boot; and what `httpapi/preview.go` and `main`
ask of them. `PreviewProofs` holds the proofs.

* `docker`: for each project the container that has the name of its sidecar, and
  the one that has the name of its relay. Docker refuses a second container of
  the same name. Names belong to the project, ids to one container: `Remove` goes
  by id and leaves a newer container of the same name alone, the self-heal of
  `Start` (`Heal`) goes by name. An id comes again only when nobody remembers it,
  which no behaviour can tell from ids that never repeat, and keeps the model finite.
* `workers`, `inflight`, `token`, `closed`: the maps and the flag of `Manager`. `token`
  folds `tokens` and `lastSeen`: none, fresh, or silent for longer than the limit;
  `Silence` is the passing of time. The value of a token is left out.
* `swept`, `doomed`: the local lists of the sweeper's loop and of `Close`.
* `op`: where each goroutine stands in Ensure, Start, Stop or Close, with the
  containers it has started or is closing.

A step is a critical section of the manager's mutex or a call to Docker. `Run` creates
and starts: when the start fails, Docker's client removes the container again, which
may fail too. A removal that fails is a fault, and stands for a daemon that is down,
a deadline and a cancelled request. A worker that dies by itself changes neither the
names nor the maps, so it is left out; so is whether the project still exists, which
no step of the manager looks at. A late start after `Close`, a request that `main` does not wait for, and a kill at any
point are all behaviours of the model.

The duplicate branch of Ensure (a worker is there when the start reports) is in
`Report`, and `OneStarter`, a theorem, says that it never runs.

`OnePreview` is what the manager promises, without mutex, tokens, sweeper and shutdown:
a preview is off, being started by one request, or on with containers that stay until it is
stopped; everything may die but the containers. `PreviewManager` implements it
(`RefinesOnePreview`): who starts is read off the goroutines, not off the in-flight map,
so that the map has to be right; a preview is on with what the manager has registered.

## 5. Projects, sessions and work sync

`MCProjects` checks three models in one run, `projects`.

| module | models | state |
|---|---|---|
| `Projects` | `project/service.go`, `health.go`, `reconcile.go`, the ssh injection, the project handlers, `main`'s boot of projects | `record`, `box` (container), `repo`, `home` (volumes, with the key file and its fingerprint marker), `chats`, `key`, `job` (where each request and the boot stand) |
| `Sessions` | `session/session.go`, the session handlers of `httpapi/terminal.go`, `harness/`, `httpapi/harnesses.go` | `tmux`, `dead`, `meta` (the records), `registry`, `marks`, `binary`, `request`, `boot`, `toInstall` |
| `Sync` | `sync/code.go`, `service.go`, `backup.go`, `httpapi/work_sync.go`, `cmd/pcoder-sync` | `files` (two trees of covered paths), the codes and sessions, `plan`, `stage`, `saved` |

**Projects.** Each `store.Mutate` and each Docker call is a step: the store clones, changes,
saves and swaps under a mutex, so a save that fails changes nothing. Docker refuses a
name that is in use, keeps the volumes when it removes a container, and removes no
volume that a container mounts. A boot (`BringAllUp`) and a wipe go through the projects one after the
other and remember that one failed; a delete goes on over the failures of its steps
and keeps the record unless all of them worked. An injection of the key reads the pair, writes the
files and then the marker, and a rotation may come at any time. An ask of CodeMap
checks the repository and later reserves a thread (`Ask`, `AskReserve`).

**Sessions.** A name is a tmux session, a record of its kind, both or neither. Attach
looks, creates and records; a rename moves the one and then the other; a delete
counts and then removes; a restart kills, launches and records; the re-entry after a
lost container launches what the record says. A plugin is marked as installing,
installed in the container and marked as installed or unmarked; the boot clears marks and installs again.
`dead` are panes that outlive their command.
tmux is given names by `-t name`, without the `=` that would ask for exactly that name, so a command
hits the session of the name or else the only one whose name begins with it (`Hits`, from `Longer`):
a look (`has-session`), a kill and a rename on one name may meet another's session, while a new session and the
new name of a rename are taken as they are. A kill where no tmux server runs fails.
Two deletes at once may both count two sessions and remove both (`CountSessions`): the claim that the last
one cannot be deleted (`httpapi/terminal.go:762`) does not hold, and no property states it.

**Sync.** A code is fresh, spent or gone, and its session is open, planned or gone. `plan`
is what the two sides had when they were compared; a transfer is staged and checked against
the plan, backed up, applied (a step that breaks has written any part), verified, and
undone when a step fails, in either direction (`Send` into the container, `Receive` on the laptop). The laptop's program, `syncMain`, is the
client: it asks, waits for the answer, and never repeats a send on a session, so a
repeated send is not modelled.

`OneTransfer` is what a transfer promises, without codes, sessions, backups or connections:
two sides agree on what one of them is to become, the transfer writes, and it ends moved, as
before, or left in between, and says which. `Sync` implements it (`RefinesOneTransfer`) by
`DealOf`, which reads off a stage what the two sides may think: a transfer at work before its first write
has written nothing, `done` is moved, `failed` and a restore from a backup are as before. A restore
without a backup is told as left: the code calls it restored, and `sync_restore` shows that it is not.
Others write while a transfer is at work, so each promise is one about the paths that they did not write.

**What the histories exempt**, and why it is not a weakening by accident:
* `crowded`: two requests were at work on one project at once. The service has no lock
  around a request, and `projects_twice` shows what follows. `unlisted`: the scope
  "metadata" forgets a project on purpose and leaves its container; and so does, not on
  purpose, a create whose start fails and whose removal after that fails as well: `docker.Run`
  drops the error of the removal (`docker/docker.go:172`), and the undo of the create then drops the
  record (`RunLeaves`).
* `mixed`: two requests met on a session name, or a crash cut one off, with steps on tmux and on
  the record in any order; also one whose record failed to be
  written (the code drops that error), one that a rename gave to another's session, and a
  session that was there before sessions were recorded. The name is exempt until record and session
  agree again and nobody works on it: until then the code really has them apart. `dropped`: a
  plugin that was removed, which a record may go on naming after
  its session was launched again as a shell. `stuck`: a plugin whose mark outlived a clear that could
  not be saved: the deferred clear drops that error (`httpapi/harnesses.go:107`), and the boot
  only warns (`src/server/cmd/server/main.go:153`).
* `touched`: paths that somebody else wrote during the transfer; the undo takes
  them back as well. `released`: a code that was aborted, that expired or was burnt
  by bad hellos, whose transfer nobody stops.

## 6. Terminal, agent loop, logs and stores

`MCServices` checks six small models in one run, `services`.

| module | models | state |
|---|---|---|
| `Terminal` | `runTerminal` and `splitUTF8` of `httpapi/terminal.go`, and the attach | the reader, the channel, the pump, the handler, the exec; `printed` and `framed` bytes of the output |
| `AgentLoop` | `agent/`, the rounds of `httpapi/butler.go` and `codemap/`, the transcript | `talk` (the messages of a request), `calls` of the round, `transcript`, `step`, `attempt`, `result` |
| `ObsLog` | `obs/store.go` | `counter`, `channel`, `batch`, the two files, a tail's `cursor` |
| `PushStore` | `push/` | keys and subscriptions, in memory and in their files; the snapshot of a fan-out |
| `EventLog` | `events/` | the lines, `open` (the last one has no newline), `lastId`, a client that polls |
| `CodemapRefs` | the references of an answer, `codemap/` | the lines of a file and their kinds, the references, the snippets |

**Terminal.** The reader sheds input when the channel is full; the pump writes into a
synchronous pipe, which blocks when the pty does not read; the handler waits for the
exec or for the reader, then for the reader, closes the channel, and its deferred calls close
the rest. Output is a sequence of bytes that make up whole characters of one to four
(`WholeCharacters`, which TLC evaluates for the streams of the run), arriving in pieces of
one to four bytes, so that a character may be cut anywhere and come in up to four reads; `SplitUTF8` is the
code's cut on real start and continuation bytes.

**Agent loop.** A turn passes the scope gate, is given what fits of its thread's history, and asks
the model at most `MaxSteps` times. A reply has calls: those of unknown tools, and a
call that repeats the one before, are answered without running (`Judge`). A request begins with the
system prompt, for Butler followed by the lead-in of `WithLeadIn` (`Guides`). The replayed calls of the history have
ids that the code numbers (`ReplayCalls`); the ids of a round are what the model server sends, and nothing compares
them with each other or with those of the history, so they come from `CallIds`, with repeats. A model
call has `StepAttempts` tries; a turn out of steps closes out; CodeMap nudges once and formats its
answer. The transcript is folded from the events of the round as `RoundCollector` does.
A loop of the code over the calls of a reply or the turns of a thread is a recursive
function of the number of them that are behind it (`Request`, `Judge`, `Blocks`): the
proofs unroll those.

**Logs.** In `ObsLog` numbering, queueing, draining and writing are four steps, and only
the last is under the lock. In `EventLog` a failed write leaves nothing, a part of a
line, or all of it but its newline, and the next line is glued to it.

**References.** A file is a sequence of lines that are blank, long (4096 characters or more) or neither. What sed
prints of the merged blocks comes back trimmed (`session.ExecCommand` ends in `strings.TrimSpace`; `Trimmed`), is cut into
slices, and each snippet is cut at 4096 characters (`Cut`); all references to the file are
dropped when the read fails, finds a NUL (`DropAll`) or prints nothing but blanks. So when the first line that is
named is blank, the output begins further down than `hydrateRefs` counts from, and every reference to the file is
given lines from below its own. The model does the same, and `RefsGetTheirLines` speaks of the other
files. Two details are left out: the indentation of the first line, which is trimmed too, and several shorter
lines that have 4096 characters together.

## 7. Runs

*Chats.* Two requests are enough for every pair of handlers to interleave at every step,
on one thread or on two; a third would only repeat one of the kinds. Two threads
(three in CodeMap, over two projects) distinguish "this thread" from "another
one". Two turns distinguish the last turn from the others, one card is enough as
cards of one thread never touch each other, and one fault can hit at every step.

*Previews.* Projects share nothing in the manager but its mutex, so one is enough.
Two requests, the sweeper and main give every pair of a start, a joined start, a stop,
a sweep and a shutdown; four ids are the two containers of a worker that is being
closed and the two of its successor. One failed removal and one kill can come at any
step.

*Projects, sessions, sync.* One project: the service takes each by itself, and the boot and the
wipe are loops over them. Two requests give every pair of operations, and one fault,
mishap or trouble (a failed call, a lost container, a crash, a bad hello, an edit by
others) can come at any step of either. Two keys are the old and the new. Of the three session names
one begins with another (`main2`, so that a command on `main` may hit it) and one names the one plugin. After a mishap no
request on sessions starts beside another, and before it only requests on the names of `Crowd`, `main` and `main2`, and
only while no other is in use (`Roomy`): what two requests do with each other is explored there. Two paths tell a changed file from an
added one, and two codes an old transfer from a new one. The requests, clients and codes have the
same two names, so one permutation serves as symmetry; no property there is temporal
beyond an action. With `MaxAttempts` = 1 each bad hello burns its code: a failed hello
below the limit changes nothing but its count, and is the one branch of `FailAttempt`
that is not reached. With one plugin, the boot has no recorded plugin that the registry no
longer has.

*Services.* `Terminal`: a channel of one is full at once, four frames overfill it. The
streams hold characters of every size, with the first and last continuation byte. `AgentLoop`: two tools and one stray, two calls a
reply, two steps and two tries are the least in which a repeat, a blocked call, a
second round and a retry occur; the ids of a reply differ, repeat each other or those of the history; one tool
has a timeout of its own and one has not; the histories have turns that fit, that do not, and failed
ones. `ObsLog`: a file of one line rotates with every line, so four lines go round twice; a
fifth lets a tail pass numbers that a restart gives again, which four never do.
`PushStore`, `EventLog`: two devices, five events and up to three failures or crashes. `CodemapRefs`: all
lists of up to three references to a file of up to four lines of any kinds, of up to three lines each, so
that a reference may be cut short by its own limit, by a long line, by blank ones at the end of
the output and by the end of the file.

| run | shows |
|---|---|
| `butler` | seven properties of Butler's chats (398,016 states) |
| `codemap` | six properties of CodeMap's chats (410,124 states) |
| `butler_retry` | *violated:* `AnswersSurvive`. Two requests see the same failed turn; the first retry answers it, the second takes the slot after and wipes the answer |
| `butler_delete` | *violated:* `DeleteSparesTheRun`. The delete looks while the slot is free or unnamed, and removes the folder a follow-up or retry then runs in |
| `butler_discard` | *violated:* `DiscardedNeverRan`. A discard between an apply's find and its resolve: the write ran and the card reads discarded |
| `butler_crash` | *violated:* `UnansweredIsRetryable`. After a crash the placeholder has no error, and Butler's retry refuses it for good |
| `preview` | seven properties of one project's preview (440,664 states) |
| `projects` | nine properties of a project's lifecycle, sessions and work sync (2,392,984 states) |
| `services` | ten properties of the six models of section 6 (1,045,276 states) |
| `preview_sweep` | *violated:* `SweepSparesTheWatched`. The sweeper expires the token; a status poll mints a new one for the same worker, or a new worker starts; the sweeper then stops the project's worker by the project's id |
| `projects_twice` | *violated:* `TwiceIsAConflict`. Two creates of one repository pass the check; the container's name is taken for the second, and its undo drops the record of the first, whose container runs |
| `sync_restore` | *violated:* `RestoredOnAnyFailure`. An upload that only adds files makes no backup, and without one the undo does nothing: some of the new files stay |

Each of the violated ones contradicts a comment of the code, quoted under `findings`.
CodeMap's handlers are free of the first and the last: `RefinesSerialChat` of
`codemap` allows reopening unanswered turns only, and its retry accepts a bare
placeholder.

The properties of the passing runs:

* `TypeOK`: the types, one per product.
* `SlotHasOneHolder`: the slot is held exactly while one request is between its
  take and its done, so no deferred done frees another's slot.
* `RunOwnsItsTurn`: the turn a run will complete is still the last, still bare, and
  the slot names its thread.
* `PendingCardOnLastTurn`: no newer turn buries a card that waits for the user.
* `ExecutedAtMostOnce`: a write runs once, plus once per fault at most; an approved
  card did run.
* `BusyThreadIsBlocked` (CodeMap): a delete that looks during a run on a known
  thread is refused.
* `RefinesSerialChat`: the detailed model implements `SerialChat`. Butler's may reopen
  any turn (see `butler_retry`), CodeMap's only unanswered ones.
* `SlotComesFree`: a held slot is given back, provided that its run ends: no refusal, failed write or
  other path of a handler keeps it.
* `RefinesOnePreview`: one request at a time starts a project's preview, only while it
  is off; it comes on with containers that are there, and they are not touched while it is on.
* `WorkerKeepsItsContainers`: what a live worker was registered with is what Docker has
  under its names, whatever closes, clean-ups and self-heals of earlier workers
  are still under way.
* `EveryWorkerIsWatched`: a worker has a token that may fall silent, or is on the
  sweeper's list; a token has a worker.
* `NoContainerLeaks`: as long as no removal has failed, each container belongs to a
  worker or to a goroutine that will register or remove it, after crashes too.
* `NothingOrphaned`: a project off the list has no container and no clone, whatever failed
  and wherever the server died, as long as its requests came one at a time, but for the two ways in
  which the code leaves a container without a record (`unlisted`, section 5).
* `MarkerTellsTheKey`: the marker that later calls trust stands beside the key it names.
* `BootHeals`: after a boot without failures every recorded project runs.
* `RecordsTellTheKind`: a session at rest is recorded as what it runs, but for the names in `mixed`.
* `InstallingIsRunning`, `BootInstallsRecorded`: a mark "installing" has an install
  behind it, or a clear that could not be saved, and a boot without mishaps leaves no installed plugin without its command.
* `RefinesOneTransfer`: a transfer that reports success has moved the whole tree, one that fails before
  its first write has written nothing, an undo that had a backup and reports success restored
  every path that nobody else wrote, and what has ended stays so. `OneTransferAtATime`: of
  two uploads under way one has lost its code.
* `FramesAreWhole`: all complete characters are out, and frames end with one.
  `NoSendAfterClose`: the channel closes behind its only sender. `BridgeIsTornDown`: nothing
  is left behind when either end goes away.
* `RequestIsWellFormed`: the developer messages (two for Butler, one for CodeMap) first and nowhere
  else, one prompt, every call answered once, at once, in order; the calls of the history have ids
  of their own, while nothing is said of those that the model server gives.
  `TurnEnds`: a turn past the gate ends, but for a Butler turn that waits for a tool
  without a timeout. `TranscriptIsTheTurn`: the
  transcript has the calls that ran, in order, with their own results. A turn with a
  blocked repeat is exempt: its end goes to the first pending call, which may be another one that
  still runs, and from there on each step bears the result of another call.
* `TailIsExact`: a tail neither misses nor repeats a line, except those still on their way when
  a newer one was written, and lines numbered before a delete of the log. The attempt to
  prove it showed one case more (`reused`): when such overtaken lines are all that is left
  in the files, a restart counts on from them, and the numbers that it gives are behind
  the cursor of the tail. That no two lines have one number holds even so.
* `PushFileIsTrue`: nothing from before a wipe that has answered is served or on file; what was
  acknowledged is on file until pruned or wiped. Not covered: a prune of a stale snapshot, which
  counts as one, and what a wipe that failed half way leaves.
* `FollowerMissesNothing`: ids grow along the file, and a polling client is given all of it,
  unless a line was written whole but for its newline, which gives its id back.
* `RefsGetTheirLines`: where the first line that is named is not blank, each reference gets its own lines
  out of the shared output, from the first on, without those past the end, blank ones at the end and those
  behind a long one; or all are dropped.
* `IdlePreviewEnds`: a worker whose token is silent or gone is stopped, unless somebody
  comes back. `JoinersReturn`: whoever waits for another's start is answered.

**Fairness.** `FairSpec` asks weak fairness of the steps of each accepted request:
goroutines are scheduled, and no step waits for another request. That a run ends is justified by
the code for CodeMap, whose context expires after ten minutes, and for Butler's model calls, which have
a timeout and a bounded number of rounds; for Butler's tools it is an assumption, as some of them
run Docker commands on a context that never ends (see `AgentLoop` below), and a run that hangs there
keeps the slot. Nothing is assumed of clients, the wipe or
crashes. In `PreviewManager` the fair steps are those of a start, a stop or a close that is
under way (that the Docker daemon answers each call, or its deadline ends it, is an assumption; the wait
for the browser is bounded), the sweeper, whose ticker never stops, and the boot; requests, polls,
shutdown and crashes are free not to happen. In `Terminal` the reader, the pump and the
handler are scheduled, while frames, output, a pty that reads and either end going away are
nobody's promise; writes to the browser's socket have no deadline in the code, and that they return or fail
is an assumption. In `AgentLoop` only the steps that somebody bounds are fair (`BoundedStep`): a model call has a
timeout (`stepTimeout`) and a number of tries, a tool either a timeout of its own (`Bounded`) or, in CodeMap,
the deadline of the turn. A Butler turn is detached from its request (`httpapi/turns.go:17`), and
`list_sessions`, `list_projects` and others run Docker commands on that context without a timeout
(`httpapi/butler_reads.go:122`, `:174`, `:177`): nothing is assumed of those, and `TurnEnds` has
to allow that the turn waits for one for ever (`ToolHangs`; `agent/loop.go:265`).

Deadlock is checked for the chats and the previews. In `projects`, `projects_twice`,
`services` and `sync_restore` it is not: codes, keys, events and turns are used up there,
and a system that has done all of it rests.

## 8. Proofs

For the chats everything is proved for any finite or infinite sets of threads, scopes, requests
and cards, from `IdAssumption` (the ids differ from the two marks, every id has a
scope), `RequestAssumption` (the bounds are numbers) and, for Butler,
`ButlerAssumption` (its only scope is the empty string).

`TurnRequestsProofs` proves that each shared step keeps `SharedInv`, a conjunction of

* `RequestsTypeOK` and `SlotHasOneHolder`;
* `Targets`: the scope, thread and turn number a request carries fit where it stands;
* `OpenTurnIsBare`: a request that has reserved a turn and not settled it has the last
  turn of its thread, bare, if the folder is still there. This alone is not
  inductive: without the one holder another request could append a turn;
* `SlotNamesRun`: while the run works, its slot names its thread;
* `FoldersAreMinted`: a folder has an id that was handed out, so a fresh id never
  lands on a folder of someone else.

`ButlerProofs` adds `CardInv` (a pending card's thread exists and the card is on its
last turn; for that, an unsettled turn has to be the last) and `ExecInv` (how often a
card can have run at each stage of an apply). `CodemapProofs` adds that a slot in use
names its thread and that an accepted retry is still acceptable when it rewrites.
The theorems are listed in `PROJECT.json`: type correctness, five more invariants,
and both refinements, whose mapping is `openTurns`: the turns between reservation
and outcome. The lemmas about `openTurns` say that a reservation opens one, a settle
or a restart closes it, and every other step leaves it alone.

`PreviewProofs` proves the safety properties of `PreviewManager` for any projects,
callers and ids and any bounds, from `PreviewAssumption` (the sweeper, main and the
callers are different, and `None` is none of the values). The inductive invariant
`PreviewInv` joins to `OneStarter`, the in-flight map names exactly the goroutine that starts
a project's worker and there is none while it has one, and to the invariants that are checked

* `Roles` and `Fields`: who starts and who closes, and what a goroutine holds where;
* `HeldOnce`: a container of a project is held by one goroutine or one worker;
* `StartHasItsContainers`: what a start has run, and not removed, still has its name. With
  `OneStarter` it makes `WorkerKeepsItsContainers` inductive: nobody else heals by name
  while a start is under way, and removals by id hit only what their holder has;
* `NoneUnheld`: a container is held within its own project, which implies
  `NoContainerLeaks`;
* `ClosedIsEmpty` and `BootIsQuiet`: a closed manager has no worker, and before the boot
  clean-up nothing moves, so that it finds every container unowned.

The steps are grouped by effect: `Quiet` steps move no container, `Handles` steps run or
remove one, `TakesOver` steps hand a worker's containers to the goroutine that closes it.
`PreviewRefinesOnePreview` needs no more than this invariant. By `OneStarter` the goroutine
that starts a project is the one in the in-flight map, so `EnsureStarts` is a `Begin`;
a step that registers nobody moves containers, none of them a live worker's, and is a `Move`;
whatever takes a worker off the map (a stop, the sweep, a close) is a `Halt`; `Report` is a
`Finish`, whose containers `StartHasItsContainers` vouches for; an exit or a crash is a `Die`.

`ProjectsProofs` proves the three properties of `Projects` from `ProjectAssumption`.
`MarkerTellsTheKey` has `KeyInv`, which
says that a project that is not crowded has one job at most (`OneJob`; during a boot, which is
alone, `BootIsAlone`), that no marker names a key to come (`MarkersAreOld`, so a rotation
unsays every marker), and that an injection under way has a key no older than the
marker and, once it has written the key file, has that key in it
(`InjectionIsNewest`). Without the last, an injection that read its key before a
rotation could write an old key beside a new marker. Every other step goes on without writing either
(`OnwardKeeps`).
`NothingOrphaned` speaks of projects that are off the list and that nobody works on, so its
invariant `OrphanInv` has to say what a project looks like while somebody does: `Stands` gives,
for each stage of each request, what it has made or removed so far (a create has its record
before anything else, a delete keeps it until container and volumes are gone), and
`FreeIsClean` what is left when nobody is there. A wipe works on one project and
holds all, so the projects behind it have a conjunct of their own (`WipeLeavesNone`). Every step is
on one project, and a lemma (`OthersStay`) carries the conjuncts of the others over.
`BootHeals` adds `BootInv`: what the boot has behind it runs.

`SessionsProofs` proves the three properties of `Sessions` from `SessionAssumption`.
A name has two records, and a request moves first the one and then the other; `Tells` gives, for
each stage of each request, what it knows of the two, `AtRestTold` says that a name
nobody works on is recorded as what runs, was mixed, or names a removed plugin, and `Apart`
that two requests that meet on a name have marked all their names as mixed, so that whoever is
not marked is alone. A step of one request is then a `StepTo`: it moves its own names, and owes
them what `OwnTold` says; `OthersTell` and `StepKeeps` give the rest.
`InstallingIsRunning` and `BootInstallsRecorded` follow from `StartInv` (before the boot is
through there is no request, and what is recorded and missing is still to install). `AllTypesHold` puts the three models of section 5
together: a step of one leaves the variables of the others, so the conjunction of their
invariants is inductive for the specification that `projects` runs, and implies `TypeOK`.

`SyncProofs` proves the properties of `Sync` from `SyncAssumption`. `FailedTransferRestores`
follows from `TransferInv`, whose core is `PlannedPathsOnly`: outside the paths of its plan a
target is as it was planned, or touched by others. An undo that works writes all the planned
paths back, so all of them agree again, whatever part had been written. `OneTransferAtATime`
follows from `CodesInv`: only the live code is fresh (`OnlyCurrentIsFresh`), an upload at work
has its session, and a session that is inside a transfer holds the live code unless it was
released; two codes are not both live.
`SyncRefinesOneTransfer` takes the steps by what they tell: what stages, checks and backs up
tells nothing or gives up; what applies is a `Write`; an undo that restores is an `Undo` by the
lemma behind `FailedTransferRestores` (`PutsBack`), and without a backup, or broken, a `Leave` or a
`Write`; a restart leaves all uploads at once. That a plan begins a transfer and never begins it again
needs one fact more, `PlanComesFirst`: a session without a plan has no transfer.
`TransfersAreHonest` is then proved of `OneTransfer`'s steps alone, with the mapping unexpanded:
`Honest` says of every transfer, at work, ended or left, what its target may contain.
Its types need one fact more than types (`AttemptsLeft`): a code that has not been dropped
has failures left.

`ServicesProofs` proves every safety property of the six models of section 6, each of its own
specification.

* *Terminal.* `NoSendAfterClose` for any capacity and number of frames, with the bound of the
  channel (`QueueFits`) and that the pump leaves only an empty, closed channel behind.
  `FramesAreWhole` for any stream of whole characters: a cut at the end of a character, or in
  the middle of one of up to four bytes, is found by looking at the last three bytes
  (`SplitIs`), so what is framed always ends where a character does.
* *Push store.* What makes `PushFileIsTrue` inductive
  is that each write stores the whole map: `MemoryKeepsKnown` (memory has whatever the file has to keep) and
  `HandedIsLast` (no subscription is newer than the last one handed out, so those after a wipe are
  told from those before). A failed write of the wipe leaves the old file and the old promise.
* *Event log.* A line without its newline does not parse (`OpenIsTorn`), those that parse rise,
  the counter is not behind them, and the client's last id is of an event it can still
  find (`Follows`). A page of the first events behind an id has no gap (`FirstOnes`).
* *Observability log.* `OnePlace` says that a number is in one place: with a writer, in the
  channel, in a batch or in one of the files. Queueing, draining, writing and rotating move lines
  between places (`PouredKeeps`); `Counts` makes a new number unused; `Tailed` says which lines a
  tail has passed.
* *Agent loop.* Between two rounds the request is sound: every message with calls is
  followed by their replies (`Sound`). While the tools of a round run it is a sound one with
  that message at its end (`TalkInv`), and the end of the round adds the replies. The
  transcript has told the calls that ran before, and the names it waits for are those of the
  calls of this round that run, from a place on and in their order (`Waiting`); so the first
  pending call is the right one, unless a blocked repeat has taken it. The history's replies have ids of
  their own because `ReplayCalls` counts on over its turns (`CountedTo`); of the ids of the rounds nothing is
  assumed but that there is one for each call.
* *References.* Sorted references merge into blocks that do not meet and hold each of them
  (`Merged`). Up to a block that the file has, sed has printed as many lines as `pos` counts
  (`PrintedOf`); of later ones it prints nothing when the file ends (`PrintedBeyond`). So the
  slice of a reference begins and ends where it should (`SliceIs`). If the first line that is named is not
  blank, the first line that sed prints is not either (`PrintedFirst`), so what is trimmed is at the end, and
  what is trimmed or cut of a slice are its last lines (`IsGiven`).

The loops of the last two are recursive functions. That such a function exists and obeys its
equation is usually shown by induction over numbers, with a theorem whose parameter is an
operator, which the provers cannot instantiate. Here it is shown once, for sets and functions
(`UpTo`, `Recursion`), from the least number that fails: `UpTo` carries a fact from
0 up to any bound, and `Recursion` gives the function where each step leads from one set
to the next. Each loop is then a lemma of its own (`RequestIsRequest`, `BlocksAreMerged`, ...).

The constants of these proofs are assumed to be what the code makes them: bounds are numbers, limits
positive, sets of names disjoint from their marks (`Gone` is no name), a session's name
belongs to a plugin or the shell (`BaseOf`), the turns of a thread are turns (`PastTurns`), and
what a terminal prints is whole characters (`Streams`).

Every safety property of the passing runs is a theorem. Model-checked only are the liveness properties
`SlotComesFree`, `IdlePreviewEnds`, `JoinersReturn`, `BridgeIsTornDown` and `TurnEnds`, which need
fairness and ENABLED and are out of the prover's reach, and the violated properties, which are
false. For the chats, `TypeOK` and the rest are proved of the specifications the runs check; for the
models of section 5 and 6, of each component's own, which the runs move one at a time.

## 9. Correspondence

`PROJECT.json` has the lines of each definition. In outline: `TakeForTurn`, `ReserveNew`,
`ReserveNext`, `ReserveRefused`, `Repoint` are the body of `handleButlerTurn` and
`handleCodemap`; `Settle`, `SettleFails`, `Release` are `executeButlerTurn` and
`runCodemapTurn` with the deferred `done`; `RetryCheck`, `RetryTake`, `RetryRewrite` the
retry handlers in their two orders; `ApplyFind`, `ApplyPoint`, `ApplyExec`,
`ApplyResolve` and `DiscardFind`, `DiscardResolve` the confirm handlers;
`DeleteCheck`, `DeleteFolder` the deletes; `DeleteScope`, `Purge` what the project
delete and the wipe do to chats. `Crash` is a death and restart of the process: there
is no code for it but the fact that the tracker is a map in memory.

In `PreviewManager`, `EnsureStarts`, `EnsureJoins`, `Report`, `Announce` are `Manager.Ensure`
before, beside and after the factory; `Run`, `Heal`, `Rerun`, `InspectSidecar`, `InspectRelay`,
`Cleanup` are `DockerFactory.Start` with `startRelay`; `Stop`, `CloseRelay`, `CloseSidecar` are
`Manager.Stop` and `dockerWorker.Close`; `Sweep`, `SweepStop`, `SweepDone` one tick of the
sweeper; `Close`, `CloseNext`, `Exit` the shutdown in `main`; `SweepContainers` the clean-up
that `main` runs before it serves. An Ensure that finds a worker, or a closed manager,
changes nothing and is no step.

In `Projects`, `Sessions` and `Sync` the requests' entry actions have the name of the handler or
method (`Create`, `Delete`, `Rename`, `Generate`, ...) and the steps that follow have its name
and what they do; `BootInstall`, `Boot` and `BringAllUp` are `main`. In the modules of section 6 an
action is a critical section or a branch of the loop it is named after.

## 10. Not modelled

* The web client: its requests are the models' inputs.
* Authentication: the password, the cookie and the limiter of failed logins are a
  counter and a window behind one mutex, with nothing beside it to disagree with.
* Git operations: each is a command in the container, and its state and its locks are git's.
* Butler's tools: a confirmed write calls an operation of another component; in
  `ButlerTurns` it is one step that counts. Reads change nothing.
* The preview's images, its browser tools and the cache of browser sessions; the
  reverse proxy.
* Of `Sync`: encryption, the archive format and the hash are the identity on contents;
  the command that restores an old backup and the order in which old ones are pruned.
* Of `obs/`: filters, older pages (`before`), the reports of the browser.
* Of the state store: display settings, agent settings and keys, each one value that
  one request replaces.
* Prompts, answers, titles, times, logging and configuration, everywhere.
