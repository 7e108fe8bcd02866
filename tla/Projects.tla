-------------------------------- MODULE Projects --------------------------------
(***************************************************************************)
(* internal/project and the state store under it: the record of a project  *)
(* in state.json, and what Docker keeps for it: a container, the volume of *)
(* the repository and the home volume, where the server's ssh key lands.   *)
(* Requests run at once; each call to the store or to Docker is one step.  *)
(* The store clones, changes, saves and then swaps its document under a    *)
(* mutex, so a failed save is a step that changes nothing.                 *)
(***************************************************************************)
EXTENDS Naturals, FiniteSets

CONSTANTS
  Project,    \* the project ids; their container names are taken to differ
  Caller,     \* the requests that may be under way at once
  Main,       \* the boot, which runs before any request is served
  None,       \* no project
  MaxKeys,    \* how many server keys there may be, one after the other
  MaxFaults   \* bound on failed saves and Docker calls, losses and crashes

ASSUME ProjectAssumption ==
  /\ Main \notin Caller
  /\ None \notin Project
  /\ MaxKeys \in Nat \ {0}
  /\ MaxFaults \in Nat

VARIABLES
  record,    \* [Project -> BOOLEAN]: the project is in state.json
  box,       \* [Project -> {"missing", "running", "exited"}]: its container
  repo,      \* [Project -> {"absent", "empty", "cloned"}]: the repository volume
  home,      \* [Project -> HomeState]: the home volume
  chats,     \* [Project -> BOOLEAN]: there are CodeMap threads of the project
  key,       \* the server's ssh key, numbered
  job,       \* [Caller \cup {Main} -> JobState]
  faults,
  crowded,   \* (history) projects that two requests have worked on at once
  unlisted   \* (history) projects that a metadata-only delete took off the list, or whose
             \* create failed and could not take its container away again

pvars == <<record, box, repo, home, chats, key, job, faults, crowded, unlisted>>

docker == <<box, repo, home>>

Scope == {"container", "repo", "metadata", "all"}

Kind == {"none", "create", "ensure", "reconcile", "ssh", "start", "restart",
         "ask", "delete", "wipe", "boot"}

\* The key file and the fingerprint marker of injectGitSSH, 0 when not written.
HomeState == [there: BOOLEAN, file: 0..MaxKeys, marker: 0..MaxKeys]

NoHome == [there |-> FALSE, file |-> 0, marker |-> 0]

JobState ==
  [at: {"idle", "record", "run", "undo", "key", "marker", "clone", "start", "look",
        "reserve", "stop", "box", "home", "repo", "drop", "chats", "next"},
   kind: Kind, p: Project \cup {None}, scope: Scope,
   todo: SUBSET Project,          \* the projects a boot or a wipe has still to do
   fp: 0..MaxKeys,                \* the key this injection has read
   bad: BOOLEAN, failed: BOOLEAN] \* firstErr, of this project and of all

Idle == [at |-> "idle", kind |-> "none", p |-> None, scope |-> "all", todo |-> {},
         fp |-> 0, bad |-> FALSE, failed |-> FALSE]

Boot == [Idle EXCEPT !.at = "next", !.kind = "boot",
                     !.todo = {p \in Project : record[p]}]

\* A first start: nothing recorded, an engine without leftovers, one key.
Init ==
  /\ record = [p \in Project |-> FALSE]
  /\ box = [p \in Project |-> "missing"]
  /\ repo = [p \in Project |-> "absent"]
  /\ home = [p \in Project |-> NoHome]
  /\ chats = [p \in Project |-> FALSE]
  /\ key = 1
  /\ job = [[c \in Caller \cup {Main} |-> Idle] EXCEPT ![Main] = Boot]
  /\ faults = 0
  /\ crowded = {}
  /\ unlisted = {}

-----------------------------------------------------------------------------
(* Jobs                                                                    *)

serving == job[Main].at = "idle"

\* The projects a job works on; a wipe works on all of them.
Touches(c) == IF job[c].kind = "wipe" THEN Project ELSE {job[c].p} \ {None}

Quiet(p) == \A c \in Caller \cup {Main} : p \notin Touches(c)

Fault == faults < MaxFaults /\ faults' = faults + 1

NoFault == faults' = faults

Begin(c, S, j) ==
  /\ serving
  /\ job[c].at = "idle"
  /\ job' = [job EXCEPT ![c] = j]
  /\ crowded' = crowded \cup {p \in S : ~Quiet(p)}
  /\ UNCHANGED <<record, docker, chats, key, faults, unlisted>>

At(c, at) == job[c].at = at /\ UNCHANGED <<key, crowded>>

GoTo(c, at) == job' = [job EXCEPT ![c].at = at]

\* A request ends; a boot or a wipe turns to the next project, remembering an error.
End(c, err) ==
  job' = [job EXCEPT ![c] =
    IF job[c].kind \in {"boot", "wipe"}
    THEN [job[c] EXCEPT !.at = "next", !.p = None, !.bad = FALSE,
                        !.failed = job[c].failed \/ err]
    ELSE Idle]

\* injectGitSSH reads the key pair first.
GoInject(c) == job' = [job EXCEPT ![c].at = "key", ![c].fp = key]

-----------------------------------------------------------------------------
(* Create                                                                  *)

\* An id that is in the store is a conflict.
CreateAccepts(p) == ~record[p]

Create(c, p) ==
  /\ CreateAccepts(p)
  /\ Begin(c, {p}, [Idle EXCEPT !.at = "record", !.kind = "create", !.p = p])

\* The container comes first, the record only after it.
RecordLater(c) ==
  /\ At(c, "record")
  /\ box[job[c].p] = "missing"
  /\ box' = [box EXCEPT ![job[c].p] = "running"]
  /\ End(c, FALSE)
  /\ NoFault
  /\ UNCHANGED <<record, repo, home, chats, unlisted>>

\* The record is written before anything is made in Docker.
CreateRecord(c) ==
  /\ At(c, "record")
  /\ \/ /\ record' = [record EXCEPT ![job[c].p] = TRUE]
        /\ GoTo(c, "run")
        /\ NoFault
     \/ /\ Fault
        /\ End(c, TRUE)
        /\ UNCHANGED record
  /\ UNCHANGED <<docker, chats, unlisted>>

\* What creating a container leaves of its volumes: they are made with it and stay.
Mounted(p) ==
  /\ repo' = [repo EXCEPT ![p] = IF @ = "absent" THEN "empty" ELSE @]
  /\ home' = [home EXCEPT ![p].there = TRUE]

RunFails(c) ==
  IF job[c].kind = "create" THEN GoTo(c, "undo") ELSE End(c, TRUE)

\* runProject: network, image, then a container under the project's name, which
\* Docker refuses while the name is in use.
RunStarts(c) ==
  LET p == job[c].p IN
  /\ At(c, "run")
  /\ box[p] = "missing"
  /\ box' = [box EXCEPT ![p] = "running"]
  /\ Mounted(p)
  /\ GoInject(c)
  /\ NoFault
  /\ UNCHANGED <<record, chats, unlisted>>

RunNameTaken(c) ==
  /\ At(c, "run")
  /\ box[job[c].p] # "missing"
  /\ RunFails(c)
  /\ NoFault
  /\ UNCHANGED <<record, docker, chats, unlisted>>

\* The network, the image or the create fails; or the start does, the container
\* is removed again, and the volumes stay.
RunBreaks(c) ==
  LET p == job[c].p IN
  /\ At(c, "run")
  /\ Fault
  /\ RunFails(c)
  /\ \/ UNCHANGED docker
     \/ /\ box[p] = "missing"
        /\ Mounted(p)
        /\ UNCHANGED box
  /\ UNCHANGED <<record, chats, unlisted>>

\* The start fails, and so does the removal after it, whose error is dropped: the
\* container stays, and a create that goes on to its undo leaves it unlisted.
RunLeaves(c) ==
  LET p == job[c].p IN
  /\ At(c, "run")
  /\ box[p] = "missing"
  /\ Fault
  /\ box' = [box EXCEPT ![p] = "exited"]
  /\ Mounted(p)
  /\ RunFails(c)
  /\ unlisted' = IF job[c].kind = "create" THEN unlisted \cup {p} ELSE unlisted
  /\ UNCHANGED <<record, chats>>

\* A failed create takes its record back; an error of that is dropped.
CreateUndo(c) ==
  /\ At(c, "undo")
  /\ \/ record' = [record EXCEPT ![job[c].p] = FALSE] /\ NoFault
     \/ Fault /\ UNCHANGED record
  /\ End(c, TRUE)
  /\ UNCHANGED <<docker, chats, unlisted>>

AfterInject(c) ==
  CASE job[c].kind = "create" -> GoTo(c, "clone")
    [] job[c].kind \in {"reconcile", "boot"} -> GoTo(c, "start")
    [] OTHER -> End(c, FALSE)

\* The marker goes before the key it vouches for.
MarkerFirst(c) ==
  LET p == job[c].p IN
  /\ At(c, "key")
  /\ \/ /\ box[p] = "running"
        /\ home' = [home EXCEPT ![p].marker = job[c].fp]
        /\ GoTo(c, "marker")
        /\ NoFault
     \/ /\ AfterInject(c)
        /\ IF box[p] = "running" THEN Fault ELSE NoFault
        /\ UNCHANGED home
  /\ UNCHANGED <<record, box, repo, chats, unlisted>>

\* Directory, private key, public key and config, then the marker: the first
\* step that fails ends the injection, and its caller goes on with a warning.
InjectKey(c) ==
  LET p == job[c].p IN
  /\ At(c, "key")
  /\ \/ /\ box[p] = "running"
        /\ home' = [home EXCEPT ![p].file = job[c].fp]
        /\ GoTo(c, "marker")
        /\ NoFault
     \/ /\ AfterInject(c)
        /\ IF box[p] = "running" THEN Fault ELSE NoFault
        /\ UNCHANGED home
  /\ UNCHANGED <<record, box, repo, chats, unlisted>>

InjectMarker(c) ==
  LET p == job[c].p IN
  /\ At(c, "marker")
  /\ \/ /\ box[p] = "running"
        /\ home' = [home EXCEPT ![p].marker = job[c].fp]
        /\ NoFault
     \/ /\ IF box[p] = "running" THEN Fault ELSE NoFault
        /\ UNCHANGED home
  /\ AfterInject(c)
  /\ UNCHANGED <<record, box, repo, chats, unlisted>>

\* git refuses a directory that has files; without a network or access it fails.
\* A failed clone keeps the project.
Clone(c) ==
  LET p == job[c].p IN
  /\ At(c, "clone")
  /\ \/ /\ box[p] = "running"
        /\ repo[p] = "empty"
        /\ repo' = [repo EXCEPT ![p] = "cloned"]
     \/ UNCHANGED repo
  /\ End(c, FALSE)
  /\ NoFault
  /\ UNCHANGED <<record, box, home, chats, unlisted>>

-----------------------------------------------------------------------------
(* Ensure, reconcile, start, stop, key rotation                            *)

\* EnsureContainer acts on a recorded project whose container is missing.
EnsureContainer(c, p) ==
  /\ record[p]
  /\ box[p] = "missing"
  /\ Begin(c, {p}, [Idle EXCEPT !.at = "run", !.kind = "ensure", !.p = p])

\* The container row drifts when the container is missing.  The repository row
\* lists /workspace/repo: a repository that was never cloned has no such
\* directory, the probe fails, and the row reads unknown instead of drift.
healthDrift(p) == box[p] = "missing"

HealthRepair(c, p) ==
  /\ record[p]
  /\ healthDrift(p)
  /\ Begin(c, {p}, [Idle EXCEPT !.at = "run", !.kind = "reconcile", !.p = p])

\* After EnsureContainer, a container that does not run is started: of the
\* containers a boot meets, those that are missing have been run by then.
ReconcileStart(c) ==
  LET p == job[c].p IN
  /\ At(c, "start")
  /\ job[c].kind \in {"reconcile", "boot"}
  /\ \/ /\ box[p] # "missing"
        /\ box' = [box EXCEPT ![p] = "running"]
        /\ GoTo(c, "look")
        /\ NoFault
     \/ /\ box[p] # "running"
        /\ IF box[p] = "exited" THEN Fault ELSE NoFault
        /\ End(c, TRUE)
        /\ UNCHANGED box
  /\ UNCHANGED <<record, repo, home, chats, unlisted>>

\* A recorded project whose repository volume lists empty is cloned again.
RepoVolumeEmpty(c) ==
  LET p == job[c].p IN
  /\ At(c, "look")
  /\ IF record[p] /\ box[p] = "running" /\ repo[p] = "empty"
     THEN GoTo(c, "clone")
     ELSE End(c, ~record[p])
  /\ NoFault
  /\ UNCHANGED <<record, docker, chats, unlisted>>

Start(c, p) ==
  /\ record[p]
  /\ Begin(c, {p}, [Idle EXCEPT !.at = "start", !.kind = "start", !.p = p])

Started(c) ==
  LET p == job[c].p IN
  /\ At(c, "start")
  /\ job[c].kind \in {"start", "restart"}
  /\ \/ box[p] = "exited" /\ box' = [box EXCEPT ![p] = "running"] /\ NoFault
     \/ box[p] # "exited" /\ NoFault /\ UNCHANGED box
     \/ Fault /\ UNCHANGED box
  /\ End(c, FALSE)
  /\ UNCHANGED <<record, repo, home, chats, unlisted>>

\* A status that Docker does not know.
StoppedByName(p) == [box EXCEPT ![p] = IF @ = "running" THEN "stopped" ELSE @]

\* Stopping what does not run, or is not there, succeeds.
Stopped(p) == [box EXCEPT ![p] = IF @ = "running" THEN "exited" ELSE @]

Stop(c, p) ==
  /\ serving
  /\ record[p]
  /\ box[p] = "running"
  /\ box' = Stopped(p)
  /\ crowded' = crowded \cup {q \in {p} : ~Quiet(q)}
  /\ UNCHANGED <<record, repo, home, chats, key, job, faults, unlisted>>

\* Restart is Stop, then Start, each with its own look at the store.
Restart(c, p) ==
  /\ record[p]
  /\ Begin(c, {p}, [Idle EXCEPT !.at = "stop", !.kind = "restart", !.p = p])

RestartStop(c) ==
  LET p == job[c].p IN
  /\ At(c, "stop")
  /\ job[c].kind = "restart"
  /\ box' = Stopped(p)
  /\ IF record[p] THEN GoTo(c, "start") ELSE End(c, TRUE)
  /\ NoFault
  /\ UNCHANGED <<record, repo, home, chats, unlisted>>

\* A rotation replaces the pair in state.json; containers keep the old one.
Regenerate ==
  /\ serving
  /\ key < MaxKeys
  /\ key' = key + 1
  /\ UNCHANGED <<record, docker, chats, job, faults, crowded, unlisted>>

\* Git routes call it in a running container: a marker that disagrees with the
\* key means that the key has to be injected again.
EnsureGitSSH(c, p) ==
  /\ record[p]
  /\ box[p] = "running"
  /\ home[p].marker # key
  /\ Begin(c, {p}, [Idle EXCEPT !.at = "key", !.kind = "ssh", !.p = p, !.fp = key])

\* A CodeMap ask looks at the project, and reserves its thread later.
Ask(c, p) ==
  /\ record[p]
  /\ box[p] = "running"
  /\ Begin(c, {p}, [Idle EXCEPT !.at = "reserve", !.kind = "ask", !.p = p])

AskReserve(c) ==
  /\ At(c, "reserve")
  /\ chats' = [chats EXCEPT ![job[c].p] = TRUE]
  /\ End(c, FALSE)
  /\ NoFault
  /\ UNCHANGED <<record, docker, unlisted>>

-----------------------------------------------------------------------------
(* Delete and wipe                                                         *)

\* A metadata-only delete drops the record alone, and with it the only way to see
\* the rest.
Delete(c, p, s) ==
  /\ record[p]
  /\ Begin(c, {p}, [Idle EXCEPT !.at = IF s = "metadata" THEN "drop" ELSE "stop",
                                !.kind = "delete", !.p = p, !.scope = s])

InDelete(c) == job[c].kind \in {"delete", "wipe"}

DeleteStop(c) ==
  /\ At(c, "stop")
  /\ InDelete(c)
  /\ \/ box' = Stopped(job[c].p) /\ NoFault
     \/ Fault /\ UNCHANGED box
  /\ GoTo(c, "box")
  /\ UNCHANGED <<record, repo, home, chats, unlisted>>

\* The next step, with the error of this one joined to firstErr.
GoOn(c, at, err) ==
  job' = [job EXCEPT ![c].at = at, ![c].bad = @ \/ err]

DeleteBox(c) ==
  /\ At(c, "box")
  /\ LET next == IF job[c].scope = "repo" THEN "repo" ELSE "home" IN
     \/ /\ box' = [box EXCEPT ![job[c].p] = "missing"]
        /\ GoOn(c, next, FALSE)
        /\ NoFault
     \/ /\ Fault
        /\ GoOn(c, next, TRUE)
        /\ UNCHANGED box
  /\ UNCHANGED <<record, repo, home, chats, unlisted>>

\* Docker does not remove a volume that any container refers to.
DeleteHome(c) ==
  LET p == job[c].p
      next(err) == IF job[c].scope = "all" THEN GoOn(c, "repo", err) ELSE End(c, err)
  IN
  /\ At(c, "home")
  /\ \/ /\ box[p] = "missing"
        /\ home' = [home EXCEPT ![p] = NoHome]
        /\ next(FALSE)
        /\ NoFault
     \/ /\ IF box[p] = "missing" THEN Fault ELSE NoFault
        /\ next(TRUE)
        /\ UNCHANGED home
  /\ UNCHANGED <<record, box, repo, chats, unlisted>>

\* A delete of everything drops the record only if nothing has failed.
RepoThenDrop(c, err) ==
  IF job[c].scope = "all" /\ ~(err \/ job[c].bad)
  THEN GoOn(c, "drop", FALSE)
  ELSE End(c, err \/ job[c].bad)

DeleteRepo(c) ==
  LET p == job[c].p IN
  /\ At(c, "repo")
  /\ \/ /\ box[p] = "missing"
        /\ repo' = [repo EXCEPT ![p] = "absent"]
        /\ RepoThenDrop(c, FALSE)
        /\ NoFault
     \/ /\ IF box[p] = "missing" THEN Fault ELSE NoFault
        /\ RepoThenDrop(c, TRUE)
        /\ UNCHANGED repo
  /\ UNCHANGED <<record, box, home, chats, unlisted>>

DropRecord(c) ==
  LET p == job[c].p IN
  /\ At(c, "drop")
  /\ \/ /\ record' = [record EXCEPT ![p] = FALSE]
        /\ unlisted' = IF job[c].scope = "metadata" THEN unlisted \cup {p} ELSE unlisted \ {p}
        /\ NoFault
     \/ /\ Fault
        /\ UNCHANGED <<record, unlisted>>
  /\ GoTo(c, "chats")
  /\ UNCHANGED <<docker, chats>>

\* The project's CodeMap threads go after its record; an error is a warning.
DeleteScope(c) ==
  /\ At(c, "chats")
  /\ \/ chats' = [chats EXCEPT ![job[c].p] = FALSE] /\ NoFault
     \/ Fault /\ UNCHANGED chats
  /\ End(c, FALSE)
  /\ UNCHANGED <<record, docker, unlisted>>

\* The settings wipe lists the projects and deletes one after the other.
Wipe(c) ==
  Begin(c, Project, [Idle EXCEPT !.at = "next", !.kind = "wipe",
                                 !.todo = {p \in Project : record[p]}])

WipeNext(c, p) ==
  /\ At(c, "next")
  /\ job[c].kind = "wipe"
  /\ p \in job[c].todo
  /\ IF record[p]
     THEN job' = [job EXCEPT ![c].todo = @ \ {p}, ![c].at = "stop", ![c].p = p]
     ELSE job' = [job EXCEPT ![c].todo = @ \ {p}, ![c].failed = TRUE]
  /\ NoFault
  /\ UNCHANGED <<record, docker, chats, unlisted>>

\* A failed delete ends the wipe; otherwise all chats go, then the projects map.
WipeState(c) ==
  /\ At(c, "next")
  /\ job[c].kind = "wipe"
  /\ job[c].todo = {}
  /\ IF job[c].failed
     THEN UNCHANGED <<record, chats>>
     ELSE /\ chats' = [p \in Project |-> FALSE]
          /\ record' = [p \in Project |-> FALSE]
  /\ job' = [job EXCEPT ![c] = Idle]
  /\ NoFault
  /\ UNCHANGED <<docker, unlisted>>

-----------------------------------------------------------------------------
(* Boot, crash, losses                                                     *)

\* Boot runs what is missing and takes a container that exists for running.
BootMissing(p) ==
  /\ At(Main, "next")
  /\ p \in job[Main].todo
  /\ job' = [job EXCEPT ![Main] =
       IF box[p] = "missing" THEN [@ EXCEPT !.todo = @ \ {p}, !.p = p, !.at = "run"]
                             ELSE [@ EXCEPT !.todo = @ \ {p}]]
  /\ NoFault
  /\ UNCHANGED <<record, docker, chats, unlisted>>

\* BringAllUp reconciles every project, and one that fails does not end it.
BootNext(p) ==
  /\ At(Main, "next")
  /\ p \in job[Main].todo
  /\ job' = [job EXCEPT ![Main].todo = @ \ {p}, ![Main].p = p,
               ![Main].at = IF box[p] = "missing" THEN "run" ELSE "start"]
  /\ NoFault
  /\ UNCHANGED <<record, docker, chats, unlisted>>

\* With the engine out of reach the whole bootstrap is skipped.
BootSkips ==
  /\ At(Main, "next")
  /\ Fault
  /\ job' = [job EXCEPT ![Main].todo = {}, ![Main].failed = TRUE]
  /\ UNCHANGED <<record, docker, chats, unlisted>>

BootServes ==
  /\ At(Main, "next")
  /\ job[Main].todo = {}
  /\ job' = [job EXCEPT ![Main] = Idle]
  /\ NoFault
  /\ UNCHANGED <<record, docker, chats, unlisted>>

\* The process dies and a new one boots; a run may be between create and start.
Crash ==
  /\ Fault
  /\ job' = [c \in Caller \cup {Main} |-> IF c = Main THEN Boot ELSE Idle]
  /\ \/ UNCHANGED docker
     \/ \E c \in Caller \cup {Main} :
          /\ job[c].at = "run"
          /\ box[job[c].p] = "missing"
          /\ box' = [box EXCEPT ![job[c].p] = "exited"]
          /\ Mounted(job[c].p)
  /\ UNCHANGED <<record, chats, key, crowded, unlisted>>

\* The engine stops a container, or loses it, while the server serves.
Lose(p) ==
  /\ serving
  /\ Fault
  /\ \/ box[p] = "running" /\ box' = [box EXCEPT ![p] = "exited"]
     \/ box[p] # "missing" /\ box' = [box EXCEPT ![p] = "missing"]
  /\ UNCHANGED <<record, repo, home, chats, key, job, crowded, unlisted>>

-----------------------------------------------------------------------------
Accept(c) ==
  \/ \E p \in Project :
       \/ Create(c, p) \/ EnsureContainer(c, p) \/ HealthRepair(c, p) \/ Start(c, p)
       \/ Stop(c, p) \/ Restart(c, p) \/ EnsureGitSSH(c, p) \/ Ask(c, p)
       \/ \E s \in Scope : Delete(c, p, s)
  \/ Wipe(c)

Work(c) ==
  \/ CreateRecord(c) \/ RunStarts(c) \/ RunNameTaken(c) \/ RunBreaks(c)
  \/ RunLeaves(c)
  \/ CreateUndo(c) \/ InjectKey(c) \/ InjectMarker(c) \/ Clone(c)
  \/ ReconcileStart(c) \/ RepoVolumeEmpty(c) \/ Started(c) \/ RestartStop(c)
  \/ AskReserve(c) \/ DeleteStop(c) \/ DeleteBox(c) \/ DeleteHome(c)
  \/ DeleteRepo(c) \/ DropRecord(c) \/ DeleteScope(c) \/ WipeState(c)
  \/ \E p \in Project : WipeNext(c, p)

Next ==
  \/ \E c \in Caller : Accept(c)
  \/ \E c \in Caller \cup {Main} : Work(c)
  \/ \E p \in Project : BootNext(p) \/ Lose(p)
  \/ BootSkips \/ BootServes \/ Regenerate \/ Crash

Spec == Init /\ [][Next]_pvars

-----------------------------------------------------------------------------
(* Properties                                                              *)

\* The types of the variables of project.Service and of what Docker keeps.
ProjectsTypeOK ==
  /\ record \in [Project -> BOOLEAN]
  /\ box \in [Project -> {"missing", "running", "exited"}]
  /\ repo \in [Project -> {"absent", "empty", "cloned"}]
  /\ home \in [Project -> HomeState]
  /\ chats \in [Project -> BOOLEAN]
  /\ key \in 1..MaxKeys
  /\ job \in [Caller \cup {Main} -> JobState]
  /\ faults \in 0..MaxFaults
  /\ crowded \subseteq Project
  /\ unlisted \subseteq Project

\* Service.Create and Service.Delete, whatever fails between their steps and
\* wherever the process dies: as long as the requests about a project come one at
\* a time, a project that is off the list has no container and no clone left, and
\* without faults no volume and no chat either.  Two ways leave a container without a
\* record, and no others: a metadata-only delete, which is asked for, and a create
\* whose start and the removal after it (docker.Run drops its error) both fail.
NothingOrphaned ==
  \A p \in Project \ (crowded \cup unlisted) :
    ~record[p] /\ Quiet(p) =>
      /\ box[p] = "missing"
      /\ repo[p] # "cloned"
      /\ faults = 0 => repo[p] = "absent" /\ home[p] = NoHome /\ ~chats[p]

\* The fingerprint marker of injectGitSSH is what EnsureGitSSH trusts: a marker
\* that names the server's key stands beside that key, after failures, crashes
\* and rotations too, unless two injections overlapped.
MarkerTellsTheKey ==
  \A p \in Project \ crowded :
    home[p].marker = key => home[p].file = key

\* BringAllUp: when a boot that met no failure is through, every recorded project
\* runs, whatever the process before it left half done.
BootHeals ==
  job[Main].kind = "boot" /\ job[Main].at = "next" /\ job[Main].todo = {}
    /\ ~job[Main].failed
  => \A p \in Project : record[p] => box[p] = "running"

\* Create's comment says that creating the same repo twice is a conflict: the one of
\* two creates that is refused leaves the project of the other alone, and does not
\* drop its record while the other has its container running.
TwiceIsAConflict ==
  [][\A c, d \in Caller :
       /\ job[c].kind = "create" /\ job[d].kind = "create" /\ job[c].p = job[d].p
       /\ job[c].at = "undo" /\ job'[c] # job[c]
       /\ job[d].at \in {"key", "marker", "clone"}
       => record'[job[c].p] = record[job[c].p]]_pvars
=============================================================================
