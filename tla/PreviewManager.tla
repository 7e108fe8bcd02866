----------------------------- MODULE PreviewManager -----------------------------
(***************************************************************************)
(* The preview control plane (internal/preview): a Manager that owns at     *)
(* most one browser worker per project, the factory that starts a worker's *)
(* containers, the sweeper that stops idle previews and the clean-up at     *)
(* boot.  A worker is a sidecar container and, on hosts that cannot reach   *)
(* the sidecar, a relay.  Names are fixed per project, so Docker has at    *)
(* most one container of each kind for a project; ids are not, and a        *)
(* worker closes its containers by id.                                      *)
(*                                                                         *)
(* The manager has one mutex; a step below is one critical section or one  *)
(* call to Docker.  Stop and then Remove of a container is one step, for   *)
(* only the removal frees the name.                                        *)
(***************************************************************************)
EXTENDS FiniteSets, Naturals

CONSTANTS
  Project,        \* the projects
  Caller,         \* the requests in flight (start, surface, close, project stop)
  Sweeper, Main,  \* the sweeper goroutine; main, which shuts the manager down
  Id,             \* container ids; one that nobody holds any more may come again
  None,           \* no container, no worker, nobody
  MaxFaults,      \* bound: failed removals of a behaviour
  MaxCrashes      \* bound: restarts of a behaviour

Op == Caller \cup {Sweeper, Main}

MaybeId == Id \cup {None}

Worker == [sidecar: Id, relay: MaybeId]

ASSUME PreviewAssumption ==
  /\ Sweeper # Main /\ {Sweeper, Main} \cap Caller = {}
  /\ None \notin Id \cup Op \cup Project /\ None \notin Worker
  /\ MaxFaults \in Nat /\ MaxCrashes \in Nat

VARIABLES
  docker,    \* [Project -> [sidecar, relay: Id \cup {None}]]: who has the names
  workers,   \* [Project -> Worker \cup {None}]
  inflight,  \* [Project -> Op \cup {None}]: whose startCall is in flight
  token,     \* [Project -> TokenState]: the capability, with its last-seen time
  closed,    \* the manager takes no more starts
  swept,     \* what the sweeper has still to stop of its last Sweep
  doomed,    \* [Project -> Worker \cup {None}]: what Close has still to close
  op,        \* [Op -> OpState]: where each goroutine stands
  serving,   \* FALSE while the server boots
  faults, crashes

managerVars == <<workers, inflight, token, closed, swept, doomed>>
boundVars == <<serving, faults, crashes>>
vars == <<docker, workers, inflight, token, closed, swept, doomed, op,
          serving, faults, crashes>>

\* "fresh" until it has been silent for longer than the limit.
TokenState == {"none", "fresh", "silent"}

StartPC == {"run", "heal", "rerun", "inspect", "cleanup", "report"}
ClosePC == {"closeRelay", "closeSidecar"}
PC == StartPC \cup ClosePC \cup {"idle", "joined", "announce", "next"}

\* sidecar and relay are the containers an operation has started, or closes.
OpState ==
  [pc: PC, project: Project \cup {None},
   kind: {"sidecar", "relay"},          \* which container Docker is asked to run
   sidecar: MaybeId, relay: MaybeId,
   back: {"idle", "announce", "next"},  \* where a close returns to
   call: Op \cup {None}]                \* the start a joiner waits for

IdleOp ==
  [pc |-> "idle", project |-> None, kind |-> "sidecar", sidecar |-> None,
   relay |-> None, back |-> "idle", call |-> None]

TypeOK ==
  /\ docker \in [Project -> [sidecar: MaybeId, relay: MaybeId]]
  /\ workers \in [Project -> Worker \cup {None}]
  /\ inflight \in [Project -> Op \cup {None}]
  /\ token \in [Project -> TokenState]
  /\ closed \in BOOLEAN
  /\ swept \subseteq Project
  /\ doomed \in [Project -> Worker \cup {None}]
  /\ op \in [Op -> OpState]
  /\ serving \in BOOLEAN
  /\ faults \in 0..MaxFaults /\ crashes \in 0..MaxCrashes

NoWorkers == [p \in Project |-> None]

\* What a new process starts with; the containers are Docker's.
NewManager ==
  /\ workers = NoWorkers
  /\ inflight = [p \in Project |-> None]
  /\ token = [p \in Project |-> "none"]
  /\ closed = FALSE
  /\ swept = {}
  /\ doomed = NoWorkers
  /\ op = [o \in Op |-> IdleOp]

Init ==
  /\ NewManager
  /\ docker = [p \in Project |-> [sidecar |-> None, relay |-> None]]
  /\ serving = FALSE
  /\ faults = 0 /\ crashes = 0

Live(p) == workers[p] # None

At(o, pc) == op[o].pc = pc

Fault == faults < MaxFaults /\ faults' = faults + 1

-----------------------------------------------------------------------------
(* Docker                                                                   *)

Owned == ({workers[p] : p \in Project} \cup {doomed[p] : p \in Project}) \ {None}

\* Ids that a container has, or that somebody still remembers.
Used ==
  (UNION {{docker[p].sidecar, docker[p].relay} : p \in Project})
    \cup (UNION {{op[o].sidecar, op[o].relay} : o \in Op})
    \cup {w.sidecar : w \in Owned} \cup {w.relay : w \in Owned}

NewId == CHOOSE i \in Id : i \notin Used

NameFree(p, kind) == docker[p][kind] = None

Create(p, kind, i) == docker' = [docker EXCEPT ![p][kind] = i]

RemoveName(p, kind) == docker' = [docker EXCEPT ![p][kind] = None]

\* The removal goes by the container's name.
RemoveByName(p, kind, i) == RemoveName(p, kind)

\* By id: a container of the same name but another id is left alone, and
\* removing one that is gone succeeds.
Remove(p, kind, i) ==
  IF docker[p][kind] = i THEN RemoveName(p, kind) ELSE UNCHANGED docker

RemoveOrFail(p, kind, i) ==
  \/ Remove(p, kind, i) /\ UNCHANGED faults
  \/ i # None /\ Fault /\ UNCHANGED docker

-----------------------------------------------------------------------------
(* Ensure, the critical sections                                            *)

Step(o, pc) == op' = [op EXCEPT ![o].pc = pc]

Reply(o) == op' = [op EXCEPT ![o] = IdleOp]

\* The inflight map is not looked at.
EnsureIgnoresInflight(o, p) ==
  /\ serving /\ ~closed
  /\ At(o, "idle")
  /\ ~Live(p)
  /\ inflight' = [inflight EXCEPT ![p] = o]
  /\ op' = [op EXCEPT ![o] = [IdleOp EXCEPT !.pc = "run", !.project = p]]
  /\ UNCHANGED <<docker, workers, token, closed, swept, doomed, boundVars>>

\* No worker and no start: the caller registers a start of its own.
EnsureStarts(o, p) ==
  /\ serving /\ ~closed
  /\ At(o, "idle")
  /\ ~Live(p) /\ inflight[p] = None
  /\ inflight' = [inflight EXCEPT ![p] = o]
  /\ op' = [op EXCEPT ![o] = [IdleOp EXCEPT !.pc = "run", !.project = p]]
  /\ UNCHANGED <<docker, workers, token, closed, swept, doomed, boundVars>>

\* A start is under way: wait for its result.
EnsureJoins(o, p) ==
  /\ serving /\ ~closed
  /\ At(o, "idle")
  /\ ~Live(p) /\ inflight[p] # None
  /\ op' = [op EXCEPT ![o] = [IdleOp EXCEPT !.pc = "joined", !.project = p,
                                            !.call = inflight[p]]]
  /\ UNCHANGED <<docker, managerVars, boundVars>>

\* The factory's error is not looked at.
StartedUnchecked(o) == TRUE

Started(o) == op[o].sidecar # None

\* The start is over: register the worker with a token, or hand it to Close.
\* A worker that is there already is a duplicate (never, see OneStarter).
Report(o) ==
  LET p == op[o].project
      accepted == Started(o) /\ ~closed /\ ~Live(p)
  IN /\ At(o, "report")
     /\ inflight' = [inflight EXCEPT ![p] = None]
     /\ workers' = IF accepted
                   THEN [workers EXCEPT ![p] = [sidecar |-> op[o].sidecar,
                                                relay |-> op[o].relay]]
                   ELSE workers
     /\ token' = IF accepted /\ token[p] = "none"
                 THEN [token EXCEPT ![p] = "fresh"] ELSE token
     /\ op' = [op EXCEPT ![o] =
                 IF Started(o) /\ ~accepted
                 THEN [@ EXCEPT !.pc = "closeRelay", !.back = "announce"]
                 ELSE [IdleOp EXCEPT !.pc = "announce"]]
     /\ UNCHANGED <<docker, closed, swept, doomed, boundVars>>

\* c.done is never closed.
AnnounceToNobody(o) ==
  /\ At(o, "announce")
  /\ Reply(o)
  /\ UNCHANGED <<docker, managerVars, boundVars>>

\* close(c.done): the caller and everyone who joined its start go on.
Announce(o) ==
  /\ At(o, "announce")
  /\ op' = [j \in Op |-> IF j = o \/ (At(j, "joined") /\ op[j].call = o)
                         THEN IdleOp ELSE op[j]]
  /\ UNCHANGED <<docker, managerVars, boundVars>>

-----------------------------------------------------------------------------
(* DockerFactory.Start: sidecar, relay when it is needed, or clean up        *)

\* Run creates and starts a container; a taken name is an error.  When the
\* start fails the container is removed again, and that may fail as well.
RunName(o, ok, failed) ==
  LET p == op[o].project
      kind == op[o].kind
  IN /\ NameFree(p, kind)
     /\ \/ /\ Id \ Used # {}
           /\ Create(p, kind, NewId)
           /\ op' = [op EXCEPT ![o].pc = ok, ![o][kind] = NewId]
           /\ UNCHANGED faults
        \/ Step(o, failed) /\ UNCHANGED <<docker, faults>>
        \/ Id \ Used # {} /\ Create(p, kind, NewId) /\ Step(o, failed) /\ Fault

\* Without a sidecar there is nothing to clean up.
StartFailed(o) == IF op[o].kind = "sidecar" THEN "report" ELSE "cleanup"

Run(o) ==
  /\ At(o, "run")
  /\ \/ RunName(o, "inspect", StartFailed(o))
     \/ /\ ~NameFree(op[o].project, op[o].kind)
        /\ Step(o, "heal")
        /\ UNCHANGED <<docker, faults>>
  /\ UNCHANGED <<managerVars, serving, crashes>>

\* A leftover has the name: remove it by name, whatever comes of that.
Heal(o) ==
  /\ At(o, "heal")
  /\ \/ RemoveName(op[o].project, op[o].kind) /\ UNCHANGED faults
     \/ Fault /\ UNCHANGED docker
  /\ Step(o, "rerun")
  /\ UNCHANGED <<managerVars, serving, crashes>>

Rerun(o) ==
  /\ At(o, "rerun")
  /\ \/ RunName(o, "inspect", StartFailed(o))
     \/ /\ ~NameFree(op[o].project, op[o].kind)
        /\ Step(o, StartFailed(o))
        /\ UNCHANGED <<docker, faults>>
  /\ UNCHANGED <<managerVars, serving, crashes>>

\* The sidecar runs: its browser answers, or a relay has to be run before it
\* can, or something is wrong with it (it never answers, its project is gone).
InspectSidecar(o) ==
  /\ At(o, "inspect") /\ op[o].kind = "sidecar"
  /\ \/ Step(o, "report")
     \/ op' = [op EXCEPT ![o].pc = "run", ![o].kind = "relay"]
     \/ Step(o, "cleanup")
  /\ UNCHANGED <<docker, managerVars, boundVars>>

\* The relay runs and the browser answers through it, or never does; or the
\* relay is unusable and removed at once.
InspectRelay(o) ==
  /\ At(o, "inspect") /\ op[o].kind = "relay"
  /\ \/ (Step(o, "report") \/ Step(o, "cleanup")) /\ UNCHANGED <<docker, faults>>
     \/ /\ RemoveOrFail(op[o].project, "relay", op[o].relay)
        /\ op' = [op EXCEPT ![o].pc = "cleanup", ![o].relay = None]
  /\ UNCHANGED <<managerVars, serving, crashes>>

\* The relay of a failed start is forgotten.
CleanupSidecarOnly(o) ==
  /\ At(o, "cleanup")
  /\ RemoveOrFail(op[o].project, "sidecar", op[o].sidecar)
  /\ op' = [op EXCEPT ![o].sidecar = None, ![o].relay = None, ![o].pc = "report"]
  /\ UNCHANGED <<managerVars, serving, crashes>>

\* The error path of a start: the containers of this start go, sidecar first.
Cleanup(o) ==
  LET kind == IF op[o].sidecar # None THEN "sidecar" ELSE "relay"
      last == kind = "relay" \/ op[o].relay = None
  IN /\ At(o, "cleanup")
     /\ RemoveOrFail(op[o].project, kind, op[o][kind])
     /\ op' = [op EXCEPT ![o][kind] = None,
                         ![o].pc = IF last THEN "report" ELSE "cleanup"]
     /\ UNCHANGED <<managerVars, serving, crashes>>

-----------------------------------------------------------------------------
(* dockerWorker.Close: the relay, then the sidecar                          *)

CloseWorker(o, p, w, back) ==
  op' = [op EXCEPT ![o] = [IdleOp EXCEPT !.pc = "closeRelay", !.project = p,
                             !.sidecar = w.sidecar, !.relay = w.relay, !.back = back]]

CloseRelay(o) ==
  /\ At(o, "closeRelay")
  /\ RemoveOrFail(op[o].project, "relay", op[o].relay)
  /\ op' = [op EXCEPT ![o].pc = "closeSidecar", ![o].relay = None]
  /\ UNCHANGED <<managerVars, serving, crashes>>

CloseSidecar(o) ==
  /\ At(o, "closeSidecar")
  /\ RemoveOrFail(op[o].project, "sidecar", op[o].sidecar)
  /\ op' = [op EXCEPT ![o] = [IdleOp EXCEPT !.pc = op[o].back]]
  /\ UNCHANGED <<managerVars, serving, crashes>>

-----------------------------------------------------------------------------
(* Stop, and the sweeper                                                    *)

\* The worker leaves the manager before it is closed, its token with it.
Take(p) ==
  /\ Live(p)
  /\ workers' = [workers EXCEPT ![p] = None]
  /\ token' = [token EXCEPT ![p] = "none"]

\* The preview is closed, or its project stopped or deleted.
Stop(o, p) ==
  /\ serving
  /\ At(o, "idle")
  /\ Take(p)
  /\ CloseWorker(o, p, workers[p], "idle")
  /\ UNCHANGED <<docker, inflight, closed, swept, doomed, boundVars>>

Silent == {p \in Project : token[p] = "silent"}

\* Only the tokens expire.
SweepTokensOnly ==
  /\ serving /\ ~closed
  /\ At(Sweeper, "idle") /\ Silent # {}
  /\ token' = [p \in Project |-> IF p \in Silent THEN "none" ELSE token[p]]
  /\ UNCHANGED <<docker, workers, inflight, closed, swept, doomed, op, boundVars>>

\* A tick of the sweeper: tokens that have been silent too long expire.
Sweep ==
  /\ serving /\ ~closed
  /\ At(Sweeper, "idle") /\ Silent # {}
  /\ token' = [p \in Project |-> IF p \in Silent THEN "none" ELSE token[p]]
  /\ swept' = Silent
  /\ Step(Sweeper, "next")
  /\ UNCHANGED <<docker, workers, inflight, closed, doomed, boundVars>>

\* The worker of the expired token runs on.
SweepStopSkipped(p) ==
  /\ At(Sweeper, "next")
  /\ p \in swept
  /\ swept' = swept \ {p}
  /\ UNCHANGED <<docker, workers, inflight, token, closed, doomed, op, boundVars>>

\* Then each of their projects is stopped, one after the other.
SweepStop(p) ==
  /\ At(Sweeper, "next")
  /\ p \in swept
  /\ swept' = swept \ {p}
  /\ IF Live(p)
     THEN Take(p) /\ CloseWorker(Sweeper, p, workers[p], "next")
     ELSE UNCHANGED <<workers, token, op>>
  /\ UNCHANGED <<docker, inflight, closed, doomed, boundVars>>

SweepDone ==
  /\ At(Sweeper, "next") /\ swept = {}
  /\ Reply(Sweeper)
  /\ UNCHANGED <<docker, managerVars, boundVars>>

\* A status poll, or the end of a start: a worker without a token gets one.
TokenOrMint(p) ==
  /\ serving
  /\ Live(p) /\ token[p] = "none"
  /\ token' = [token EXCEPT ![p] = "fresh"]
  /\ UNCHANGED <<docker, workers, inflight, closed, swept, doomed, op, boundVars>>

\* A heartbeat or a page of the surface: the holder of the token is there.
Touch(p) ==
  /\ serving
  /\ token[p] = "silent"
  /\ token' = [token EXCEPT ![p] = "fresh"]
  /\ UNCHANGED <<docker, workers, inflight, closed, swept, doomed, op, boundVars>>

\* Nobody has touched the token for longer than the limit.
Silence(p) ==
  /\ token[p] = "fresh"
  /\ token' = [token EXCEPT ![p] = "silent"]
  /\ UNCHANGED <<docker, workers, inflight, closed, swept, doomed, op, boundVars>>

-----------------------------------------------------------------------------
(* Shutdown, death and boot                                                 *)

\* main takes every worker, and closes them one after the other.
Close ==
  /\ serving /\ ~closed
  /\ closed' = TRUE
  /\ doomed' = workers
  /\ workers' = NoWorkers
  /\ token' = [p \in Project |-> IF Live(p) THEN "none" ELSE token[p]]
  /\ Step(Main, "next")
  /\ UNCHANGED <<docker, inflight, swept, boundVars>>

CloseNext(p) ==
  /\ At(Main, "next")
  /\ doomed[p] # None
  /\ CloseWorker(Main, p, doomed[p], "next")
  /\ doomed' = [doomed EXCEPT ![p] = None]
  /\ UNCHANGED <<docker, workers, inflight, token, closed, swept, boundVars>>

NewProcess ==
  /\ workers' = NoWorkers
  /\ inflight' = [p \in Project |-> None]
  /\ token' = [p \in Project |-> "none"]
  /\ closed' = FALSE
  /\ swept' = {}
  /\ doomed' = NoWorkers
  /\ op' = [o \in Op |-> IdleOp]
  /\ serving' = FALSE
  /\ UNCHANGED <<docker, faults>>

\* The shutdown is over, whatever request is still at work: main returns, and
\* the process is started again.
Exit == At(Main, "next") /\ doomed = NoWorkers /\ NewProcess /\ UNCHANGED crashes

\* The process is killed.
Crash == crashes < MaxCrashes /\ crashes' = crashes + 1 /\ NewProcess

\* Before it serves, a new process removes every container no live worker owns:
\* all of them, for it has no worker yet.  A removal may fail, or the listing.
liveSlugs == {p \in Project : Live(p) \/ inflight[p] # None}

SweepContainers ==
  /\ ~serving
  /\ serving' = TRUE
  /\ \E failed \in SUBSET (Project \X {"sidecar", "relay"}) :
       /\ IF failed = {} THEN UNCHANGED faults ELSE Fault
       /\ docker' = [p \in Project |->
            [kind \in {"sidecar", "relay"} |->
               IF p \in liveSlugs \/ <<p, kind>> \in failed
               THEN docker[p][kind] ELSE None]]
  /\ UNCHANGED <<managerVars, op, crashes>>

-----------------------------------------------------------------------------

Start(o) ==
  \/ Run(o) \/ Heal(o) \/ Rerun(o)
  \/ InspectSidecar(o) \/ InspectRelay(o)
  \/ Cleanup(o)
  \/ Report(o) \/ Announce(o)

Advance(o) == Start(o) \/ CloseRelay(o) \/ CloseSidecar(o)

Sweeping == Sweep \/ (\E p \in Project : SweepStop(p)) \/ SweepDone

Next ==
  \/ \E o \in Caller, p \in Project :
       EnsureStarts(o, p) \/ EnsureJoins(o, p) \/ Stop(o, p)
  \/ \E o \in Op : Advance(o)
  \/ Sweeping
  \/ \E p \in Project : TokenOrMint(p) \/ Touch(p) \/ Silence(p) \/ CloseNext(p)
  \/ Close
  \/ Exit
  \/ Crash
  \/ SweepContainers

Spec == Init /\ [][Next]_vars

\* Goroutines are scheduled, Docker answers (every call has a deadline), the
\* sweeper's ticker ticks and the boot ends.
FairSpec ==
  /\ Spec
  /\ \A o \in Op : WF_vars(Advance(o))
  /\ WF_vars(Sweeping)
  /\ \A p \in Project : WF_vars(CloseNext(p))
  /\ WF_vars(SweepContainers)

-----------------------------------------------------------------------------
(* What the manager promises                                                *)

Starting(o) == op[o].pc \in StartPC

\* One start per project at a time, only while it has no worker: the inflight
\* map makes the duplicate branch of Ensure dead code, and two starts never
\* fight over the name of the sidecar (startCall, worker.go).
OneStarter ==
  /\ \A p \in Project, o \in Op :
       inflight[p] = o <=> Starting(o) /\ op[o].project = p
  /\ \A p \in Project : inflight[p] # None => ~Live(p)

\* A live worker has the containers it was registered with: no late close, no
\* clean-up and no self-heal of anybody else has removed them.
WorkerKeepsItsContainers ==
  \A p \in Project : Live(p) =>
    /\ docker[p].sidecar = workers[p].sidecar
    /\ workers[p].relay # None => docker[p].relay = workers[p].relay

\* Somebody is going to stop every worker: its token can fall silent, or its
\* project is on the sweeper's list.  A valid token has a worker behind it.
EveryWorkerIsWatched ==
  \A p \in Project :
    /\ Live(p) => token[p] # "none" \/ p \in swept
    /\ token[p] # "none" => Live(p)

\* As long as no removal has failed, a container belongs to a worker or to the
\* goroutine that started or closes it, also after any number of crashes:
\* "containers never leak" (StartSweeper, worker.go).
NoContainerLeaks ==
  serving /\ faults = 0 =>
    \A p \in Project, kind \in {"sidecar", "relay"} :
      docker[p][kind] # None =>
        \/ \E w \in Owned : w[kind] = docker[p][kind]
        \/ \E o \in Op : op[o][kind] = docker[p][kind]

\* The sweeper stops "the associated worker" of an expired token: when it takes
\* a worker, nobody has been handed a new token for it.
SweepSparesTheWatched ==
  [][\A p \in Project :
       serving' /\ p \in swept \ swept' /\ Live(p) /\ workers'[p] = None
         => token[p] = "none"]_vars

\* A preview whose page has gone is stopped, unless somebody comes back to it.
IdlePreviewEnds ==
  \A p \in Project :
    Live(p) /\ token[p] # "fresh" ~> ~Live(p) \/ token[p] = "fresh"

\* Whoever joined a start gets its result.
JoinersReturn == \A o \in Caller : At(o, "joined") ~> ~At(o, "joined")

\* Who runs the start of a project, by where the goroutines stand.
starting ==
  [p \in Project |->
     IF \E o \in Op : Starting(o) /\ op[o].project = p
     THEN CHOOSE o \in Op : Starting(o) /\ op[o].project = p
     ELSE None]

Promised == INSTANCE OnePreview
              WITH Request <- Caller, starter <- starting, engine <- workers, names <- docker

\* The manager implements OnePreview: through all sweeps, stops, late closes, self-heals
\* and crashes one caller at a time starts a preview, and what it is registered with is
\* there until it is stopped.
RefinesOnePreview == Promised!Spec
=============================================================================
