----------------------------- MODULE PreviewProofs -----------------------------
(***************************************************************************)
(* The safety invariants of PreviewManager, for any projects, callers and  *)
(* container ids, and any number of faults and crashes.                    *)
(***************************************************************************)
EXTENDS PreviewManager, TLAPS

Kind == {"sidecar", "relay"}

\* Only callers start and join; the sweeper and main only close, and come back
\* for the next worker.
Roles ==
  /\ \A o \in Op : op[o].pc \in StartPC \cup {"joined", "announce"} => o \in Caller
  /\ \A o \in {Sweeper, Main} : op[o].pc \in ClosePC => op[o].back = "next"
  /\ \A o \in Caller :
       op[o].pc # "next" /\ (op[o].pc \in ClosePC => op[o].back \in {"idle", "announce"})
  /\ At(Sweeper, "idle") => swept = {}
  /\ ~closed => At(Main, "idle")

\* Which containers an operation holds where, and in which project.
Fits(s) ==
  /\ s.pc \in StartPC \cup ClosePC => s.project \in Project
  /\ s.pc \notin StartPC \cup ClosePC => s.sidecar = None /\ s.relay = None
  /\ s.pc \in {"run", "heal", "rerun"} => s[s.kind] = None
  /\ s.pc \in StartPC /\ s.kind = "sidecar" => s.relay = None
  /\ s.pc \in {"run", "heal", "rerun"} /\ s.kind = "relay" => s.sidecar # None
  /\ s.pc = "inspect" => s.sidecar # None /\ s[s.kind] # None
  /\ s.pc = "report" /\ s.sidecar = None => s.relay = None
  /\ s.pc = "closeSidecar" => s.relay = None

Fields == \A o \in Op : Fits(op[o])

\* A container of a project is held by one operation or by one worker only.
HeldOnce ==
  \A p \in Project, kind \in Kind :
    /\ \A o, q \in Op :
         op[o].project = p /\ op[q].project = p
         /\ op[o][kind] # None /\ op[o][kind] = op[q][kind]
         => o = q
    /\ \A o \in Op :
         op[o].project = p /\ op[o][kind] # None =>
           /\ Live(p) => op[o][kind] # workers[p][kind]
           /\ doomed[p] # None => op[o][kind] # doomed[p][kind]

\* What a start has run and not cleaned up is there.
StartHasItsContainers ==
  \A o \in Op, kind \in Kind :
    Starting(o) /\ op[o][kind] # None => docker[op[o].project][kind] = op[o][kind]

\* A container is held within its project, unless a removal has failed.
NoneUnheld ==
  serving /\ faults = 0 =>
    \A p \in Project, kind \in Kind :
      docker[p][kind] # None =>
        \/ Live(p) /\ workers[p][kind] = docker[p][kind]
        \/ doomed[p] # None /\ doomed[p][kind] = docker[p][kind]
        \/ \E o \in Op : op[o].project = p /\ op[o][kind] = docker[p][kind]

\* A closed manager has no worker; only a closed one has workers to close.
ClosedIsEmpty ==
  /\ closed => workers = NoWorkers
  /\ ~closed => doomed = NoWorkers

\* Nothing moves before the boot is over.
BootIsQuiet ==
  ~serving =>
    /\ workers = NoWorkers
    /\ inflight = [p \in Project |-> None]
    /\ op = [o \in Op |-> IdleOp]

PreviewInv ==
  /\ TypeOK
  /\ OneStarter
  /\ EveryWorkerIsWatched
  /\ WorkerKeepsItsContainers
  /\ Roles
  /\ Fields
  /\ HeldOnce
  /\ StartHasItsContainers
  /\ NoneUnheld
  /\ ClosedIsEmpty
  /\ BootIsQuiet

LEMMA RolesApart == Sweeper # Main /\ Sweeper \notin Caller /\ Main \notin Caller
BY PreviewAssumption

-----------------------------------------------------------------------------
(* What the steps have in common                                            *)

Nothing(s) == s.sidecar = None /\ s.relay = None

\* A goroutine holds what it held, and starts no more and no less than before.
HoldsSame(q) ==
  /\ op'[q].sidecar = op[q].sidecar /\ op'[q].relay = op[q].relay
  /\ Starting(q)' <=> Starting(q)
  /\ op'[q].project = op[q].project \/ (~Starting(q) /\ Nothing(op[q]))

\* The step moves no container and no worker.
Quiet ==
  /\ UNCHANGED <<docker, workers, inflight, doomed, serving>>
  /\ faults' = 0 => faults = 0
  /\ \A q \in Op : HoldsSame(q)

\* What is left to show of a quiet step.
LEMMA QuietKeeps ==
  ASSUME PreviewInv, Quiet
  PROVE  /\ OneStarter' /\ WorkerKeepsItsContainers' /\ HeldOnce'
         /\ StartHasItsContainers' /\ NoneUnheld'
<1> USE PreviewAssumption DEF PreviewInv
<1>1. \A q \in Op, k \in Kind : op'[q][k] = op[q][k]
  BY DEF Quiet, HoldsSame, Kind
<1>2. \A q \in Op :
        op'[q].project = op[q].project \/ (~Starting(q) /\ \A k \in Kind : op[q][k] = None)
  BY DEF Quiet, HoldsSame, Kind, Nothing
<1>3. OneStarter'
  <2>1. \A q \in Op : Starting(q)' <=> Starting(q)
    BY DEF Quiet, HoldsSame
  <2>2. ASSUME NEW p \in Project, NEW q \in Op
        PROVE  (inflight[p] = q <=> Starting(q) /\ op[q].project = p)'
    BY <1>2, <2>1 DEF OneStarter, Quiet
  <2> QED
    BY <2>2 DEF OneStarter, Quiet, Live
<1>4. WorkerKeepsItsContainers'
  BY DEF Quiet, WorkerKeepsItsContainers, Live
<1>5. HeldOnce'
  BY <1>1, <1>2 DEF Quiet, HeldOnce, Live
<1>6. StartHasItsContainers'
  BY <1>1, <1>2 DEF Quiet, HoldsSame, StartHasItsContainers
<1>7. NoneUnheld'
  <2> SUFFICES ASSUME serving', faults' = 0, NEW p \in Project, NEW k \in Kind,
                      docker'[p][k] # None
               PROVE  \/ Live(p)' /\ workers'[p][k] = docker'[p][k]
                      \/ doomed'[p] # None /\ doomed'[p][k] = docker'[p][k]
                      \/ \E q \in Op : op'[q].project = p /\ op'[q][k] = docker'[p][k]
    BY DEF NoneUnheld
  <2>1. \/ Live(p) /\ workers[p][k] = docker[p][k]
        \/ doomed[p] # None /\ doomed[p][k] = docker[p][k]
        \/ \E q \in Op : op[q].project = p /\ op[q][k] = docker[p][k]
    BY DEF Quiet, NoneUnheld
  <2> QED
    BY <1>1, <1>2, <2>1 DEF Quiet, Live
<1> QED
  BY <1>3, <1>4, <1>5, <1>6, <1>7

\* A step that touches a token only.
LEMMA TokensKeep ==
  ASSUME PreviewInv, EveryWorkerIsWatched', token' \in [Project -> TokenState],
         UNCHANGED <<docker, workers, inflight, closed, swept, doomed, op, boundVars>>
  PROVE  PreviewInv'
<1> USE DEF PreviewInv
<1>1. Quiet
  BY DEF Quiet, HoldsSame, boundVars, Starting
<1>2. TypeOK' /\ ClosedIsEmpty' /\ BootIsQuiet'
  BY DEF TypeOK, ClosedIsEmpty, BootIsQuiet, boundVars
<1>3. Roles' /\ Fields'
  BY DEF Roles, Fields, At
<1> QED
  BY <1>1, <1>2, <1>3, QuietKeeps

LEMMA TokenStepsKeep ==
  ASSUME PreviewInv, NEW p \in Project, TokenOrMint(p) \/ Touch(p) \/ Silence(p)
  PROVE  PreviewInv'
<1>1. token' \in [Project -> TokenState]
  BY DEF TokenOrMint, Touch, Silence, PreviewInv, TypeOK, TokenState
<1>2. EveryWorkerIsWatched'
  BY DEF TokenOrMint, Touch, Silence, PreviewInv, TypeOK, EveryWorkerIsWatched, Live, TokenState
<1> QED
  BY <1>1, <1>2, TokensKeep DEF TokenOrMint, Touch, Silence

LEMMA JoinsKeeps ==
  ASSUME PreviewInv, NEW o \in Caller, NEW p \in Project, EnsureJoins(o, p)
  PROVE  PreviewInv'
<1> USE PreviewAssumption DEF PreviewInv
<1>o. o \in Op
  BY DEF Op
<1>1. op'[o] = [pc |-> "joined", project |-> p, kind |-> "sidecar", sidecar |-> None,
                relay |-> None, back |-> "idle", call |-> inflight[p]]
  BY <1>o DEF EnsureJoins, TypeOK, IdleOp
<1>2. \A q \in Op : q # o => op'[q] = op[q]
  BY <1>o DEF EnsureJoins, TypeOK
<1>3. op[o].pc = "idle" /\ Nothing(op[o])
  BY <1>o DEF EnsureJoins, At, Fields, Fits, StartPC, ClosePC, Nothing
<1>4. Quiet
  <2>1. HoldsSame(o)
    BY <1>1, <1>3 DEF HoldsSame, Starting, StartPC, Nothing
  <2>2. ASSUME NEW q \in Op, q # o PROVE HoldsSame(q)
    BY <1>2, <2>2 DEF HoldsSame, Starting
  <2> QED
    BY <2>1, <2>2 DEF Quiet, EnsureJoins, managerVars, boundVars
<1>5. TypeOK'
  <2>1. op'[o] \in OpState
    BY <1>1, <1>o DEF OpState, PC, MaybeId, TypeOK
  <2> QED
    BY <1>o, <2>1 DEF EnsureJoins, TypeOK, managerVars, boundVars
<1>6. EveryWorkerIsWatched' /\ ClosedIsEmpty' /\ BootIsQuiet'
  BY DEF EnsureJoins, EveryWorkerIsWatched, Live, managerVars, boundVars, ClosedIsEmpty, BootIsQuiet
<1>7. Fields'
  <2>1. Fits(op'[o])
    BY <1>1 DEF Fits, ClosePC, StartPC
  <2> QED
    BY <1>2, <2>1 DEF Fields
<1>8. Roles'
  BY <1>1, <1>2, RolesApart DEF EnsureJoins, Roles, At, ClosePC, StartPC, Op, managerVars
<1> QED
  BY <1>4, <1>5, <1>6, <1>7, <1>8, QuietKeeps

-----------------------------------------------------------------------------
(* The steps that run or remove a container                                  *)

\* Nobody but o relies on the container with this name of o's project.
NobodyElseUses(o, kind) ==
  /\ Live(op[o].project) =>
       workers[op[o].project][kind] \in {None} \/
       workers[op[o].project][kind] # docker[op[o].project][kind]
  /\ \A q \in Op : q # o /\ Starting(q) /\ op[q].project = op[o].project =>
       op[q][kind] = None \/ op[q][kind] # docker[op[o].project][kind]

\* Nobody remembers the container that o holds after the step.
IsNew(o, kind) ==
  /\ \A q \in Op : q # o => op[q][kind] # op'[o][kind]
  /\ Live(op[o].project) => workers[op[o].project][kind] # op'[o][kind]
  /\ doomed[op[o].project] # None => doomed[op[o].project][kind] # op'[o][kind]

\* o asks Docker for, or rids itself of, the container of one kind.
Handles(o, kind) ==
  LET p == op[o].project
  IN /\ UNCHANGED <<workers, inflight, doomed, serving>>
     /\ \A r \in Project, k \in Kind : r # p \/ k # kind => docker'[r][k] = docker[r][k]
     /\ \A q \in Op : q # o => op'[q] = op[q]
     /\ \A k \in Kind : k # kind => op'[o][k] = op[o][k]
     /\ Starting(o)' <=> Starting(o)
     /\ \/ op'[o].project = p
        \/ ~Starting(o) /\ \A k \in Kind : op'[o][k] = None
     /\ docker'[p][kind] = docker[p][kind] \/ NobodyElseUses(o, kind)
     /\ op'[o][kind] # None =>
          docker'[p][kind] = op'[o][kind] /\ IsNew(o, kind)
     /\ faults' = 0 =>
          /\ faults = 0
          /\ \/ docker'[p][kind] \in {None, op'[o][kind]}
             \/ docker'[p][kind] = docker[p][kind] /\ op[o][kind] # docker[p][kind]

LEMMA HandlesKeeps ==
  ASSUME PreviewInv, NEW o \in Op, NEW kind \in Kind, op[o].project \in Project,
         Handles(o, kind)
  PROVE  /\ OneStarter' /\ WorkerKeepsItsContainers' /\ HeldOnce'
         /\ StartHasItsContainers' /\ NoneUnheld'
<1> USE PreviewAssumption DEF PreviewInv
<1> DEFINE p == op[o].project
<1>1. UNCHANGED <<workers, inflight, doomed, serving>>
  BY DEF Handles
<1>2. \A q \in Op : q # o => op'[q] = op[q]
  BY DEF Handles
<1>3. \A q \in Op : Starting(q)' <=> Starting(q)
  BY <1>2 DEF Handles, Starting
<1>4. \A r \in Project : Live(r)' <=> Live(r)
  BY <1>1 DEF Live
<1>5. \A r \in Project, k \in Kind : r # p \/ k # kind => docker'[r][k] = docker[r][k]
  BY DEF Handles
<1>6. OneStarter'
  <2>1. ASSUME NEW r \in Project, NEW q \in Op
        PROVE  (inflight[r] = q <=> Starting(q) /\ op[q].project = r)'
    <3>1. CASE q = o
      BY <1>1, <1>3, <3>1 DEF OneStarter, Handles
    <3>2. CASE q # o
      BY <1>1, <1>2, <1>3, <3>2 DEF OneStarter
    <3> QED
      BY <3>1, <3>2
  <2> QED
    BY <2>1, <1>1, <1>4 DEF OneStarter
<1>7. WorkerKeepsItsContainers'
  BY <1>1, <1>4, <1>5 DEF Handles, NobodyElseUses, WorkerKeepsItsContainers, Kind, TypeOK, Worker, Live
<1>8. HeldOnce'
  <2>1. ASSUME NEW r \in Project, NEW k \in Kind, NEW a \in Op, NEW b \in Op,
               op'[a].project = r, op'[b].project = r,
               op'[a][k] # None, op'[a][k] = op'[b][k], a # b
        PROVE  FALSE
    BY <1>2, <2>1 DEF HeldOnce, Handles, IsNew
  <2>2. ASSUME NEW r \in Project, NEW k \in Kind, NEW a \in Op,
               op'[a].project = r, op'[a][k] # None
        PROVE  /\ Live(r) => op'[a][k] # workers[r][k]
               /\ doomed[r] # None => op'[a][k] # doomed[r][k]
    BY <1>2, <2>2 DEF HeldOnce, Handles, IsNew
  <2> QED
    BY <2>1, <2>2, <1>1, <1>4 DEF HeldOnce
<1>9. StartHasItsContainers'
  <2>1. ASSUME NEW q \in Op, NEW k \in Kind, Starting(q)', op'[q][k] # None
        PROVE  docker'[op'[q].project][k] = op'[q][k]
    <3>1. CASE q = o
      BY <1>3, <1>5, <2>1, <3>1 DEF StartHasItsContainers, Handles
    <3>2. CASE q # o
      BY <1>2, <1>3, <1>5, <2>1, <3>2 DEF StartHasItsContainers, Handles, NobodyElseUses, Fields, Fits, Starting
    <3> QED
      BY <3>1, <3>2
  <2> QED
    BY <2>1 DEF StartHasItsContainers
<1>10. NoneUnheld'
  <2> SUFFICES ASSUME serving', faults' = 0, NEW r \in Project, NEW k \in Kind,
                      docker'[r][k] # None
               PROVE  \/ Live(r)' /\ workers'[r][k] = docker'[r][k]
                      \/ doomed'[r] # None /\ doomed'[r][k] = docker'[r][k]
                      \/ \E q \in Op : op'[q].project = r /\ op'[q][k] = docker'[r][k]
    BY DEF NoneUnheld
  <2>1. CASE docker[r][k] # None /\ docker'[r][k] = docker[r][k] /\ op[o][k] # docker[r][k]
    <3>1. \/ Live(r) /\ workers[r][k] = docker[r][k]
          \/ doomed[r] # None /\ doomed[r][k] = docker[r][k]
          \/ \E q \in Op : q # o /\ op[q].project = r /\ op[q][k] = docker[r][k]
      BY <1>1, <2>1 DEF NoneUnheld, Handles
    <3> QED
      BY <1>1, <1>2, <1>4, <2>1, <3>1
  <2>2. CASE r = p /\ k = kind /\ docker'[r][k] = op'[o][k]
    BY <2>2 DEF Handles
  <2>3. CASE (r # p \/ k # kind) /\ op[o][k] = docker[r][k]
    BY <1>1, <1>2, <1>4, <1>5, <2>3 DEF NoneUnheld, Handles
  <2> QED
    BY <1>5, <2>1, <2>2, <2>3 DEF Handles
<1> QED
  BY <1>6, <1>7, <1>8, <1>9, <1>10

-----------------------------------------------------------------------------
(* The steps of a start                                                      *)

DockerState == [Project -> [sidecar: MaybeId, relay: MaybeId]]

\* o takes a step within its start.
InStart(o) ==
  /\ Starting(o) /\ Starting(o)'
  /\ op' \in [Op -> OpState] /\ Fits(op'[o])
  /\ op'[o].project = op[o].project
  /\ \A q \in Op : q # o => op'[q] = op[q]
  /\ docker' \in DockerState
  /\ UNCHANGED <<managerVars, serving, crashes>>
  /\ faults' \in 0..MaxFaults

LEMMA InStartKeeps ==
  ASSUME PreviewInv, NEW o \in Op, InStart(o),
         Quiet \/ \E kind \in Kind : Handles(o, kind)
  PROVE  PreviewInv'
<1> USE PreviewAssumption DEF PreviewInv
<1>1. op[o].project \in Project
  BY DEF InStart, Fields, Fits, Starting
<1>2. /\ OneStarter' /\ WorkerKeepsItsContainers' /\ HeldOnce'
      /\ StartHasItsContainers' /\ NoneUnheld'
  BY <1>1, QuietKeeps, HandlesKeeps
<1>3. TypeOK'
  BY DEF TypeOK, InStart, DockerState, managerVars
<1>4. EveryWorkerIsWatched' /\ ClosedIsEmpty'
  BY DEF EveryWorkerIsWatched, Live, InStart, managerVars, ClosedIsEmpty
<1>5. BootIsQuiet'
  BY DEF BootIsQuiet, InStart, managerVars, Starting, IdleOp, StartPC
<1>6. Fields'
  BY DEF Fields, InStart
<1>7. o \in Caller /\ o # Sweeper /\ o # Main
  BY RolesApart DEF Roles, Starting, InStart
<1>8. op'[o].pc \in StartPC
  BY DEF InStart, Starting
<1>9. Roles'
  <2>1. op'[o].pc \notin ClosePC /\ op'[o].pc # "next"
    BY <1>8 DEF StartPC, ClosePC
  <2> QED
    BY <1>7, <2>1 DEF Roles, At, InStart, managerVars, Op
<1> QED
  BY <1>2, <1>3, <1>4, <1>5, <1>6, <1>9

\* Only the place in the program changes.
LEMMA StepKeeps ==
  ASSUME PreviewInv, NEW o \in Op, InStart(o), UNCHANGED docker,
         op'[o].sidecar = op[o].sidecar, op'[o].relay = op[o].relay,
         faults' = 0 => faults = 0
  PROVE  PreviewInv'
<1>1. HoldsSame(o)
  BY DEF HoldsSame, InStart
<1>2. ASSUME NEW q \in Op, q # o PROVE HoldsSame(q)
  BY <1>2 DEF HoldsSame, Starting, InStart
<1>3. Quiet
  BY <1>1, <1>2 DEF Quiet, InStart, managerVars
<1> QED
  BY <1>3, InStartKeeps

LEMMA InspectSidecarKeeps ==
  ASSUME PreviewInv, NEW o \in Op, InspectSidecar(o)
  PROVE  PreviewInv'
<1> USE DEF PreviewInv
<1>1. op[o] \in OpState /\ Fits(op[o]) /\ op[o].pc = "inspect" /\ op[o].kind = "sidecar"
  BY DEF InspectSidecar, At, TypeOK, Fields
<1>2. \/ op'[o] = [op[o] EXCEPT !.pc = "report"]
      \/ op'[o] = [op[o] EXCEPT !.pc = "run", !.kind = "relay"]
      \/ op'[o] = [op[o] EXCEPT !.pc = "cleanup"]
  BY DEF InspectSidecar, Step, TypeOK
<1>3. op'[o] \in OpState /\ Fits(op'[o])
  <2>1. CASE op'[o] = [op[o] EXCEPT !.pc = "report"]
    BY <1>1, <2>1 DEF OpState, PC, StartPC, ClosePC, Fits
  <2>2. CASE op'[o] = [op[o] EXCEPT !.pc = "run", !.kind = "relay"]
    BY <1>1, <2>2 DEF OpState, PC, StartPC, ClosePC, Fits
  <2>3. CASE op'[o] = [op[o] EXCEPT !.pc = "cleanup"]
    BY <1>1, <2>3 DEF OpState, PC, StartPC, ClosePC, Fits
  <2> QED
    BY <1>2, <2>1, <2>2, <2>3
<1>4. op' \in [Op -> OpState] /\ \A q \in Op : q # o => op'[q] = op[q]
  BY <1>3 DEF InspectSidecar, Step, TypeOK
<1>5. InStart(o)
  BY <1>1, <1>2, <1>3, <1>4 DEF InStart, InspectSidecar, Starting, StartPC, TypeOK, DockerState, boundVars, OpState
<1>6. op'[o].sidecar = op[o].sidecar /\ op'[o].relay = op[o].relay
  BY <1>1, <1>2 DEF OpState
<1> QED
  BY <1>5, <1>6, StepKeeps DEF InspectSidecar, boundVars

\* The container with the name of kind in p is i, and no other name changes.
NameIs(p, kind, i) ==
  /\ docker' \in DockerState
  /\ docker'[p][kind] = i
  /\ \A r \in Project, k \in Kind : r # p \/ k # kind => docker'[r][k] = docker[r][k]

LEMMA CreateFacts ==
  ASSUME TypeOK, NEW p \in Project, NEW kind \in Kind, NEW i \in Id, Create(p, kind, i)
  PROVE  NameIs(p, kind, i)
BY DEF Kind, NameIs, TypeOK, DockerState, Create, MaybeId

LEMMA RemoveNameFacts ==
  ASSUME TypeOK, NEW p \in Project, NEW kind \in Kind, RemoveName(p, kind)
  PROVE  NameIs(p, kind, None)
BY DEF Kind, NameIs, TypeOK, DockerState, RemoveName, MaybeId

\* o removes a container of its own, and forgets it whether it is gone or not.
Removes(o, kind) ==
  /\ op[o].project \in Project
  /\ RemoveOrFail(op[o].project, kind, op[o][kind])
  /\ UNCHANGED <<workers, inflight, doomed, serving>>
  /\ \A q \in Op : q # o => op'[q] = op[q]
  /\ \A k \in Kind : k # kind => op'[o][k] = op[o][k]
  /\ op'[o][kind] = None
  /\ Starting(o)' <=> Starting(o)
  /\ \/ op'[o].project = op[o].project
     \/ ~Starting(o) /\ \A k \in Kind : op'[o][k] = None

LEMMA RemoveHandles ==
  ASSUME PreviewInv, NEW o \in Op, NEW kind \in Kind, Removes(o, kind)
  PROVE  /\ Handles(o, kind)
         /\ docker' \in DockerState
         /\ faults' \in 0..MaxFaults
<1> USE PreviewAssumption DEF PreviewInv
<1> DEFINE p == op[o].project
<1>1. faults' \in 0..MaxFaults
  BY DEF Removes, RemoveOrFail, Fault, TypeOK
<1>2. faults' = 0 => faults = 0 /\ Remove(p, kind, op[o][kind])
  BY DEF Removes, RemoveOrFail, Fault, TypeOK
<1>3. CASE UNCHANGED docker
  <2>1. faults' = 0 => docker[p][kind] # op[o][kind] \/ docker[p][kind] = None
    BY <1>2, <1>3, RemoveNameFacts DEF Removes, Remove, NameIs
  <2>2. Handles(o, kind)
    BY <1>2, <1>3, <2>1 DEF Removes, Handles
  <2> QED
    BY <1>1, <1>3, <2>2 DEF TypeOK, DockerState
<1>4. CASE docker[p][kind] = op[o][kind] /\ RemoveName(p, kind)
  <2>1. NameIs(p, kind, None)
    BY <1>4, RemoveNameFacts DEF Removes
  <2>2. docker[p][kind] # None => NobodyElseUses(o, kind)
    BY <1>4 DEF Removes, NobodyElseUses, HeldOnce
  <2>3. Handles(o, kind)
    BY <1>2, <2>1, <2>2 DEF Removes, Handles, NameIs
  <2> QED
    BY <1>1, <2>1, <2>3 DEF NameIs
<1> QED
  BY <1>3, <1>4 DEF Removes, RemoveOrFail, Remove

LEMMA CleanupKeeps ==
  ASSUME PreviewInv, NEW o \in Op, Cleanup(o)
  PROVE  PreviewInv'
<1> USE PreviewAssumption DEF PreviewInv
<1> DEFINE kind == IF op[o].sidecar # None THEN "sidecar" ELSE "relay"
           last == kind = "relay" \/ op[o].relay = None
<1>1. op[o] \in OpState /\ Fits(op[o]) /\ op[o].pc = "cleanup"
  BY DEF Cleanup, At, TypeOK, Fields
<1>2. op[o].project \in Project /\ Starting(o) /\ kind \in Kind
  BY <1>1 DEF Fits, StartPC, Starting, Kind
<1>3. op'[o] = [op[o] EXCEPT ![kind] = None, !.pc = IF last THEN "report" ELSE "cleanup"]
  BY DEF Cleanup, TypeOK
<1>4. \/ kind = "sidecar" /\ op'[o] = [op[o] EXCEPT !.sidecar = None, !.pc = IF last THEN "report" ELSE "cleanup"]
      \/ kind = "relay" /\ op'[o] = [op[o] EXCEPT !.relay = None, !.pc = "report"]
  BY <1>3
<1> HIDE DEF kind, last
<1>5. op'[o] \in OpState /\ Fits(op'[o])
  <2>1. CASE kind = "sidecar"
    <3>1. op'[o] = [op[o] EXCEPT !.sidecar = None, !.pc = IF last THEN "report" ELSE "cleanup"]
      BY <1>4, <2>1
    <3>2. last => op[o].relay = None
      BY <2>1 DEF last
    <3>3. op'[o] \in OpState
      BY <1>1, <3>1 DEF OpState, PC, StartPC, MaybeId
    <3> QED
      BY <1>1, <3>1, <3>2, <3>3 DEF OpState, StartPC, ClosePC, Fits
  <2>2. CASE kind = "relay"
    <3>1. op'[o] = [op[o] EXCEPT !.relay = None, !.pc = "report"]
      BY <1>4, <2>2
    <3>2. op'[o] \in OpState
      BY <1>1, <3>1 DEF OpState, PC, StartPC, MaybeId
    <3> QED
      BY <1>1, <3>1, <3>2 DEF OpState, StartPC, ClosePC, Fits
  <2> QED
    BY <1>4, <2>1, <2>2
<1>6. op' \in [Op -> OpState] /\ \A q \in Op : q # o => op'[q] = op[q]
  BY <1>5 DEF Cleanup, TypeOK
<1>7. /\ op'[o][kind] = None /\ op'[o].project = op[o].project
      /\ \A k \in Kind : k # kind => op'[o][k] = op[o][k]
      /\ Starting(o)'
  BY <1>1, <1>4 DEF OpState, Kind, Starting, StartPC
<1>8. RemoveOrFail(op[o].project, kind, op[o][kind])
  BY DEF Cleanup, kind
<1>9. /\ Handles(o, kind)
      /\ docker' \in DockerState
      /\ faults' \in 0..MaxFaults
  <2>1. UNCHANGED <<workers, inflight, doomed, serving>>
    BY DEF Cleanup, managerVars
  <2>2. Removes(o, kind)
    BY <1>2, <1>6, <1>7, <1>8, <2>1 DEF Removes
  <2> QED
    BY <1>2, <2>2, RemoveHandles
<1>10. InStart(o)
  BY <1>2, <1>5, <1>6, <1>7, <1>9 DEF InStart, Cleanup
<1> QED
  BY <1>2, <1>9, <1>10, InStartKeeps

LEMMA InspectRelayKeeps ==
  ASSUME PreviewInv, NEW o \in Op, InspectRelay(o)
  PROVE  PreviewInv'
<1> USE PreviewAssumption DEF PreviewInv
<1>1. op[o] \in OpState /\ Fits(op[o]) /\ op[o].pc = "inspect" /\ op[o].kind = "relay"
  BY DEF InspectRelay, At, TypeOK, Fields
<1>2. op[o].project \in Project /\ Starting(o)
  BY <1>1 DEF Fits, StartPC, Starting
<1>3. CASE (Step(o, "report") \/ Step(o, "cleanup")) /\ UNCHANGED <<docker, faults>>
  <2>1. \/ op'[o] = [op[o] EXCEPT !.pc = "report"]
        \/ op'[o] = [op[o] EXCEPT !.pc = "cleanup"]
    BY <1>3 DEF Step, TypeOK
  <2>2. op'[o] \in OpState /\ Fits(op'[o])
    BY <1>1, <2>1 DEF OpState, PC, StartPC, ClosePC, Fits
  <2>3. op' \in [Op -> OpState] /\ \A q \in Op : q # o => op'[q] = op[q]
    BY <1>3, <2>2 DEF Step, TypeOK
  <2>4. /\ op'[o].sidecar = op[o].sidecar /\ op'[o].relay = op[o].relay
        /\ op'[o].project = op[o].project /\ Starting(o)'
    BY <1>1, <2>1 DEF OpState, Starting, StartPC
  <2>5. InStart(o)
    BY <1>2, <1>3, <2>2, <2>3, <2>4 DEF InStart, InspectRelay, TypeOK, DockerState
  <2> QED
    BY <1>3, <2>4, <2>5, StepKeeps
<1>4. CASE /\ RemoveOrFail(op[o].project, "relay", op[o].relay)
           /\ op' = [op EXCEPT ![o].pc = "cleanup", ![o].relay = None]
  <2>1. op'[o] = [op[o] EXCEPT !.pc = "cleanup", !.relay = None]
    BY <1>4 DEF TypeOK
  <2>2. op'[o] \in OpState /\ Fits(op'[o])
    BY <1>1, <2>1 DEF OpState, PC, StartPC, ClosePC, Fits, MaybeId
  <2>3. op' \in [Op -> OpState] /\ \A q \in Op : q # o => op'[q] = op[q]
    BY <1>4, <2>2 DEF TypeOK
  <2>4. /\ op'[o]["relay"] = None /\ op'[o].project = op[o].project
        /\ \A k \in Kind : k # "relay" => op'[o][k] = op[o][k]
        /\ Starting(o)'
    BY <1>1, <2>1 DEF OpState, Kind, Starting, StartPC
  <2>5. "relay" \in Kind /\ RemoveOrFail(op[o].project, "relay", op[o]["relay"])
    BY <1>4 DEF Kind
  <2>6. /\ Handles(o, "relay")
        /\ docker' \in DockerState
        /\ faults' \in 0..MaxFaults
    <3>1. UNCHANGED <<workers, inflight, doomed, serving>>
      BY DEF InspectRelay, managerVars
    <3>2. Removes(o, "relay")
      BY <1>2, <2>3, <2>4, <2>5, <3>1 DEF Removes
    <3> QED
      BY <2>5, <3>2, RemoveHandles
  <2>7. InStart(o)
    BY <1>2, <2>2, <2>3, <2>4, <2>6 DEF InStart, InspectRelay
  <2> QED
    BY <2>5, <2>6, <2>7, InStartKeeps
<1> QED
  BY <1>3, <1>4 DEF InspectRelay

\* While o starts it has its project to itself.
LEMMA StarterIsAlone ==
  ASSUME PreviewInv, NEW o \in Op, Starting(o)
  PROVE  /\ op[o].project \in Project
         /\ ~Live(op[o].project)
         /\ \A q \in Op : Starting(q) /\ op[q].project = op[o].project => q = o
<1>1. op[o].project \in Project
  BY DEF PreviewInv, Fields, Fits, Starting
<1>2. inflight[op[o].project] = o /\ o # None
  BY <1>1, PreviewAssumption DEF PreviewInv, OneStarter
<1> QED
  BY <1>1, <1>2 DEF PreviewInv, OneStarter

LEMMA HealKeeps ==
  ASSUME PreviewInv, NEW o \in Op, Heal(o)
  PROVE  PreviewInv'
<1> USE PreviewAssumption DEF PreviewInv
<1> DEFINE p == op[o].project
           kind == op[o].kind
<1>1. op[o] \in OpState /\ Fits(op[o]) /\ op[o].pc = "heal" /\ Starting(o)
  BY DEF Heal, At, TypeOK, Fields, Starting, StartPC
<1>2. op'[o] = [op[o] EXCEPT !.pc = "rerun"]
  BY DEF Heal, Step, TypeOK
<1>3. op'[o] \in OpState /\ Fits(op'[o])
  BY <1>1, <1>2 DEF OpState, PC, StartPC, ClosePC, Fits
<1>4. op' \in [Op -> OpState] /\ \A q \in Op : q # o => op'[q] = op[q]
  BY <1>3 DEF Heal, Step, TypeOK
<1>5. /\ op'[o].sidecar = op[o].sidecar /\ op'[o].relay = op[o].relay
      /\ op'[o].project = op[o].project /\ Starting(o)'
  BY <1>1, <1>2 DEF OpState, Starting, StartPC
<1>6. CASE Fault /\ UNCHANGED docker
  <2>1. faults' \in 0..MaxFaults /\ faults' # 0
    BY <1>6 DEF Fault, TypeOK
  <2>2. InStart(o)
    BY <1>1, <1>3, <1>4, <1>5, <1>6, <2>1 DEF InStart, Heal, TypeOK, DockerState
  <2> QED
    BY <1>5, <1>6, <2>1, <2>2, StepKeeps
<1>7. CASE RemoveName(p, kind) /\ UNCHANGED faults
  <2>1. p \in Project /\ kind \in Kind /\ op[o][kind] = None
    BY <1>1 DEF Fits, StartPC, OpState, Kind
  <2>3. NameIs(p, kind, None)
    BY <1>7, <2>1, RemoveNameFacts
  <2>4. NobodyElseUses(o, kind)
    BY <1>1, StarterIsAlone DEF NobodyElseUses
  <2>5. InStart(o)
    BY <1>1, <1>3, <1>4, <1>5, <1>7, <2>3 DEF InStart, Heal, TypeOK, NameIs
  <2>6. \A k \in Kind : op'[o][k] = op[o][k]
    BY <1>5 DEF Kind
  <2>7. Handles(o, kind)
    BY <1>1, <1>4, <1>5, <1>7, <2>1, <2>3, <2>4, <2>5, <2>6 DEF Handles, Heal, managerVars, NameIs
  <2> QED
    BY <2>1, <2>5, <2>7, InStartKeeps
<1> QED
  BY <1>6, <1>7 DEF Heal

\* The id of a new container is nobody's.
LEMMA FreshId ==
  ASSUME Id \ Used # {}
  PROVE  /\ NewId \in Id
         /\ \A q \in Op, k \in Kind : op[q][k] # NewId
         /\ \A p \in Project, k \in Kind :
              /\ Live(p) => workers[p][k] # NewId
              /\ doomed[p] # None => doomed[p][k] # NewId
<1>1. NewId \in Id /\ NewId \notin Used
  BY DEF NewId
<1> DEFINE Present == {{docker[p].sidecar, docker[p].relay} : p \in Project}
           Holdings == {{op[q].sidecar, op[q].relay} : q \in Op}
           Sidecars == {w.sidecar : w \in Owned}
           Relays == {w.relay : w \in Owned}
<1>v. Used = (UNION Present) \cup (UNION Holdings) \cup Sidecars \cup Relays
  BY DEF Used
<1> HIDE DEF Present, Holdings, Sidecars, Relays
<1>u. (UNION Holdings) \subseteq Used /\ Sidecars \subseteq Used /\ Relays \subseteq Used
  BY <1>v
<1>2. \A q \in Op : op[q].sidecar # NewId /\ op[q].relay # NewId
  <2>1. ASSUME NEW q \in Op PROVE op[q].sidecar \in Used /\ op[q].relay \in Used
    <3>1. {op[q].sidecar, op[q].relay} \in Holdings
      BY DEF Holdings
    <3>2. op[q].sidecar \in UNION Holdings /\ op[q].relay \in UNION Holdings
      BY <3>1
    <3> QED
      BY <1>u, <3>2
  <2> QED
    BY <1>1, <2>1
<1>3. \A w \in Owned : w.sidecar # NewId /\ w.relay # NewId
  <2>1. ASSUME NEW w \in Owned PROVE w.sidecar \in Sidecars /\ w.relay \in Relays
    BY DEF Sidecars, Relays
  <2> QED
    BY <1>1, <1>u, <2>1
<1>4. \A p \in Project :
        /\ Live(p) => workers[p].sidecar # NewId /\ workers[p].relay # NewId
        /\ doomed[p] # None => doomed[p].sidecar # NewId /\ doomed[p].relay # NewId
  BY <1>3 DEF Owned, Live
<1> QED
  BY <1>1, <1>2, <1>4 DEF Kind

LEMMA RunNameKeeps ==
  ASSUME PreviewInv, NEW o \in Op, op[o].pc \in {"run", "rerun"},
         RunName(o, "inspect", StartFailed(o)),
         UNCHANGED <<managerVars, serving, crashes>>
  PROVE  PreviewInv'
<1> USE PreviewAssumption DEF PreviewInv
<1> DEFINE p == op[o].project
           kind == op[o].kind
<1>1. op[o] \in OpState /\ Fits(op[o]) /\ Starting(o)
  BY DEF TypeOK, Fields, Starting, StartPC
<1>2. p \in Project /\ kind \in Kind /\ op[o][kind] = None
  BY <1>1 DEF Fits, StartPC, OpState, Kind
<1>3. NobodyElseUses(o, kind)
  BY <1>1, StarterIsAlone DEF NobodyElseUses
<1>4. ASSUME Step(o, StartFailed(o))
      PROVE  /\ op'[o] = [op[o] EXCEPT !.pc = StartFailed(o)]
             /\ op' \in [Op -> OpState]
             /\ \A q \in Op : q # o => op'[q] = op[q]
             /\ Fits(op'[o])
             /\ op'[o].sidecar = op[o].sidecar /\ op'[o].relay = op[o].relay
             /\ op'[o].project = op[o].project /\ Starting(o)'
  <2>1. op'[o] = [op[o] EXCEPT !.pc = StartFailed(o)] /\ StartFailed(o) \in {"report", "cleanup"}
    BY <1>4 DEF Step, TypeOK, StartFailed
  <2>2. op'[o] \in OpState
    BY <1>1, <2>1 DEF OpState, PC, StartPC
  <2>3. Fits(op'[o])
    BY <1>1, <2>1 DEF OpState, StartPC, ClosePC, Fits, StartFailed
  <2>4. op' \in [Op -> OpState] /\ \A q \in Op : q # o => op'[q] = op[q]
    BY <1>4, <2>2 DEF Step, TypeOK
  <2> QED
    BY <1>1, <2>1, <2>3, <2>4 DEF OpState, Starting, StartPC
<1>5. CASE Step(o, StartFailed(o)) /\ UNCHANGED <<docker, faults>>
  <2>1. InStart(o)
    BY <1>1, <1>4, <1>5 DEF InStart, TypeOK, DockerState
  <2> QED
    BY <1>4, <1>5, <2>1, StepKeeps
<1>6. CASE Id \ Used # {} /\ Create(p, kind, NewId) /\ Step(o, StartFailed(o)) /\ Fault
  <2>1. faults' \in 0..MaxFaults /\ faults' # 0
    BY <1>6 DEF Fault, TypeOK
  <2>2. NameIs(p, kind, NewId)
    BY <1>2, <1>6, FreshId, CreateFacts
  <2>3. InStart(o)
    BY <1>1, <1>4, <1>6, <2>1, <2>2 DEF InStart, NameIs
  <2>4. \A k \in Kind : op'[o][k] = op[o][k]
    BY <1>4, <1>6 DEF Kind
  <2>5. Handles(o, kind)
    BY <1>1, <1>2, <1>3, <1>4, <1>6, <2>1, <2>2, <2>4 DEF Handles, NameIs, managerVars
  <2> QED
    BY <1>2, <2>3, <2>5, InStartKeeps
<1>7. CASE /\ Id \ Used # {}
           /\ Create(p, kind, NewId)
           /\ op' = [op EXCEPT ![o].pc = "inspect", ![o][kind] = NewId]
           /\ UNCHANGED faults
  <2>1. op'[o] = [op[o] EXCEPT !.pc = "inspect", ![kind] = NewId]
    BY <1>7 DEF TypeOK
  <2>2. \/ kind = "sidecar" /\ op'[o] = [op[o] EXCEPT !.pc = "inspect", !.sidecar = NewId]
        \/ kind = "relay" /\ op'[o] = [op[o] EXCEPT !.pc = "inspect", !.relay = NewId]
    BY <1>2, <2>1 DEF Kind
  <2>3. NewId \in Id /\ NewId # None
    BY <1>7, FreshId
  <2> HIDE DEF kind
  <2>4. op'[o] \in OpState
    <3>1. CASE op'[o] = [op[o] EXCEPT !.pc = "inspect", !.sidecar = NewId]
      BY <1>1, <2>3, <3>1 DEF OpState, PC, StartPC, MaybeId
    <3>2. CASE op'[o] = [op[o] EXCEPT !.pc = "inspect", !.relay = NewId]
      BY <1>1, <2>3, <3>2 DEF OpState, PC, StartPC, MaybeId
    <3> QED
      BY <2>2, <3>1, <3>2
  <2>5. Fits(op'[o])
    <3>1. CASE kind = "sidecar"
      <4>1. op[o].kind = "sidecar" /\ op[o].relay = None /\ op[o].project \in Project
        BY <1>1, <3>1 DEF Fits, StartPC, kind
      <4>2. op'[o] = [op[o] EXCEPT !.pc = "inspect", !.sidecar = NewId]
        BY <2>2, <3>1
      <4>3. /\ op'[o].kind = "sidecar" /\ op'[o].relay = None /\ op'[o].project \in Project
            /\ op'[o].pc = "inspect" /\ op'[o].sidecar = NewId /\ op'[o]["sidecar"] = NewId
        BY <1>1, <4>1, <4>2 DEF OpState
      <4> QED
        BY <2>3, <4>3 DEF StartPC, ClosePC, Fits
    <3>2. CASE kind = "relay"
      <4>1. op[o].kind = "relay" /\ op[o].sidecar # None
        BY <1>1, <3>2 DEF Fits, kind
      <4>2. op'[o] = [op[o] EXCEPT !.pc = "inspect", !.relay = NewId]
        BY <2>2, <3>2
      <4>3. op[o].project \in Project
        BY <1>2
      <4>4. /\ op'[o].kind = "relay" /\ op'[o].sidecar # None /\ op'[o].project \in Project
            /\ op'[o].pc = "inspect" /\ op'[o].relay = NewId /\ op'[o]["relay"] = NewId
        BY <1>1, <4>1, <4>2, <4>3 DEF OpState
      <4> QED
        BY <2>3, <4>4 DEF StartPC, ClosePC, Fits
    <3> QED
      BY <2>2, <3>1, <3>2
  <2>6. op' \in [Op -> OpState] /\ \A q \in Op : q # o => op'[q] = op[q]
    BY <1>7, <2>4 DEF TypeOK
  <2>7. /\ op'[o].project = op[o].project /\ Starting(o)'
        /\ op'[o][kind] = NewId
        /\ \A k \in Kind : k # kind => op'[o][k] = op[o][k]
    BY <1>1, <2>2 DEF OpState, Starting, StartPC, Kind
  <2>8. NameIs(p, kind, NewId)
    BY <1>2, <1>7, <2>3, CreateFacts
  <2>9. IsNew(o, kind)
    BY <1>2, <1>7, <2>7, FreshId DEF IsNew
  <2>10. InStart(o)
    BY <1>1, <1>7, <2>5, <2>6, <2>7, <2>8 DEF InStart, NameIs, TypeOK
  <2>11. Handles(o, kind)
    BY <1>1, <1>2, <1>3, <1>7, <2>6, <2>7, <2>8, <2>9 DEF Handles, NameIs, managerVars
  <2> QED
    BY <1>2, <2>10, <2>11, InStartKeeps
<1> QED
  BY <1>5, <1>6, <1>7 DEF RunName

\* The name is taken: nothing is run.
LEMMA NotRunKeeps ==
  ASSUME PreviewInv, NEW o \in Op, NEW pc,
         \/ At(o, "run") /\ pc = "heal"
         \/ At(o, "rerun") /\ pc = StartFailed(o),
         Step(o, pc), UNCHANGED <<docker, faults>>,
         UNCHANGED <<managerVars, serving, crashes>>
  PROVE  PreviewInv'
<1> USE DEF PreviewInv
<1>1. op[o] \in OpState /\ Fits(op[o]) /\ op[o].pc \in {"run", "rerun"} /\ Starting(o)
  BY DEF TypeOK, Fields, At, Starting, StartPC
<1>2. op'[o] = [op[o] EXCEPT !.pc = pc]
  BY DEF Step, TypeOK
<1>3. pc \in {"heal", "report", "cleanup"}
  BY DEF StartFailed
<1>4. op'[o] \in OpState
  BY <1>1, <1>2, <1>3 DEF OpState, PC, StartPC
<1>5. Fits(op'[o])
  BY <1>1, <1>2, <1>3 DEF OpState, StartPC, ClosePC, Fits, StartFailed, At
<1>6. op' \in [Op -> OpState] /\ \A q \in Op : q # o => op'[q] = op[q]
  BY <1>4 DEF Step, TypeOK
<1>7. /\ op'[o].sidecar = op[o].sidecar /\ op'[o].relay = op[o].relay
      /\ op'[o].project = op[o].project /\ Starting(o)'
  BY <1>1, <1>2, <1>3 DEF OpState, Starting, StartPC
<1>8. InStart(o)
  BY <1>1, <1>5, <1>6, <1>7 DEF InStart, TypeOK, DockerState
<1> QED
  BY <1>7, <1>8, StepKeeps

LEMMA RunKeeps ==
  ASSUME PreviewInv, NEW o \in Op, Run(o) \/ Rerun(o)
  PROVE  PreviewInv'
<1>1. CASE Run(o)
  <2>1. CASE RunName(o, "inspect", StartFailed(o))
    BY <1>1, <2>1, RunNameKeeps DEF Run, At
  <2>2. CASE Step(o, "heal") /\ UNCHANGED <<docker, faults>>
    BY <1>1, <2>2, NotRunKeeps DEF Run
  <2> QED
    BY <1>1, <2>1, <2>2 DEF Run
<1>2. CASE Rerun(o)
  <2>1. CASE RunName(o, "inspect", StartFailed(o))
    BY <1>2, <2>1, RunNameKeeps DEF Rerun, At
  <2>2. CASE Step(o, StartFailed(o)) /\ UNCHANGED <<docker, faults>>
    BY <1>2, <2>2, NotRunKeeps DEF Rerun
  <2> QED
    BY <1>2, <2>1, <2>2 DEF Rerun
<1> QED
  BY <1>1, <1>2

-----------------------------------------------------------------------------
(* The steps of a close                                                      *)

LEMMA CloseRelayKeeps ==
  ASSUME PreviewInv, NEW o \in Op, CloseRelay(o)
  PROVE  PreviewInv'
<1> USE PreviewAssumption DEF PreviewInv
<1>1. op[o] \in OpState /\ Fits(op[o]) /\ op[o].pc = "closeRelay"
  BY DEF CloseRelay, At, TypeOK, Fields
<1>2. op'[o] = [op[o] EXCEPT !.pc = "closeSidecar", !.relay = None]
  BY DEF CloseRelay, TypeOK
<1>3. op'[o] \in OpState /\ Fits(op'[o])
  BY <1>1, <1>2 DEF OpState, PC, StartPC, ClosePC, Fits, MaybeId
<1>4. op' \in [Op -> OpState] /\ \A q \in Op : q # o => op'[q] = op[q]
  BY <1>3 DEF CloseRelay, TypeOK
<1>5. /\ op[o].project \in Project /\ op'[o].project = op[o].project
      /\ op'[o]["relay"] = None
      /\ \A k \in Kind : k # "relay" => op'[o][k] = op[o][k]
      /\ ~Starting(o) /\ ~Starting(o)'
      /\ op'[o].pc = "closeSidecar" /\ op'[o].back = op[o].back
  BY <1>1, <1>2 DEF OpState, Kind, Starting, StartPC, ClosePC, Fits
<1>6. "relay" \in Kind /\ RemoveOrFail(op[o].project, "relay", op[o]["relay"])
  BY DEF CloseRelay, Kind
<1>7. Handles(o, "relay") /\ docker' \in DockerState /\ faults' \in 0..MaxFaults
  <2>1. UNCHANGED <<workers, inflight, doomed, serving>>
    BY DEF CloseRelay, managerVars
  <2>2. Removes(o, "relay")
    BY <1>4, <1>5, <1>6, <2>1 DEF Removes
  <2> QED
    BY <1>6, <2>2, RemoveHandles
<1>8. /\ OneStarter' /\ WorkerKeepsItsContainers' /\ HeldOnce'
      /\ StartHasItsContainers' /\ NoneUnheld'
  BY <1>5, <1>6, <1>7, HandlesKeeps
<1>9. TypeOK' /\ EveryWorkerIsWatched' /\ ClosedIsEmpty'
  BY <1>4, <1>7 DEF TypeOK, DockerState, CloseRelay, managerVars, EveryWorkerIsWatched, Live, ClosedIsEmpty
<1>10. BootIsQuiet'
  BY <1>1 DEF CloseRelay, BootIsQuiet, IdleOp, managerVars
<1>11. Fields'
  BY <1>3, <1>4 DEF Fields
<1>12. Roles'
  BY <1>1, <1>4, <1>5, RolesApart DEF Roles, CloseRelay, managerVars, At, Op, StartPC, ClosePC
<1> QED
  BY <1>8, <1>9, <1>10, <1>11, <1>12

LEMMA CloseSidecarKeeps ==
  ASSUME PreviewInv, NEW o \in Op, CloseSidecar(o)
  PROVE  PreviewInv'
<1> USE PreviewAssumption DEF PreviewInv
<1>1. op[o] \in OpState /\ Fits(op[o]) /\ op[o].pc = "closeSidecar"
  BY DEF CloseSidecar, At, TypeOK, Fields
<1>2. op'[o] = [pc |-> op[o].back, project |-> None, kind |-> "sidecar", sidecar |-> None,
                relay |-> None, back |-> "idle", call |-> None]
  BY DEF CloseSidecar, TypeOK, IdleOp
<1>3. op[o].back \in {"idle", "announce", "next"}
  BY <1>1 DEF OpState
<1>4. op'[o] \in OpState /\ Fits(op'[o])
  BY <1>2, <1>3 DEF OpState, PC, StartPC, ClosePC, Fits, MaybeId
<1>5. op' \in [Op -> OpState] /\ \A q \in Op : q # o => op'[q] = op[q]
  BY <1>4 DEF CloseSidecar, TypeOK
<1>6. /\ op[o].project \in Project
      /\ ~Starting(o) /\ ~Starting(o)'
      /\ op[o].relay = None /\ op'[o].pc = op[o].back
  BY <1>1, <1>2, <1>3 DEF Starting, StartPC, ClosePC, Fits
<1>7. \A k \in Kind : op'[o][k] = None /\ (k # "sidecar" => op[o][k] = None)
  BY <1>2, <1>6 DEF Kind
<1>8. "sidecar" \in Kind /\ RemoveOrFail(op[o].project, "sidecar", op[o]["sidecar"])
  BY DEF CloseSidecar, Kind
<1>9. Handles(o, "sidecar") /\ docker' \in DockerState /\ faults' \in 0..MaxFaults
  <2>1. UNCHANGED <<workers, inflight, doomed, serving>>
    BY DEF CloseSidecar, managerVars
  <2>2. Removes(o, "sidecar")
    BY <1>5, <1>6, <1>7, <1>8, <2>1 DEF Removes
  <2> QED
    BY <1>8, <2>2, RemoveHandles
<1>10. /\ OneStarter' /\ WorkerKeepsItsContainers' /\ HeldOnce'
       /\ StartHasItsContainers' /\ NoneUnheld'
  BY <1>6, <1>8, <1>9, HandlesKeeps
<1>11. TypeOK' /\ EveryWorkerIsWatched' /\ ClosedIsEmpty'
  BY <1>5, <1>9 DEF TypeOK, DockerState, CloseSidecar, managerVars, EveryWorkerIsWatched, Live, ClosedIsEmpty
<1>12. BootIsQuiet'
  BY <1>1 DEF CloseSidecar, BootIsQuiet, IdleOp, managerVars
<1>13. Fields'
  BY <1>4, <1>5 DEF Fields
<1>14. Roles'
  BY <1>1, <1>3, <1>5, <1>6, RolesApart DEF Roles, CloseSidecar, managerVars, At, Op, StartPC, ClosePC
<1> QED
  BY <1>10, <1>11, <1>12, <1>13, <1>14

-----------------------------------------------------------------------------
(* The steps that take a worker in order to close it                         *)

\* o, which holds nothing, takes over the containers of w.
TakesOver(o, p, w, back) ==
  /\ o \in Op /\ p \in Project /\ w \in Worker
  /\ serving /\ op[o].pc \in {"idle", "next"}
  /\ back \in {"idle", "announce", "next"}
  /\ CloseWorker(o, p, w, back)
  /\ UNCHANGED <<docker, inflight, closed, boundVars>>
  /\ \/ /\ workers[p] = w /\ w # None
        /\ workers' = [workers EXCEPT ![p] = None]
        /\ UNCHANGED doomed
     \/ /\ doomed[p] = w /\ w # None
        /\ doomed' = [doomed EXCEPT ![p] = None]
        /\ UNCHANGED workers

LEMMA TakesOverKeeps ==
  ASSUME PreviewInv, NEW o, NEW p, NEW w, NEW back, TakesOver(o, p, w, back)
  PROVE  /\ op' \in [Op -> OpState]
         /\ op'[o].pc = "closeRelay" /\ op'[o].back = back
         /\ \A q \in Op : q # o => op'[q] = op[q]
         /\ workers' \in [Project -> Worker \cup {None}]
         /\ doomed' \in [Project -> Worker \cup {None}]
         /\ OneStarter' /\ WorkerKeepsItsContainers' /\ HeldOnce'
         /\ StartHasItsContainers' /\ NoneUnheld'
         /\ Fields' /\ ClosedIsEmpty' /\ BootIsQuiet'
<1> USE PreviewAssumption DEF PreviewInv
<1>1. o \in Op /\ p \in Project /\ w \in Worker
  BY DEF TakesOver
<1>2. op'[o] = [pc |-> "closeRelay", project |-> p, kind |-> "sidecar", sidecar |-> w.sidecar,
                relay |-> w.relay, back |-> back, call |-> None]
  BY <1>1 DEF TakesOver, CloseWorker, TypeOK, IdleOp
<1>3. op'[o] \in OpState /\ Fits(op'[o])
  BY <1>1, <1>2 DEF TakesOver, OpState, PC, StartPC, ClosePC, Fits, MaybeId, Worker
<1>4. op' \in [Op -> OpState] /\ \A q \in Op : q # o => op'[q] = op[q]
  BY <1>1, <1>3 DEF TakesOver, CloseWorker, TypeOK
<1>5. /\ \A k \in Kind : op[o][k] = None /\ op'[o][k] = w[k]
      /\ ~Starting(o) /\ ~Starting(o)'
      /\ op'[o].project = p
  <2>1. Nothing(op[o]) /\ ~Starting(o)
    BY <1>1 DEF TakesOver, Fields, Fits, Nothing, StartPC, ClosePC, Starting
  <2> QED
    BY <1>1, <1>2, <2>1 DEF Kind, Nothing, Starting, StartPC
<1>6. /\ workers' \in [Project -> Worker \cup {None}]
      /\ doomed' \in [Project -> Worker \cup {None}]
      /\ \A r \in Project : r # p => workers'[r] = workers[r] /\ doomed'[r] = doomed[r]
      /\ workers'[p] = None /\ doomed'[p] = None
      /\ \/ workers[p] = w /\ workers[p] # None /\ doomed[p] = None
         \/ doomed[p] = w /\ doomed[p] # None /\ workers[p] = None
  <2>1. \A r \in Project : workers[r] = None \/ doomed[r] = None
    BY DEF ClosedIsEmpty, NoWorkers, TypeOK
  <2>2. CASE /\ workers[p] = w /\ w # None
             /\ workers' = [workers EXCEPT ![p] = None]
             /\ UNCHANGED doomed
    BY <1>1, <2>1, <2>2 DEF TypeOK
  <2>3. CASE /\ doomed[p] = w /\ w # None
             /\ doomed' = [doomed EXCEPT ![p] = None]
             /\ UNCHANGED workers
    BY <1>1, <2>1, <2>3 DEF TypeOK
  <2> QED
    BY <2>2, <2>3 DEF TakesOver
<1>7. UNCHANGED <<docker, inflight, closed, serving, faults>>
  BY DEF TakesOver, boundVars
<1>8. \A r \in Project : Live(r)' => Live(r) /\ r # p
  BY <1>6 DEF Live
<1>9. OneStarter'
  <2>1. ASSUME NEW r \in Project, NEW q \in Op
        PROVE  (inflight[r] = q <=> Starting(q) /\ op[q].project = r)'
    <3>1. CASE q = o
      BY <1>5, <1>7, <3>1 DEF OneStarter
    <3>2. CASE q # o
      BY <1>4, <1>7, <3>2 DEF OneStarter, Starting
    <3> QED
      BY <3>1, <3>2
  <2> QED
    BY <2>1, <1>7, <1>8 DEF OneStarter
<1>10. WorkerKeepsItsContainers'
  BY <1>6, <1>7, <1>8 DEF WorkerKeepsItsContainers, Live
<1>11. HeldOnce'
  <2>1. ASSUME NEW r \in Project, NEW k \in Kind, NEW a \in Op, NEW b \in Op,
               op'[a].project = r, op'[b].project = r,
               op'[a][k] # None, op'[a][k] = op'[b][k], a # b
        PROVE  FALSE
    BY <1>4, <1>5, <1>6, <2>1 DEF HeldOnce, Live
  <2>2. ASSUME NEW r \in Project, NEW k \in Kind, NEW a \in Op,
               op'[a].project = r, op'[a][k] # None
        PROVE  /\ Live(r)' => op'[a][k] # workers'[r][k]
               /\ doomed'[r] # None => op'[a][k] # doomed'[r][k]
    <3>1. CASE a = o
      BY <1>5, <1>6, <2>2, <3>1 DEF Live
    <3>2. CASE a # o
      BY <1>4, <1>6, <2>2, <3>2 DEF HeldOnce, Live
    <3> QED
      BY <3>1, <3>2
  <2> QED
    BY <2>1, <2>2 DEF HeldOnce
<1>12. StartHasItsContainers'
  BY <1>4, <1>5, <1>7 DEF StartHasItsContainers, Starting
<1>13. NoneUnheld'
  <2> SUFFICES ASSUME serving', faults' = 0, NEW r \in Project, NEW k \in Kind,
                      docker'[r][k] # None
               PROVE  \/ Live(r)' /\ workers'[r][k] = docker'[r][k]
                      \/ doomed'[r] # None /\ doomed'[r][k] = docker'[r][k]
                      \/ \E q \in Op : op'[q].project = r /\ op'[q][k] = docker'[r][k]
    BY DEF NoneUnheld
  <2>1. \/ Live(r) /\ workers[r][k] = docker[r][k]
        \/ doomed[r] # None /\ doomed[r][k] = docker[r][k]
        \/ \E q \in Op : op[q].project = r /\ op[q][k] = docker[r][k]
    BY <1>7 DEF NoneUnheld
  <2>2. CASE r = p
    BY <1>1, <1>4, <1>5, <1>6, <1>7, <2>1, <2>2 DEF Live
  <2>3. CASE r # p
    BY <1>1, <1>4, <1>5, <1>6, <1>7, <2>1, <2>3 DEF Live
  <2> QED
    BY <2>2, <2>3
<1>14. Fields'
  BY <1>3, <1>4 DEF Fields
<1>15. ClosedIsEmpty' /\ BootIsQuiet'
  <2>1. workers = NoWorkers => workers' = NoWorkers
    BY <1>6 DEF NoWorkers
  <2>2. doomed = NoWorkers => doomed' = NoWorkers
    BY <1>6 DEF NoWorkers
  <2>3. serving
    BY DEF TakesOver
  <2> QED
    BY <1>7, <2>1, <2>2, <2>3 DEF ClosedIsEmpty, BootIsQuiet
<1> QED
  BY <1>2, <1>3, <1>4, <1>6, <1>9, <1>10, <1>11, <1>12, <1>13, <1>14, <1>15

LEMMA StopKeeps ==
  ASSUME PreviewInv, NEW o \in Caller, NEW p \in Project, Stop(o, p)
  PROVE  PreviewInv'
<1> USE DEF PreviewInv
<1> DEFINE w == workers[p]
<1>1. o \in Op /\ o # Sweeper /\ o # Main
  BY RolesApart DEF Op
<1>2. w \in Worker /\ w # None
  BY DEF Stop, Take, Live, TypeOK
<1>3. TakesOver(o, p, w, "idle")
  BY <1>1, <1>2 DEF Stop, Take, TakesOver, At
<1> HIDE DEF w
<1>4. TypeOK'
  BY <1>3, TakesOverKeeps DEF TypeOK, Stop, Take, TokenState, boundVars
<1>5. EveryWorkerIsWatched'
  BY DEF Stop, Take, EveryWorkerIsWatched, Live, TypeOK
<1>6. Roles'
  BY <1>1, <1>3, TakesOverKeeps DEF Roles, Stop, At, Op, StartPC, ClosePC
<1> QED
  BY <1>3, <1>4, <1>5, <1>6, TakesOverKeeps

LEMMA SweepStopKeeps ==
  ASSUME PreviewInv, NEW p \in Project, SweepStop(p)
  PROVE  PreviewInv'
<1> USE DEF PreviewInv
<1> DEFINE w == workers[p]
<1>1. Sweeper \in Op /\ At(Sweeper, "next")
  BY DEF Op, SweepStop
<1>2. serving
  BY <1>1 DEF BootIsQuiet, At, IdleOp
<1>3. CASE Live(p)
  <2>1. w \in Worker /\ w # None
    BY <1>3 DEF Live, TypeOK
  <2>2. TakesOver(Sweeper, p, w, "next")
    BY <1>1, <1>2, <1>3, <2>1 DEF SweepStop, Take, TakesOver, At
  <2> HIDE DEF w
  <2>3. TypeOK'
    BY <1>3, <2>2, TakesOverKeeps DEF TypeOK, SweepStop, Take, TokenState, boundVars
  <2>4. EveryWorkerIsWatched'
    BY <1>3 DEF SweepStop, Take, EveryWorkerIsWatched, Live, TypeOK
  <2>5. Roles'
    BY <1>1, <2>2, TakesOverKeeps, RolesApart DEF Roles, SweepStop, At, Op, StartPC, ClosePC
  <2> QED
    BY <2>2, <2>3, <2>4, <2>5, TakesOverKeeps
<1>4. CASE ~Live(p)
  <2>1. UNCHANGED <<docker, workers, token, op, inflight, closed, doomed, boundVars>>
        /\ swept' = swept \ {p}
    BY <1>4 DEF SweepStop
  <2>2. Quiet
    BY <2>1 DEF Quiet, HoldsSame, boundVars, Starting
  <2>3. EveryWorkerIsWatched'
    BY <1>4, <2>1 DEF EveryWorkerIsWatched, Live
  <2>4. TypeOK' /\ ClosedIsEmpty' /\ BootIsQuiet'
    BY <2>1 DEF TypeOK, ClosedIsEmpty, BootIsQuiet, boundVars
  <2>5. Roles' /\ Fields'
    BY <2>1 DEF Roles, Fields, At
  <2> QED
    BY <2>2, <2>3, <2>4, <2>5, QuietKeeps
<1> QED
  BY <1>3, <1>4

LEMMA CloseNextKeeps ==
  ASSUME PreviewInv, NEW p \in Project, CloseNext(p)
  PROVE  PreviewInv'
<1> USE DEF PreviewInv
<1> DEFINE w == doomed[p]
<1>1. Main \in Op /\ At(Main, "next")
  BY DEF Op, CloseNext
<1>2. serving
  BY <1>1 DEF BootIsQuiet, At, IdleOp
<1>3. w \in Worker /\ w # None
  BY DEF CloseNext, TypeOK
<1>4. TakesOver(Main, p, w, "next")
  BY <1>1, <1>2, <1>3 DEF CloseNext, TakesOver, At
<1> HIDE DEF w
<1>5. TypeOK'
  BY <1>4, TakesOverKeeps DEF TypeOK, CloseNext, boundVars
<1>6. EveryWorkerIsWatched'
  BY DEF CloseNext, EveryWorkerIsWatched, Live
<1>7. Roles'
  BY <1>1, <1>4, TakesOverKeeps, RolesApart DEF Roles, CloseNext, At, Op, StartPC, ClosePC
<1> QED
  BY <1>4, <1>5, <1>6, <1>7, TakesOverKeeps

-----------------------------------------------------------------------------
(* The end of a start                                                        *)

LEMMA AnnounceKeeps ==
  ASSUME PreviewInv, NEW o \in Op, Announce(o)
  PROVE  PreviewInv'
<1> USE PreviewAssumption DEF PreviewInv
<1> DEFINE released(j) == j = o \/ (At(j, "joined") /\ op[j].call = o)
<1>1. ASSUME NEW j \in Op, released(j)
      PROVE  /\ op[j].pc \in {"announce", "joined"} /\ Nothing(op[j]) /\ j \in Caller
             /\ op'[j] = [pc |-> "idle", project |-> None, kind |-> "sidecar", sidecar |-> None,
                          relay |-> None, back |-> "idle", call |-> None]
  <2>1. op[j].pc \in {"announce", "joined"}
    BY <1>1 DEF Announce, At
  <2>2. Nothing(op[j])
    BY <2>1 DEF Fields, Fits, Nothing, StartPC, ClosePC
  <2>3. j \in Caller
    BY <2>1 DEF Roles
  <2>4. op'[j] = IdleOp
    BY <1>1 DEF Announce
  <2> QED
    BY <2>1, <2>2, <2>3, <2>4 DEF IdleOp
<1>2. ASSUME NEW j \in Op, ~released(j) PROVE op'[j] = op[j]
  BY <1>2 DEF Announce
<1> HIDE DEF released
<1>3. ASSUME NEW j \in Op PROVE HoldsSame(j)
  <2>1. CASE released(j)
    BY <1>1, <2>1 DEF HoldsSame, Starting, StartPC, Nothing
  <2>2. CASE ~released(j)
    BY <1>2, <2>2 DEF HoldsSame, Starting
  <2> QED
    BY <2>1, <2>2
<1>4. Quiet
  BY <1>3 DEF Quiet, Announce, managerVars, boundVars
<1>5. ASSUME NEW j \in Op PROVE op'[j] \in OpState /\ Fits(op'[j])
  <2>1. CASE released(j)
    BY <1>1, <2>1 DEF OpState, PC, StartPC, ClosePC, MaybeId, Fits
  <2>2. CASE ~released(j)
    BY <1>2, <2>2 DEF TypeOK, Fields
  <2> QED
    BY <2>1, <2>2
<1>6. op' \in [Op -> OpState]
  BY <1>5 DEF Announce
<1>7. TypeOK' /\ EveryWorkerIsWatched' /\ ClosedIsEmpty'
  BY <1>6 DEF Announce, TypeOK, EveryWorkerIsWatched, Live, ClosedIsEmpty, managerVars, boundVars
<1>8. BootIsQuiet'
  BY DEF Announce, At, BootIsQuiet, IdleOp, boundVars
<1>9. Fields'
  BY <1>5 DEF Fields
<1>10. Roles'
  <2>1. \A j \in Op : op'[j] = op[j] \/ (j \in Caller /\ op'[j].pc = "idle")
    BY <1>1, <1>2
  <2> QED
    BY <2>1, RolesApart DEF Roles, At, Op, Announce, managerVars, StartPC, ClosePC
<1> QED
  BY <1>4, <1>7, <1>8, <1>9, <1>10, QuietKeeps

LEMMA ReportKeeps ==
  ASSUME PreviewInv, NEW o \in Op, Report(o)
  PROVE  PreviewInv'
<1> USE PreviewAssumption DEF PreviewInv
<1> DEFINE p == op[o].project
           w == [sidecar |-> op[o].sidecar, relay |-> op[o].relay]
<1>1. op[o] \in OpState /\ Fits(op[o]) /\ op[o].pc = "report" /\ Starting(o)
  BY DEF Report, At, TypeOK, Fields, Starting, StartPC
<1>2. /\ p \in Project /\ ~Live(p)
      /\ \A q \in Op : Starting(q) /\ op[q].project = p => q = o
  BY <1>1, StarterIsAlone
<1>3. o \in Caller /\ serving
  <2>1. o \in Caller
    BY <1>1 DEF Roles, StartPC
  <2>2. op[o] # IdleOp
    BY <1>1 DEF IdleOp
  <2> QED
    BY <2>1, <2>2 DEF BootIsQuiet
<1>4. /\ UNCHANGED <<docker, closed, swept, doomed, serving, faults, crashes>>
      /\ \A q \in Op : q # o => op'[q] = op[q]
      /\ inflight' \in [Project -> Op \cup {None}]
      /\ inflight'[p] = None
      /\ \A r \in Project : r # p => inflight'[r] = inflight[r]
  BY <1>2 DEF Report, boundVars, TypeOK
<1>5. /\ ~Starting(o)'
      /\ op'[o].pc \in {"announce", "closeRelay"}
      /\ op'[o].pc = "closeRelay" => op'[o].back = "announce"
  <2>1. \/ op'[o] = [op[o] EXCEPT !.pc = "closeRelay", !.back = "announce"]
        \/ op'[o] = [IdleOp EXCEPT !.pc = "announce"]
    BY DEF Report, TypeOK
  <2> QED
    BY <1>1, <2>1 DEF OpState, IdleOp, Starting, StartPC
<1>6. OneStarter'
  <2>1. ASSUME NEW r \in Project, NEW q \in Op
        PROVE  (inflight[r] = q <=> Starting(q) /\ op[q].project = r)'
    <3>1. CASE q = o
      BY <1>1, <1>2, <1>4, <1>5, <3>1 DEF OneStarter
    <3>2. CASE q # o
      BY <1>1, <1>2, <1>4, <3>2 DEF OneStarter, Starting
    <3> QED
      BY <3>1, <3>2
  <2>2. ASSUME NEW r \in Project, r # p PROVE workers'[r] = workers[r]
    BY <1>2, <2>2 DEF Report, TypeOK
  <2> QED
    BY <2>1, <2>2, <1>4 DEF OneStarter, Live
<1>7. Roles' /\ BootIsQuiet'
  BY <1>3, <1>4, <1>5, RolesApart DEF Roles, BootIsQuiet, At, Op, StartPC, ClosePC
<1>8. CASE Started(o) /\ ~closed
  <2>1. workers' = [workers EXCEPT ![p] = w] /\ op' = [op EXCEPT ![o] = [IdleOp EXCEPT !.pc = "announce"]]
    BY <1>2, <1>8 DEF Report
  <2>2. op'[o] = [pc |-> "announce", project |-> None, kind |-> "sidecar", sidecar |-> None,
                  relay |-> None, back |-> "idle", call |-> None]
    BY <2>1 DEF IdleOp, TypeOK
  <2>3. op'[o] \in OpState /\ Fits(op'[o])
    BY <2>2 DEF OpState, PC, StartPC, ClosePC, Fits, MaybeId
  <2>4. w \in Worker /\ w # None
    BY <1>1, <1>8 DEF Worker, OpState, Started, MaybeId
  <2>5. doomed[p] = None
    BY <1>2, <1>8 DEF ClosedIsEmpty, NoWorkers
  <2>6. \A k \in Kind : w[k] = op[o][k] /\ op'[o][k] = None
    BY <2>2 DEF Kind
  <2> HIDE DEF w
  <2>7. /\ workers' \in [Project -> Worker \cup {None}]
        /\ workers'[p] = w
        /\ \A r \in Project : r # p => workers'[r] = workers[r]
    BY <1>2, <2>1, <2>4 DEF TypeOK
  <2>8. token' \in [Project -> TokenState] /\ token'[p] # "none"
        /\ \A r \in Project : r # p => token'[r] = token[r]
    BY <1>2, <1>8 DEF Report, TypeOK, TokenState
  <2>9. TypeOK'
    <3>1. op' \in [Op -> OpState]
      BY <2>1, <2>3 DEF TypeOK
    <3> QED
      BY <1>4, <2>7, <2>8, <3>1 DEF TypeOK
  <2>10. EveryWorkerIsWatched'
    BY <1>4, <2>4, <2>7, <2>8 DEF EveryWorkerIsWatched, Live
  <2>11. WorkerKeepsItsContainers'
    <3>1. /\ docker[p].sidecar = w.sidecar
          /\ w.relay # None => docker[p].relay = w.relay
      <4>1. \A k \in Kind : w[k] # None => docker[p][k] = w[k]
        BY <1>1, <2>6 DEF StartHasItsContainers
      <4>2. w.sidecar # None
        BY <2>4 DEF Worker
      <4> QED
        BY <4>1, <4>2 DEF Kind
    <3> QED
      BY <1>4, <2>7, <3>1 DEF WorkerKeepsItsContainers, Live
  <2>12. HeldOnce'
    <3>1. ASSUME NEW r \in Project, NEW k \in Kind, NEW a \in Op, NEW b \in Op,
                 op'[a].project = r, op'[b].project = r,
                 op'[a][k] # None, op'[a][k] = op'[b][k], a # b
          PROVE  FALSE
      BY <1>4, <2>6, <3>1 DEF HeldOnce
    <3>2. ASSUME NEW r \in Project, NEW k \in Kind, NEW a \in Op,
                 op'[a].project = r, op'[a][k] # None
          PROVE  /\ Live(r)' => op'[a][k] # workers'[r][k]
                 /\ doomed'[r] # None => op'[a][k] # doomed'[r][k]
      <4>1. a # o /\ op'[a] = op[a]
        BY <1>4, <2>6, <3>2
      <4>2. CASE r = p
        BY <1>4, <2>5, <2>6, <2>7, <3>2, <4>1, <4>2 DEF HeldOnce
      <4>3. CASE r # p
        BY <1>4, <2>7, <3>2, <4>1, <4>3 DEF HeldOnce, Live
      <4> QED
        BY <4>2, <4>3
    <3> QED
      BY <3>1, <3>2 DEF HeldOnce
  <2>13. StartHasItsContainers'
    BY <1>4, <1>5 DEF StartHasItsContainers, Starting
  <2>14. NoneUnheld'
    <3> SUFFICES ASSUME serving', faults' = 0, NEW r \in Project, NEW k \in Kind,
                        docker'[r][k] # None
                 PROVE  \/ Live(r)' /\ workers'[r][k] = docker'[r][k]
                        \/ doomed'[r] # None /\ doomed'[r][k] = docker'[r][k]
                        \/ \E q \in Op : op'[q].project = r /\ op'[q][k] = docker'[r][k]
      BY DEF NoneUnheld
    <3>1. \/ Live(r) /\ workers[r][k] = docker[r][k]
          \/ doomed[r] # None /\ doomed[r][k] = docker[r][k]
          \/ \E q \in Op : op[q].project = r /\ op[q][k] = docker[r][k]
      BY <1>4 DEF NoneUnheld
    <3>2. CASE r = p
      BY <1>2, <1>4, <2>4, <2>5, <2>6, <2>7, <3>1, <3>2 DEF Live
    <3>3. CASE r # p
      BY <1>4, <2>7, <3>1, <3>3 DEF Live
    <3> QED
      BY <3>2, <3>3
  <2>15. Fields'
    BY <1>4, <2>3 DEF Fields
  <2>16. ClosedIsEmpty'
    BY <1>4, <1>8 DEF ClosedIsEmpty
  <2> QED
    BY <1>6, <1>7, <2>9, <2>10, <2>11, <2>12, <2>13, <2>14, <2>15, <2>16
<1>9. CASE ~(Started(o) /\ ~closed)
  <2>1. UNCHANGED <<workers, token>>
    BY <1>2, <1>9 DEF Report
  <2>2. \/ op'[o] = [op[o] EXCEPT !.pc = "closeRelay", !.back = "announce"]
        \/ op'[o] = [IdleOp EXCEPT !.pc = "announce"] /\ Nothing(op[o])
    BY <1>1, <1>9 DEF Report, TypeOK, Started, Fits, Nothing
  <2>3. op'[o] \in OpState /\ Fits(op'[o])
    <3>1. CASE op'[o] = [op[o] EXCEPT !.pc = "closeRelay", !.back = "announce"]
      BY <1>1, <3>1 DEF OpState, PC, StartPC, ClosePC, Fits
    <3>2. CASE op'[o] = [IdleOp EXCEPT !.pc = "announce"] /\ Nothing(op[o])
      BY <3>2 DEF OpState, PC, StartPC, ClosePC, Fits, MaybeId, IdleOp
    <3> QED
      BY <2>2, <3>1, <3>2
  <2>4. op' \in [Op -> OpState]
    BY <2>3 DEF Report, TypeOK
  <2>5. /\ \A k \in Kind : op'[o][k] = op[o][k]
        /\ op'[o].project = p \/ \A k \in Kind : op[o][k] = None
    <3>1. CASE op'[o] = [op[o] EXCEPT !.pc = "closeRelay", !.back = "announce"]
      BY <1>1, <3>1 DEF Kind, OpState
    <3>2. CASE op'[o] = [IdleOp EXCEPT !.pc = "announce"] /\ Nothing(op[o])
      BY <3>2 DEF Kind, IdleOp, Nothing
    <3> QED
      BY <2>2, <3>1, <3>2
  <2>6. TypeOK' /\ EveryWorkerIsWatched' /\ WorkerKeepsItsContainers' /\ ClosedIsEmpty'
    BY <1>4, <2>1, <2>4
    DEF TypeOK, EveryWorkerIsWatched, WorkerKeepsItsContainers, ClosedIsEmpty, Live
  <2>7. Fields'
    BY <1>4, <2>3 DEF Fields
  <2>8. \A q \in Op, k \in Kind : op'[q][k] = op[q][k]
    BY <1>4, <2>5
  <2>9. \A q \in Op : op'[q].project = op[q].project \/ \A k \in Kind : op[q][k] = None
    BY <1>4, <2>5
  <2>10. HeldOnce'
    BY <1>4, <2>1, <2>8, <2>9 DEF HeldOnce, Live
  <2>11. StartHasItsContainers'
    BY <1>4, <1>5, <2>8 DEF StartHasItsContainers, Starting
  <2>12. NoneUnheld'
    <3> SUFFICES ASSUME serving', faults' = 0, NEW r \in Project, NEW k \in Kind,
                        docker'[r][k] # None
                 PROVE  \/ Live(r)' /\ workers'[r][k] = docker'[r][k]
                        \/ doomed'[r] # None /\ doomed'[r][k] = docker'[r][k]
                        \/ \E q \in Op : op'[q].project = r /\ op'[q][k] = docker'[r][k]
      BY DEF NoneUnheld
    <3>1. \/ Live(r) /\ workers[r][k] = docker[r][k]
          \/ doomed[r] # None /\ doomed[r][k] = docker[r][k]
          \/ \E q \in Op : op[q].project = r /\ op[q][k] = docker[r][k]
      BY <1>4 DEF NoneUnheld
    <3> QED
      BY <1>4, <2>1, <2>8, <2>9, <3>1 DEF Live
  <2> QED
    BY <1>6, <1>7, <2>6, <2>7, <2>10, <2>11, <2>12
<1> QED
  BY <1>8, <1>9

-----------------------------------------------------------------------------
(* The sweeper's own steps, shutdown, death and boot                         *)

LEMMA SweepKeeps ==
  ASSUME PreviewInv, Sweep \/ SweepDone
  PROVE  PreviewInv'
<1> USE DEF PreviewInv
<1>1. Sweeper \in Op /\ op[Sweeper] \in OpState /\ Fits(op[Sweeper])
  BY DEF Op, TypeOK, Fields
<1>2. /\ op[Sweeper].pc \in {"idle", "next"}
      /\ op[Sweeper].pc = "next" => serving
      /\ UNCHANGED <<docker, workers, inflight, closed, doomed, boundVars>>
  BY <1>1 DEF Sweep, SweepDone, At, managerVars, BootIsQuiet, IdleOp
<1>3. /\ \A q \in Op : q # Sweeper => op'[q] = op[q]
      /\ \/ op'[Sweeper] = [op[Sweeper] EXCEPT !.pc = "next"]
         \/ op'[Sweeper] = IdleOp
  BY <1>1 DEF Sweep, SweepDone, Step, Reply, TypeOK
<1>4. /\ op'[Sweeper] \in OpState /\ Fits(op'[Sweeper])
      /\ op'[Sweeper].pc \in {"idle", "next"}
  BY <1>1, <1>2, <1>3 DEF OpState, PC, StartPC, ClosePC, Fits, MaybeId, IdleOp
<1>5. op' \in [Op -> OpState]
  BY <1>4 DEF Sweep, SweepDone, Step, Reply, TypeOK
<1>6. Nothing(op[Sweeper]) /\ Nothing(op'[Sweeper])
  BY <1>1, <1>2, <1>4 DEF Fits, Nothing, StartPC, ClosePC
<1>7. Quiet
  <2>1. HoldsSame(Sweeper)
    BY <1>2, <1>4, <1>6 DEF HoldsSame, Nothing, Starting, StartPC
  <2>2. ASSUME NEW q \in Op, q # Sweeper PROVE HoldsSame(q)
    BY <1>3, <2>2 DEF HoldsSame, Starting
  <2> QED
    BY <1>2, <2>1, <2>2 DEF Quiet, boundVars
<1>8. Fields'
  BY <1>3, <1>4 DEF Fields
<1>9. ClosedIsEmpty'
  BY <1>2 DEF ClosedIsEmpty
<1>10. BootIsQuiet'
  BY <1>2 DEF BootIsQuiet, Sweep, SweepDone, At, boundVars
<1>11. CASE Sweep
  <2>1. /\ token' \in [Project -> TokenState] /\ swept' \subseteq Project
        /\ op'[Sweeper].pc = "next"
    BY <1>1, <1>11 DEF Sweep, TypeOK, TokenState, Silent, Step, OpState
  <2>2. TypeOK'
    BY <1>2, <1>5, <2>1 DEF TypeOK, boundVars
  <2>3. EveryWorkerIsWatched'
    BY <1>2, <1>11 DEF Sweep, Roles, EveryWorkerIsWatched, Live, Silent
  <2>4. Roles'
    BY <1>2, <1>3, <2>1, RolesApart DEF Roles, At, Op, StartPC, ClosePC
  <2> QED
    BY <1>7, <1>8, <1>9, <1>10, <2>2, <2>3, <2>4, QuietKeeps
<1>12. CASE SweepDone
  <2>1. TypeOK' /\ EveryWorkerIsWatched'
    BY <1>5, <1>12 DEF SweepDone, TypeOK, EveryWorkerIsWatched, Live, managerVars, boundVars
  <2>2. Roles'
    BY <1>2, <1>3, <1>4, <1>12, RolesApart
    DEF SweepDone, Roles, At, Op, StartPC, ClosePC, managerVars, IdleOp
  <2> QED
    BY <1>7, <1>8, <1>9, <1>10, <2>1, <2>2, QuietKeeps
<1> QED
  BY <1>11, <1>12

LEMMA CloseKeeps ==
  ASSUME PreviewInv, Close
  PROVE  PreviewInv'
<1> USE PreviewAssumption DEF PreviewInv
<1>1. Main \in Op /\ op[Main] \in OpState /\ Fits(op[Main]) /\ op[Main].pc = "idle"
  BY DEF Op, TypeOK, Fields, Roles, Close, At
<1>2. /\ UNCHANGED <<docker, inflight, swept, serving, faults, crashes>>
      /\ doomed' = workers /\ doomed = NoWorkers
      /\ closed' /\ ~closed /\ serving
  BY DEF Close, ClosedIsEmpty, boundVars
<1>3. \A r \in Project : workers'[r] = None /\ doomed[r] = None /\ doomed'[r] = workers[r]
  BY <1>2 DEF Close, NoWorkers
<1>4. op'[Main] = [op[Main] EXCEPT !.pc = "next"] /\ \A q \in Op : q # Main => op'[q] = op[q]
  BY <1>1 DEF Close, Step, TypeOK
<1>5. op'[Main] \in OpState /\ Fits(op'[Main]) /\ op'[Main].pc = "next"
  BY <1>1, <1>4 DEF OpState, PC, StartPC, ClosePC, Fits
<1>6. Nothing(op[Main]) /\ Nothing(op'[Main])
  BY <1>1, <1>5 DEF Fits, Nothing, StartPC, ClosePC
<1>7. \A q \in Op, k \in Kind : op'[q][k] = op[q][k]
  BY <1>4, <1>6 DEF Kind, Nothing
<1>8. \A q \in Op : op'[q].project = op[q].project \/ \A k \in Kind : op[q][k] = None
  BY <1>4, <1>6 DEF Kind, Nothing
<1>9. \A q \in Op :
        /\ Starting(q)' <=> Starting(q)
        /\ Starting(q) => op'[q].project = op[q].project
  BY <1>1, <1>4, <1>5 DEF Starting, StartPC
<1>10. TypeOK'
  <2>1. op' \in [Op -> OpState]
    BY <1>5 DEF Close, Step, TypeOK
  <2>2. workers' \in [Project -> Worker \cup {None}] /\ token' \in [Project -> TokenState]
    BY DEF Close, NoWorkers, TypeOK, TokenState
  <2> QED
    BY <1>2, <2>1, <2>2 DEF TypeOK
<1>11. OneStarter'
  <2>1. ASSUME NEW p \in Project, NEW q \in Op
        PROVE  (inflight[p] = q <=> Starting(q) /\ op[q].project = p)'
    BY <1>2, <1>9 DEF OneStarter
  <2> QED
    BY <1>3, <2>1 DEF OneStarter, Live
<1>12. EveryWorkerIsWatched' /\ WorkerKeepsItsContainers'
  BY <1>3 DEF Close, EveryWorkerIsWatched, WorkerKeepsItsContainers, Live
<1>13. Roles'
  BY <1>1, <1>2, <1>4, <1>5, RolesApart DEF Roles, At, Op, StartPC, ClosePC
<1>14. Fields'
  BY <1>4, <1>5 DEF Fields
<1>15. HeldOnce'
  BY <1>3, <1>7, <1>8 DEF HeldOnce, Live
<1>16. StartHasItsContainers'
  BY <1>2, <1>7, <1>9 DEF StartHasItsContainers
<1>17. NoneUnheld'
  <2> SUFFICES ASSUME serving', faults' = 0, NEW r \in Project, NEW k \in Kind,
                      docker'[r][k] # None
               PROVE  \/ doomed'[r] # None /\ doomed'[r][k] = docker'[r][k]
                      \/ \E q \in Op : op'[q].project = r /\ op'[q][k] = docker'[r][k]
    BY DEF NoneUnheld
  <2>1. \/ Live(r) /\ workers[r][k] = docker[r][k]
        \/ \E q \in Op : op[q].project = r /\ op[q][k] = docker[r][k]
    BY <1>2, <1>3 DEF NoneUnheld
  <2> QED
    BY <1>2, <1>3, <1>7, <1>8, <2>1 DEF Live
<1>18. ClosedIsEmpty' /\ BootIsQuiet'
  BY <1>2 DEF Close, ClosedIsEmpty, BootIsQuiet
<1> QED
  BY <1>10, <1>11, <1>12, <1>13, <1>14, <1>15, <1>16, <1>17, <1>18

\* A process that has just begun.
LEMMA NewManagerIsFine == NewManager /\ TypeOK /\ ~serving => PreviewInv
<1> SUFFICES ASSUME NewManager, TypeOK, ~serving PROVE PreviewInv
  OBVIOUS
<1> USE PreviewAssumption
<1>1. \A p \in Project : ~Live(p) /\ inflight[p] = None /\ token[p] = "none" /\ doomed[p] = None
  BY DEF NewManager, NoWorkers, Live
<1>2. \A o \in Op : op[o].pc = "idle" /\ op[o].sidecar = None /\ op[o].relay = None
  BY DEF NewManager, IdleOp
<1>3. \A o \in Op : ~Starting(o) /\ o # None
  BY <1>2 DEF Starting, StartPC
<1>4. \A o \in Op, k \in Kind : op[o][k] = None
  BY <1>2 DEF Kind
<1>5. OneStarter /\ EveryWorkerIsWatched /\ WorkerKeepsItsContainers
  BY <1>1, <1>3 DEF OneStarter, EveryWorkerIsWatched, WorkerKeepsItsContainers
<1>6. Roles
  BY <1>2 DEF Roles, At, StartPC, ClosePC, NewManager, Op
<1>7. Fields
  BY <1>2 DEF Fields, Fits, StartPC, ClosePC
<1>8. HeldOnce /\ StartHasItsContainers /\ NoneUnheld
  BY <1>3, <1>4 DEF HeldOnce, StartHasItsContainers, NoneUnheld
<1>9. ClosedIsEmpty /\ BootIsQuiet
  BY DEF ClosedIsEmpty, BootIsQuiet, NewManager
<1> QED
  BY <1>5, <1>6, <1>7, <1>8, <1>9 DEF PreviewInv

BoundsOK ==
  /\ docker \in DockerState /\ serving \in BOOLEAN
  /\ faults \in 0..MaxFaults /\ crashes \in 0..MaxCrashes

LEMMA NewManagerTypes == NewManager /\ BoundsOK => TypeOK
<1> SUFFICES ASSUME NewManager, BoundsOK PROVE TypeOK
  OBVIOUS
<1>1. op \in [Op -> OpState]
  <2>1. IdleOp \in OpState
    BY DEF IdleOp, OpState, PC, StartPC, ClosePC, MaybeId
  <2> QED
    BY <2>1 DEF NewManager
<1> QED
  BY <1>1 DEF NewManager, NoWorkers, TypeOK, TokenState, DockerState, BoundsOK

LEMMA NewProcessKeeps ==
  ASSUME PreviewInv, NewProcess, crashes' \in 0..MaxCrashes
  PROVE  PreviewInv'
<1>1. NewManager' /\ ~serving'
  BY DEF NewManager, NewProcess, NoWorkers
<1>2. BoundsOK'
  BY DEF PreviewInv, TypeOK, NewProcess, DockerState, BoundsOK
<1>3. (NewManager /\ BoundsOK => TypeOK)' /\ (NewManager /\ TypeOK /\ ~serving => PreviewInv)'
  BY NewManagerTypes, NewManagerIsFine, PTL
<1> QED
  BY <1>1, <1>2, <1>3

LEMMA SweepContainersKeeps ==
  ASSUME PreviewInv, SweepContainers
  PROVE  PreviewInv'
<1> USE PreviewAssumption DEF PreviewInv
<1>1. UNCHANGED <<managerVars, op, crashes>> /\ serving' /\ ~serving
  BY DEF SweepContainers
<1>2. liveSlugs = {}
  BY <1>1 DEF BootIsQuiet, NoWorkers, liveSlugs, Live
<1>3. PICK failed \in SUBSET (Project \X {"sidecar", "relay"}) :
        /\ IF failed = {} THEN UNCHANGED faults ELSE Fault
        /\ docker' = [p \in Project |->
             [kind \in {"sidecar", "relay"} |->
                IF p \in liveSlugs \/ <<p, kind>> \in failed
                THEN docker[p][kind] ELSE None]]
  BY DEF SweepContainers
<1>4. faults' \in 0..MaxFaults
  BY <1>3 DEF Fault, TypeOK
<1>5. docker' \in DockerState
  <2>1. ASSUME NEW p \in Project
        PROVE  docker'[p] \in [sidecar: MaybeId, relay: MaybeId]
    BY <1>3 DEF TypeOK, MaybeId
  <2> QED
    BY <1>3, <2>1 DEF DockerState
<1>6. faults' = 0 => \A p \in Project, k \in Kind : docker'[p][k] = None
  BY <1>2, <1>3 DEF Fault, TypeOK, Kind
<1>7. TypeOK'
  BY <1>1, <1>4, <1>5 DEF TypeOK, managerVars, DockerState
<1>8. OneStarter' /\ EveryWorkerIsWatched' /\ ClosedIsEmpty' /\ BootIsQuiet'
  BY <1>1 DEF OneStarter, EveryWorkerIsWatched, ClosedIsEmpty, BootIsQuiet, Live, Starting, managerVars
<1>9. Roles' /\ Fields' /\ HeldOnce'
  BY <1>1 DEF Roles, Fields, HeldOnce, Live, At, managerVars
<1>10. WorkerKeepsItsContainers'
  BY <1>1 DEF BootIsQuiet, NoWorkers, WorkerKeepsItsContainers, Live, managerVars
<1>11. StartHasItsContainers'
  BY <1>1 DEF BootIsQuiet, IdleOp, StartHasItsContainers, Starting, StartPC
<1>12. NoneUnheld'
  BY <1>6 DEF NoneUnheld
<1> QED
  BY <1>7, <1>8, <1>9, <1>10, <1>11, <1>12

-----------------------------------------------------------------------------
(* A start begins                                                            *)

LEMMA EnsureStartsKeeps ==
  ASSUME PreviewInv, NEW o \in Caller, NEW p \in Project, EnsureStarts(o, p)
  PROVE  PreviewInv'
<1> USE PreviewAssumption DEF PreviewInv
<1>o. o \in Op
  BY DEF Op
<1>1. /\ op'[o] = [IdleOp EXCEPT !.pc = "run", !.project = p]
      /\ \A q \in Op : q # o => op'[q] = op[q]
      /\ op[o].pc = "idle"
  BY <1>o DEF EnsureStarts, TypeOK, At
<1>2. TypeOK'
  BY <1>o DEF EnsureStarts, TypeOK, boundVars, OpState, IdleOp, PC, StartPC, ClosePC, MaybeId
<1>3. OneStarter'
  BY <1>o, <1>1 DEF EnsureStarts, OneStarter, Starting, IdleOp, Live, StartPC, TypeOK
<1>4. EveryWorkerIsWatched'
  BY DEF EnsureStarts, EveryWorkerIsWatched, Live
<1>5. WorkerKeepsItsContainers'
  BY DEF EnsureStarts, WorkerKeepsItsContainers, Live
<1>6. Roles'
  BY <1>1 DEF EnsureStarts, Roles, At, IdleOp, ClosePC, StartPC, Op
<1>a. op'[o] = [pc |-> "run", project |-> p, kind |-> "sidecar", sidecar |-> None,
                relay |-> None, back |-> "idle", call |-> None]
  BY <1>1 DEF IdleOp
<1>7. Fields'
  <2>1. Fits(op'[o])
    BY <1>a DEF Fits, ClosePC, StartPC
  <2>2. ASSUME NEW q \in Op, q # o PROVE Fits(op'[q])
    BY <1>1, <2>2 DEF Fields
  <2> QED
    BY <2>1, <2>2 DEF Fields
<1>8a. \A k \in Kind : op'[o][k] = None
  BY <1>a DEF Kind
<1>8. HeldOnce'
  BY <1>1, <1>8a DEF EnsureStarts, HeldOnce, Live
<1>9. StartHasItsContainers'
  BY <1>1, <1>8a DEF EnsureStarts, StartHasItsContainers, Starting
<1>10. NoneUnheld'
  BY <1>1 DEF EnsureStarts, NoneUnheld, Fields, Fits, Live, boundVars, IdleOp, Kind, StartPC, ClosePC
<1>11. ClosedIsEmpty' /\ BootIsQuiet'
  BY DEF EnsureStarts, ClosedIsEmpty, BootIsQuiet, boundVars
<1> QED
  BY <1>2, <1>3, <1>4, <1>5, <1>6, <1>7, <1>8, <1>9, <1>10, <1>11
-----------------------------------------------------------------------------
(* The theorems                                                              *)

LEMMA PreviewInit == Init => PreviewInv
<1> SUFFICES ASSUME Init PROVE PreviewInv
  OBVIOUS
<1>1. NewManager /\ ~serving
  BY DEF Init
<1>2. docker \in DockerState
  BY DEF Init, DockerState, MaybeId
<1>3. BoundsOK
  <2>1. serving \in BOOLEAN
    BY Zenon DEF Init
  <2>2. faults \in 0..MaxFaults /\ crashes \in 0..MaxCrashes
    BY PreviewAssumption, SMT DEF Init
  <2> QED
    BY <1>2, <2>1, <2>2 DEF BoundsOK
<1>4. TypeOK
  BY <1>1, <1>3, NewManagerTypes
<1> QED
  BY <1>1, <1>4, NewManagerIsFine

LEMMA PreviewNext == PreviewInv /\ [Next]_vars => PreviewInv'
<1> SUFFICES ASSUME PreviewInv, [Next]_vars PROVE PreviewInv'
  OBVIOUS
<1>1. ASSUME NEW o \in Caller, NEW p \in Project,
             EnsureStarts(o, p) \/ EnsureJoins(o, p) \/ Stop(o, p)
      PROVE  PreviewInv'
  BY <1>1, EnsureStartsKeeps, JoinsKeeps, StopKeeps
<1>2. ASSUME NEW o \in Op, Advance(o) PROVE PreviewInv'
  BY <1>2, RunKeeps, HealKeeps, InspectSidecarKeeps, InspectRelayKeeps, CleanupKeeps,
     ReportKeeps, AnnounceKeeps, CloseRelayKeeps, CloseSidecarKeeps DEF Advance, Start
<1>3. CASE Sweeping
  BY <1>3, SweepKeeps, SweepStopKeeps DEF Sweeping
<1>4. ASSUME NEW p \in Project,
             TokenOrMint(p) \/ Touch(p) \/ Silence(p) \/ CloseNext(p)
      PROVE  PreviewInv'
  BY <1>4, TokenStepsKeep, CloseNextKeeps
<1>5. CASE Close
  BY <1>5, CloseKeeps
<1>6. CASE Exit \/ Crash
  <2>1. NewProcess /\ crashes' \in 0..MaxCrashes
    BY <1>6, PreviewAssumption DEF Exit, Crash, PreviewInv, TypeOK
  <2> QED
    BY <2>1, NewProcessKeeps
<1>7. CASE SweepContainers
  BY <1>7, SweepContainersKeeps
<1>8. CASE UNCHANGED vars
  <2>1. UNCHANGED <<docker, workers, inflight, closed, swept, doomed, op, boundVars>>
        /\ UNCHANGED token
    BY <1>8 DEF vars, boundVars
  <2>2. EveryWorkerIsWatched' /\ token' \in [Project -> TokenState]
    BY <2>1 DEF PreviewInv, TypeOK, EveryWorkerIsWatched, Live
  <2> QED
    BY <2>1, <2>2, TokensKeep
<1> QED
  BY <1>1, <1>2, <1>3, <1>4, <1>5, <1>6, <1>7, <1>8 DEF Next

\* The inductive invariant holds in every state.
THEOREM PreviewInvariant == Spec => []PreviewInv
<1> QED
  BY PreviewInit, PreviewNext, PTL DEF Spec

\* The manager's maps, the tokens and Docker's names keep their types.
THEOREM PreviewTypes == Spec => []TypeOK
<1>1. PreviewInv => TypeOK
  BY DEF PreviewInv
<1> QED
  BY <1>1, PreviewInvariant, PTL

\* Ensure: at most one start of a project is in flight, and none while it has
\* a worker, whoever asks, stops, sweeps or crashes in between.
THEOREM OneStarterHolds == Spec => []OneStarter
<1>1. PreviewInv => OneStarter
  BY DEF PreviewInv
<1> QED
  BY <1>1, PreviewInvariant, PTL

\* dockerWorker.Close and the factory's clean-up never remove a container that
\* a live worker serves from, even when they come late.
THEOREM WorkersKeepTheirContainers == Spec => []WorkerKeepsItsContainers
<1>1. PreviewInv => WorkerKeepsItsContainers
  BY DEF PreviewInv
<1> QED
  BY <1>1, PreviewInvariant, PTL

\* TokenOrMint, Touch, Sweep and Stop: every worker has a token that can
\* expire, or the sweeper is about to stop it.
THEOREM EveryWorkerWatched == Spec => []EveryWorkerIsWatched
<1>1. PreviewInv => EveryWorkerIsWatched
  BY DEF PreviewInv
<1> QED
  BY <1>1, PreviewInvariant, PTL

\* While every removal succeeds, no container outlives whoever is to remove it,
\* across any number of crashes.
THEOREM ContainersNeverLeak == Spec => []NoContainerLeaks
<1>1. PreviewInv => NoContainerLeaks
  <2> SUFFICES ASSUME PreviewInv, serving, faults = 0,
                      NEW p \in Project, NEW k \in Kind, docker[p][k] # None
               PROVE  \/ \E w \in Owned : w[k] = docker[p][k]
                      \/ \E o \in Op : op[o][k] = docker[p][k]
    BY DEF NoContainerLeaks, Kind
  <2>1. \/ Live(p) /\ workers[p][k] = docker[p][k]
        \/ doomed[p] # None /\ doomed[p][k] = docker[p][k]
        \/ \E o \in Op : op[o].project = p /\ op[o][k] = docker[p][k]
    BY DEF PreviewInv, NoneUnheld
  <2> QED
    BY <2>1 DEF Owned, Live
<1> QED
  BY <1>1, PreviewInvariant, PTL
-----------------------------------------------------------------------------
(* What the manager promises: OnePreview                                    *)

\* The in-flight map says who starts a project's preview.
LEMMA StartingIsInflight == TypeOK /\ OneStarter => starting = inflight
<1> SUFFICES ASSUME TypeOK, OneStarter PROVE starting = inflight
  OBVIOUS
<1>1. ASSUME NEW p \in Project
      PROVE  inflight[p] = IF \E o \in Op : Starting(o) /\ op[o].project = p
                           THEN CHOOSE o \in Op : Starting(o) /\ op[o].project = p
                           ELSE None
  <2>1. inflight[p] \in Op \cup {None} /\ None \notin Op
    BY PreviewAssumption DEF TypeOK
  <2>2. \A o \in Op : Starting(o) /\ op[o].project = p <=> inflight[p] = o
    BY DEF OneStarter
  <2>3. CASE inflight[p] = None
    BY <2>1, <2>2, <2>3
  <2>4. CASE inflight[p] \in Op
    BY <2>2, <2>4
  <2> QED
    BY <2>1, <2>3, <2>4
<1>2. inflight = [p \in Project |-> inflight[p]]
  BY DEF TypeOK
<1> QED
  BY <1>1, <1>2 DEF starting

\* A step that registers nobody moves containers only, and none of a live worker.
LEMMA MovesContainers ==
  ASSUME TypeOK', WorkerKeepsItsContainers', starting' = starting, workers' = workers
  PROVE  Promised!Move
<1>1. docker' \in [Project -> [sidecar: Id \cup {None}, relay: Id \cup {None}]]
  BY DEF TypeOK, MaybeId
<1>2. ASSUME NEW p \in Project, workers[p] # None PROVE Promised!Runs(p, workers[p])'
  BY <1>2 DEF WorkerKeepsItsContainers, Live, Promised!Runs
<1> QED
  BY <1>1, <1>2 DEF Promised!Move

LEMMA HaltsPreviews ==
  ASSUME NEW S \in SUBSET Project, starting' = starting, docker' = docker,
         workers' = [p \in Project |-> IF p \in S THEN None ELSE workers[p]]
  PROVE  Promised!Next
BY DEF Promised!Next, Promised!Halt

LEMMA TakeHalts ==
  ASSUME TypeOK, NEW p \in Project, Take(p), starting' = starting, docker' = docker
  PROVE  Promised!Next
<1>1. workers' = [q \in Project |-> IF q \in {p} THEN None ELSE workers[q]]
  BY DEF Take, TypeOK
<1>2. {p} \in SUBSET Project
  OBVIOUS
<1> QED
  BY <1>1, <1>2, HaltsPreviews

LEMMA EnsureBegins ==
  ASSUME PreviewInv, starting = inflight, starting' = inflight',
         NEW o \in Caller, NEW p \in Project, EnsureStarts(o, p)
  PROVE  Promised!Next
<1>1. o \in Op /\ ~Starting(o)
  BY DEF EnsureStarts, At, Starting, StartPC, Op
<1>2. \A q \in Project : inflight[q] # o
  BY <1>1 DEF PreviewInv, OneStarter
<1>3. Promised!Begin(p, o)
  BY <1>2 DEF EnsureStarts, Live, Promised!Begin
<1> QED
  BY <1>3 DEF Promised!Next

LEMMA ReportFinishes ==
  ASSUME PreviewInv, starting = inflight, starting' = inflight', NEW o \in Op, Report(o)
  PROVE  Promised!Next
<1> DEFINE p == op[o].project
           w == [sidecar |-> op[o].sidecar, relay |-> op[o].relay]
<1>1. Starting(o) /\ p \in Project
  BY DEF Report, At, Starting, StartPC, PreviewInv, Fields, Fits
<1>2. inflight[p] = o /\ o # None
  BY <1>1, PreviewAssumption DEF PreviewInv, OneStarter
<1>3. inflight' = [inflight EXCEPT ![p] = None] /\ docker' = docker
  BY DEF Report
<1>4. \/ workers' = workers
      \/ w \in Promised!Worker /\ Promised!Runs(p, w) /\ workers[p] = None
         /\ workers' = [workers EXCEPT ![p] = w]
  <2>1. CASE Started(o) /\ ~closed /\ ~Live(p)
    <3>1. op[o].sidecar \in MaybeId /\ op[o].relay \in MaybeId
      BY DEF PreviewInv, TypeOK, OpState
    <3>2. w \in Promised!Worker
      BY <2>1, <3>1 DEF Started, MaybeId, Promised!Worker
    <3>3. Promised!Runs(p, w)
      BY <1>1, <2>1 DEF PreviewInv, StartHasItsContainers, Kind, Started, Promised!Runs
    <3> QED
      BY <2>1, <3>2, <3>3 DEF Report, Live
  <2>2. CASE ~(Started(o) /\ ~closed /\ ~Live(p))
    BY <2>2 DEF Report
  <2> QED
    BY <2>1, <2>2
<1> HIDE DEF w, p
<1>5. Promised!Finish(p)
  BY <1>2, <1>3, <1>4 DEF Promised!Finish
<1> QED
  BY <1>1, <1>5 DEF Promised!Next, p

LEMMA DiesAll ==
  ASSUME NewProcess, starting' = inflight'
  PROVE  Promised!Next
BY DEF NewProcess, NoWorkers, Promised!Next, Promised!Die, Promised!Nobody

LEMMA PreviewSimulates ==
  PreviewInv /\ [Next]_vars => [Promised!Next]_(Promised!previewVars)
<1> SUFFICES ASSUME PreviewInv, [Next]_vars
             PROVE  [Promised!Next]_(Promised!previewVars)
  OBVIOUS
<1>1. TypeOK' /\ OneStarter' /\ WorkerKeepsItsContainers'
  BY PreviewNext DEF PreviewInv
<1>2. starting = inflight
  BY StartingIsInflight DEF PreviewInv
<1>3. starting' = inflight'
  <2>1. (TypeOK /\ OneStarter => starting = inflight)'
    BY StartingIsInflight, PTL
  <2> QED
    BY <1>1, <2>1
<1>4. CASE UNCHANGED <<workers, inflight>>
  <2>1. Promised!Move
    BY <1>1, <1>2, <1>3, <1>4, MovesContainers
  <2> QED
    BY <2>1 DEF Promised!Next
<1>5. ASSUME NEW o \in Caller, NEW p \in Project,
             EnsureStarts(o, p) \/ EnsureJoins(o, p) \/ Stop(o, p)
      PROVE  Promised!Next \/ UNCHANGED <<workers, inflight>>
  <2>1. CASE EnsureStarts(o, p)
    BY <1>2, <1>3, <2>1, EnsureBegins
  <2>2. CASE EnsureJoins(o, p)
    BY <2>2 DEF EnsureJoins, managerVars
  <2>3. CASE Stop(o, p)
    BY <1>2, <1>3, <2>3, TakeHalts DEF Stop, PreviewInv
  <2> QED
    BY <1>5, <2>1, <2>2, <2>3
<1>6. ASSUME NEW o \in Op, Advance(o)
      PROVE  Promised!Next \/ UNCHANGED <<workers, inflight>>
  <2>1. CASE Report(o)
    BY <1>2, <1>3, <2>1, ReportFinishes
  <2>2. CASE ~Report(o)
    BY <1>6, <2>2 DEF Advance, Start, Run, Heal, Rerun, InspectSidecar, InspectRelay, Cleanup,
       Announce, CloseRelay, CloseSidecar, managerVars
  <2> QED
    BY <2>1, <2>2
<1>7. CASE Sweeping
  <2>1. CASE Sweep \/ SweepDone
    BY <1>4, <2>1 DEF Sweep, SweepDone, managerVars
  <2>2. ASSUME NEW p \in Project, SweepStop(p)
        PROVE  Promised!Next \/ UNCHANGED <<workers, inflight>>
    BY <1>2, <1>3, <2>2, TakeHalts DEF SweepStop, PreviewInv
  <2> QED
    BY <1>4, <1>7, <2>1, <2>2 DEF Sweeping
<1>8. ASSUME NEW p \in Project,
             TokenOrMint(p) \/ Touch(p) \/ Silence(p) \/ CloseNext(p)
      PROVE  UNCHANGED <<workers, inflight>>
  BY <1>8 DEF TokenOrMint, Touch, Silence, CloseNext
<1>9. CASE Close
  <2>1. workers' = [p \in Project |-> IF p \in Project THEN None ELSE workers[p]]
    BY <1>9 DEF Close, NoWorkers
  <2>2. Project \in SUBSET Project /\ starting' = starting /\ docker' = docker
    BY <1>2, <1>3, <1>9 DEF Close
  <2> QED
    BY <2>1, <2>2, HaltsPreviews
<1>10. CASE Exit \/ Crash
  BY <1>3, <1>10, DiesAll DEF Exit, Crash
<1>11. CASE SweepContainers
  BY <1>4, <1>11 DEF SweepContainers, managerVars
<1>12. CASE UNCHANGED vars
  BY <1>4, <1>12 DEF vars
<1> QED
  BY <1>4, <1>5, <1>6, <1>7, <1>8, <1>9, <1>10, <1>11, <1>12 DEF Next

\* PreviewManager implements OnePreview, for any projects, requests and ids: Ensure hands
\* out one start at a time, what Report registers runs, and no later close, clean-up or
\* self-heal removes it.
THEOREM PreviewRefinesOnePreview == Spec => RefinesOnePreview
<1>1. Init => Promised!Init
  <2> SUFFICES ASSUME Init PROVE Promised!Init
    OBVIOUS
  <2>1. \A o \in Op : ~Starting(o)
    BY DEF Init, NewManager, IdleOp, Starting, StartPC
  <2>2. starting = [p \in Project |-> None]
    BY <2>1 DEF starting
  <2> QED
    BY <2>2 DEF Init, NewManager, NoWorkers, Promised!Init, Promised!Nobody
<1>2. PreviewInv /\ [Next]_vars => [Promised!Next]_(Promised!previewVars)
  BY PreviewSimulates
<1> QED
  BY <1>1, <1>2, PreviewInvariant, PTL DEF Spec, RefinesOnePreview, Promised!Spec
=============================================================================
