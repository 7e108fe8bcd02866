------------------------------ MODULE OnePreview ------------------------------
(***************************************************************************)
(* What the preview manager promises of each project, without its mutex,   *)
(* tokens, sweeper or shutdown.  A preview is off, being started by one    *)
(* request, or on with the containers that this request has run.  While it *)
(* is on, its containers stay; while it is not, they come and go under     *)
(* their names.  It can be stopped at any moment, and at any moment        *)
(* everything can die but the containers.                                  *)
(***************************************************************************)

CONSTANTS Project, Request, Id, None

VARIABLES
  starter,  \* [Project -> Request \cup {None}]: who starts the preview
  engine,   \* [Project -> Worker \cup {None}]: what it is on with
  names     \* [Project -> [sidecar, relay: Id \cup {None}]]: the containers there are

previewVars == <<starter, engine, names>>

Worker == [sidecar: Id, relay: Id \cup {None}]

Nobody == [p \in Project |-> None]

Init ==
  /\ starter = Nobody /\ engine = Nobody
  /\ names = [p \in Project |-> [sidecar |-> None, relay |-> None]]

\* A request starts one preview at a time, one that is off.
Begin(p, o) ==
  /\ starter[p] = None /\ engine[p] = None
  /\ \A q \in Project : starter[q] # o
  /\ starter' = [starter EXCEPT ![p] = o]
  /\ UNCHANGED <<engine, names>>

\* The containers of w are there.
Runs(p, w) ==
  /\ names[p].sidecar = w.sidecar
  /\ w.relay # None => names[p].relay = w.relay

\* Its start ends: with a worker whose containers are there, or with none.
Finish(p) ==
  /\ starter[p] # None
  /\ starter' = [starter EXCEPT ![p] = None]
  /\ \/ UNCHANGED engine
     \/ \E w \in Worker :
          Runs(p, w) /\ engine[p] = None /\ engine' = [engine EXCEPT ![p] = w]
  /\ UNCHANGED names

\* Some previews are stopped; starts go on.
Halt(S) ==
  /\ engine' = [p \in Project |-> IF p \in S THEN None ELSE engine[p]]
  /\ UNCHANGED <<starter, names>>

\* Containers come and go, but not those of a preview that is on.
Move ==
  /\ names' \in [Project -> [sidecar: Id \cup {None}, relay: Id \cup {None}]]
  /\ \A p \in Project : engine[p] # None => Runs(p, engine[p])'
  /\ UNCHANGED <<starter, engine>>

\* The server dies: starts and previews with it, the containers not.
Die ==
  /\ starter' = Nobody /\ engine' = Nobody
  /\ UNCHANGED names

Next ==
  \/ \E p \in Project : (\E o \in Request : Begin(p, o)) \/ Finish(p)
  \/ \E S \in SUBSET Project : Halt(S)
  \/ Move
  \/ Die

Spec == Init /\ [][Next]_previewVars
=============================================================================
