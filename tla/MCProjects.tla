-------------------------------- MODULE MCProjects --------------------------------
(***************************************************************************)
(* The lifecycle of projects, the sessions of a project and its Work Sync, *)
(* three components that share no variable, in one run: a behaviour moves  *)
(* one of them and leaves the other two in an initial state.               *)
(***************************************************************************)
EXTENDS Projects, Sessions, Sync, TLC

CONSTANTS main2, work, h1   \* model values: two session names and a plugin

VARIABLE focus

\* work is named after the plugin, and main2 begins with main, so that a command on main
\* may hit it.
MCBaseOf == (MainName :> Shell) @@ (main2 :> Shell) @@ (work :> h1)

MCLonger == [n \in Name |-> IF n = MainName THEN {main2} ELSE {}]

\* The requests, the clients and the codes have the same names, so that one exchange
\* of two names serves the three components.
MCSymmetry == Permutations(Caller)

SessionsAtRest == mixed = {} /\ marks = [h \in Harness |-> "none"]
SyncAtRest == files = [s \in Side |-> [p \in Path |-> Absent]]

MCInit ==
  /\ focus \in {"projects", "sessions", "sync"}
  /\ Init /\ SessionsInit /\ SyncInit
  /\ focus # "sessions" => SessionsAtRest
  /\ focus # "sync" => SyncAtRest

MCNext ==
  \/ focus = "projects" /\ Next /\ UNCHANGED <<focus, svars, syncvars>>
  \/ focus = "sessions" /\ SessionsNext /\ UNCHANGED <<focus, pvars, syncvars>>
  \/ focus = "sync" /\ SyncNext /\ UNCHANGED <<focus, pvars, svars>>

MCSpec == MCInit /\ [][MCNext]_<<focus, pvars, svars, syncvars>>

\* Everything has its type: between the steps of a request too, a project's record,
\* container and volumes, a session's marks and names, and a code's session are in
\* states that the program knows.
TypeOK == ProjectsTypeOK /\ SessionsTypeOK /\ SyncTypeOK
===================================================================================
