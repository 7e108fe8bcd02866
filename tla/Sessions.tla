-------------------------------- MODULE Sessions --------------------------------
(***************************************************************************)
(* The sessions of one project (httpapi/terminal.go over session.Service), *)
(* the plugins of the harness registry and their installs.  tmux in the    *)
(* container says which sessions there are; state.json records what each   *)
(* name runs, so that a name can be run again after its session is gone.   *)
(* No lock spans the two: each tmux command and each save is one step.     *)
(* A command with -t takes a name that tmux has, or else the only session  *)
(* whose name begins with it; a new name is taken as it is.                *)
(***************************************************************************)
EXTENDS FiniteSets, Naturals

CONSTANTS
  Name,          \* the session names
  MainName,      \* "main", the default session
  Longer,        \* [Name -> SUBSET Name]: the other names that begin with a name
  Harness,       \* the plugin ids
  Builtin,       \* the ones the server ships
  BaseOf,        \* [Name -> Harness \cup {Shell}]: ParseBase, Shell if it names no plugin
  Shell,         \* the kind of a plain shell
  Gone,          \* no session, or no record of one
  Client,        \* the requests that may be under way at once
  Crowd,         \* bound on the names that requests under way at once are about
  MaxMishaps     \* bound on lost containers, dead sessions, failed saves, crashes and
                 \* removed plugins

ASSUME SessionAssumption ==
  /\ MainName \in Name
  /\ Longer \in [Name -> SUBSET Name]
  /\ Builtin \subseteq Harness
  /\ {Shell, Gone} \cap Harness = {} /\ Shell # Gone
  /\ BaseOf \in [Name -> Harness \cup {Shell}]
  /\ Gone \notin Name
  /\ Crowd \subseteq Name
  /\ MaxMishaps \in Nat

VARIABLES
  tmux,      \* [Name -> SessionKind \cup {Gone}]: the sessions of the tmux server
  dead,      \* those whose pane outlived its command (remain-on-exit)
  meta,      \* [Name -> SessionKind \cup {Gone}]: Project.Sessions in state.json
  registry,  \* SUBSET Harness: Document.Harnesses
  marks,     \* [Harness -> {"none", "installing", "true"}]: Project.Harnesses
  binary,    \* SUBSET Harness: whose command is found in the container
  request,   \* [Client -> Request]
  boot,      \* the server's start: "clear", "install", "bumpy" (an install that a
             \* mishap has met) or "served"
  toInstall, \* what the boot still has to install
  mishaps,
  mixed,     \* (history) names that two requests met on, that a crash or a failed save
             \* left between two steps, or that a rename gave to another's session
  dropped,   \* (history) plugins that were removed at some time
  stuck      \* (history) plugins whose mark outlived a clear that failed

tvars == <<tmux, dead>>
svars == <<tmux, dead, meta, registry, marks, binary, request, boot, toInstall,
           mishaps, mixed, dropped, stuck>>

SessionKind == Harness \cup {Shell}

Request ==
  [op: {"none", "attach", "ensure", "launch", "rename", "kill", "delete", "restart",
        "revive", "install", "repair"},
   at: {"idle", "exists", "look", "kill", "count", "resolve", "launch", "shell", "forget",
        "mark", "record", "rename", "move", "remove", "run", "note", "clear"},
   n: Name \cup {Gone}, to: Name \cup {Gone},
   h: SessionKind \cup {Gone},
   new: BOOLEAN]     \* the body asks for a new session

NoRequest ==
  [op |-> "none", at |-> "idle", n |-> Gone, to |-> Gone, h |-> Gone, new |-> FALSE]

\* A start with or without recorded installs and the mark of one that a crash cut off,
\* in a new container, or in one with a session from before sessions were recorded.
SessionsInit ==
  /\ mixed \in {{}} \cup {{n} : n \in Name}
  /\ tmux = [n \in Name |-> IF n \in mixed THEN BaseOf[n] ELSE Gone]
  /\ dead = {}
  /\ meta = [n \in Name |-> Gone]
  /\ registry = Builtin
  /\ marks \in [Harness -> {"none", "installing", "true"}]
  /\ \A h \in Harness \ registry : marks[h] = "none"
  /\ binary = {}
  /\ request = [c \in Client |-> NoRequest]
  /\ boot = "clear"
  /\ toInstall = {}
  /\ mishaps = 0
  /\ dropped = {}
  /\ stuck = {}

-----------------------------------------------------------------------------
(* Requests                                                                *)

Working(c) == request[c].at # "idle"

Names(c) == {request[c].n, request[c].to} \ {Gone}

InUse(n) == \E c \in Client : n \in Names(c)

\* What the picker shows: tmux and state.json together.
Known == {n \in Name : tmux[n] # Gone \/ meta[n] # Gone}

\* The session that tmux takes for a name: the one that has it, or else the only one
\* whose name begins with it.
Hits(n) ==
  IF tmux[n] # Gone THEN {n}
  ELSE {m \in Longer[n] : tmux[m] # Gone /\ \A k \in Longer[n] \ {m} : tmux[k] = Gone}

Mishap == mishaps < MaxMishaps /\ mishaps' = mishaps + 1

NoMishap == mishaps' = mishaps

\* A bound: no request starts beside another after a mishap, or where a name outside
\* of Crowd is in use.
Roomy(r) ==
  \/ \A d \in Client : ~Working(d)
  \/ /\ mishaps = 0
     /\ Known \cup (UNION {Names(d) : d \in Client}) \cup ({r.n, r.to} \ {Gone}) \subseteq Crowd

Open(c, r) ==
  /\ boot = "served"
  /\ ~Working(c) /\ Roomy(r)
  /\ request' = [request EXCEPT ![c] = r]
  /\ LET own == {r.n, r.to} \ {Gone}
         met == {d \in Client : Names(d) \cap own # {}}
     IN mixed' = IF met = {} THEN mixed ELSE mixed \cup own \cup UNION {Names(d) : d \in met}
  /\ UNCHANGED <<tvars, meta, registry, marks, binary, boot, toInstall, mishaps, dropped, stuck>>

Step(c, at) ==
  /\ request[c].at = at
  /\ at # "clear" => UNCHANGED stuck
  /\ UNCHANGED <<registry, boot, toInstall, dropped>>

To(c, at) == request' = [request EXCEPT ![c].at = at]

With(c, at, h) == request' = [request EXCEPT ![c].at = at, ![c].h = h, ![c].new = FALSE]

Moved(c, r) == request' = [request EXCEPT ![c] = r]

Done(c) == Moved(c, NoRequest)

\* Names that something met on, until they are at rest and in agreement again.
Mixing(S) ==
  mixed' = {n \in mixed \cup S :
              \/ \E c \in Client : n \in {request'[c].n, request'[c].to}
              \/ tmux'[n] # Gone /\ meta'[n] # tmux'[n]}

Attach(c, n) == Open(c, [NoRequest EXCEPT !.op = "attach", !.at = "exists", !.n = n])

Ensure(c, n, new) ==
  Open(c, [NoRequest EXCEPT !.op = "ensure", !.at = "exists", !.n = n, !.new = new])

\* With a name of its own, or with the lowest <id>-<n> that tmux has free.  A name of
\* its own is looked up first: that look only ends the request earlier.
LaunchHarness(c, n, h) ==
  /\ h \in registry
  /\ Open(c, [NoRequest EXCEPT !.op = "launch", !.at = "launch", !.n = n, !.h = h])

Rename(c, n, m) ==
  Open(c, [NoRequest EXCEPT !.op = "rename", !.at = "look", !.n = n, !.to = m])

Kill(c, n) == Open(c, [NoRequest EXCEPT !.op = "kill", !.at = "kill", !.n = n])

DeleteSession(c, n) == Open(c, [NoRequest EXCEPT !.op = "delete", !.at = "count", !.n = n])

RestartSession(c, n) == Open(c, [NoRequest EXCEPT !.op = "restart", !.at = "kill", !.n = n])

-----------------------------------------------------------------------------
(* Their steps                                                             *)

\* The look at tmux by which who wants a session to be there goes on.
Exists(c) ==
  LET r == request[c]
      hit == Hits(r.n)
  IN
  /\ Step(c, "exists")
  /\ CASE hit = {} -> To(c, "resolve")
       [] r.op = "ensure" /\ hit # {} /\ hit \subseteq dead -> To(c, "kill")
       [] OTHER -> Done(c)
  /\ NoMishap
  /\ UNCHANGED <<tvars, meta, marks, binary>>
  /\ Mixing({})

\* A rename wants the old name to be there and the new one not to be.
RenameLooks(c) ==
  LET r == request[c] IN
  /\ Step(c, "look")
  /\ IF Hits(r.n) # {} /\ Hits(r.to) = {} THEN To(c, "rename") ELSE Done(c)
  /\ NoMishap
  /\ UNCHANGED <<tvars, meta, marks, binary>>
  /\ Mixing({})

\* A session that is gone already is killed with success, unless it was the last: where
\* no tmux server runs the command fails, which a restart and an ensure ignore.
KillSession(c) ==
  LET r == request[c]
      hit == Hits(r.n)
      served == \E n \in Name : tmux[n] # Gone
      next == CASE r.op = "kill" -> NoRequest
                [] r.op = "delete" -> [r EXCEPT !.at = "remove"]
                [] r.op = "restart" -> [r EXCEPT !.at = "resolve"]
                [] r.op = "ensure" -> [r EXCEPT !.at = "resolve", !.op = "revive"]
  IN
  /\ Step(c, "kill")
  /\ tmux' = [n \in Name |-> IF n \in hit THEN Gone ELSE tmux[n]]
  /\ dead' = dead \ hit
  /\ Moved(c, IF ~served /\ r.op \in {"kill", "delete"} THEN NoRequest ELSE next)
  /\ NoMishap
  /\ UNCHANGED <<meta, marks, binary>>
  /\ Mixing({})

\* What a name runs: its record; else, once a session has been killed under it, the
\* plugin that its prefix names; else, if the request may make one, a plain shell.
Resolve(c) ==
  LET r == request[c]
      killed == r.op \in {"restart", "revive"}
      kind == IF meta[r.n] = Gone /\ killed THEN BaseOf[r.n] ELSE meta[r.n]
  IN
  /\ Step(c, "resolve")
  /\ CASE kind \in registry -> With(c, "launch", kind)
       [] kind \in Harness \ registry ->
            With(c, IF r.op \in {"ensure", "revive"} THEN "forget" ELSE "shell", Shell)
       [] kind = Shell -> With(c, "shell", Shell)
       [] kind = Gone ->
            IF r.op = "ensure" /\ (r.new \/ r.n = MainName)
            THEN With(c, "shell", Shell) ELSE Done(c)
  /\ NoMishap
  /\ UNCHANGED <<tvars, meta, marks, binary>>
  /\ Mixing({})

\* A plugin that is no longer registered: its stale record goes, or its save fails.
Forget(c) ==
  LET r == request[c] IN
  /\ Step(c, "forget")
  /\ meta' = [meta EXCEPT ![r.n] = Gone] \/ UNCHANGED meta
  /\ NoMishap
  /\ Moved(c, [r EXCEPT !.at = "shell"])
  /\ UNCHANGED <<tvars, marks, binary>>
  /\ Mixing({})

\* tmux refuses a name that is taken: success for who wants the session to be there.
CreateShell(c) ==
  LET r == request[c] IN
  /\ Step(c, "shell")
  /\ IF tmux[r.n] = Gone
     THEN /\ tmux' = [tmux EXCEPT ![r.n] = Shell]
          /\ Moved(c, IF r.op = "attach" THEN NoRequest ELSE [r EXCEPT !.at = "record"])
     ELSE /\ Done(c)
          /\ UNCHANGED tmux
  /\ NoMishap
  /\ UNCHANGED <<dead, meta, marks, binary>>
  /\ Mixing({})

\* LaunchNamed: the binary has to be there and to pass for a CLI.
LaunchNamed(c) ==
  LET r == request[c] IN
  /\ Step(c, "launch")
  /\ \/ /\ r.h \in binary
        /\ tmux[r.n] = Gone
        /\ tmux' = [tmux EXCEPT ![r.n] = r.h]
        /\ Moved(c, [r EXCEPT !.at = "mark"])
     \/ /\ r.h \in binary
        /\ tmux[r.n] # Gone
        /\ IF r.op = "attach" THEN To(c, "mark") ELSE Done(c)
        /\ UNCHANGED tmux
     \/ /\ Done(c)
        /\ UNCHANGED tmux
  /\ NoMishap
  /\ UNCHANGED <<dead, meta, marks, binary>>
  /\ Mixing({})

\* A launch proves that the binary is there.
RecordInstall(c) ==
  LET r == request[c] IN
  /\ Step(c, "mark")
  /\ \/ marks' = [marks EXCEPT ![r.h] = "true"] /\ NoMishap
     \/ Mishap /\ UNCHANGED marks
  /\ IF r.op = "attach" THEN Done(c) ELSE To(c, "record")
  /\ UNCHANGED <<tvars, meta, binary>>
  /\ Mixing({})

\* An error of the record is dropped, and the session runs unrecorded.
RecordSession(c) ==
  LET r == request[c] IN
  /\ Step(c, "record")
  /\ Moved(c, NoRequest)
  /\ UNCHANGED <<tvars, marks, binary>>
  /\ \/ meta' = [meta EXCEPT ![r.n] = r.h] /\ NoMishap /\ Mixing({})
     \/ Mishap /\ UNCHANGED meta /\ Mixing({r.n})

\* tmux refuses a new name that is taken, and renames whatever the old one hits.
RenameSession(c) ==
  LET r == request[c] IN
  /\ Step(c, "rename")
  /\ NoMishap
  /\ UNCHANGED <<meta, marks, binary>>
  /\ \/ \E m \in Hits(r.n) :
          /\ tmux[r.to] = Gone
          /\ tmux' = [tmux EXCEPT ![r.to] = tmux[m], ![m] = Gone]
          /\ dead' = {IF n = m THEN r.to ELSE n : n \in dead}
          /\ Moved(c, [r EXCEPT !.at = "move"])
          /\ Mixing(IF m # r.n \/ r.n \in mixed THEN {r.to} ELSE {})
     \/ /\ Hits(r.n) = {} \/ tmux[r.to] # Gone
        /\ Done(c)
        /\ UNCHANGED tvars
        /\ Mixing({})

\* The record is dropped under the old name, and the new one has none.
ForgetOldName(c) ==
  LET r == request[c] IN
  /\ Step(c, "move")
  /\ meta' = [meta EXCEPT ![r.n] = Gone]
  /\ Moved(c, NoRequest)
  /\ NoMishap
  /\ UNCHANGED <<tvars, marks, binary>>
  /\ Mixing({})

\* The record of the old name, if there is one, is written under the new name first.
MoveRecord(c) ==
  LET r == request[c] IN
  /\ Step(c, "move")
  /\ UNCHANGED <<tvars, marks, binary>>
  /\ IF meta[r.n] = Gone
     THEN Done(c) /\ NoMishap /\ UNCHANGED meta /\ Mixing({})
     ELSE /\ Moved(c, [r EXCEPT !.at = "remove"])
          /\ \/ /\ meta' = [meta EXCEPT ![r.to] = meta[r.n]]
                /\ NoMishap
                /\ Mixing({})
             \/ /\ Mishap
                /\ UNCHANGED meta
                /\ Mixing({r.to})

\* The last step of a rename and of a delete.
RemoveSession(c) ==
  LET r == request[c] IN
  /\ Step(c, "remove")
  /\ \/ meta' = [meta EXCEPT ![r.n] = Gone] /\ NoMishap
     \/ Mishap /\ UNCHANGED meta
  /\ Moved(c, NoRequest)
  /\ UNCHANGED <<tvars, marks, binary>>
  /\ Mixing({})

\* The last session is not deleted; tmux and the records are counted once.
CountSessions(c) ==
  /\ Step(c, "count")
  /\ IF Cardinality(Known) <= 1 THEN Done(c) ELSE To(c, "kill")
  /\ NoMishap
  /\ UNCHANGED <<tvars, meta, marks, binary>>
  /\ Mixing({})

-----------------------------------------------------------------------------
(* Plugins and installs                                                    *)

SaveHarness(h) ==
  /\ boot = "served"
  /\ h \notin registry
  /\ registry' = registry \cup {h}
  /\ UNCHANGED <<tvars, meta, marks, binary, request, boot, toInstall, mishaps, mixed, dropped,
                 stuck>>

RemoveHarness(h) ==
  /\ boot = "served"
  /\ Mishap
  /\ h \in registry
  /\ registry' = registry \ {h}
  /\ dropped' = dropped \cup {h}
  /\ UNCHANGED <<tvars, meta, marks, binary, request, boot, toInstall, mixed, stuck>>

\* An install that finds the mark of another is refused.
Install(c, h) ==
  /\ h \in registry
  /\ marks[h] # "installing"
  /\ Open(c, [NoRequest EXCEPT !.op = "install", !.at = "mark", !.h = h])

RecordInstalling(c) ==
  LET r == request[c] IN
  /\ Step(c, "mark")
  /\ \/ marks' = [marks EXCEPT ![r.h] = IF @ = "true" THEN @ ELSE "installing"] /\ NoMishap
     \/ Mishap /\ UNCHANGED marks
  /\ To(c, "run")
  /\ UNCHANGED <<tvars, meta, binary, mixed>>

\* The health repair installs a recorded plugin whose binary is missing, and
\* records a plugin whose binary is there.
Repair(c, h) ==
  /\ h \in registry
  /\ (h \in binary) # (marks[h] = "true")
  /\ marks[h] # "installing"
  /\ Open(c, [NoRequest EXCEPT !.op = "repair", !.h = h,
                               !.at = IF h \in binary THEN "note" ELSE "run"])

\* InstallHarness: the binary is found or put there, and then must pass for a CLI.
RunInstall(c) ==
  LET r == request[c] IN
  /\ Step(c, "run")
  /\ \/ /\ binary' = binary \cup {r.h}
        /\ IF r.op = "repair" THEN Done(c) ELSE To(c, "note")
     \/ /\ binary' \in {binary, binary \cup {r.h}}
        /\ IF r.op = "repair" THEN Done(c) ELSE To(c, "clear")
  /\ NoMishap
  /\ UNCHANGED <<tvars, meta, marks, mixed>>

NoteInstall(c) ==
  LET r == request[c] IN
  /\ Step(c, "note")
  /\ \/ marks' = [marks EXCEPT ![r.h] = "true"] /\ NoMishap
     \/ Mishap /\ UNCHANGED marks
  /\ IF r.op = "repair" THEN Done(c) ELSE To(c, "clear")
  /\ UNCHANGED <<tvars, meta, binary, mixed>>

\* An install that has failed leaves its mark.
ClearIfInstalled(c) ==
  LET r == request[c] IN
  /\ Step(c, "clear")
  /\ Done(c)
  /\ NoMishap
  /\ UNCHANGED <<tvars, meta, marks, binary, mixed, stuck>>

\* The deferred clear takes only an "installing" mark; its error is dropped.
ClearInstalling(c) ==
  LET r == request[c] IN
  /\ Step(c, "clear")
  /\ \/ /\ marks' = [marks EXCEPT ![r.h] = IF @ = "installing" THEN "none" ELSE @]
        /\ stuck' = stuck \ {r.h}
        /\ NoMishap
     \/ /\ Mishap
        /\ stuck' = stuck \cup {r.h}
        /\ UNCHANGED marks
  /\ Done(c)
  /\ UNCHANGED <<tvars, meta, binary, mixed>>

-----------------------------------------------------------------------------
(* The start of the server, and mishaps                                    *)

\* Builtins that are missing are registered again, and all marks of installs go; when
\* they cannot be saved the boot goes on with a warning.
BootClear ==
  /\ boot = "clear"
  /\ registry' = registry \cup Builtin
  /\ \/ /\ marks' = [h \in Harness |-> IF marks[h] = "installing" THEN "none" ELSE marks[h]]
        /\ stuck' = {}
        /\ NoMishap
     \/ /\ Mishap
        /\ stuck' = {h \in Harness : marks[h] = "installing"}
        /\ UNCHANGED marks
  /\ toInstall' = {h \in Harness : marks[h] = "true"}
  /\ boot' = "install"
  /\ UNCHANGED <<tvars, meta, binary, request, mixed, dropped>>

Bumpy == IF boot = "install" THEN "bumpy" ELSE boot

\* The boot takes the record for the binary.
BootTrustsRecord(h) ==
  /\ boot \in {"install", "bumpy"}
  /\ h \in toInstall
  /\ toInstall' = toInstall \ {h}
  /\ UNCHANGED <<tvars, meta, registry, marks, binary, request, boot, mishaps, mixed, dropped,
                 stuck>>

\* A plugin that is not registered any more is skipped; a failure does not end it.
BootInstall(h) ==
  /\ boot \in {"install", "bumpy"}
  /\ h \in toInstall
  /\ toInstall' = toInstall \ {h}
  /\ \/ /\ h \notin registry
        /\ NoMishap
        /\ UNCHANGED <<binary, boot>>
     \/ /\ h \in registry
        /\ binary' = binary \cup {h}
        /\ NoMishap
        /\ UNCHANGED boot
     \/ /\ h \in registry
        /\ Mishap
        /\ boot' = Bumpy
        /\ UNCHANGED binary
  /\ UNCHANGED <<tvars, meta, registry, marks, request, mixed, dropped, stuck>>

BootServe ==
  /\ boot \in {"install", "bumpy"}
  /\ toInstall = {}
  /\ boot' = "served"
  /\ UNCHANGED <<tvars, meta, registry, marks, binary, request, toInstall, mishaps, mixed, dropped,
                 stuck>>

\* Names of requests that a crash may cut off between two steps.
UnderWay == UNION {Names(c) : c \in Client}

ServerCrash ==
  /\ Mishap
  /\ boot' = "clear"
  /\ toInstall' = {}
  /\ request' = [c \in Client |-> NoRequest]
  /\ UNCHANGED <<tvars, meta, registry, marks, binary, dropped, stuck>>
  /\ Mixing(UnderWay)

\* A container that is rebuilt has no tmux server, and without its home volume no
\* binary of a plugin.
ContainerLost ==
  /\ Mishap
  /\ tmux' = [n \in Name |-> Gone]
  /\ dead' = {}
  /\ binary' \in {binary, {}}
  /\ boot' = Bumpy
  /\ UNCHANGED <<meta, registry, marks, request, toInstall, dropped, stuck>>
  /\ Mixing({})

\* A plain shell that exits closes its session; a plugin's pane stays when it dies.
SessionEnds(n) ==
  /\ tmux[n] # Gone /\ n \notin dead
  /\ Mishap
  /\ IF tmux[n] = Shell
     THEN tmux' = [tmux EXCEPT ![n] = Gone] /\ UNCHANGED dead
     ELSE dead' = dead \cup {n} /\ UNCHANGED tmux
  /\ UNCHANGED <<meta, registry, marks, binary, request, boot, toInstall, dropped, stuck>>
  /\ Mixing({})

-----------------------------------------------------------------------------
SessionRequest(c) ==
  \/ \E n \in Name :
       \/ Attach(c, n) \/ Kill(c, n) \/ DeleteSession(c, n) \/ RestartSession(c, n)
       \/ \E new \in {FALSE, n # MainName} : Ensure(c, n, new)
       \/ \E m \in Name \ {n} : Rename(c, n, m)
       \/ \E h \in Harness : LaunchHarness(c, n, h)
  \/ \E h \in Harness : Install(c, h) \/ Repair(c, h)

SessionStep(c) ==
  \/ Exists(c) \/ RenameLooks(c) \/ KillSession(c) \/ Resolve(c) \/ Forget(c)
  \/ CreateShell(c) \/ LaunchNamed(c) \/ RecordSession(c) \/ RenameSession(c)
  \/ MoveRecord(c) \/ RemoveSession(c) \/ CountSessions(c)
  \/ (request[c].op # "install" /\ RecordInstall(c))
  \/ (request[c].op = "install" /\ RecordInstalling(c))
  \/ RunInstall(c) \/ NoteInstall(c) \/ ClearInstalling(c)

SessionsNext ==
  \/ \E c \in Client : SessionRequest(c) \/ SessionStep(c)
  \/ \E h \in Harness : SaveHarness(h) \/ RemoveHarness(h) \/ BootInstall(h)
  \/ \E n \in Name : SessionEnds(n)
  \/ BootClear \/ BootServe \/ ServerCrash \/ ContainerLost

SessionsSpec == SessionsInit /\ [][SessionsNext]_svars

-----------------------------------------------------------------------------
(* Properties                                                              *)

\* The types of the sessions, their records, the marks and the requests.
SessionsTypeOK ==
  /\ tmux \in [Name -> SessionKind \cup {Gone}]
  /\ dead \subseteq {n \in Name : tmux[n] # Gone}
  /\ meta \in [Name -> SessionKind \cup {Gone}]
  /\ registry \subseteq Harness
  /\ marks \in [Harness -> {"none", "installing", "true"}]
  /\ binary \subseteq Harness
  /\ request \in [Client -> Request]
  /\ boot \in {"clear", "install", "bumpy", "served"}
  /\ toInstall \subseteq Harness
  /\ mishaps \in 0..MaxMishaps
  /\ mixed \subseteq Name
  /\ dropped \subseteq Harness
  /\ stuck \subseteq Harness

\* Re-entry relaunches the right kind of session (the records of handleRenameSession and
\* recordLaunch): a session that no request is at work on is recorded as what it runs,
\* through renames, kills, restarts, rebuilds, sessions that end and commands that hit
\* a longer name.  What the code does not keep right is exempt until it agrees again:
\* a name that two requests were at work on at once, that a crash or a failed save cut
\* off between session and record, or that a rename gave to a session it hit by its
\* longer name; and a record of a plugin that was removed.
RecordsTellTheKind ==
  \A n \in Name \ mixed :
    tmux[n] # Gone /\ ~InUse(n) => meta[n] = tmux[n] \/ meta[n] \in dropped

\* The probe reports "installing" from the mark: while requests are served a mark
\* stands only as long as an install of its plugin runs, whichever of several set it
\* and whatever the process before left; only a clear that could not be saved, whose
\* error is dropped, leaves one until a later clear.
InstallingIsRunning ==
  boot = "served" =>
    \A h \in Harness :
      marks[h] = "installing" =>
        \/ \E c \in Client : request[c].op = "install" /\ request[c].h = h
        \/ h \in stuck

\* BringAllUp: a boot that met no mishap leaves no recorded plugin without its
\* binary, whatever the process before it and a rebuilt container have left.
BootInstallsRecorded ==
  [][boot = "install" /\ boot' = "served" =>
       \A h \in registry : marks[h] = "true" => h \in binary]_svars
=============================================================================
