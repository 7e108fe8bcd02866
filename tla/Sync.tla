---------------------------------- MODULE Sync ----------------------------------
(***************************************************************************)
(* Work Sync (internal/sync, its routes in httpapi/work_sync.go and the    *)
(* laptop's client in cmd/pcoder-sync): the codes and sessions of one      *)
(* project, and the transfer of a planned difference between the laptop    *)
(* and the container with its backup, its verification and its undo: Send  *)
(* works on the server, a download ends on the laptop.                     *)
(***************************************************************************)
EXTENDS Naturals

CONSTANTS
  Path,          \* covered paths
  Code,          \* codes; each is generated at most once
  NoCode,
  MaxAttempts,   \* failed hellos that kill a code (10)
  MaxTroubles     \* bound on what comes in between: failures, edits, bad hellos, expiry

ASSUME SyncAssumption ==
  /\ NoCode \notin Code
  /\ MaxAttempts \in Nat \ {0} /\ MaxTroubles \in Nat

VARIABLES
  files,      \* the two covered trees: ["pcoder" and "laptop" -> [Path -> content]]
  entry,      \* the code: "new", "fresh", "spent" or "gone" (or only a tally of guesses)
  attempts,   \* its failed hellos
  expired,    \* its time and its session's is over
  current,    \* byProject: the live code
  session,    \* the session of a code: "none", "open", "planned" or "gone"
  plan,       \* what was planned: [way, source, target]
  stage,      \* how far the transfer of a session has come
  saved,      \* its backup: "none", "sound", "stale" (of other contents than planned)
  lost,       \* the laptop's request is gone, and with it the context of every call
  touched,    \* (history) paths that others wrote at its target since the plan
  released,   \* (history) codes aborted, expired or burnt: their transfers may go on
  troubles

syncvars == <<files, entry, attempts, expired, current, session, plan, stage, saved,
              lost, touched, released, troubles>>

Absent == "absent"
Content == {Absent, "theirs", "mine", "edit"}
Tree == [Path -> Content]
Side == {"pcoder", "laptop"}
NoPlan == [way |-> "none", source |-> [p \in Path |-> Absent], target |-> [p \in Path |-> Absent]]

SyncInit ==
  /\ files \in [Side -> Tree]
  /\ \A p \in Path : files["pcoder"][p] \in {Absent, "theirs"}
  /\ \A p \in Path : files["laptop"][p] \in {Absent, "mine"}
  /\ entry = [c \in Code |-> "new"]
  /\ attempts = [c \in Code |-> 0]
  /\ expired = [c \in Code |-> FALSE]
  /\ current = NoCode
  /\ session = [c \in Code |-> "none"]
  /\ plan = [c \in Code |-> NoPlan]
  /\ stage = [c \in Code |-> "none"]
  /\ saved = [c \in Code |-> "none"]
  /\ lost = [c \in Code |-> FALSE]
  /\ touched = [c \in Code |-> {}]
  /\ released = {}
  /\ troubles = 0

Trouble == troubles < MaxTroubles /\ troubles' = troubles + 1

codes == <<entry, attempts, expired, current, session>>
transfer == <<plan, stage, saved, lost>>

-----------------------------------------------------------------------------
(* Codes and sessions                                                      *)

KnownCode(c) == c # NoCode /\ entry[c] \in {"fresh", "spent"}
Live(c) == session[c] \in {"open", "planned"}

\* SyncRunning: the code has a session that has neither ended nor expired.
HoldsProject(c) == KnownCode(c) /\ Live(c) /\ ~expired[c]

\* The running session is not looked at.
GenerateAlways(c) ==
  /\ entry[c] = "new"
  /\ entry' = [[k \in Code |-> IF k = current THEN "gone" ELSE entry[k]] EXCEPT ![c] = "fresh"]
  /\ current' = c
  /\ session' = [k \in Code |-> IF k = current /\ KnownCode(k) /\ Live(k) THEN "gone" ELSE session[k]]
  /\ UNCHANGED <<files, attempts, expired, transfer, touched, troubles, released>>

\* Drops the code before it, with a session that is over.
Generate(c) ==
  /\ entry[c] = "new"
  /\ ~HoldsProject(current)
  /\ entry' = [[k \in Code |-> IF k = current THEN "gone" ELSE entry[k]] EXCEPT ![c] = "fresh"]
  /\ current' = c
  /\ session' = [k \in Code |-> IF k = current /\ KnownCode(k) /\ Live(k) THEN "gone" ELSE session[k]]
  /\ UNCHANGED <<files, attempts, expired, transfer, touched, troubles, released>>

\* Lookup: the first hello opens the session, the next ones find it.
Hello(c) ==
  /\ entry[c] = "fresh" /\ ~expired[c] /\ session[c] = "none"
  /\ session' = [session EXCEPT ![c] = "open"]
  /\ UNCHANGED <<files, entry, attempts, expired, current, transfer, touched, troubles, released>>

\* The right code with a wrong project, or too late; the last failure drops the entry
\* and leaves the session and byProject.
FailAttempt(c) ==
  /\ KnownCode(c)
  /\ Trouble
  /\ attempts' = [attempts EXCEPT ![c] = @ + 1]
  /\ IF attempts[c] + 1 >= MaxAttempts
     THEN entry' = [entry EXCEPT ![c] = "gone"] /\ released' = released \cup {c}
     ELSE UNCHANGED <<entry, released>>
  /\ UNCHANGED <<files, expired, current, session, transfer, touched>>

Expire(c) ==
  /\ entry[c] # "new" /\ ~expired[c]
  /\ Trouble
  /\ expired' = [expired EXCEPT ![c] = TRUE]
  /\ released' = released \cup {c}
  /\ UNCHANGED <<files, entry, attempts, current, session, transfer, touched>>

\* Finish, of a session that the store still has.
Finish(c) ==
  IF Live(c)
  THEN /\ session' = [session EXCEPT ![c] = "gone"]
       /\ entry' = IF KnownCode(c) THEN [entry EXCEPT ![c] = "spent"] ELSE entry
       /\ current' = IF current = c THEN NoCode ELSE current
       /\ UNCHANGED <<attempts, expired>>
  ELSE UNCHANGED codes

\* It waits for nothing: a transfer of the session goes on.
Abort(c) ==
  /\ Live(c)
  /\ Finish(c)
  /\ released' = released \cup {c}
  /\ UNCHANGED <<files, transfer, touched, troubles>>

\* Plan: both manifests and the direction; the code is used from here on.
MakePlan(c, way) ==
  LET source == IF way = "upload" THEN "laptop" ELSE "pcoder"
      target == IF way = "upload" THEN "pcoder" ELSE "laptop"
  IN
  /\ session[c] = "open" /\ ~expired[c]
  /\ session' = [session EXCEPT ![c] = "planned"]
  /\ plan' = [plan EXCEPT ![c] = [way |-> way, source |-> files[source], target |-> files[target]]]
  /\ stage' = [stage EXCEPT ![c] = "planned"]
  /\ entry' = IF KnownCode(c) THEN [entry EXCEPT ![c] = "spent"] ELSE entry
  /\ UNCHANGED <<files, attempts, expired, current, saved, lost, touched, troubles, released>>

-----------------------------------------------------------------------------
(* The transfer                                                            *)

Upload(c) == plan[c].way = "upload"
Target(c) == IF Upload(c) THEN "pcoder" ELSE "laptop"
Source(c) == IF Upload(c) THEN "laptop" ELSE "pcoder"

Agree(f, g, ps) == \A p \in ps : f[p] = g[p]

\* Diff: paths to add, to overwrite and to delete at the target.
Ops(c) == {p \in Path : plan[c].source[p] # plan[c].target[p]}
Added(c) == {p \in Ops(c) : plan[c].target[p] = Absent}
Deleted(c) == {p \in Ops(c) : plan[c].source[p] = Absent}
Existing(c) == Ops(c) \ Added(c)
ToMove(c) == Ops(c) \ Deleted(c)

Goes(c, s) == stage' = [stage EXCEPT ![c] = s]

\* A call that may fail does so by chance, or because its request's context is done.
Works(c) == ~lost[c] /\ UNCHANGED troubles
Breaks(c) == IF lost[c] THEN UNCHANGED troubles ELSE Trouble

\* The paths ps of the target become those of the tree.
Puts(c, ps, from) ==
  /\ files' = [files EXCEPT ![Target(c)] = [p \in Path |-> IF p \in ps THEN from[p] ELSE @[p]]]
  /\ touched' = [k \in Code |-> IF k # c /\ stage[k] # "none" /\ Target(k) = Target(c)
                                THEN touched[k] \cup ps ELSE touched[k]]

\* The laptop asks once its user has confirmed the plan; the session is found.
AskTransfer(c) ==
  /\ stage[c] = "planned" /\ session[c] = "planned" /\ ~expired[c]
  /\ Goes(c, "asked")
  /\ UNCHANGED <<files, codes, plan, saved, lost, touched, troubles, released>>

\* Receive streams the container's files, the laptop stages what it gets and checks
\* each file against the manifest. The server's part is done then.
Receive(c) ==
  /\ stage[c] = "asked" /\ ~Upload(c)
  /\ \/ /\ Works(c)
        /\ Goes(c, IF Agree(files[Source(c)], plan[c].source, ToMove(c)) THEN "staged" ELSE "failed")
        /\ Finish(c)
     \/ /\ Breaks(c)
        /\ Goes(c, "failed")
        /\ UNCHANGED codes
  /\ UNCHANGED <<files, plan, saved, lost, touched, released>>

\* Send stages what the laptop streams, with the same check.
Send(c) ==
  /\ stage[c] = "asked" /\ Upload(c)
  /\ \/ /\ Works(c)
        /\ Goes(c, IF Agree(files[Source(c)], plan[c].source, ToMove(c)) THEN "staged" ELSE "failed")
     \/ Breaks(c) /\ Goes(c, "failed")
  /\ UNCHANGED <<files, codes, plan, saved, lost, touched, released>>

\* Reads what exists and will change back from the container and checks it; with
\* nothing of the kind there is no backup.
BackupTarget(c) ==
  /\ stage[c] = "staged" /\ Upload(c)
  /\ \/ /\ Works(c)
        /\ IF Agree(files["pcoder"], plan[c].target, Existing(c))
           THEN /\ Goes(c, "backed")
                /\ saved' = [saved EXCEPT ![c] = IF Existing(c) = {} THEN "none" ELSE "sound"]
           ELSE Goes(c, "failed") /\ UNCHANGED saved
     \/ Breaks(c) /\ Goes(c, "failed") /\ UNCHANGED saved
  /\ UNCHANGED <<files, codes, plan, lost, touched, released>>

\* The laptop archives what is there now, under the hashes of the plan.
WriteBackup(c) ==
  LET now == files["laptop"] IN
  /\ stage[c] = "staged" /\ ~Upload(c)
  /\ \/ /\ Works(c)
        /\ \A p \in Existing(c) : now[p] # Absent
        /\ Goes(c, "backed")
        /\ saved' = [saved EXCEPT ![c] =
             IF Agree(now, plan[c].target, Existing(c)) THEN "sound" ELSE "stale"]
     \/ /\ IF \E p \in Existing(c) : now[p] = Absent THEN UNCHANGED troubles ELSE Breaks(c)
        /\ Goes(c, "failed")
        /\ UNCHANGED saved
  /\ UNCHANGED <<files, codes, plan, lost, touched, released>>

\* One tar into the container; a broken one may have written any part.
UploadFiles(c) ==
  /\ stage[c] = "backed" /\ Upload(c)
  /\ \/ /\ Works(c)
        /\ Puts(c, ToMove(c), plan[c].source)
        /\ Goes(c, "written")
     \/ /\ Breaks(c)
        /\ \E ps \in SUBSET ToMove(c) : Puts(c, ps, plan[c].source)
        /\ Goes(c, "undo")
  /\ UNCHANGED <<codes, plan, saved, lost, released>>

RemovePaths(c) ==
  /\ stage[c] = "written"
  /\ \/ /\ Works(c)
        /\ Puts(c, Deleted(c), plan[c].source)
        /\ Goes(c, "applied")
     \/ /\ Breaks(c)
        /\ \E ps \in SUBSET Deleted(c) : Puts(c, ps, plan[c].source)
        /\ Goes(c, "undo")
  /\ UNCHANGED <<codes, plan, saved, lost, released>>

\* Writes and deletes in the order of the plan.
ApplyLocal(c) ==
  /\ stage[c] = "backed" /\ ~Upload(c)
  /\ \/ /\ Works(c)
        /\ Puts(c, Ops(c), plan[c].source)
        /\ Goes(c, "applied")
     \/ /\ Breaks(c)
        /\ \E ps \in SUBSET Ops(c) : Puts(c, ps, plan[c].source)
        /\ Goes(c, "undo")
  /\ UNCHANGED <<codes, plan, saved, lost, released>>

\* Compare, of the container's whole tree; it ends the session.
Verify(c) ==
  /\ stage[c] = "applied" /\ Upload(c)
  /\ \/ /\ Works(c)
        /\ Goes(c, IF files["pcoder"] = plan[c].source THEN "done" ELSE "undo")
        /\ IF files["pcoder"] = plan[c].source THEN Finish(c) ELSE UNCHANGED codes
     \/ Breaks(c) /\ Goes(c, "undo") /\ UNCHANGED codes
  /\ UNCHANGED <<files, plan, saved, lost, touched, released>>

\* A laptop that cannot read its tree gives up and restores nothing.
VerifyLocal(c) ==
  /\ stage[c] = "applied" /\ ~Upload(c)
  /\ \/ Works(c) /\ Goes(c, IF files["laptop"] = plan[c].source THEN "done" ELSE "undo")
     \/ Breaks(c) /\ Goes(c, "unrestored")
  /\ UNCHANGED <<files, codes, plan, saved, lost, touched, released>>

\* What was added stays.
RollbackKeepsAdded(c) ==
  /\ stage[c] = "undo" /\ Upload(c)
  /\ \/ saved[c] = "none" /\ Goes(c, "restored") /\ UNCHANGED <<files, touched, troubles>>
     \/ /\ saved[c] = "sound" /\ Works(c)
        /\ Puts(c, Existing(c), plan[c].target)
        /\ Goes(c, "restored")
     \/ /\ saved[c] = "sound" /\ Breaks(c)
        /\ \E ps \in SUBSET Existing(c) : Puts(c, ps, plan[c].target)
        /\ Goes(c, "unrestored")
  /\ UNCHANGED <<codes, plan, saved, lost, released>>

\* What existed is written back, then what was added is removed; without a backup
\* nothing is done and nothing fails.
Rollback(c) ==
  /\ stage[c] = "undo" /\ Upload(c)
  /\ \/ saved[c] = "none" /\ Goes(c, "restored") /\ UNCHANGED <<files, touched, troubles>>
     \/ /\ saved[c] = "sound" /\ Works(c)
        /\ Puts(c, Ops(c), plan[c].target)
        /\ Goes(c, "restored")
     \/ /\ saved[c] = "sound" /\ Breaks(c)
        /\ \E ps \in SUBSET Ops(c) :
             /\ ps \cap Added(c) # {} => Existing(c) \subseteq ps
             /\ Puts(c, ps, plan[c].target)
        /\ Goes(c, "unrestored")
  /\ UNCHANGED <<codes, plan, saved, lost, released>>

\* Works in the order of the plan; a stale backup does not pass its own check.
RestoreLocal(c) ==
  /\ stage[c] = "undo" /\ ~Upload(c)
  /\ \/ saved[c] = "stale" /\ Goes(c, "unrestored") /\ UNCHANGED <<files, touched, troubles>>
     \/ /\ saved[c] = "sound" /\ Works(c)
        /\ Puts(c, Ops(c), plan[c].target)
        /\ Goes(c, "restored")
     \/ /\ saved[c] = "sound" /\ Breaks(c)
        /\ \E ps \in SUBSET Ops(c) : Puts(c, ps, plan[c].target)
        /\ Goes(c, "unrestored")
  /\ UNCHANGED <<codes, plan, saved, lost, released>>

-----------------------------------------------------------------------------
(* Others                                                                  *)

\* An agent writes in the container, the user on the laptop.
Edit(side, p) ==
  /\ Trouble
  /\ \E c \in Code : stage[c] # "none"
  /\ files[side][p] # "edit"
  /\ files' = [files EXCEPT ![side][p] = "edit"]
  /\ touched' = [k \in Code |-> IF stage[k] # "none" /\ Target(k) = side
                                THEN touched[k] \cup {p} ELSE touched[k]]
  /\ UNCHANGED <<codes, transfer, released>>

AtWork == {"asked", "staged", "backed", "written", "applied", "undo"}

Disconnect(c) ==
  /\ stage[c] \in AtWork /\ Upload(c) /\ ~lost[c]
  /\ Trouble
  /\ lost' = [lost EXCEPT ![c] = TRUE]
  /\ UNCHANGED <<files, codes, plan, stage, saved, touched, released>>

\* The codes and the sessions are in memory; an upload stops where it is.
RestartServer ==
  /\ Trouble
  /\ entry' = [c \in Code |-> IF entry[c] = "new" THEN "new" ELSE "gone"]
  /\ session' = [c \in Code |-> IF entry[c] = "new" THEN "none" ELSE "gone"]
  /\ current' = NoCode
  /\ stage' = [c \in Code |->
       IF stage[c] \in AtWork /\ (Upload(c) \/ stage[c] = "asked") THEN "cut" ELSE stage[c]]
  /\ UNCHANGED <<files, attempts, expired, plan, saved, lost, touched, released>>

SyncNext ==
  \/ \E c \in Code :
       \/ Generate(c) \/ Hello(c) \/ FailAttempt(c) \/ Expire(c) \/ Abort(c)
       \/ \E way \in {"upload", "download"} : MakePlan(c, way)
       \/ AskTransfer(c) \/ Disconnect(c)
       \/ Send(c) \/ BackupTarget(c) \/ UploadFiles(c) \/ RemovePaths(c) \/ Verify(c) \/ Rollback(c)
       \/ Receive(c) \/ WriteBackup(c) \/ ApplyLocal(c) \/ VerifyLocal(c) \/ RestoreLocal(c)
  \/ \E side \in Side, p \in Path : Edit(side, p)
  \/ RestartServer

SyncSpec == SyncInit /\ [][SyncNext]_syncvars

-----------------------------------------------------------------------------
(* Properties                                                              *)

SyncTypeOK ==
  /\ files \in [Side -> Tree]
  /\ entry \in [Code -> {"new", "fresh", "spent", "gone"}]
  /\ attempts \in [Code -> 0..MaxAttempts]
  /\ expired \in [Code -> BOOLEAN] /\ lost \in [Code -> BOOLEAN]
  /\ current \in Code \cup {NoCode}
  /\ session \in [Code -> {"none", "open", "planned", "gone"}]
  /\ stage \in [Code -> {"none", "planned", "done", "failed", "restored", "unrestored", "cut"} \cup AtWork]
  /\ saved \in [Code -> {"none", "sound", "stale"}]
  /\ touched \in [Code -> SUBSET Path]
  /\ released \subseteq Code

Restores(c) == Agree(files[Target(c)], plan[c].target, Path \ touched[c])

\* After a transfer that failed with a backup and reports no failed restore, every
\* path that nobody else wrote is what it was before, in both directions.
FailedTransferRestores ==
  \A c \in Code : stage[c] = "restored" /\ saved[c] # "none" => Restores(c)

\* Send: "The target is backed up first and restored automatically on any failure."
RestoredOnAnyFailure == \A c \in Code : stage[c] = "restored" => Restores(c)

\* Generate refuses while a sync is running: two uploads write into the container at
\* once only when one of them has been aborted, has expired or lost its code to bad hellos.
OneTransferAtATime ==
  \A c, k \in Code : c # k /\ stage[c] \in AtWork /\ stage[k] \in AtWork
    /\ Upload(c) /\ Upload(k) => c \in released \/ k \in released
\* What a transfer tells the two sides. It is under way from its plan on, has written
\* from its first write on, and an undo without a backup has put nothing back.
DealOf(c) ==
  CASE stage[c] = "none" -> "none"
    [] stage[c] \in {"planned", "asked", "staged", "backed"} -> "agreed"
    [] stage[c] \in {"written", "applied", "undo"} -> "writing"
    [] stage[c] = "done" -> "moved"
    [] stage[c] = "failed" \/ (stage[c] = "restored" /\ saved[c] # "none") -> "asBefore"
    [] OTHER -> "left"

deals == [c \in Code |-> DealOf(c)]
terms == [c \in Code |-> [to |-> Target(c), before |-> plan[c].target, after |-> plan[c].source]]

Promised == INSTANCE OneTransfer WITH trees <- files, others <- touched

\* Work Sync implements OneTransfer, over all interleavings of two codes with failures,
\* disconnects, edits and restarts: what Verify passes is the whole tree that was planned,
\* what Rollback and RestoreLocal restore is what was there before, what fails before the
\* first write has written nothing, and a transfer that has ended stays as it ended.
RefinesOneTransfer == Promised!Spec
=============================================================================
