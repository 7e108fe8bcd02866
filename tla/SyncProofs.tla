-------------------------------- MODULE SyncProofs --------------------------------
(***************************************************************************)
(* What a failed transfer leaves, and that two uploads do not meet, for    *)
(* any trees, codes, limits and mishaps.                                   *)
(***************************************************************************)
EXTENDS Sync, TLAPS

Plan == [way : {"none", "upload", "download"}, source : Tree, target : Tree]

Stage == {"none", "planned", "done", "failed", "restored", "unrestored", "cut"} \cup AtWork

TransferTypes ==
  /\ files \in [Side -> Tree]
  /\ plan \in [Code -> Plan]
  /\ stage \in [Code -> Stage]
  /\ saved \in [Code -> {"none", "sound", "stale"}]
  /\ touched \in [Code -> SUBSET Path]

\* A transfer and its undo write the paths of its plan only: any other path of its
\* target is as it was planned, unless somebody else wrote it.
PlannedPathsOnly(c) ==
  Agree(files[Target(c)], plan[c].target, Path \ (touched[c] \cup Ops(c)))

TransferInv ==
  /\ TransferTypes
  /\ \A c \in Code : stage[c] # "none" => PlannedPathsOnly(c)
  /\ FailedTransferRestores

-----------------------------------------------------------------------------
(* What a write does to the transfers                                      *)

LEMMA TargetIsASide == \A c \in Code : Target(c) \in Side /\ Source(c) \in Side
BY DEF Target, Source, Side

\* A write of planned paths, by one transfer.
LEMMA PutsKeeps ==
  ASSUME TransferTypes, NEW c \in Code, NEW ps \in SUBSET Ops(c), NEW from \in Tree,
         Puts(c, ps, from), plan' = plan
  PROVE  /\ files' \in [Side -> Tree] /\ touched' \in [Code -> SUBSET Path]
         /\ PlannedPathsOnly(c) => PlannedPathsOnly(c)'
         /\ \A d \in Code : d # c /\ stage[d] # "none" =>
              /\ PlannedPathsOnly(d) => PlannedPathsOnly(d)'
              /\ Restores(d) => Restores(d)'
<1>1. \A d \in Code : /\ Target(d)' = Target(d) /\ Ops(d)' = Ops(d)
                      /\ plan'[d].target = plan[d].target
  BY DEF Target, Upload, Ops
<1>2. Ops(c) \subseteq Path /\ Target(c) \in Side
  BY TargetIsASide DEF Ops
<1>3. /\ files' \in [Side -> Tree]
      /\ \A s \in Side, p \in Path :
           files'[s][p] = IF s = Target(c) /\ p \in ps THEN from[p] ELSE files[s][p]
  BY <1>2 DEF Puts, TransferTypes, Tree
<1>4. /\ touched' \in [Code -> SUBSET Path]
      /\ \A d \in Code : touched[d] \subseteq touched'[d]
      /\ \A d \in Code : d # c /\ stage[d] # "none" /\ Target(d) = Target(c)
                           => ps \subseteq touched'[d]
  BY <1>2 DEF Puts, TransferTypes
<1>5. PlannedPathsOnly(c) => PlannedPathsOnly(c)'
  BY <1>1, <1>2, <1>3, <1>4 DEF PlannedPathsOnly, Agree
<1>6. ASSUME NEW d \in Code, d # c, stage[d] # "none"
      PROVE  /\ PlannedPathsOnly(d) => PlannedPathsOnly(d)'
             /\ Restores(d) => Restores(d)'
  <2>1. Target(d) \in Side
    BY TargetIsASide
  <2>2. \A p \in Path \ touched'[d] : files'[Target(d)][p] = files[Target(d)][p]
    BY <1>3, <1>4, <1>6, <2>1
  <2> QED
    BY <1>1, <1>4, <2>2 DEF PlannedPathsOnly, Restores, Agree
<1> QED
  BY <1>3, <1>4, <1>5, <1>6

\* An undo that puts back all planned paths restores the target.
LEMMA PutsBack ==
  ASSUME TransferTypes, NEW c \in Code, Puts(c, Ops(c), plan[c].target), plan' = plan,
         PlannedPathsOnly(c)
  PROVE  Restores(c)'
<1>1. /\ Target(c)' = Target(c) /\ plan'[c].target = plan[c].target
      /\ Target(c) \in Side /\ Ops(c) \subseteq Path
  BY TargetIsASide DEF Target, Upload, Ops
<1>2. \A p \in Path : files'[Target(c)][p]
                        = IF p \in Ops(c) THEN plan[c].target[p] ELSE files[Target(c)][p]
  BY <1>1 DEF Puts, TransferTypes, Tree
<1>3. touched'[c] = touched[c]
  BY DEF Puts, TransferTypes
<1> QED
  BY <1>1, <1>2, <1>3 DEF PlannedPathsOnly, Restores, Agree

\* A step of the transfer c that writes planned paths and ends in stage s.
LEMMA WriteKeeps ==
  ASSUME TransferInv, NEW c \in Code, NEW ps \in SUBSET Ops(c), NEW from \in Tree,
         Puts(c, ps, from), NEW s \in Stage, Goes(c, s), UNCHANGED <<plan, saved>>,
         stage[c] # "none", s = "restored" /\ saved[c] # "none" => Restores(c)'
  PROVE  TransferInv'
<1>1. /\ stage' \in [Code -> Stage]
      /\ \A d \in Code : stage'[d] = IF d = c THEN s ELSE stage[d]
  BY DEF Goes, TransferInv, TransferTypes
<1>2. TransferTypes'
  BY <1>1, PutsKeeps DEF TransferInv, TransferTypes
<1>3. \A d \in Code : stage'[d] # "none" => PlannedPathsOnly(d)'
  BY <1>1, PutsKeeps DEF TransferInv
<1>4. \A d \in Code : stage'[d] = "restored" /\ saved'[d] # "none" => Restores(d)'
  BY <1>1, PutsKeeps DEF TransferInv, FailedTransferRestores
<1> QED
  BY <1>2, <1>3, <1>4 DEF TransferInv, FailedTransferRestores

\* A step that writes no file: stages may move, and only a transfer without a backup
\* becomes restored.
LEMMA NoWriteKeeps ==
  ASSUME TransferInv, UNCHANGED <<files, plan, touched>>,
         stage' \in [Code -> Stage], saved' \in [Code -> {"none", "sound", "stale"}],
         \A c \in Code : /\ stage'[c] # "none" => stage[c] # "none"
                         /\ stage'[c] = "restored" /\ saved'[c] # "none"
                              => stage[c] = "restored" /\ saved[c] # "none"
  PROVE  TransferInv'
<1>1. \A c \in Code : (PlannedPathsOnly(c)' <=> PlannedPathsOnly(c)) /\ (Restores(c)' <=> Restores(c))
  BY DEF PlannedPathsOnly, Restores, Agree, Target, Upload, Ops
<1> QED
  BY <1>1 DEF TransferInv, TransferTypes, FailedTransferRestores

-----------------------------------------------------------------------------
(* The steps keep TransferInv                                              *)

LEMMA TransferInvInit == SyncInit => TransferInv
BY DEF SyncInit, TransferInv, TransferTypes, Tree, Content, Plan, NoPlan, Stage, AtWork,
       FailedTransferRestores

\* A plan is of the trees as they are.
LEMMA MakePlanKeeps ==
  ASSUME TransferInv, NEW c \in Code, NEW way \in {"upload", "download"}, MakePlan(c, way)
  PROVE  TransferInv'
<1> DEFINE source == IF way = "upload" THEN "laptop" ELSE "pcoder"
           target == IF way = "upload" THEN "pcoder" ELSE "laptop"
           new == [way |-> way, source |-> files[source], target |-> files[target]]
<1>1. /\ plan' = [plan EXCEPT ![c] = new]
      /\ stage' = [stage EXCEPT ![c] = "planned"]
      /\ files' = files /\ saved' = saved /\ touched' = touched
  BY DEF MakePlan
<1>2. new \in Plan /\ new.way = way /\ new.target = files[target]
  BY DEF TransferInv, TransferTypes, Plan, Side
<1>3. TransferTypes'
  BY <1>1, <1>2 DEF TransferInv, TransferTypes, Stage
<1>4. plan'[c] = new /\ stage'[c] = "planned" /\ Target(c)' = target
  BY <1>1, <1>2 DEF TransferInv, TransferTypes, Target, Upload
<1>5. PlannedPathsOnly(c)'
  BY <1>1, <1>2, <1>4 DEF PlannedPathsOnly, Agree
<1>6. ASSUME NEW d \in Code, d # c
      PROVE  /\ stage'[d] = stage[d]
             /\ PlannedPathsOnly(d)' <=> PlannedPathsOnly(d)
             /\ Restores(d)' <=> Restores(d)
  <2>1. plan'[d] = plan[d] /\ stage'[d] = stage[d]
    BY <1>1, <1>6 DEF TransferInv, TransferTypes
  <2> QED
    BY <1>1, <2>1 DEF PlannedPathsOnly, Restores, Agree, Target, Upload, Ops
<1> QED
  BY <1>1, <1>3, <1>4, <1>5, <1>6 DEF TransferInv, FailedTransferRestores

\* Who writes a path at the target of a transfer is known to have touched it.
LEMMA EditKeeps ==
  ASSUME TransferInv, NEW side \in Side, NEW p \in Path, Edit(side, p)
  PROVE  TransferInv'
<1>1. /\ files' = [files EXCEPT ![side][p] = "edit"]
      /\ touched' = [k \in Code |-> IF stage[k] # "none" /\ Target(k) = side
                                    THEN touched[k] \cup {p} ELSE touched[k]]
      /\ plan' = plan /\ stage' = stage /\ saved' = saved
  BY DEF Edit, transfer
<1>2. /\ files' \in [Side -> Tree]
      /\ \A s \in Side, q \in Path : s # side \/ q # p => files'[s][q] = files[s][q]
  BY <1>1 DEF TransferInv, TransferTypes, Tree, Content
<1>3. TransferTypes'
  BY <1>1, <1>2 DEF TransferInv, TransferTypes
<1>4. ASSUME NEW d \in Code, stage[d] # "none"
      PROVE  /\ PlannedPathsOnly(d) => PlannedPathsOnly(d)'
             /\ Restores(d) => Restores(d)'
  <2>1. touched[d] \subseteq touched'[d] /\ (Target(d) = side => p \in touched'[d])
    BY <1>1, <1>4
  <2>2. Target(d)' = Target(d) /\ Ops(d)' = Ops(d) /\ Target(d) \in Side
    BY <1>1, TargetIsASide DEF Target, Upload, Ops
  <2> QED
    BY <1>1, <1>2, <2>1, <2>2 DEF PlannedPathsOnly, Restores, Agree
<1> QED
  BY <1>1, <1>3, <1>4 DEF TransferInv, FailedTransferRestores

\* The steps on codes and sessions, and those of a transfer that write no file.
LEMMA CodeStepKeeps ==
  ASSUME TransferInv, NEW c \in Code,
         \/ Generate(c) \/ Hello(c) \/ FailAttempt(c) \/ Expire(c) \/ Abort(c)
         \/ Disconnect(c)
  PROVE  TransferInv'
<1>1. UNCHANGED <<files, plan, touched, stage, saved>>
  BY DEF Generate, Hello, FailAttempt, Expire, Abort, Disconnect, transfer
<1> QED
  BY <1>1, NoWriteKeeps DEF TransferInv, TransferTypes

LEMMA GoesKeeps ==
  ASSUME TransferInv, NEW c \in Code, NEW s \in Stage, Goes(c, s), stage[c] # "none",
         UNCHANGED <<files, plan, touched>>,
         saved' = saved \/ (\E b \in {"none", "sound", "stale"} : saved' = [saved EXCEPT ![c] = b]),
         s = "restored" => saved'[c] = "none"
  PROVE  TransferInv'
<1>1. /\ stage' \in [Code -> Stage]
      /\ \A d \in Code : stage'[d] = IF d = c THEN s ELSE stage[d]
  BY DEF Goes, TransferInv, TransferTypes
<1>2. /\ saved' \in [Code -> {"none", "sound", "stale"}]
      /\ \A d \in Code : d # c => saved'[d] = saved[d]
  BY DEF TransferInv, TransferTypes
<1> QED
  BY <1>1, <1>2, NoWriteKeeps

LEMMA StagingKeeps ==
  ASSUME TransferInv, NEW c \in Code,
         AskTransfer(c) \/ Receive(c) \/ Send(c) \/ BackupTarget(c) \/ WriteBackup(c)
           \/ Verify(c) \/ VerifyLocal(c)
  PROVE  TransferInv'
<1>1. CASE AskTransfer(c)
  BY <1>1, GoesKeeps DEF AskTransfer, Stage, AtWork
<1>2. CASE Receive(c)
  BY <1>2, GoesKeeps DEF Receive, Stage, AtWork
<1>3. CASE Send(c)
  BY <1>3, GoesKeeps DEF Send, Stage, AtWork
<1>4. CASE BackupTarget(c)
  BY <1>4, GoesKeeps DEF BackupTarget, Stage, AtWork
<1>5. CASE WriteBackup(c)
  BY <1>5, GoesKeeps DEF WriteBackup, Stage, AtWork
<1>6. CASE Verify(c)
  BY <1>6, GoesKeeps DEF Verify, Stage, AtWork
<1>7. CASE VerifyLocal(c)
  BY <1>7, GoesKeeps DEF VerifyLocal, Stage, AtWork
<1> QED
  BY <1>1, <1>2, <1>3, <1>4, <1>5, <1>6, <1>7

LEMMA RestartKeeps ==
  ASSUME TransferInv, RestartServer
  PROVE  TransferInv'
<1>1. \A c \in Code : /\ stage'[c] = stage[c] \/ (stage'[c] = "cut" /\ stage[c] \in AtWork)
                      /\ saved'[c] = saved[c]
  BY DEF RestartServer
<1>2. stage' \in [Code -> Stage]
  BY DEF RestartServer, TransferInv, TransferTypes, Stage
<1> QED
  BY <1>1, <1>2, NoWriteKeeps DEF RestartServer, TransferInv, TransferTypes, AtWork

\* Writing, removing and applying: planned paths become those of the source.
LEMMA ApplyKeeps ==
  ASSUME TransferInv, NEW c \in Code, UploadFiles(c) \/ RemovePaths(c) \/ ApplyLocal(c)
  PROVE  TransferInv'
<1>1. PICK ps \in SUBSET Ops(c), s \in {"written", "applied", "undo"} :
        Puts(c, ps, plan[c].source) /\ Goes(c, s)
  BY DEF UploadFiles, RemovePaths, ApplyLocal, ToMove, Deleted
<1>2. plan[c].source \in Tree
  BY DEF TransferInv, TransferTypes, Plan
<1>3. UNCHANGED <<plan, saved>> /\ stage[c] # "none"
  BY DEF UploadFiles, RemovePaths, ApplyLocal
<1> QED
  BY <1>1, <1>2, <1>3, WriteKeeps DEF Stage, AtWork

\* The undo of either side.
LEMMA UndoKeeps ==
  ASSUME TransferInv, NEW c \in Code, Rollback(c) \/ RestoreLocal(c)
  PROVE  TransferInv'
<1>1. plan[c].target \in Tree
  BY DEF TransferInv, TransferTypes, Plan
<1>2. UNCHANGED <<plan, saved>> /\ stage[c] = "undo"
  BY DEF Rollback, RestoreLocal
<1>3. CASE /\ UNCHANGED <<files, touched>>
           /\ \/ Goes(c, "restored") /\ saved[c] = "none"
              \/ Goes(c, "unrestored")
  BY <1>2, <1>3, GoesKeeps DEF Stage, AtWork
<1>4. CASE Puts(c, Ops(c), plan[c].target) /\ Goes(c, "restored")
  <2>1. Restores(c)'
    BY <1>2, <1>4, PutsBack DEF TransferInv
  <2> QED
    BY <1>1, <1>2, <1>4, <2>1, WriteKeeps DEF Stage
<1>5. CASE \E ps \in SUBSET Ops(c) : Puts(c, ps, plan[c].target) /\ Goes(c, "unrestored")
  BY <1>1, <1>2, <1>5, WriteKeeps DEF Stage
<1> QED
  BY <1>3, <1>4, <1>5 DEF Rollback, RestoreLocal

LEMMA TransferInvStep == TransferInv /\ [SyncNext]_syncvars => TransferInv'
<1> SUFFICES ASSUME TransferInv, [SyncNext]_syncvars
             PROVE  TransferInv'
  OBVIOUS
<1>1. CASE UNCHANGED syncvars
  <2>1. UNCHANGED <<files, plan, touched, stage, saved>>
    BY <1>1 DEF syncvars
  <2> QED
    BY <2>1, NoWriteKeeps DEF TransferInv, TransferTypes
<1>2. CASE SyncNext
  BY <1>2, MakePlanKeeps, EditKeeps, CodeStepKeeps, StagingKeeps, RestartKeeps, ApplyKeeps,
     UndoKeeps DEF SyncNext
<1> QED
  BY <1>1, <1>2

\* A transfer that failed with a backup, and whose undo reports no failure, has left
\* every path that nobody else wrote as it was, in both directions.
THEOREM FailedTransfersRestore == SyncSpec => []FailedTransferRestores
<1>1. TransferInv => FailedTransferRestores
  BY DEF TransferInv
<1> QED
  BY TransferInvInit, TransferInvStep, <1>1, PTL DEF SyncSpec

-----------------------------------------------------------------------------
(* One code, one session, one upload                                       *)

CodeTypes ==
  /\ entry \in [Code -> {"new", "fresh", "spent", "gone"}]
  /\ expired \in [Code -> BOOLEAN]
  /\ session \in [Code -> {"none", "open", "planned", "gone"}]
  /\ stage \in [Code -> Stage]
  /\ plan \in [Code -> Plan]
  /\ released \subseteq Code

\* A code that was never made has no session, and of those that were made and not
\* released only the project's current one can still open one,
OnlyCurrentIsFresh ==
  \A c \in Code : /\ entry[c] = "new" => session[c] = "none"
                  /\ entry[c] = "fresh" /\ c \notin released => current = c

\* or has one: it is what Generate looks at,
LiveSessionHolds ==
  \A c \in Code : Live(c) /\ c \notin released
                   => current = c /\ KnownCode(c) /\ ~expired[c]

\* and an upload at work has its session.
UploadHasSession ==
  \A c \in Code : stage[c] \in AtWork /\ Upload(c) /\ c \notin released => Live(c)

CodesInv == CodeTypes /\ OnlyCurrentIsFresh /\ LiveSessionHolds /\ UploadHasSession

LEMMA CodesInvInit == SyncInit => CodesInv
BY DEF SyncInit, CodesInv, CodeTypes, OnlyCurrentIsFresh, LiveSessionHolds, UploadHasSession,
       Live, Stage, AtWork, NoPlan, Plan, Tree, Content

\* Whoever ends a session frees the project, and takes no other session along.
LEMMA FinishKeeps ==
  ASSUME CodesInv, NEW c \in Code, Finish(c)
  PROVE  /\ entry' \in [Code -> {"new", "fresh", "spent", "gone"}]
         /\ session' \in [Code -> {"none", "open", "planned", "gone"}]
         /\ expired' = expired
         /\ ~Live(c)'
         /\ entry'[c] = "new" => session'[c] = "none"
         /\ entry'[c] = "fresh" /\ c \notin released => current' = c
         /\ \A d \in Code : d # c =>
              /\ session'[d] = session[d] /\ entry'[d] = entry[d]
              /\ current = d => current' = d
<1>1. CASE Live(c)
  <2>1. /\ session' = [session EXCEPT ![c] = "gone"]
        /\ entry' = IF KnownCode(c) THEN [entry EXCEPT ![c] = "spent"] ELSE entry
        /\ current' = IF current = c THEN NoCode ELSE current
        /\ expired' = expired
    BY <1>1 DEF Finish
  <2>2. entry[c] # "new" /\ c # NoCode
    BY <1>1, SyncAssumption DEF CodesInv, OnlyCurrentIsFresh, Live
  <2> QED
    BY <2>1, <2>2 DEF CodesInv, CodeTypes, KnownCode, Live
<1>2. CASE ~Live(c)
  <2>1. entry' = entry /\ session' = session /\ current' = current /\ expired' = expired
    BY <1>2 DEF Finish, codes
  <2> QED
    BY <1>2, <2>1 DEF CodesInv, CodeTypes, OnlyCurrentIsFresh, Live
<1> QED
  BY <1>1, <1>2

\* Generate is refused while anything is live that was not released.
LEMMA GenerateKeeps ==
  ASSUME CodesInv, NEW c \in Code, Generate(c)
  PROVE  CodesInv'
<1> USE DEF CodesInv, CodeTypes, OnlyCurrentIsFresh, LiveSessionHolds, UploadHasSession
<1>1. \A d \in Code : Live(d) => d \in released
  BY DEF Generate, HoldsProject
<1>2. /\ UNCHANGED <<stage, plan, expired, released>>
      /\ current' = c /\ entry[c] = "new"
  BY DEF Generate, transfer
<1>3. /\ entry' \in [Code -> {"new", "fresh", "spent", "gone"}]
      /\ entry'[c] = "fresh"
      /\ \A d \in Code : d # c => entry'[d] = IF d = current THEN "gone" ELSE entry[d]
  BY DEF Generate
<1>4. /\ session' \in [Code -> {"none", "open", "planned", "gone"}]
      /\ \A d \in Code : session'[d] = IF d = current /\ KnownCode(d) /\ Live(d)
                                        THEN "gone" ELSE session[d]
  BY DEF Generate
<1>5. \A d \in Code : Live(d)' => Live(d)
  BY <1>4 DEF Live
<1>6. \A d \in Code : stage'[d] \in AtWork /\ Upload(d)' /\ d \notin released' => FALSE
  BY <1>1, <1>2 DEF Upload
<1>7. OnlyCurrentIsFresh'
  BY <1>2, <1>3, <1>4 DEF KnownCode, Live
<1> QED
  BY <1>1, <1>2, <1>3, <1>4, <1>5, <1>6, <1>7

LEMMA HelloKeeps ==
  ASSUME CodesInv, NEW c \in Code,
         Hello(c) \/ FailAttempt(c) \/ Expire(c) \/ Abort(c)
  PROVE  CodesInv'
<1> USE DEF CodesInv, CodeTypes, OnlyCurrentIsFresh, LiveSessionHolds, UploadHasSession,
            Upload, KnownCode, transfer
<1>1. CASE Hello(c)
  BY <1>1, SyncAssumption DEF Hello, Live
<1>2. CASE FailAttempt(c)
  BY <1>2 DEF FailAttempt, Live
<1>3. CASE Expire(c)
  BY <1>3 DEF Expire, Live
<1>4. CASE Abort(c)
  BY <1>4, FinishKeeps DEF Abort, Live
<1> QED
  BY <1>1, <1>2, <1>3, <1>4

LEMMA PlanKeepsCodes ==
  ASSUME CodesInv, NEW c \in Code, NEW way \in {"upload", "download"}, MakePlan(c, way),
         TransferInv
  PROVE  CodesInv'
<1>1. plan' \in [Code -> Plan]
  BY MakePlanKeeps DEF TransferInv, TransferTypes
<1>2. \A d \in Code : d # c => plan'[d] = plan[d]
  BY DEF MakePlan, CodesInv, CodeTypes
<1> QED
  BY <1>1, <1>2 DEF MakePlan, CodesInv, CodeTypes, OnlyCurrentIsFresh, LiveSessionHolds,
       UploadHasSession, Live, KnownCode, Upload, Stage, AtWork

\* A step of a transfer leaves its stage as it was, or at work as it was with the
\* session there, or no upload at work.
LEMMA StageKeepsCodes ==
  ASSUME CodesInv, NEW c \in Code, NEW s \in Stage, Goes(c, s),
         UNCHANGED <<codes, plan, released>>,
         s \in AtWork /\ Upload(c) => stage[c] \in AtWork \/ Live(c)
  PROVE  CodesInv'
<1>1. /\ stage' \in [Code -> Stage]
      /\ \A d \in Code : stage'[d] = IF d = c THEN s ELSE stage[d]
  BY DEF Goes, CodesInv, CodeTypes
<1> QED
  BY <1>1 DEF CodesInv, CodeTypes, OnlyCurrentIsFresh, LiveSessionHolds, UploadHasSession,
       Live, KnownCode, Upload, codes

\* The step that ends a transfer, with the session.
LEMMA EndKeepsCodes ==
  ASSUME CodesInv, NEW c \in Code, NEW s \in Stage, Goes(c, s), Finish(c),
         UNCHANGED <<plan, released>>, s \notin AtWork \/ ~Upload(c)
  PROVE  CodesInv'
<1>1. /\ stage' \in [Code -> Stage]
      /\ \A d \in Code : stage'[d] = IF d = c THEN s ELSE stage[d]
  BY DEF Goes, CodesInv, CodeTypes
<1> QED
  BY <1>1, FinishKeeps DEF CodesInv, CodeTypes, OnlyCurrentIsFresh, LiveSessionHolds,
       UploadHasSession, Live, KnownCode, Upload

LEMMA TransferKeepsCodes ==
  ASSUME CodesInv, NEW c \in Code,
         \/ AskTransfer(c) \/ Send(c) \/ BackupTarget(c) \/ UploadFiles(c) \/ RemovePaths(c)
         \/ Rollback(c) \/ WriteBackup(c) \/ ApplyLocal(c) \/ VerifyLocal(c) \/ RestoreLocal(c)
  PROVE  CodesInv'
<1>1. CASE AskTransfer(c)
  BY <1>1, StageKeepsCodes DEF AskTransfer, Live, Stage, AtWork
<1>2. CASE Send(c) \/ BackupTarget(c)
  BY <1>2, StageKeepsCodes DEF Send, BackupTarget, Stage, AtWork
<1>3. CASE UploadFiles(c) \/ RemovePaths(c) \/ Rollback(c)
  BY <1>3, StageKeepsCodes DEF UploadFiles, RemovePaths, Rollback, Stage, AtWork
<1>4. CASE WriteBackup(c) \/ ApplyLocal(c)
  BY <1>4, StageKeepsCodes DEF WriteBackup, ApplyLocal, Stage, AtWork
<1>5. CASE VerifyLocal(c) \/ RestoreLocal(c)
  BY <1>5, StageKeepsCodes DEF VerifyLocal, RestoreLocal, Stage, AtWork
<1> QED
  BY <1>1, <1>2, <1>3, <1>4, <1>5

LEMMA EndingKeepsCodes ==
  ASSUME CodesInv, NEW c \in Code, Receive(c) \/ Verify(c)
  PROVE  CodesInv'
<1>1. CASE Receive(c)
  BY <1>1, StageKeepsCodes, EndKeepsCodes DEF Receive, Stage, AtWork
<1>2. CASE Verify(c)
  BY <1>2, StageKeepsCodes, EndKeepsCodes DEF Verify, Stage, AtWork
<1> QED
  BY <1>1, <1>2

\* A restart cuts every upload.
LEMMA RestartKeepsCodes ==
  ASSUME CodesInv, RestartServer
  PROVE  CodesInv'
<1>1. \A c \in Code : stage'[c] \in AtWork => stage[c] \in AtWork /\ ~Upload(c)
  BY DEF RestartServer, AtWork
<1>2. /\ entry' \in [Code -> {"new", "fresh", "spent", "gone"}]
      /\ session' \in [Code -> {"none", "open", "planned", "gone"}]
      /\ stage' \in [Code -> Stage]
      /\ \A c \in Code : ~Live(c)'
      /\ \A c \in Code : /\ entry'[c] # "fresh"
                         /\ entry'[c] = "new" => session'[c] = "none"
  BY DEF RestartServer, CodesInv, CodeTypes, Live, Stage
<1> QED
  BY <1>1, <1>2 DEF RestartServer, CodesInv, CodeTypes, OnlyCurrentIsFresh, LiveSessionHolds,
       UploadHasSession, Upload

LEMMA CodesInvStep ==
  CodesInv /\ TransferInv /\ [SyncNext]_syncvars => CodesInv'
<1> SUFFICES ASSUME CodesInv, TransferInv, [SyncNext]_syncvars
             PROVE  CodesInv'
  OBVIOUS
<1> DEFINE same == UNCHANGED <<codes, plan, stage, released>>
<1>1. CASE same
  BY <1>1 DEF codes, CodesInv, CodeTypes, OnlyCurrentIsFresh, LiveSessionHolds,
       UploadHasSession, Live, KnownCode, Upload
<1>2. UNCHANGED syncvars => same
  BY DEF syncvars, codes
<1>3. (\E c \in Code : Disconnect(c)) => same
  BY DEF Disconnect
<1>4. (\E side \in Side, p \in Path : Edit(side, p)) => same
  BY DEF Edit, transfer
<1> QED
  BY <1>1, <1>2, <1>3, <1>4, GenerateKeeps, HelloKeeps, PlanKeepsCodes, TransferKeepsCodes,
     EndingKeepsCodes, RestartKeepsCodes DEF SyncNext

\* Two uploads write into the container at once only after a release: Generate and the
\* session keep the project to one of them, through restarts, failed hellos and aborts.
THEOREM OneUploadAtATime == SyncSpec => []OneTransferAtATime
<1>1. CodesInv => OneTransferAtATime
  BY DEF CodesInv, UploadHasSession, LiveSessionHolds, OneTransferAtATime
<1> QED
  BY CodesInvInit, CodesInvStep, TransferInvInit, TransferInvStep, <1>1, PTL DEF SyncSpec
-----------------------------------------------------------------------------
(* Types                                                                   *)

\* A code that the store still has, or will ever make, has failures left: the last
\* one drops its entry, and no step brings that entry back.
AttemptsLeft ==
  /\ attempts \in [Code -> 0..MaxAttempts]
  /\ \A c \in Code : entry[c] # "gone" => attempts[c] < MaxAttempts

RestTypes ==
  /\ lost \in [Code -> BOOLEAN]
  /\ current \in Code \cup {NoCode}

LEMMA RestInit == SyncInit => AttemptsLeft /\ RestTypes
BY SyncAssumption DEF SyncInit, AttemptsLeft, RestTypes

\* Only a failed hello counts, and only one of a known code.
LEMMA AttemptsLeftStep == CodesInv /\ AttemptsLeft /\ [SyncNext]_syncvars => AttemptsLeft'
<1> SUFFICES ASSUME CodesInv, AttemptsLeft, [SyncNext]_syncvars
             PROVE  AttemptsLeft'
  OBVIOUS
<1>1. ASSUME attempts' = attempts, \A c \in Code : entry[c] = "gone" => entry'[c] = "gone"
      PROVE  AttemptsLeft'
  BY <1>1 DEF AttemptsLeft
<1>2. CASE UNCHANGED <<entry, attempts>>
  BY <1>1, <1>2
<1>3. ASSUME NEW c \in Code, FailAttempt(c)
      PROVE  AttemptsLeft'
  <2>1. /\ attempts' = [attempts EXCEPT ![c] = @ + 1]
        /\ entry' = IF attempts[c] + 1 >= MaxAttempts THEN [entry EXCEPT ![c] = "gone"] ELSE entry
        /\ entry[c] # "gone"
    BY <1>3 DEF FailAttempt, KnownCode
  <2>2. attempts[c] \in Nat /\ attempts[c] + 1 \in 0..MaxAttempts
    BY <2>1, SyncAssumption DEF AttemptsLeft
  <2>3. attempts' \in [Code -> 0..MaxAttempts]
    BY <2>1, <2>2 DEF AttemptsLeft
  <2>4. ASSUME NEW d \in Code, entry'[d] # "gone"
        PROVE  attempts'[d] < MaxAttempts
    <3>1. CASE d = c
      BY <2>1, <2>2, <2>4, <3>1, SyncAssumption DEF AttemptsLeft, CodesInv, CodeTypes
    <3>2. CASE d # c
      BY <2>1, <2>4, <3>2 DEF AttemptsLeft, CodesInv, CodeTypes
    <3> QED
      BY <3>1, <3>2
  <2> QED
    BY <2>3, <2>4 DEF AttemptsLeft
<1>4. ASSUME NEW c \in Code, Generate(c)
      PROVE  AttemptsLeft'
  <2>1. attempts' = attempts
    BY <1>4 DEF Generate
  <2>2. \A d \in Code : entry[d] = "gone" => entry'[d] = "gone"
    BY <1>4 DEF Generate, CodesInv, CodeTypes
  <2> QED
    BY <2>1, <2>2, <1>1
<1>5. ASSUME NEW c \in Code, Finish(c)
      PROVE  /\ attempts' = attempts
             /\ \A d \in Code : entry[d] = "gone" => entry'[d] = "gone"
  BY <1>5 DEF Finish, codes, KnownCode, CodesInv, CodeTypes
<1>6. ASSUME NEW c \in Code, NEW way \in {"upload", "download"}, MakePlan(c, way)
      PROVE  AttemptsLeft'
  <2>1. attempts' = attempts /\ \A d \in Code : entry[d] = "gone" => entry'[d] = "gone"
    BY <1>6 DEF MakePlan, KnownCode, CodesInv, CodeTypes
  <2> QED
    BY <2>1, <1>1
<1>7. ASSUME NEW c \in Code, Abort(c) \/ Receive(c) \/ Verify(c)
      PROVE  AttemptsLeft'
  <2>1. Finish(c) \/ UNCHANGED <<entry, attempts>>
    BY <1>7 DEF Abort, Receive, Verify, codes
  <2> QED
    BY <2>1, <1>1, <1>2, <1>5
<1>8. ASSUME RestartServer
      PROVE  AttemptsLeft'
  <2>1. attempts' = attempts /\ \A d \in Code : entry[d] = "gone" => entry'[d] = "gone"
    BY <1>8 DEF RestartServer
  <2> QED
    BY <2>1, <1>1
<1>9. CASE UNCHANGED syncvars
  BY <1>9, <1>2 DEF syncvars
<1>10. ASSUME NEW c \in Code,
              \/ Hello(c) \/ Expire(c) \/ AskTransfer(c) \/ Disconnect(c)
              \/ Send(c) \/ BackupTarget(c) \/ UploadFiles(c) \/ RemovePaths(c) \/ Rollback(c)
              \/ WriteBackup(c) \/ ApplyLocal(c) \/ VerifyLocal(c) \/ RestoreLocal(c)
       PROVE  AttemptsLeft'
  <2>1. UNCHANGED <<entry, attempts>>
    BY <1>10 DEF Hello, Expire, AskTransfer, Disconnect, Send, BackupTarget, UploadFiles,
         RemovePaths, Rollback, WriteBackup, ApplyLocal, VerifyLocal, RestoreLocal, codes
  <2> QED
    BY <2>1, <1>2
<1>11. ASSUME NEW side \in Side, NEW p \in Path, Edit(side, p)
       PROVE  AttemptsLeft'
  BY <1>11, <1>2 DEF Edit, codes
<1> QED
  BY <1>3, <1>4, <1>6, <1>7, <1>8, <1>9, <1>10, <1>11 DEF SyncNext

LEMMA RestTypesStep == RestTypes /\ [SyncNext]_syncvars => RestTypes'
<1> SUFFICES ASSUME RestTypes, [SyncNext]_syncvars
             PROVE  RestTypes'
  OBVIOUS
<1> DEFINE rest == UNCHANGED <<lost, current>>
<1>1. \A c \in Code : Finish(c) => current' = current \/ current' = NoCode
  BY DEF Finish, codes
<1>2. ASSUME NEW c \in Code
      PROVE  /\ Generate(c) => lost' = lost /\ current' = c
             /\ Hello(c) \/ FailAttempt(c) \/ Expire(c) => rest
             /\ Abort(c) => lost' = lost /\ Finish(c)
             /\ Disconnect(c) => lost' = [lost EXCEPT ![c] = TRUE] /\ current' = current
  BY DEF Generate, Hello, FailAttempt, Expire, Abort, Disconnect, codes, transfer
<1>3. ASSUME NEW c \in Code
      PROVE  /\ \A way \in {"upload", "download"} : MakePlan(c, way) => rest
             /\ AskTransfer(c) \/ Send(c) \/ BackupTarget(c) \/ WriteBackup(c) => rest
             /\ UploadFiles(c) \/ RemovePaths(c) \/ ApplyLocal(c) => rest
  BY DEF MakePlan, AskTransfer, Send, BackupTarget, WriteBackup, UploadFiles, RemovePaths,
         ApplyLocal, codes
<1>4. ASSUME NEW c \in Code
      PROVE  /\ Rollback(c) \/ RestoreLocal(c) \/ VerifyLocal(c) => rest
             /\ Receive(c) \/ Verify(c) => lost' = lost /\ (Finish(c) \/ current' = current)
  BY DEF Rollback, RestoreLocal, VerifyLocal, Receive, Verify, codes
<1>5. /\ \A side \in Side, p \in Path : Edit(side, p) => rest
      /\ RestartServer => lost' = lost /\ current' = NoCode
      /\ UNCHANGED syncvars => rest
  BY DEF Edit, RestartServer, syncvars, codes, transfer
<1>6. lost' = lost \/ \E c \in Code : lost' = [lost EXCEPT ![c] = TRUE]
  BY <1>2, <1>3, <1>4, <1>5 DEF SyncNext
<1>7. current' = current \/ current' = NoCode \/ \E c \in Code : current' = c
  BY <1>1, <1>2, <1>3, <1>4, <1>5 DEF SyncNext
<1> QED
  BY <1>6, <1>7 DEF RestTypes

\* Trees, codes, sessions and transfers are of their types for any number of codes and
\* any limit on failed hellos; that the tally stays within the limit is the code's doing.
THEOREM SyncTypesHold == SyncSpec => []SyncTypeOK
<1>1. TransferInv /\ CodesInv /\ AttemptsLeft /\ RestTypes => SyncTypeOK
  BY DEF TransferInv, TransferTypes, CodesInv, CodeTypes, AttemptsLeft, RestTypes, SyncTypeOK,
     Stage
<1> QED
  BY TransferInvInit, TransferInvStep, CodesInvInit, CodesInvStep, RestInit, AttemptsLeftStep,
     RestTypesStep, <1>1, PTL DEF SyncSpec
-----------------------------------------------------------------------------
(* What a transfer promises: OneTransfer                                   *)

\* A session that has no plan yet has no transfer: a plan begins one, and is made once.
PlanComesFirst == \A c \in Code : session[c] \in {"none", "open"} => stage[c] = "none"

LEMMA FinishEndsOnly ==
  ASSUME CodesInv, NEW c \in Code, Finish(c)
  PROVE  \A d \in Code : session'[d] = session[d] \/ session'[d] = "gone"
BY DEF Finish, codes, CodesInv, CodeTypes

\* A transfer that moves on has begun.
LEMMA GoesOnKeepsFirst ==
  ASSUME CodesInv, PlanComesFirst, NEW c \in Code, NEW s \in Stage, Goes(c, s),
         stage[c] # "none", Finish(c) \/ UNCHANGED codes
  PROVE  PlanComesFirst'
<1>1. \A d \in Code : d # c => stage'[d] = stage[d]
  BY DEF Goes, CodesInv, CodeTypes
<1>2. \A d \in Code : session'[d] = session[d] \/ session'[d] = "gone"
  BY FinishEndsOnly DEF codes
<1> QED
  BY <1>1, <1>2 DEF PlanComesFirst

LEMMA PlanComesFirstStep ==
  CodesInv /\ PlanComesFirst /\ [SyncNext]_syncvars => PlanComesFirst'
<1> SUFFICES ASSUME CodesInv, PlanComesFirst, [SyncNext]_syncvars
             PROVE  PlanComesFirst'
  OBVIOUS
<1>1. ASSUME stage' = stage,
             \A d \in Code : session'[d] \in {"none", "open"} => session[d] \in {"none", "open"}
      PROVE  PlanComesFirst'
  BY <1>1 DEF PlanComesFirst
<1>2. CASE UNCHANGED <<stage, session>>
  BY <1>1, <1>2
<1>3. CASE UNCHANGED syncvars
  BY <1>2, <1>3 DEF syncvars
<1>4. ASSUME NEW side \in Side, NEW p \in Path, Edit(side, p)
      PROVE  PlanComesFirst'
  BY <1>2, <1>4 DEF Edit, codes, transfer
<1>5. ASSUME NEW c \in Code, FailAttempt(c) \/ Expire(c) \/ Disconnect(c)
      PROVE  PlanComesFirst'
  BY <1>2, <1>5 DEF FailAttempt, Expire, Disconnect, codes, transfer
<1>6. ASSUME NEW c \in Code, Generate(c) \/ Hello(c) \/ Abort(c)
      PROVE  PlanComesFirst'
  <2>1. stage' = stage
    BY <1>6 DEF Generate, Hello, Abort, transfer
  <2>2. CASE Generate(c)
    BY <1>1, <2>1, <2>2 DEF Generate, CodesInv, CodeTypes
  <2>3. CASE Hello(c)
    BY <1>1, <2>1, <2>3 DEF Hello, CodesInv, CodeTypes
  <2>4. CASE Abort(c)
    BY <1>1, <2>1, <2>4, FinishEndsOnly DEF Abort
  <2> QED
    BY <1>6, <2>2, <2>3, <2>4
<1>7. ASSUME NEW c \in Code, NEW way \in {"upload", "download"}, MakePlan(c, way)
      PROVE  PlanComesFirst'
  <2>1. /\ session'[c] = "planned"
        /\ \A d \in Code : d # c => session'[d] = session[d] /\ stage'[d] = stage[d]
    BY <1>7 DEF MakePlan, CodesInv, CodeTypes
  <2> QED
    BY <2>1 DEF PlanComesFirst
<1>8. ASSUME NEW c \in Code,
             \/ AskTransfer(c) \/ Send(c) \/ BackupTarget(c) \/ UploadFiles(c)
             \/ RemovePaths(c) \/ Rollback(c) \/ WriteBackup(c) \/ ApplyLocal(c)
             \/ VerifyLocal(c) \/ RestoreLocal(c) \/ Receive(c) \/ Verify(c)
      PROVE  PlanComesFirst'
  <2>1. stage[c] # "none" /\ (Finish(c) \/ UNCHANGED codes)
    BY <1>8 DEF AskTransfer, Send, BackupTarget, UploadFiles, RemovePaths, Rollback,
         WriteBackup, ApplyLocal, VerifyLocal, RestoreLocal, Receive, Verify
  <2>2. \E s \in Stage : Goes(c, s)
    <3> USE DEF Stage, AtWork
    <3>1. CASE AskTransfer(c) \/ Send(c) \/ BackupTarget(c) \/ WriteBackup(c) \/ Receive(c)
      BY <3>1 DEF AskTransfer, Send, BackupTarget, WriteBackup, Receive
    <3>2. CASE UploadFiles(c) \/ RemovePaths(c) \/ ApplyLocal(c) \/ Verify(c) \/ VerifyLocal(c)
      BY <3>2 DEF UploadFiles, RemovePaths, ApplyLocal, Verify, VerifyLocal
    <3>3. CASE Rollback(c) \/ RestoreLocal(c)
      BY <3>3 DEF Rollback, RestoreLocal
    <3> QED
      BY <1>8, <3>1, <3>2, <3>3
  <2> QED
    BY <2>1, <2>2, GoesOnKeepsFirst
<1>9. ASSUME RestartServer
      PROVE  PlanComesFirst'
  <2>1. \A d \in Code : /\ stage[d] = "none" => stage'[d] = "none"
                        /\ session'[d] # "gone" => session[d] = "none"
    BY <1>9 DEF RestartServer, CodesInv, OnlyCurrentIsFresh, AtWork
  <2>2. \A d \in Code : session'[d] = "gone" \/ session'[d] = "none"
    BY <1>9 DEF RestartServer
  <2> QED
    BY <2>1, <2>2 DEF PlanComesFirst
<1> QED
  BY <1>3, <1>4, <1>5, <1>6, <1>7, <1>8, <1>9 DEF SyncNext

\* What is told of a transfer is of the kinds that OneTransfer knows.
LEMMA PromisedTypes ==
  ASSUME TransferTypes
  PROVE  /\ deals \in [Code -> Promised!Deal] /\ terms \in [Code -> Promised!Terms]
         /\ files \in [Side -> Promised!Tree] /\ touched \in [Code -> SUBSET Path]
         /\ \A c \in Code : deals[c] = "none" <=> stage[c] = "none"
         /\ \A c \in Code : /\ terms[c].to = Target(c)
                            /\ terms[c].before = plan[c].target
                            /\ terms[c].after = plan[c].source
<1>1. \A c \in Code : DealOf(c) \in Promised!Deal /\ (DealOf(c) = "none" <=> stage[c] = "none")
  BY DEF DealOf, Promised!Deal
<1>2. Tree = Promised!Tree
  BY DEF Tree, Promised!Tree
<1>3. \A c \in Code : plan[c].target \in Promised!Tree /\ plan[c].source \in Promised!Tree
  BY <1>2 DEF TransferTypes, Plan
<1>4. \A c \in Code : Target(c) \in Side
  BY TargetIsASide
<1>5. terms \in [Code -> Promised!Terms]
  BY <1>3, <1>4 DEF terms, Promised!Terms
<1>6. deals \in [Code -> Promised!Deal] /\ \A c \in Code : deals[c] = DealOf(c)
  BY <1>1 DEF deals
<1>7. \A c \in Code : /\ terms[c].to = Target(c)
                      /\ terms[c].before = plan[c].target
                      /\ terms[c].after = plan[c].source
  BY DEF terms
<1> QED
  BY <1>1, <1>2, <1>5, <1>6, <1>7 DEF TransferTypes

LEMMA TermsStay == plan' = plan => terms' = terms
BY DEF terms, Target, Upload

\* A step of one transfer tells of that one only.
LEMMA GoesTells ==
  ASSUME TransferTypes, NEW c \in Code, NEW s, Goes(c, s),
         \A d \in Code : d # c => saved'[d] = saved[d]
  PROVE  /\ deals' = [deals EXCEPT ![c] = DealOf(c)'] /\ deals[c] = DealOf(c)
         /\ stage'[c] = s
<1>1. \A d \in Code : stage'[d] = IF d = c THEN s ELSE stage[d]
  BY DEF Goes, TransferTypes
<1>2. \A d \in Code : d # c => DealOf(d)' = DealOf(d)
  BY <1>1 DEF DealOf
<1> QED
  BY <1>1, <1>2 DEF deals

\* A write of the model is one of the promise.
LEMMA PutsIsPut ==
  ASSUME TransferTypes, NEW c \in Code, NEW ps \in SUBSET Ops(c), NEW from,
         Puts(c, ps, from), plan' = plan
  PROVE  ps \in SUBSET Promised!Differing(c) /\ Promised!Put(c, ps, from)
<1>1. Promised!Differing(c) = Ops(c)
  BY PromisedTypes DEF Promised!Differing, Ops
<1>2. Promised!Beside(c) = {d \in Code : d # c /\ stage[d] # "none" /\ Target(d) = Target(c)}
  BY PromisedTypes DEF Promised!Beside
<1>3. files' = [files EXCEPT ![terms[c].to] =
                  [p \in Path |-> IF p \in ps THEN from[p] ELSE @[p]]]
  BY PromisedTypes DEF Puts
<1>4. touched' = [d \in Code |-> IF d \in Promised!Beside(c) THEN touched[d] \cup ps
                                                             ELSE touched[d]]
  BY <1>2 DEF Puts
<1> QED
  BY <1>1, <1>3, <1>4, TermsStay DEF Promised!Put
LEMMA PlanIsStart ==
  ASSUME TransferTypes, PlanComesFirst, NEW c \in Code, NEW way \in {"upload", "download"},
         MakePlan(c, way)
  PROVE  Promised!Start(c)
<1> DEFINE source == IF way = "upload" THEN "laptop" ELSE "pcoder"
           target == IF way = "upload" THEN "pcoder" ELSE "laptop"
           new == [way |-> way, source |-> files[source], target |-> files[target]]
<1>1. /\ plan' = [plan EXCEPT ![c] = new] /\ Goes(c, "planned") /\ saved' = saved
      /\ UNCHANGED <<files, touched>>
  BY DEF MakePlan, Goes
<1>2. stage[c] = "none"
  BY DEF MakePlan, PlanComesFirst
<1>3. deals[c] = "none" /\ Promised!Becomes(c, "agreed")
  BY <1>1, <1>2, GoesTells DEF DealOf, Promised!Becomes
<1>4. plan'[c] = new /\ \A d \in Code : d # c => plan'[d] = plan[d]
  BY <1>1 DEF TransferTypes
<1>5. Target(c)' = target /\ \A d \in Code : d # c => Target(d)' = Target(d)
  BY <1>4 DEF Target, Upload
<1>6. terms' = [terms EXCEPT ![c] = [to |-> target, before |-> files[target],
                                     after |-> files[source]]]
  <2> DEFINE term(d) == [to |-> Target(d), before |-> plan[d].target, after |-> plan[d].source]
  <2>1. term(c)' = [to |-> target, before |-> files[target], after |-> files[source]]
    BY <1>4, <1>5
  <2>2. \A d \in Code : d # c => term(d)' = term(d)
    BY <1>4, <1>5
  <2>3. terms = [d \in Code |-> term(d)] /\ terms' = [d \in Code |-> term(d)']
    BY DEF terms
  <2> QED
    BY <2>1, <2>2, <2>3
<1>7. source \in Side /\ target \in Side
  BY DEF Side
<1>8. \E s, t \in Side :
        terms' = [terms EXCEPT ![c] = [to |-> t, before |-> files[t], after |-> files[s]]]
  BY <1>6, <1>7
<1> QED
  BY <1>1, <1>3, <1>8 DEF Promised!Start

LEMMA SomeLeave ==
  ASSUME NEW c \in Code, Promised!Leave({c})
  PROVE  Promised!Next
BY DEF Promised!Next

\* Before the first write a transfer goes on or gives up.
LEMMA StagingIsPromised ==
  ASSUME TransferTypes, NEW c \in Code,
         AskTransfer(c) \/ Receive(c) \/ Send(c) \/ BackupTarget(c) \/ WriteBackup(c)
  PROVE  Promised!Next \/ UNCHANGED Promised!transferVars
<1> DEFINE before == {"planned", "asked", "staged", "backed"}
<1>1. UNCHANGED <<files, plan, touched>>
  BY DEF AskTransfer, Receive, Send, BackupTarget, WriteBackup
<1>2. /\ stage[c] \in before
      /\ \E s \in before \cup {"failed"} : Goes(c, s)
      /\ saved' = saved \/ \E b \in {"none", "sound", "stale"} : saved' = [saved EXCEPT ![c] = b]
  BY DEF AskTransfer, Receive, Send, BackupTarget, WriteBackup
<1>3. \A d \in Code : d # c => saved'[d] = saved[d]
  BY <1>2 DEF TransferTypes
<1>4. PICK s \in before \cup {"failed"} : Goes(c, s)
  BY <1>2
<1>5. /\ deals' = [deals EXCEPT ![c] = DealOf(c)'] /\ deals[c] = "agreed"
      /\ DealOf(c)' = IF s = "failed" THEN "asBefore" ELSE "agreed"
  BY <1>2, <1>3, <1>4, GoesTells DEF DealOf
<1>6. terms' = terms
  BY <1>1, TermsStay
<1>7. CASE s = "failed"
  <2>1. Promised!GiveUp(c)
    BY <1>1, <1>5, <1>6, <1>7 DEF Promised!GiveUp, Promised!Becomes
  <2> QED
    BY <2>1 DEF Promised!Next
<1>8. CASE s # "failed"
  <2>1. deals' = deals
    BY <1>5, <1>8, PromisedTypes
  <2> QED
    BY <1>1, <1>6, <2>1 DEF Promised!transferVars
<1> QED
  BY <1>7, <1>8

LEMMA ApplyIsWrite ==
  ASSUME TransferTypes, NEW c \in Code, UploadFiles(c) \/ RemovePaths(c) \/ ApplyLocal(c)
  PROVE  Promised!Next
<1>1. PICK ps \in SUBSET Ops(c), s \in {"written", "applied", "undo"} :
        Puts(c, ps, plan[c].source) /\ Goes(c, s)
  BY DEF UploadFiles, RemovePaths, ApplyLocal, ToMove, Deleted
<1>2. UNCHANGED <<plan, saved>> /\ stage[c] \in {"backed", "written"}
  BY DEF UploadFiles, RemovePaths, ApplyLocal
<1>3. deals[c] \in Promised!UnderWay /\ Promised!Becomes(c, "writing")
  BY <1>1, <1>2, GoesTells DEF DealOf, Promised!UnderWay, Promised!Becomes
<1>4. ps \in SUBSET Promised!Differing(c) /\ Promised!Put(c, ps, terms[c].after)
  BY <1>1, <1>2, PutsIsPut, PromisedTypes
<1>5. Promised!Write(c)
  BY <1>3, <1>4 DEF Promised!Write
<1> QED
  BY <1>5 DEF Promised!Next

LEMMA VerifyIsPromised ==
  ASSUME TransferTypes, NEW c \in Code, Verify(c) \/ VerifyLocal(c)
  PROVE  Promised!Next \/ UNCHANGED Promised!transferVars
<1>1. UNCHANGED <<files, plan, touched, saved>> /\ stage[c] = "applied"
  BY DEF Verify, VerifyLocal
<1>2. PICK s \in {"done", "undo", "unrestored"} :
        Goes(c, s) /\ (s = "done" => files[Target(c)] = plan[c].source)
  BY DEF Verify, VerifyLocal, Target
<1>3. /\ deals' = [deals EXCEPT ![c] = DealOf(c)'] /\ deals[c] = "writing" /\ stage'[c] = s
      /\ terms' = terms
  BY <1>1, <1>2, GoesTells, TermsStay DEF DealOf
<1>4. CASE s = "done"
  <2>1. Promised!Complete(c)
    BY <1>1, <1>2, <1>3, <1>4, PromisedTypes DEF DealOf, Promised!Complete, Promised!Becomes
  <2> QED
    BY <2>1 DEF Promised!Next
<1>5. CASE s = "undo"
  <2>1. DealOf(c)' = "writing"
    BY <1>3, <1>5 DEF DealOf
  <2>2. deals' = deals
    BY <1>3, <2>1, PromisedTypes
  <2> QED
    BY <1>1, <1>3, <2>2 DEF Promised!transferVars
<1>6. CASE s = "unrestored"
  <2>1. DealOf(c)' = "left"
    BY <1>3, <1>6 DEF DealOf
  <2>2. deals' = [d \in Code |-> IF d \in {c} THEN "left" ELSE deals[d]]
    BY <1>3, <2>1, PromisedTypes
  <2>3. Promised!Leave({c})
    BY <1>1, <1>3, <2>2 DEF Promised!Leave, Promised!UnderWay
  <2> QED
    BY <2>3, SomeLeave
<1> QED
  BY <1>2, <1>4, <1>5, <1>6

\* Who says restored after a backup has restored.
LEMMA UndoIsPromised ==
  ASSUME TransferInv, NEW c \in Code, Rollback(c) \/ RestoreLocal(c)
  PROVE  Promised!Next
<1>1. TransferTypes /\ UNCHANGED <<plan, saved>> /\ stage[c] = "undo"
  BY DEF Rollback, RestoreLocal, TransferInv
<1>2. terms' = terms
  BY <1>1, TermsStay
<1>3. CASE /\ UNCHANGED <<files, touched>>
           /\ \/ Goes(c, "restored") /\ saved[c] = "none"
              \/ Goes(c, "unrestored")
  <2>1. /\ deals' = [deals EXCEPT ![c] = "left"] /\ deals[c] = "writing"
    BY <1>1, <1>3, GoesTells DEF DealOf
  <2>2. deals' = [d \in Code |-> IF d \in {c} THEN "left" ELSE deals[d]]
    BY <1>1, <2>1, PromisedTypes
  <2>3. Promised!Leave({c})
    BY <1>2, <1>3, <2>1, <2>2 DEF Promised!Leave, Promised!UnderWay
  <2> QED
    BY <2>3, SomeLeave
<1>4. CASE saved[c] # "none" /\ Puts(c, Ops(c), plan[c].target) /\ Goes(c, "restored")
  <2>1. Restores(c)'
    BY <1>1, <1>4, PutsBack DEF TransferInv
  <2>2. deals[c] = "writing" /\ Promised!Becomes(c, "asBefore")
    BY <1>1, <1>4, GoesTells DEF DealOf, Promised!Becomes
  <2>3. Ops(c) \in SUBSET Promised!Differing(c) /\ Promised!Put(c, Ops(c), terms[c].before)
    BY <1>1, <1>4, PutsIsPut, PromisedTypes
  <2>4. Target(c)' = Target(c) /\ plan' = plan
    BY <1>1 DEF Target, Upload
  <2>5. Promised!SameButOthers(c, files[terms[c].to], terms[c].before)'
    BY <1>1, <1>2, <2>1, <2>4, PromisedTypes DEF Restores, Agree, Promised!SameButOthers
  <2>6. Promised!Undo(c)
    BY <2>2, <2>3, <2>5 DEF Promised!Undo
  <2> QED
    BY <2>6 DEF Promised!Next
<1>5. CASE \E ps \in SUBSET Ops(c) : Puts(c, ps, plan[c].target) /\ Goes(c, "unrestored")
  <2>1. PICK ps \in SUBSET Ops(c) : Puts(c, ps, plan[c].target)
    BY <1>5
  <2>2. deals[c] \in Promised!UnderWay /\ Promised!Becomes(c, "left")
    BY <1>1, <1>5, GoesTells DEF DealOf, Promised!UnderWay, Promised!Becomes
  <2>3. ps \in SUBSET Promised!Differing(c) /\ Promised!Put(c, ps, terms[c].before)
    BY <1>1, <2>1, PutsIsPut, PromisedTypes
  <2>4. Promised!Write(c)
    BY <2>2, <2>3 DEF Promised!Write
  <2> QED
    BY <2>4 DEF Promised!Next
<1> QED
  BY <1>3, <1>4, <1>5 DEF Rollback, RestoreLocal
LEMMA EditIsPromised ==
  ASSUME TransferTypes, NEW side \in Side, NEW p \in Path, Edit(side, p)
  PROVE  Promised!Next
<1>1. /\ files' = [files EXCEPT ![side][p] = "edit"]
      /\ touched' = [k \in Code |-> IF stage[k] # "none" /\ Target(k) = side
                                    THEN touched[k] \cup {p} ELSE touched[k]]
      /\ UNCHANGED <<plan, stage, saved>>
  BY DEF Edit, transfer
<1>2. \E x \in Content : files' = [files EXCEPT ![side][p] = x]
  BY <1>1 DEF Content
<1>3. touched' = [k \in Code |-> IF deals[k] # "none" /\ terms[k].to = side
                                 THEN touched[k] \cup {p} ELSE touched[k]]
  BY <1>1, PromisedTypes
<1>4. terms' = terms /\ deals' = deals
  BY <1>1, TermsStay DEF deals, DealOf
<1>5. Promised!Edit(side, p)
  BY <1>2, <1>3, <1>4 DEF Promised!Edit
<1> QED
  BY <1>5 DEF Promised!Next

\* A restart leaves every upload at work, and what has not begun.
LEMMA RestartIsLeave ==
  ASSUME TransferTypes, RestartServer
  PROVE  Promised!Next
<1> DEFINE S == {c \in Code : stage[c] \in AtWork /\ (Upload(c) \/ stage[c] = "asked")}
<1>1. /\ UNCHANGED <<files, plan, saved, touched>>
      /\ \A c \in Code : stage'[c] = IF c \in S THEN "cut" ELSE stage[c]
  BY DEF RestartServer
<1>2. \A c \in S : DealOf(c) \in Promised!UnderWay /\ DealOf(c)' = "left"
  BY <1>1 DEF DealOf, AtWork, Promised!UnderWay
<1>3. \A c \in Code \ S : DealOf(c)' = DealOf(c)
  BY <1>1 DEF DealOf
<1>4. deals' = [c \in Code |-> IF c \in S THEN "left" ELSE deals[c]]
  BY <1>2, <1>3 DEF deals
<1>5. \A c \in S : deals[c] \in Promised!UnderWay
  BY <1>2 DEF deals
<1>6. Promised!Leave(S)
  BY <1>1, <1>4, <1>5, TermsStay DEF Promised!Leave
<1> QED
  BY <1>6 DEF Promised!Next

LEMMA StepIsPromised ==
  TransferInv /\ PlanComesFirst /\ [SyncNext]_syncvars
    => [Promised!Next]_(Promised!transferVars)
<1> SUFFICES ASSUME TransferInv, PlanComesFirst, [SyncNext]_syncvars
             PROVE  Promised!Next \/ UNCHANGED Promised!transferVars
  OBVIOUS
<1> DEFINE quiet == UNCHANGED <<files, plan, touched, stage, saved>>
<1>1. TransferTypes
  BY DEF TransferInv
<1>2. CASE quiet
  <2>1. deals' = deals
    BY <1>2 DEF deals, DealOf
  <2> QED
    BY <1>2, <2>1, TermsStay DEF Promised!transferVars
<1>3. UNCHANGED syncvars => quiet
  BY DEF syncvars
<1>4. ASSUME NEW c \in Code,
             \/ Generate(c) \/ Hello(c) \/ FailAttempt(c) \/ Expire(c) \/ Abort(c)
             \/ Disconnect(c)
      PROVE  quiet
  BY <1>4 DEF Generate, Hello, FailAttempt, Expire, Abort, Disconnect, transfer
<1>5. ASSUME NEW c \in Code, NEW way \in {"upload", "download"}, MakePlan(c, way)
      PROVE  Promised!Next
  <2>1. Promised!Start(c)
    BY <1>1, <1>5, PlanIsStart
  <2> QED
    BY <2>1 DEF Promised!Next
<1>6. ASSUME NEW c \in Code,
             \/ AskTransfer(c) \/ Send(c) \/ BackupTarget(c) \/ UploadFiles(c)
             \/ RemovePaths(c) \/ Rollback(c) \/ WriteBackup(c) \/ ApplyLocal(c)
             \/ VerifyLocal(c) \/ RestoreLocal(c) \/ Receive(c) \/ Verify(c)
      PROVE  Promised!Next \/ UNCHANGED Promised!transferVars
  <2>1. CASE AskTransfer(c) \/ Receive(c) \/ Send(c) \/ BackupTarget(c) \/ WriteBackup(c)
    BY <1>1, <2>1, StagingIsPromised
  <2>2. CASE UploadFiles(c) \/ RemovePaths(c) \/ ApplyLocal(c)
    BY <1>1, <2>2, ApplyIsWrite
  <2>3. CASE Verify(c) \/ VerifyLocal(c)
    BY <1>1, <2>3, VerifyIsPromised
  <2>4. CASE Rollback(c) \/ RestoreLocal(c)
    BY <2>4, UndoIsPromised
  <2> QED
    BY <1>6, <2>1, <2>2, <2>3, <2>4
<1>7. ASSUME NEW side \in Side, NEW p \in Path, Edit(side, p)
      PROVE  Promised!Next
  BY <1>1, <1>7, EditIsPromised
<1>8. RestartServer => Promised!Next
  BY <1>1, RestartIsLeave
<1> QED
  BY <1>2, <1>3, <1>4, <1>5, <1>6, <1>7, <1>8 DEF SyncNext

LEMMA SyncStarts == SyncInit => PlanComesFirst /\ Promised!Init
<1> SUFFICES ASSUME SyncInit
             PROVE  PlanComesFirst /\ Promised!Init
  OBVIOUS
<1>1. PlanComesFirst
  BY DEF SyncInit, PlanComesFirst
<1>2. TransferTypes
  BY TransferInvInit DEF TransferInv
<1>3. deals = [c \in Code |-> "none"]
  <2>1. \A c \in Code : DealOf(c) = "none"
    BY DEF SyncInit, DealOf
  <2> QED
    BY <2>1 DEF deals
<1>4. touched = [c \in Code |-> {}]
  BY DEF SyncInit
<1> QED
  BY <1>1, <1>2, <1>3, <1>4, PromisedTypes DEF Promised!Init

\* Sync implements OneTransfer for any paths, codes and bounds: what is told of a transfer
\* is true of the trees at that step, whatever fails, is cut or is written by others, and
\* no transfer that has ended is told of again.
THEOREM SyncRefinesOneTransfer == SyncSpec => RefinesOneTransfer
BY TransferInvInit, TransferInvStep, CodesInvInit, CodesInvStep, SyncStarts,
   PlanComesFirstStep, StepIsPromised, PTL DEF SyncSpec, RefinesOneTransfer, Promised!Spec

-----------------------------------------------------------------------------
(* The promise is honest                                                   *)

\* What a write leaves of the promises, made to its own side and to the other.
LEMMA PutIsHonest ==
  ASSUME TransferTypes, TransferTypes', NEW c \in Code, NEW ps, NEW from,
         Promised!Put(c, ps, from)
  PROVE  /\ terms' = terms /\ touched'[c] = touched[c]
         /\ \A d \in Code : d # c /\ deals[d] # "none" =>
              /\ touched[d] \subseteq touched'[d]
              /\ \A p \in Path \ touched'[d] : files'[terms[d].to][p] = files[terms[d].to][p]
         /\ \A p \in Path : files'[terms[c].to][p] = IF p \in ps THEN from[p]
                                                                 ELSE files[terms[c].to][p]
<1>1. terms' = terms /\ \A d \in Code : terms[d].to \in Side
  BY PromisedTypes, TargetIsASide DEF Promised!Put
<1>2. \A s \in Side, p \in Path :
        files'[s][p] = IF s = terms[c].to /\ p \in ps THEN from[p] ELSE files[s][p]
  BY <1>1 DEF Promised!Put, TransferTypes, Tree
<1>3. \A d \in Code : touched'[d] = IF d \in Promised!Beside(c) THEN touched[d] \cup ps
                                                                ELSE touched[d]
  BY DEF Promised!Put
<1>4. touched'[c] = touched[c]
  BY <1>3 DEF Promised!Beside
<1>5. ASSUME NEW d \in Code, d # c, deals[d] # "none"
      PROVE  /\ touched[d] \subseteq touched'[d]
             /\ \A p \in Path \ touched'[d] : files'[terms[d].to][p] = files[terms[d].to][p]
  <2>1. CASE terms[d].to = terms[c].to
    <3>1. touched'[d] = touched[d] \cup ps
      BY <1>3, <1>5, <2>1 DEF Promised!Beside
    <3> QED
      BY <1>1, <1>2, <3>1
  <2>2. CASE terms[d].to # terms[c].to
    <3>1. touched'[d] = touched[d]
      BY <1>3, <2>2 DEF Promised!Beside
    <3> QED
      BY <1>1, <1>2, <2>2, <3>1
  <2> QED
    BY <2>1, <2>2
<1> QED
  BY <1>1, <1>2, <1>4, <1>5
\* An honest transfer stays so when others write, as long as they say it.
LEMMA OthersKeepHonest ==
  ASSUME NEW d \in Code, Promised!HonestAbout(d), deals'[d] = deals[d], terms'[d] = terms[d],
         touched[d] \subseteq touched'[d],
         \A p \in Path \ touched'[d] : files'[terms[d].to][p] = files[terms[d].to][p]
  PROVE  Promised!HonestAbout(d)'
BY DEF Promised!HonestAbout, Promised!SameButOthers

LEMMA OtherDealsStay ==
  ASSUME TransferTypes, NEW c \in Code, NEW x, Promised!Becomes(c, x)
  PROVE  deals'[c] = x /\ \A d \in Code : d # c => deals'[d] = deals[d]
BY PromisedTypes DEF Promised!Becomes

\* A transfer that nothing is told of yet is honest.
LEMMA UntoldIsHonest ==
  ASSUME NEW d \in Code, deals[d] = "none"
  PROVE  Promised!HonestAbout(d)
BY DEF Promised!HonestAbout

LEMMA UntoldIsHonestNext ==
  ASSUME NEW d \in Code, deals'[d] = "none"
  PROVE  Promised!HonestAbout(d)'
BY DEF Promised!HonestAbout

\* What transfer c writes is a mixture, and the others stay honest.
LEMMA WriteIsHonest ==
  ASSUME TransferTypes, TransferTypes', Promised!Honest, NEW c \in Code,
         Promised!Write(c) \/ Promised!Undo(c)
  PROVE  Promised!Honest'
<1>1. PICK ps \in SUBSET Promised!Differing(c), from \in {terms[c].before, terms[c].after} :
        Promised!Put(c, ps, from)
  BY DEF Promised!Write, Promised!Undo
<1>2. deals[c] \in Promised!UnderWay
  BY DEF Promised!Write, Promised!Undo, Promised!UnderWay
<1>3. PICK x \in {"writing", "left", "asBefore"} : Promised!Becomes(c, x)
  BY DEF Promised!Write, Promised!Undo
<1>4. /\ terms' = terms /\ touched'[c] = touched[c]
      /\ \A d \in Code : d # c /\ deals[d] # "none" =>
           /\ touched[d] \subseteq touched'[d]
           /\ \A p \in Path \ touched'[d] : files'[terms[d].to][p] = files[terms[d].to][p]
      /\ \A p \in Path : files'[terms[c].to][p] = IF p \in ps THEN from[p]
                                                              ELSE files[terms[c].to][p]
  BY <1>1, PutIsHonest
<1>5. deals'[c] = x /\ \A d \in Code : d # c => deals'[d] = deals[d]
  BY <1>3, OtherDealsStay
<1>6. ASSUME NEW d \in Code, d # c
      PROVE  Promised!HonestAbout(d)'
  <2>1. Promised!HonestAbout(d)
    BY DEF Promised!Honest
  <2>2. CASE deals[d] = "none"
    BY <1>5, <1>6, <2>2, UntoldIsHonestNext
  <2>3. CASE deals[d] # "none"
    BY <1>4, <1>5, <1>6, <2>1, <2>3, OthersKeepHonest
  <2> QED
    BY <2>2, <2>3
<1>7. CASE Promised!Write(c)
  <2>1. \A p \in Path \ touched[c] :
          files[terms[c].to][p] \in {terms[c].before[p], terms[c].after[p]}
    BY <1>2 DEF Promised!Honest, Promised!HonestAbout, Promised!UnderWay, Promised!SameButOthers
  <2>2. \A p \in Path \ touched'[c] :
          files'[terms[c].to][p] \in {terms[c].before[p], terms[c].after[p]}
    BY <1>4, <2>1
  <2>3. deals'[c] \in {"writing", "left"}
    BY <1>7, OtherDealsStay DEF Promised!Write
  <2> QED
    BY <1>4, <1>6, <2>2, <2>3 DEF Promised!Honest, Promised!HonestAbout
<1>8. CASE Promised!Undo(c)
  <2>1. Promised!SameButOthers(c, files[terms[c].to], terms[c].before)'
    BY <1>8 DEF Promised!Undo
  <2>2. deals'[c] = "asBefore"
    BY <1>8, OtherDealsStay DEF Promised!Undo
  <2>3. Promised!HonestAbout(c)'
    BY <2>1, <2>2 DEF Promised!HonestAbout
  <2> QED
    BY <1>6, <2>3 DEF Promised!Honest
<1> QED
  BY <1>7, <1>8

\* The steps of c that write nothing.
LEMMA TellingIsHonest ==
  ASSUME TransferTypes, TransferTypes', Promised!Honest, NEW c \in Code,
         Promised!Start(c) \/ Promised!GiveUp(c) \/ Promised!Complete(c)
  PROVE  Promised!Honest'
<1>1. files' = files /\ touched' = touched
  BY DEF Promised!Start, Promised!GiveUp, Promised!Complete
<1>2. PICK x \in {"agreed", "asBefore", "moved"} : Promised!Becomes(c, x)
  BY DEF Promised!Start, Promised!GiveUp, Promised!Complete
<1>3. \A d \in Code : d # c => deals'[d] = deals[d] /\ terms'[d] = terms[d]
  <2>1. \A d \in Code : d # c => terms'[d] = terms[d]
    BY PromisedTypes DEF Promised!Start, Promised!GiveUp, Promised!Complete
  <2> QED
    BY <1>2, <2>1, OtherDealsStay
<1>4. \A d \in Code : d # c => Promised!HonestAbout(d)'
  BY <1>1, <1>3, OthersKeepHonest DEF Promised!Honest
<1>5. Promised!HonestAbout(c)
  BY DEF Promised!Honest
<1>6. CASE Promised!Start(c)
  <2>1. deals'[c] = "agreed"
    BY <1>6, OtherDealsStay DEF Promised!Start
  <2>2. files[terms'[c].to] = terms'[c].before
    <3>1. PICK s, t \in Side :
            terms' = [terms EXCEPT ![c] = [to |-> t, before |-> files[t], after |-> files[s]]]
      BY <1>6 DEF Promised!Start
    <3>2. terms'[c] = [to |-> t, before |-> files[t], after |-> files[s]]
      BY <3>1, PromisedTypes
    <3> QED
      BY <3>2
  <2> QED
    BY <1>1, <1>4, <2>1, <2>2 DEF Promised!Honest, Promised!HonestAbout, Promised!SameButOthers
<1>7. CASE Promised!GiveUp(c)
  <2>1. deals[c] = "agreed" /\ deals'[c] = "asBefore" /\ terms' = terms
    BY <1>7, OtherDealsStay DEF Promised!GiveUp
  <2> QED
    BY <1>1, <1>4, <1>5, <2>1 DEF Promised!Honest, Promised!HonestAbout, Promised!SameButOthers
<1>8. CASE Promised!Complete(c)
  <2>1. /\ deals'[c] = "moved" /\ terms' = terms
        /\ files[terms[c].to] = terms[c].after
    BY <1>8, OtherDealsStay DEF Promised!Complete
  <2> QED
    BY <1>1, <1>4, <2>1 DEF Promised!Honest, Promised!HonestAbout, Promised!SameButOthers
<1> QED
  BY <1>6, <1>7, <1>8

LEMMA LeaveIsHonest ==
  ASSUME TransferTypes, Promised!Honest, NEW S \in SUBSET Code, Promised!Leave(S)
  PROVE  Promised!Honest'
<1>1. UNCHANGED <<files, terms, touched>>
  BY DEF Promised!Leave
<1>2. \A d \in Code : deals'[d] = IF d \in S THEN "left" ELSE deals[d]
  BY DEF Promised!Leave
<1>3. ASSUME NEW d \in Code
      PROVE  Promised!HonestAbout(d)'
  <2>1. Promised!HonestAbout(d)
    BY DEF Promised!Honest
  <2>2. CASE d \in S
    <3>1. deals[d] \in Promised!UnderWay /\ deals'[d] = "left"
      BY <1>2, <2>2 DEF Promised!Leave
    <3> QED
      BY <1>1, <2>1, <3>1 DEF Promised!HonestAbout, Promised!SameButOthers, Promised!UnderWay
  <2>3. CASE d \notin S
    BY <1>1, <1>2, <2>1, <2>3, OthersKeepHonest
  <2> QED
    BY <2>2, <2>3
<1> QED
  BY <1>3 DEF Promised!Honest

LEMMA EditIsHonest ==
  ASSUME TransferTypes, Promised!Honest, NEW s \in Side, NEW p \in Path, Promised!Edit(s, p)
  PROVE  Promised!Honest'
<1>1. terms' = terms /\ deals' = deals
  BY DEF Promised!Edit
<1>2. \A t \in Side, q \in Path : t # s \/ q # p => files'[t][q] = files[t][q]
  BY DEF Promised!Edit, TransferTypes, Tree
<1>3. \A d \in Code : touched'[d] = IF deals[d] # "none" /\ terms[d].to = s
                                    THEN touched[d] \cup {p} ELSE touched[d]
  BY DEF Promised!Edit
<1>4. ASSUME NEW d \in Code
      PROVE  Promised!HonestAbout(d)'
  <2>1. Promised!HonestAbout(d) /\ terms[d].to \in Side
    BY PromisedTypes, TargetIsASide DEF Promised!Honest
  <2>2. CASE deals[d] = "none"
    BY <1>1, <2>2, UntoldIsHonestNext
  <2>3. CASE deals[d] # "none"
    <3>1. touched[d] \subseteq touched'[d] /\ (terms[d].to = s => p \in touched'[d])
      BY <1>3, <2>3
    <3>2. \A q \in Path \ touched'[d] : files'[terms[d].to][q] = files[terms[d].to][q]
      BY <1>2, <2>1, <3>1
    <3> QED
      BY <1>1, <2>1, <3>1, <3>2, OthersKeepHonest
  <2> QED
    BY <2>2, <2>3
<1> QED
  BY <1>4 DEF Promised!Honest

LEMMA PromiseStaysHonest ==
  TransferTypes /\ TransferTypes' /\ Promised!Honest
      /\ [Promised!Next]_(Promised!transferVars)
    => Promised!Honest'
<1> SUFFICES ASSUME TransferTypes, TransferTypes', Promised!Honest,
                    Promised!Next \/ UNCHANGED Promised!transferVars
             PROVE  Promised!Honest'
  OBVIOUS
<1>1. CASE UNCHANGED Promised!transferVars
  <2>1. UNCHANGED <<files, deals, terms, touched>>
    BY <1>1 DEF Promised!transferVars
  <2> QED
    BY <2>1, OthersKeepHonest DEF Promised!Honest
<1>2. CASE Promised!Next
  BY <1>2, WriteIsHonest, TellingIsHonest, LeaveIsHonest, EditIsHonest DEF Promised!Next
<1> QED
  BY <1>1, <1>2

\* Every transfer is honest, in both directions, beside any other and any edit: when it
\* reports success the target is the tree that was planned, when it fails before writing or
\* reports a restore from a backup the target is what it was, and else each path is one of
\* the two, but for the paths that others wrote.
THEOREM TransfersAreHonest == SyncSpec => []Promised!Honest
<1>1. SyncInit => Promised!Honest
  BY SyncStarts, UntoldIsHonest DEF Promised!Init, Promised!Honest
<1>2. TransferInv => TransferTypes
  BY DEF TransferInv
<1>3. TransferInv /\ PlanComesFirst /\ Promised!Honest /\ [SyncNext]_syncvars => Promised!Honest'
  <2> SUFFICES ASSUME TransferInv, PlanComesFirst, Promised!Honest, [SyncNext]_syncvars
               PROVE  Promised!Honest'
    OBVIOUS
  <2>1. TransferTypes /\ TransferTypes'
    BY TransferInvStep DEF TransferInv
  <2>2. [Promised!Next]_(Promised!transferVars)
    BY StepIsPromised
  <2> QED
    BY <2>1, <2>2, PromiseStaysHonest
<1> QED
  BY TransferInvInit, TransferInvStep, CodesInvInit, CodesInvStep, SyncStarts,
     PlanComesFirstStep, <1>1, <1>3, PTL DEF SyncSpec
===================================================================================
