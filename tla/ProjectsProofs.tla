------------------------------ MODULE ProjectsProofs ------------------------------
(***************************************************************************)
(* What holds for any projects, requests, keys and faults, after failed    *)
(* injections, rotations, deletes, crashes and boots: the fingerprint      *)
(* marker in a home volume vouches for the key beside it, a project that   *)
(* is off the list has left nothing in Docker, and a boot brings all up.   *)
(***************************************************************************)
EXTENDS Projects, TLAPS

Jobs == Caller \cup {Main}

KeyTypes ==
  /\ key \in 1..MaxKeys
  /\ home \in [Project -> HomeState]
  /\ job \in [Jobs -> JobState]
  /\ crowded \subseteq Project

\* The projects a job state j works on, as Touches.
Hold(j) == IF j.kind = "wipe" THEN Project ELSE {j.p} \ {None}

\* Nothing is served during a boot.
BootIsAlone == ~serving => \A c \in Caller : job[c] = Idle

\* A project that is not crowded has one job at most: who injects a key is not
\* disturbed in it.
OneJob ==
  \A p \in Project \ crowded : \A c, d \in Jobs :
    p \in Hold(job[c]) /\ p \in Hold(job[d]) => c = d

\* Where a job stands fits what it has.
JobsKnowTheirs ==
  \A c \in Jobs : /\ job[c].at \notin {"idle", "next"} => job[c].p \in Project
                  /\ job[c].fp <= key

\* Keys only get newer, so a marker never names one that is still to come.
MarkersAreOld == \A p \in Project : home[p].marker <= key

\* An injection under way has read a key that is not older than the marker, and once
\* it has written the key file, that key is in it.
InjectionIsNewest ==
  \A c \in Jobs :
    job[c].at \in {"key", "marker"} /\ job[c].p \notin crowded =>
      /\ home[job[c].p].marker <= job[c].fp
      /\ job[c].at = "marker" => home[job[c].p].file = job[c].fp

KeyInv ==
  /\ KeyTypes /\ BootIsAlone /\ OneJob /\ JobsKnowTheirs
  /\ MarkersAreOld /\ InjectionIsNewest /\ MarkerTellsTheKey

-----------------------------------------------------------------------------
(* Jobs                                                                    *)

LEMMA StartStates ==
  /\ Idle \in JobState /\ Hold(Idle) = {} /\ Idle.at = "idle" /\ Idle.fp = 0
  /\ Boot \in JobState /\ Hold(Boot) = {} /\ Boot.at = "next" /\ Boot.fp = 0
<1>1. Idle \in JobState
  BY ProjectAssumption DEF Idle, JobState, Kind, Scope
<1>2. Boot \in JobState
  <2> DEFINE S == {p \in Project : record[p]}
  <2>1. S \in SUBSET Project
    BY Zenon
  <2>2. Boot = [Idle EXCEPT !.at = "next", !.kind = "boot", !.todo = S]
    BY DEF Boot
  <2> HIDE DEF S
  <2> QED
    BY <1>1, <2>1, <2>2 DEF JobState, Kind
<1>3. Hold(Idle) = {} /\ Idle.at = "idle" /\ Idle.fp = 0
  BY DEF Idle, Hold
<1>4. Hold(Boot) = {} /\ Boot.at = "next" /\ Boot.fp = 0
  BY DEF Boot, Idle, Hold
<1> QED
  BY <1>1, <1>2, <1>3, <1>4

LEMMA KeyInvInit == Init => KeyInv
<1> SUFFICES ASSUME Init PROVE KeyInv
  OBVIOUS
<1>1. /\ job \in [Jobs -> JobState]
      /\ \A c \in Jobs : job[c] = IF c = Main THEN Boot ELSE Idle
  BY StartStates DEF Init, Jobs
<1>2. home \in [Project -> HomeState] /\ \A p \in Project : home[p] = NoHome
  BY ProjectAssumption DEF Init, HomeState, NoHome
<1>3. KeyTypes /\ MarkersAreOld /\ MarkerTellsTheKey
  BY <1>1, <1>2, ProjectAssumption
     DEF Init, KeyTypes, MarkersAreOld, MarkerTellsTheKey, NoHome
<1>4. BootIsAlone /\ OneJob /\ JobsKnowTheirs /\ InjectionIsNewest
  BY <1>1, StartStates, ProjectAssumption
     DEF Init, BootIsAlone, OneJob, JobsKnowTheirs, InjectionIsNewest, Jobs
<1> QED
  BY <1>3, <1>4 DEF KeyInv

\* A job state that c may go on to without having written a key file.
Onward(c, j) ==
  /\ j \in JobState
  /\ Hold(j) \subseteq Hold(job[c])
  /\ j.at \notin {"idle", "next"} => j.p \in Project
  /\ j.at # "marker"
  /\ j.fp <= key
  /\ j.at = "key" => j.fp = key

GoesOn(c) == \E j : Onward(c, j) /\ job' = [job EXCEPT ![c] = j]

LEMMA GoToGoesOn ==
  ASSUME KeyInv, NEW c \in Jobs, job[c].at \notin {"idle", "next"},
         NEW at \in {"run", "undo", "clone", "start", "look", "reserve", "stop", "box",
                     "home", "repo", "drop", "chats"},
         GoTo(c, at)
  PROVE  GoesOn(c)
<1>1. Onward(c, [job[c] EXCEPT !.at = at])
  BY DEF KeyInv, KeyTypes, JobsKnowTheirs, Onward, JobState, Hold
<1>2. job' = [job EXCEPT ![c] = [job[c] EXCEPT !.at = at]]
  BY DEF GoTo, KeyInv, KeyTypes
<1> QED
  BY <1>1, <1>2 DEF GoesOn

LEMMA GoOnGoesOn ==
  ASSUME KeyInv, NEW c \in Jobs, job[c].at \notin {"idle", "next"},
         NEW at \in {"box", "home", "repo", "drop"}, NEW err \in BOOLEAN,
         GoOn(c, at, err)
  PROVE  GoesOn(c)
<1> DEFINE j == [job[c] EXCEPT !.at = at, !.bad = @ \/ err]
<1>1. job[c] \in JobState
  BY DEF KeyInv, KeyTypes
<1>2. j \in JobState
  BY <1>1 DEF JobState
<1>3. j.at = at /\ j.kind = job[c].kind /\ j.p = job[c].p /\ j.fp = job[c].fp
  BY <1>1 DEF JobState
<1> HIDE DEF j
<1>4. Onward(c, j)
  BY <1>2, <1>3 DEF KeyInv, JobsKnowTheirs, Onward, Hold
<1>5. job' = [job EXCEPT ![c] = j]
  BY DEF GoOn, KeyInv, KeyTypes, j
<1> QED
  BY <1>4, <1>5 DEF GoesOn

LEMMA EndGoesOn ==
  ASSUME KeyInv, NEW c \in Jobs, NEW err \in BOOLEAN, End(c, err)
  PROVE  GoesOn(c)
<1> DEFINE j == [job[c] EXCEPT !.at = "next", !.p = None, !.bad = FALSE,
                               !.failed = @ \/ err]
<1>1. job[c] \in JobState
  BY DEF KeyInv, KeyTypes
<1>2. CASE job[c].kind \in {"boot", "wipe"}
  <2>1. j \in JobState
    BY <1>1 DEF JobState
  <2>2. j.at = "next" /\ j.kind = job[c].kind /\ j.p = None /\ j.fp = job[c].fp
    BY <1>1 DEF JobState
  <2> HIDE DEF j
  <2>3. Onward(c, j)
    BY <1>2, <2>1, <2>2 DEF KeyInv, JobsKnowTheirs, Onward, Hold
  <2>4. job' = [job EXCEPT ![c] = j]
    BY <1>2 DEF End, KeyInv, KeyTypes, j
  <2> QED
    BY <2>3, <2>4 DEF GoesOn
<1>3. CASE job[c].kind \notin {"boot", "wipe"}
  <2>1. Onward(c, Idle)
    BY StartStates, ProjectAssumption DEF KeyInv, KeyTypes, Onward
  <2>2. job' = [job EXCEPT ![c] = Idle]
    BY <1>3 DEF End, KeyInv, KeyTypes
  <2> QED
    BY <2>1, <2>2 DEF GoesOn
<1> QED
  BY <1>2, <1>3

LEMMA GoInjectGoesOn ==
  ASSUME KeyInv, NEW c \in Jobs, job[c].at \notin {"idle", "next"}, GoInject(c)
  PROVE  GoesOn(c)
<1> DEFINE j == [job[c] EXCEPT !.at = "key", !.fp = key]
<1>1. job[c] \in JobState /\ key \in 0..MaxKeys
  BY ProjectAssumption DEF KeyInv, KeyTypes
<1>2. j \in JobState
  BY <1>1 DEF JobState
<1>3. j.at = "key" /\ j.kind = job[c].kind /\ j.p = job[c].p /\ j.fp = key
  BY <1>1 DEF JobState
<1> HIDE DEF j
<1>4. Onward(c, j)
  BY <1>1, <1>2, <1>3, ProjectAssumption DEF KeyInv, JobsKnowTheirs, Onward, Hold
<1>5. job' = [job EXCEPT ![c] = j]
  BY DEF GoInject, KeyInv, KeyTypes, j
<1> QED
  BY <1>4, <1>5 DEF GoesOn

LEMMA AfterInjectGoesOn ==
  ASSUME KeyInv, NEW c \in Jobs, job[c].at \notin {"idle", "next"}, AfterInject(c)
  PROVE  GoesOn(c)
<1>1. GoTo(c, "clone") \/ GoTo(c, "start") \/ End(c, FALSE)
  BY DEF AfterInject
<1> QED
  BY <1>1, GoToGoesOn, EndGoesOn

-----------------------------------------------------------------------------
(* Steps                                                                   *)

\* Home volumes keep their key and their marker, or one that c works on is removed.
HomesStay(c) ==
  /\ home' \in [Project -> HomeState]
  /\ \A p \in Project :
       \/ home'[p].marker = home[p].marker /\ home'[p].file = home[p].file
       \/ p \in Hold(job[c]) /\ home'[p] = NoHome

LEMMA UnchangedHomesStay ==
  ASSUME KeyInv, UNCHANGED home, NEW c PROVE HomesStay(c)
BY DEF KeyInv, KeyTypes, HomesStay

LEMMA MountedHomesStay ==
  ASSUME KeyInv, NEW p, Mounted(p), NEW c PROVE HomesStay(c)
BY DEF KeyInv, KeyTypes, HomesStay, Mounted, HomeState

\* What any step of a job does that writes no key file and no marker.
LEMMA OnwardKeeps ==
  ASSUME KeyInv, NEW c \in Jobs, job[c].at # "idle", GoesOn(c), HomesStay(c),
         UNCHANGED <<key, crowded>>
  PROVE  KeyInv'
<1> PICK j : Onward(c, j) /\ job' = [job EXCEPT ![c] = j]
  BY DEF GoesOn
<1>1. /\ job' \in [Jobs -> JobState]
      /\ job'[c] = j
      /\ \A d \in Jobs : d # c => job'[d] = job[d]
  BY DEF KeyInv, KeyTypes, Onward
<1>2. KeyTypes'
  BY <1>1 DEF KeyInv, KeyTypes, HomesStay
<1>3. BootIsAlone'
  <2>1. CASE serving
    <3>1. c # Main
      BY <2>1 DEF serving
    <3> QED
      BY <1>1, <2>1, <3>1 DEF BootIsAlone, serving, Jobs
  <2>2. CASE ~serving
    <3>1. \A d \in Caller : job[d] = Idle
      BY <2>2 DEF KeyInv, BootIsAlone
    <3>2. c \notin Caller
      BY <3>1, StartStates
    <3> QED
      BY <1>1, <3>1, <3>2 DEF BootIsAlone, Jobs
  <2> QED
    BY <2>1, <2>2
<1>4. OneJob'
  <2>1. \A d \in Jobs : Hold(job'[d]) \subseteq Hold(job[d])
    BY <1>1 DEF Onward
  <2> QED
    BY <2>1 DEF KeyInv, OneJob, Hold
<1>5. JobsKnowTheirs'
  BY <1>1 DEF KeyInv, JobsKnowTheirs, Onward
<1>6. MarkersAreOld'
  BY ProjectAssumption DEF KeyInv, KeyTypes, MarkersAreOld, HomesStay, NoHome
<1>7. InjectionIsNewest'
  <2> SUFFICES ASSUME NEW d \in Jobs, job'[d].at \in {"key", "marker"},
                      job'[d].p \notin crowded
               PROVE  /\ home'[job'[d].p].marker <= job'[d].fp
                      /\ job'[d].at = "marker" => home'[job'[d].p].file = job'[d].fp
    BY DEF InjectionIsNewest
  <2>1. CASE d = c
    <3>1. j.at = "key" /\ j.fp = key /\ j.p \in Project
      BY <1>1, <2>1 DEF Onward
    <3> QED
      BY <1>1, <1>6, <2>1, <3>1 DEF MarkersAreOld
  <2>2. CASE d # c
    <3>1. job'[d] = job[d] /\ job[d].p \in Project
      BY <1>1, <2>2 DEF KeyInv, JobsKnowTheirs
    <3>2. job[d].p \in Hold(job[d])
      BY <3>1, ProjectAssumption DEF Hold
    <3>3. job[d].p \notin Hold(job[c])
      BY <2>2, <3>1, <3>2 DEF KeyInv, OneJob
    <3> QED
      BY <3>1, <3>3 DEF KeyInv, InjectionIsNewest, HomesStay
  <2> QED
    BY <2>1, <2>2
<1>8. MarkerTellsTheKey'
  BY ProjectAssumption DEF KeyInv, KeyTypes, MarkerTellsTheKey, HomesStay, NoHome
<1> QED
  BY <1>2, <1>3, <1>4, <1>5, <1>6, <1>7, <1>8 DEF KeyInv

-----------------------------------------------------------------------------
(* A request is accepted                                                   *)

LEMMA BeginKeeps ==
  ASSUME KeyInv, NEW c \in Caller, NEW S \in SUBSET Project, NEW j \in JobState,
         Begin(c, S, j), Hold(j) \subseteq S,
         j.at \notin {"idle", "next"} => j.p \in Project,
         j.at # "marker", j.fp <= key, j.at = "key" => j.fp = key
  PROVE  KeyInv'
<1>1. /\ c \in Jobs /\ c # Main
      /\ job' \in [Jobs -> JobState] /\ job'[c] = j
      /\ \A d \in Jobs : d # c => job'[d] = job[d]
  BY ProjectAssumption DEF Begin, KeyInv, KeyTypes, Jobs
<1>2. /\ serving /\ key' = key /\ home' = home
      /\ crowded' = crowded \cup {p \in S : ~Quiet(p)}
  BY DEF Begin, docker
<1>3. KeyTypes'
  BY <1>1, <1>2 DEF KeyInv, KeyTypes
<1>4. BootIsAlone'
  BY <1>1, <1>2 DEF BootIsAlone, serving, Jobs
<1>5. \A p \in Project \ crowded' : p \in Hold(j) => \A d \in Jobs : p \notin Hold(job[d])
  BY <1>2 DEF Quiet, Touches, Hold, Jobs
<1>6. OneJob'
  <2> SUFFICES ASSUME NEW p \in Project \ crowded', NEW d \in Jobs, NEW e \in Jobs,
                      p \in Hold(job'[d]), p \in Hold(job'[e])
               PROVE  d = e
    BY DEF OneJob, Hold
  <2>1. CASE p \in Hold(j)
    BY <1>1, <1>5, <2>1
  <2>2. CASE p \notin Hold(j)
    BY <1>1, <1>2, <2>2 DEF KeyInv, OneJob
  <2> QED
    BY <2>1, <2>2
<1>7. JobsKnowTheirs'
  BY <1>1, <1>2 DEF KeyInv, JobsKnowTheirs
<1>8. MarkersAreOld' /\ MarkerTellsTheKey'
  BY <1>2 DEF KeyInv, MarkersAreOld, MarkerTellsTheKey
<1>9. InjectionIsNewest'
  BY <1>1, <1>2 DEF KeyInv, InjectionIsNewest, MarkersAreOld
<1> QED
  BY <1>3, <1>4, <1>6, <1>7, <1>8, <1>9 DEF KeyInv

LEMMA StopKeeps ==
  ASSUME KeyInv, NEW c \in Caller, NEW p \in Project, Stop(c, p)
  PROVE  KeyInv'
<1>1. UNCHANGED <<home, key, job>> /\ crowded \subseteq crowded' /\ crowded' \subseteq Project
  BY DEF Stop, KeyInv, KeyTypes
<1> QED
  BY <1>1 DEF KeyInv, KeyTypes, BootIsAlone, serving, OneJob, JobsKnowTheirs, MarkersAreOld,
              InjectionIsNewest, MarkerTellsTheKey

LEMMA WipeKeeps ==
  ASSUME KeyInv, NEW c \in Caller, Wipe(c) PROVE KeyInv'
<1> DEFINE T == {p \in Project : record[p]}
           j == [Idle EXCEPT !.at = "next", !.kind = "wipe", !.todo = T]
<1>1. T \in SUBSET Project
  BY Zenon
<1>2. Begin(c, Project, j)
  BY DEF Wipe
<1> HIDE DEF T
<1>3. j \in JobState /\ j.kind = "wipe" /\ j.at = "next" /\ j.fp = 0
  <2>1. "wipe" \in Kind
    BY DEF Kind
  <2> QED
    BY <1>1, <2>1, StartStates DEF JobState, Idle
<1> HIDE DEF j
<1>4. Hold(j) \subseteq Project /\ 0 <= key
  BY <1>3 DEF Hold, KeyInv, KeyTypes
<1> QED
  BY <1>2, <1>3, <1>4, BeginKeeps

\* Any other request holds the one project that it is about.
Asked(p, j) ==
  /\ j \in JobState /\ j.p = p /\ j.kind # "wipe"
  /\ j.at # "marker" /\ j.fp <= key /\ (j.at = "key" => j.fp = key)

LEMMA AskedKeeps ==
  ASSUME KeyInv, NEW c \in Caller, NEW p \in Project, NEW j, Asked(p, j), Begin(c, {p}, j)
  PROVE  KeyInv'
<1>1. Hold(j) \subseteq {p}
  BY DEF Asked, Hold
<1> QED
  BY <1>1, BeginKeeps DEF Asked

LEMMA AskedOne ==
  ASSUME KeyInv, NEW p \in Project, NEW kind \in Kind \ {"wipe"},
         NEW at \in {"record", "run", "start", "stop", "reserve"}
  PROVE  Asked(p, [Idle EXCEPT !.at = at, !.kind = kind, !.p = p])
<1> DEFINE j == [Idle EXCEPT !.at = at, !.kind = kind, !.p = p]
<1>1. j \in JobState
  BY StartStates DEF JobState
<1>2. j.at = at /\ j.kind = kind /\ j.p = p /\ j.fp = 0
  BY DEF Idle
<1> HIDE DEF j
<1> QED
  BY <1>1, <1>2 DEF Asked, KeyInv, KeyTypes, j

LEMMA AskedKey ==
  ASSUME KeyInv, NEW p \in Project
  PROVE  Asked(p, [Idle EXCEPT !.at = "key", !.kind = "ssh", !.p = p, !.fp = key])
<1> DEFINE j == [Idle EXCEPT !.at = "key", !.kind = "ssh", !.p = p, !.fp = key]
<1>1. key \in 0..MaxKeys /\ key <= key
  BY ProjectAssumption DEF KeyInv, KeyTypes
<1>2. j \in JobState
  BY <1>1, StartStates DEF JobState, Kind
<1>3. j.at = "key" /\ j.kind = "ssh" /\ j.p = p /\ j.fp = key
  BY DEF Idle
<1> HIDE DEF j
<1> QED
  BY <1>1, <1>2, <1>3 DEF Asked, j

LEMMA AskedDelete ==
  ASSUME KeyInv, NEW p \in Project, NEW at \in {"drop", "stop"}, NEW s \in Scope
  PROVE  Asked(p, [Idle EXCEPT !.at = at, !.kind = "delete", !.p = p, !.scope = s])
<1> DEFINE j == [Idle EXCEPT !.at = at, !.kind = "delete", !.p = p, !.scope = s]
<1>1. j \in JobState
  BY StartStates DEF JobState, Kind
<1>2. j.at = at /\ j.kind = "delete" /\ j.p = p /\ j.fp = 0
  BY DEF Idle
<1> HIDE DEF j
<1> QED
  BY <1>1, <1>2 DEF Asked, KeyInv, KeyTypes, j

LEMMA AcceptKeeps ==
  ASSUME KeyInv, NEW c \in Caller, Accept(c) PROVE KeyInv'
<1>1. ASSUME NEW p \in Project, Create(c, p) PROVE KeyInv'
  <2>1. Asked(p, [Idle EXCEPT !.at = "record", !.kind = "create", !.p = p])
    BY AskedOne DEF Kind
  <2> QED
    BY <1>1, <2>1, AskedKeeps DEF Create
<1>2. ASSUME NEW p \in Project, EnsureContainer(c, p) PROVE KeyInv'
  <2>1. Asked(p, [Idle EXCEPT !.at = "run", !.kind = "ensure", !.p = p])
    BY AskedOne DEF Kind
  <2> QED
    BY <1>2, <2>1, AskedKeeps DEF EnsureContainer
<1>3. ASSUME NEW p \in Project, HealthRepair(c, p) PROVE KeyInv'
  <2>1. Asked(p, [Idle EXCEPT !.at = "run", !.kind = "reconcile", !.p = p])
    BY AskedOne DEF Kind
  <2> QED
    BY <1>3, <2>1, AskedKeeps DEF HealthRepair
<1>4. ASSUME NEW p \in Project, Start(c, p) PROVE KeyInv'
  <2>1. Asked(p, [Idle EXCEPT !.at = "start", !.kind = "start", !.p = p])
    BY AskedOne DEF Kind
  <2> QED
    BY <1>4, <2>1, AskedKeeps DEF Start
<1>5. ASSUME NEW p \in Project, Stop(c, p) PROVE KeyInv'
  BY <1>5, StopKeeps
<1>6. ASSUME NEW p \in Project, Restart(c, p) PROVE KeyInv'
  <2>1. Asked(p, [Idle EXCEPT !.at = "stop", !.kind = "restart", !.p = p])
    BY AskedOne DEF Kind
  <2> QED
    BY <1>6, <2>1, AskedKeeps DEF Restart
<1>7. ASSUME NEW p \in Project, EnsureGitSSH(c, p) PROVE KeyInv'
  <2>1. Asked(p, [Idle EXCEPT !.at = "key", !.kind = "ssh", !.p = p, !.fp = key])
    BY AskedKey
  <2> QED
    BY <1>7, <2>1, AskedKeeps DEF EnsureGitSSH
<1>8. ASSUME NEW p \in Project, Ask(c, p) PROVE KeyInv'
  <2>1. Asked(p, [Idle EXCEPT !.at = "reserve", !.kind = "ask", !.p = p])
    BY AskedOne DEF Kind
  <2> QED
    BY <1>8, <2>1, AskedKeeps DEF Ask
<1>9. ASSUME NEW p \in Project, NEW s \in Scope, Delete(c, p, s) PROVE KeyInv'
  <2> DEFINE at == IF s = "metadata" THEN "drop" ELSE "stop"
             j == [Idle EXCEPT !.at = at, !.kind = "delete", !.p = p, !.scope = s]
  <2>1. at \in {"drop", "stop"}
    OBVIOUS
  <2>2. Begin(c, {p}, j)
    BY <1>9 DEF Delete
  <2> HIDE DEF at
  <2>3. Asked(p, j)
    BY <2>1, AskedDelete
  <2> HIDE DEF j
  <2> QED
    BY <2>2, <2>3, AskedKeeps
<1>10. CASE Wipe(c)
  BY <1>10, WipeKeeps
<1> QED
  BY <1>1, <1>2, <1>3, <1>4, <1>5, <1>6, <1>7, <1>8, <1>9, <1>10 DEF Accept

-----------------------------------------------------------------------------
(* The two writes of an injection                                          *)

LEMMA InjectKeyKeeps ==
  ASSUME KeyInv, NEW c \in Jobs, InjectKey(c) PROVE KeyInv'
<1> DEFINE p == job[c].p
<1>1. /\ job[c].at = "key" /\ UNCHANGED <<key, crowded>> /\ p \in Project
      /\ p \in Hold(job[c])
  BY ProjectAssumption DEF InjectKey, At, KeyInv, JobsKnowTheirs, Hold
<1>2. CASE AfterInject(c) /\ UNCHANGED home
  BY <1>1, <1>2, AfterInjectGoesOn, UnchangedHomesStay, OnwardKeeps
<1>3. CASE home' = [home EXCEPT ![p].file = job[c].fp] /\ GoTo(c, "marker")
  <2>1. /\ job' \in [Jobs -> JobState]
        /\ job'[c] = [job[c] EXCEPT !.at = "marker"]
        /\ \A d \in Jobs : d # c => job'[d] = job[d]
    BY <1>3 DEF GoTo, KeyInv, KeyTypes, JobState
  <2>2. /\ job'[c].at = "marker" /\ job'[c].kind = job[c].kind /\ job'[c].p = p
        /\ job'[c].fp = job[c].fp /\ job[c].fp \in 0..MaxKeys
    BY <2>1 DEF KeyInv, KeyTypes, JobState
  <2>3. /\ home' \in [Project -> HomeState]
        /\ home'[p].file = job[c].fp /\ home'[p].marker = home[p].marker
        /\ \A q \in Project : q # p => home'[q] = home[q]
    BY <1>1, <1>3, <2>2 DEF KeyInv, KeyTypes, HomeState
  <2>4. KeyTypes'
    BY <1>1, <2>1, <2>3 DEF KeyInv, KeyTypes
  <2>5. BootIsAlone'
    <3>1. serving' <=> serving
      BY <1>1, <2>1, <2>2 DEF serving, Jobs
    <3>2. ASSUME c \in Caller PROVE serving
      BY <1>1, <3>2, StartStates DEF KeyInv, BootIsAlone
    <3> QED
      BY <2>1, <3>1, <3>2 DEF KeyInv, BootIsAlone, Jobs
  <2>6. \A d \in Jobs : Hold(job'[d]) \subseteq Hold(job[d])
    BY <2>1, <2>2 DEF Hold
  <2>7. OneJob'
    BY <1>1, <2>6 DEF KeyInv, OneJob, Hold
  <2>8. JobsKnowTheirs'
    BY <1>1, <2>1, <2>2 DEF KeyInv, JobsKnowTheirs
  <2>9. MarkersAreOld'
    BY <1>1, <2>3 DEF KeyInv, MarkersAreOld
  <2>10. p \notin crowded => home[p].marker <= job[c].fp
    BY <1>1 DEF KeyInv, InjectionIsNewest
  <2>11. InjectionIsNewest'
    <3> SUFFICES ASSUME NEW d \in Jobs, job'[d].at \in {"key", "marker"},
                        job'[d].p \notin crowded
                 PROVE  /\ home'[job'[d].p].marker <= job'[d].fp
                        /\ job'[d].at = "marker" => home'[job'[d].p].file = job'[d].fp
      BY <1>1 DEF InjectionIsNewest
    <3>1. CASE d = c
      BY <2>2, <2>3, <2>10, <3>1
    <3>2. CASE d # c
      <4>1. job'[d] = job[d] /\ job[d].p \in Project
        BY <2>1, <3>2 DEF KeyInv, JobsKnowTheirs
      <4>2. job[d].p \in Hold(job[d])
        BY <4>1, ProjectAssumption DEF Hold
      <4>3. job[d].p # p
        BY <1>1, <3>2, <4>1, <4>2 DEF KeyInv, OneJob
      <4> QED
        BY <2>3, <4>1, <4>3 DEF KeyInv, InjectionIsNewest
    <3> QED
      BY <3>1, <3>2
  <2>12. MarkerTellsTheKey'
    <3> SUFFICES ASSUME NEW q \in Project \ crowded, home'[q].marker = key
                 PROVE  home'[q].file = key
      BY <1>1 DEF MarkerTellsTheKey
    <3>1. CASE q = p
      <4>1. job[c].fp <= key /\ key <= job[c].fp
        BY <2>3, <2>10, <3>1 DEF KeyInv, JobsKnowTheirs
      <4> QED
        BY <2>2, <2>3, <3>1, <4>1, ProjectAssumption DEF KeyInv, KeyTypes
    <3>2. CASE q # p
      BY <2>3, <3>2 DEF KeyInv, MarkerTellsTheKey
    <3> QED
      BY <3>1, <3>2
  <2> QED
    BY <2>4, <2>5, <2>7, <2>8, <2>9, <2>11, <2>12 DEF KeyInv
<1> QED
  BY <1>2, <1>3 DEF InjectKey

\* It writes the marker over the old one, and goes on as an injection that failed.
LEMMA InjectMarkerKeeps ==
  ASSUME KeyInv, NEW c \in Jobs, InjectMarker(c) PROVE KeyInv'
<1> DEFINE p == job[c].p
<1>1. /\ job[c].at = "marker" /\ UNCHANGED <<key, crowded>> /\ p \in Project
      /\ p \in Hold(job[c]) /\ GoesOn(c)
  BY ProjectAssumption, AfterInjectGoesOn
     DEF InjectMarker, At, KeyInv, JobsKnowTheirs, Hold
<1>2. CASE UNCHANGED home
  BY <1>1, <1>2, UnchangedHomesStay, OnwardKeeps
<1>3. CASE home' = [home EXCEPT ![p].marker = job[c].fp]
  <2> PICK j : Onward(c, j) /\ job' = [job EXCEPT ![c] = j]
    BY <1>1 DEF GoesOn
  <2>1. /\ job' \in [Jobs -> JobState] /\ job'[c] = j
        /\ \A d \in Jobs : d # c => job'[d] = job[d]
    BY DEF KeyInv, KeyTypes, Onward
  <2>2. job[c].fp \in 0..MaxKeys /\ job[c].fp <= key
    BY DEF KeyInv, KeyTypes, JobState, JobsKnowTheirs
  <2>3. /\ home' \in [Project -> HomeState]
        /\ home'[p].marker = job[c].fp /\ home'[p].file = home[p].file
        /\ \A q \in Project : q # p => home'[q] = home[q]
    BY <1>1, <1>3, <2>2 DEF KeyInv, KeyTypes, HomeState
  <2>4. KeyTypes'
    BY <1>1, <2>1, <2>3 DEF KeyInv, KeyTypes
  <2>5. BootIsAlone'
    <3>1. CASE c = Main
      <4>1. ~serving
        BY <1>1, <3>1 DEF serving
      <4> QED
        BY <2>1, <3>1, <4>1, ProjectAssumption DEF KeyInv, BootIsAlone, Jobs
    <3>2. CASE c \in Caller
      <4>1. serving
        BY <1>1, <3>2, StartStates DEF KeyInv, BootIsAlone
      <4> QED
        BY <2>1, <3>2, <4>1, ProjectAssumption DEF BootIsAlone, serving, Jobs
    <3> QED
      BY <3>1, <3>2 DEF Jobs
  <2>6. \A d \in Jobs : Hold(job'[d]) \subseteq Hold(job[d])
    BY <2>1 DEF Onward
  <2>7. OneJob'
    BY <1>1, <2>6 DEF KeyInv, OneJob, Hold
  <2>8. JobsKnowTheirs'
    BY <1>1, <2>1 DEF KeyInv, JobsKnowTheirs, Onward
  <2>9. MarkersAreOld'
    BY <1>1, <2>2, <2>3 DEF KeyInv, MarkersAreOld
  <2>10. InjectionIsNewest'
    <3> SUFFICES ASSUME NEW d \in Jobs, job'[d].at \in {"key", "marker"},
                        job'[d].p \notin crowded
                 PROVE  /\ home'[job'[d].p].marker <= job'[d].fp
                        /\ job'[d].at = "marker" => home'[job'[d].p].file = job'[d].fp
      BY <1>1 DEF InjectionIsNewest
    <3>1. CASE d = c
      <4>1. j.at = "key" /\ j.fp = key /\ j.p \in Project
        BY <2>1, <3>1 DEF Onward
      <4> QED
        BY <1>1, <2>1, <2>9, <3>1, <4>1 DEF MarkersAreOld
    <3>2. CASE d # c
      <4>1. job'[d] = job[d] /\ job[d].p \in Project
        BY <2>1, <3>2 DEF KeyInv, JobsKnowTheirs
      <4>2. job[d].p \in Hold(job[d])
        BY <4>1, ProjectAssumption DEF Hold
      <4>3. job[d].p # p
        BY <1>1, <3>2, <4>1, <4>2 DEF KeyInv, OneJob
      <4> QED
        BY <2>3, <4>1, <4>3 DEF KeyInv, InjectionIsNewest
    <3> QED
      BY <3>1, <3>2
  <2>11. p \notin crowded => home[p].file = job[c].fp
    BY <1>1 DEF KeyInv, InjectionIsNewest
  <2>12. MarkerTellsTheKey'
    BY <1>1, <2>3, <2>11 DEF KeyInv, MarkerTellsTheKey
  <2> QED
    BY <2>4, <2>5, <2>7, <2>8, <2>9, <2>10, <2>12 DEF KeyInv
<1> QED
  BY <1>2, <1>3 DEF InjectMarker

-----------------------------------------------------------------------------
(* The other steps of a job                                                *)

\* Steps that leave the home volumes alone.
LEMMA QuietWorkKeeps ==
  ASSUME KeyInv, NEW c \in Jobs,
         \/ CreateRecord(c) \/ RunNameTaken(c) \/ CreateUndo(c) \/ Clone(c)
         \/ ReconcileStart(c) \/ RepoVolumeEmpty(c) \/ Started(c) \/ RestartStop(c)
         \/ AskReserve(c) \/ DeleteStop(c) \/ DeleteBox(c) \/ DeleteRepo(c)
         \/ DropRecord(c) \/ DeleteScope(c)
  PROVE  KeyInv'
<1>1. UNCHANGED <<home, key, crowded>> /\ job[c].at \notin {"idle", "next"}
  BY DEF CreateRecord, RunNameTaken, CreateUndo, Clone, ReconcileStart, RepoVolumeEmpty,
         Started, RestartStop, AskReserve, DeleteStop, DeleteBox, DeleteRepo, DropRecord,
         DeleteScope, At, docker
<1>2. GoesOn(c)
  <2>1. CASE CreateRecord(c) \/ RunNameTaken(c) \/ CreateUndo(c) \/ Clone(c)
    BY <1>1, <2>1, GoToGoesOn, EndGoesOn DEF CreateRecord, RunNameTaken, RunFails, CreateUndo, Clone
  <2>2. CASE ReconcileStart(c)
    BY <1>1, <2>2, GoToGoesOn, EndGoesOn DEF ReconcileStart
  <2>3. CASE RepoVolumeEmpty(c)
    <3>1. GoTo(c, "clone") \/ End(c, TRUE) \/ End(c, FALSE)
      BY <2>3 DEF RepoVolumeEmpty, End
    <3> QED
      BY <1>1, <3>1, GoToGoesOn, EndGoesOn
  <2>4. CASE Started(c) \/ RestartStop(c) \/ AskReserve(c)
    BY <1>1, <2>4, GoToGoesOn, EndGoesOn DEF Started, RestartStop, AskReserve
  <2>5. CASE DeleteStop(c) \/ DropRecord(c) \/ DeleteScope(c)
    BY <1>1, <2>5, GoToGoesOn, EndGoesOn DEF DeleteStop, DropRecord, DeleteScope
  <2>6. CASE DeleteBox(c)
    <3>1. \E at \in {"repo", "home"}, err \in BOOLEAN : GoOn(c, at, err)
      BY <2>6 DEF DeleteBox
    <3> QED
      BY <1>1, <3>1, GoOnGoesOn
  <2>7. CASE DeleteRepo(c)
    <3>1. RepoThenDrop(c, TRUE) \/ RepoThenDrop(c, FALSE)
      BY <2>7 DEF DeleteRepo
    <3>2. GoOn(c, "drop", FALSE) \/ End(c, TRUE) \/ End(c, FALSE)
      BY <3>1 DEF RepoThenDrop, End
    <3> QED
      BY <1>1, <3>2, GoOnGoesOn, EndGoesOn
  <2> QED
    BY <2>1, <2>2, <2>3, <2>4, <2>5, <2>6, <2>7
<1> QED
  BY <1>1, <1>2, UnchangedHomesStay, OnwardKeeps

\* A run mounts the home volume; a delete removes it.
LEMMA RunKeeps ==
  ASSUME KeyInv, NEW c \in Jobs, RunStarts(c) \/ RunBreaks(c) \/ RunLeaves(c)
  PROVE  KeyInv'
<1>1. UNCHANGED <<key, crowded>> /\ job[c].at \notin {"idle", "next"}
  BY DEF RunStarts, RunBreaks, RunLeaves, At
<1>2. GoesOn(c)
  BY <1>1, GoInjectGoesOn, GoToGoesOn, EndGoesOn DEF RunStarts, RunBreaks, RunLeaves, RunFails
<1>3. UNCHANGED home \/ Mounted(job[c].p)
  BY DEF RunStarts, RunBreaks, RunLeaves, docker
<1> QED
  BY <1>1, <1>2, <1>3, UnchangedHomesStay, MountedHomesStay, OnwardKeeps

LEMMA DeleteHomeKeeps ==
  ASSUME KeyInv, NEW c \in Jobs, DeleteHome(c) PROVE KeyInv'
<1>1. UNCHANGED <<key, crowded>> /\ job[c].at \notin {"idle", "next"}
  BY DEF DeleteHome, At
<1>2. GoesOn(c)
  <2>1. \E err \in BOOLEAN : GoOn(c, "repo", err) \/ End(c, err)
    BY DEF DeleteHome
  <2> QED
    BY <1>1, <2>1, GoOnGoesOn, EndGoesOn
<1>3. HomesStay(c)
  <2>1. CASE UNCHANGED home
    BY <2>1, UnchangedHomesStay
  <2>2. CASE home' = [home EXCEPT ![job[c].p] = NoHome]
    <3>1. job[c].p \in Hold(job[c]) /\ NoHome \in HomeState
      BY <1>1, ProjectAssumption DEF KeyInv, JobsKnowTheirs, Hold, NoHome, HomeState
    <3> QED
      BY <2>2, <3>1 DEF HomesStay, KeyInv, KeyTypes
  <2> QED
    BY <2>1, <2>2 DEF DeleteHome
<1> QED
  BY <1>1, <1>2, <1>3, OnwardKeeps

\* A wipe holds all projects all the time.
LEMMA WipeNextKeeps ==
  ASSUME KeyInv, NEW c \in Jobs, NEW p \in Project, WipeNext(c, p) PROVE KeyInv'
<1> DEFINE T == job[c].todo \ {p}
<1>1. /\ UNCHANGED <<home, key, crowded>> /\ job[c].at = "next" /\ job[c].kind = "wipe"
      /\ job[c] \in JobState /\ T \in SUBSET Project /\ job[c].fp <= key
  BY DEF WipeNext, At, docker, KeyInv, KeyTypes, JobsKnowTheirs, JobState
<1>2. \/ job' = [job EXCEPT ![c] = [job[c] EXCEPT !.todo = T, !.at = "stop", !.p = p]]
      \/ job' = [job EXCEPT ![c] = [job[c] EXCEPT !.todo = T, !.failed = TRUE]]
  BY DEF WipeNext, KeyInv, KeyTypes
<1> HIDE DEF T
<1>3. Onward(c, [job[c] EXCEPT !.todo = T, !.at = "stop", !.p = p])
  BY <1>1 DEF Onward, JobState, Hold
<1>4. Onward(c, [job[c] EXCEPT !.todo = T, !.failed = TRUE])
  BY <1>1 DEF Onward, JobState, Hold
<1>5. GoesOn(c)
  BY <1>2, <1>3, <1>4 DEF GoesOn
<1> QED
  BY <1>1, <1>5, UnchangedHomesStay, OnwardKeeps

LEMMA WipeStateKeeps ==
  ASSUME KeyInv, NEW c \in Jobs, WipeState(c) PROVE KeyInv'
<1>1. /\ UNCHANGED <<home, key, crowded>> /\ job[c].at = "next"
      /\ job' = [job EXCEPT ![c] = Idle]
  BY DEF WipeState, At, docker
<1>2. Onward(c, Idle)
  BY StartStates, ProjectAssumption DEF Onward, KeyInv, KeyTypes
<1> QED
  BY <1>1, <1>2, UnchangedHomesStay, OnwardKeeps DEF GoesOn

-----------------------------------------------------------------------------
(* The boot, rotations, crashes and losses                                 *)

\* Before it serves, the boot may turn to any project: it is alone.
LEMMA BootNextKeeps ==
  ASSUME KeyInv, NEW p \in Project, BootNext(p) PROVE KeyInv'
<1> DEFINE T == job[Main].todo \ {p}
           at == IF box[p] = "missing" THEN "run" ELSE "start"
           j == [job[Main] EXCEPT !.todo = T, !.p = p, !.at = at]
<1>1. /\ UNCHANGED <<home, key, crowded>> /\ job[Main].at = "next"
      /\ job[Main] \in JobState /\ T \in SUBSET Project /\ Main \in Jobs
      /\ at \in {"run", "start"}
  BY DEF BootNext, At, docker, KeyInv, KeyTypes, JobState, Jobs
<1>2. job' = [job EXCEPT ![Main] = j]
  BY DEF BootNext, KeyInv, KeyTypes
<1> HIDE DEF T, at
<1>3. j \in JobState /\ j.p = p /\ j.at \in {"run", "start"} /\ j.fp = job[Main].fp
  BY <1>1 DEF JobState
<1> HIDE DEF j
<1>4. /\ job' \in [Jobs -> JobState] /\ job'[Main] = j
      /\ \A c \in Caller : job'[c] = Idle
  BY <1>1, <1>2, <1>3, ProjectAssumption DEF KeyInv, KeyTypes, BootIsAlone, serving, Jobs
<1>5. KeyTypes' /\ MarkersAreOld' /\ MarkerTellsTheKey'
  BY <1>1, <1>4 DEF KeyInv, KeyTypes, MarkersAreOld, MarkerTellsTheKey
<1>6. BootIsAlone'
  BY <1>4 DEF BootIsAlone
<1>7. \A c \in Caller : Hold(job'[c]) = {} /\ job'[c].at = "idle" /\ job'[c].fp = 0
  BY <1>4, StartStates
<1>8. OneJob'
  <2>1. \A c \in Jobs, q \in Project : q \in Hold(job'[c]) => c = Main
    BY <1>7 DEF Jobs
  <2> QED
    BY <2>1 DEF OneJob, Hold
<1>9. JobsKnowTheirs' /\ InjectionIsNewest'
  BY <1>1, <1>3, <1>4, <1>7 DEF KeyInv, KeyTypes, JobsKnowTheirs, InjectionIsNewest, Jobs
<1> QED
  BY <1>5, <1>6, <1>8, <1>9 DEF KeyInv

LEMMA BootEndKeeps ==
  ASSUME KeyInv, BootSkips \/ BootServes PROVE KeyInv'
<1>1. /\ UNCHANGED <<home, key, crowded>> /\ job[Main].at = "next" /\ Main \in Jobs
      /\ job[Main] \in JobState /\ job[Main].fp <= key
  BY DEF BootSkips, BootServes, At, docker, Jobs, KeyInv, KeyTypes, JobsKnowTheirs
<1>2. \/ job' = [job EXCEPT ![Main] = [job[Main] EXCEPT !.todo = {}, !.failed = TRUE]]
      \/ job' = [job EXCEPT ![Main] = Idle]
  BY DEF BootSkips, BootServes, KeyInv, KeyTypes
<1>3. Onward(Main, [job[Main] EXCEPT !.todo = {}, !.failed = TRUE])
  BY <1>1 DEF Onward, JobState, Hold
<1>4. Onward(Main, Idle)
  BY StartStates, ProjectAssumption DEF Onward, KeyInv, KeyTypes
<1>5. GoesOn(Main)
  BY <1>2, <1>3, <1>4 DEF GoesOn
<1> QED
  BY <1>1, <1>5, UnchangedHomesStay, OnwardKeeps

\* No marker names the new key yet.
LEMMA RegenerateKeeps ==
  ASSUME KeyInv, Regenerate PROVE KeyInv'
<1>1. UNCHANGED <<home, job, crowded>> /\ key' = key + 1 /\ key' \in 1..MaxKeys
  BY ProjectAssumption DEF Regenerate, docker, KeyInv, KeyTypes
<1>2. \A p \in Project : home[p].marker \in Nat /\ home[p].marker < key'
  BY <1>1, ProjectAssumption DEF KeyInv, KeyTypes, HomeState, MarkersAreOld
<1>3. \A c \in Jobs : job[c].fp \in Nat /\ job[c].fp <= key'
  BY <1>1, ProjectAssumption DEF KeyInv, KeyTypes, JobState, JobsKnowTheirs
<1>4. KeyTypes' /\ MarkersAreOld' /\ MarkerTellsTheKey'
  BY <1>1, <1>2, ProjectAssumption DEF KeyInv, KeyTypes, MarkersAreOld, MarkerTellsTheKey
<1>5. BootIsAlone' /\ OneJob' /\ JobsKnowTheirs' /\ InjectionIsNewest'
  BY <1>1, <1>3 DEF KeyInv, BootIsAlone, serving, OneJob, Hold, JobsKnowTheirs, InjectionIsNewest
<1> QED
  BY <1>4, <1>5 DEF KeyInv

\* A crash cuts an injection off between its two writes: the marker is still that of
\* the key before, or none.
LEMMA CrashKeeps ==
  ASSUME KeyInv, Crash PROVE KeyInv'
<1>1. /\ job' \in [Jobs -> JobState] /\ UNCHANGED <<key, crowded>>
      /\ \A c \in Jobs : job'[c] = IF c = Main THEN Boot ELSE Idle
  BY StartStates DEF Crash, Jobs
<1>2. UNCHANGED home \/ \E c \in Jobs : Mounted(job[c].p)
  BY DEF Crash, docker, Jobs
<1>3. /\ home' \in [Project -> HomeState]
      /\ \A p \in Project : home'[p].marker = home[p].marker /\ home'[p].file = home[p].file
  <2>1. CASE UNCHANGED home
    BY <2>1 DEF KeyInv, KeyTypes
  <2>2. ASSUME NEW c \in Jobs, home' = [home EXCEPT ![job[c].p].there = TRUE]
        PROVE  /\ home' \in [Project -> HomeState]
               /\ \A p \in Project :
                    home'[p].marker = home[p].marker /\ home'[p].file = home[p].file
    BY <2>2 DEF KeyInv, KeyTypes, HomeState
  <2> QED
    BY <1>2, <2>1, <2>2 DEF Mounted
<1>4. KeyTypes' /\ MarkersAreOld' /\ MarkerTellsTheKey'
  BY <1>1, <1>3 DEF KeyInv, KeyTypes, MarkersAreOld, MarkerTellsTheKey
<1>5. BootIsAlone'
  BY <1>1, ProjectAssumption DEF BootIsAlone, Jobs
<1>6. \A c \in Jobs : /\ Hold(job'[c]) = {} /\ job'[c].fp = 0
                      /\ job'[c].at \in {"idle", "next"}
  BY <1>1, StartStates
<1>7. OneJob'
  <2>1. \A c \in Jobs, p \in Project : p \notin Hold(job'[c])
    BY <1>6
  <2> QED
    BY <2>1 DEF OneJob, Hold
<1>8. JobsKnowTheirs' /\ InjectionIsNewest'
  BY <1>1, <1>6 DEF KeyInv, KeyTypes, JobsKnowTheirs, InjectionIsNewest
<1> QED
  BY <1>4, <1>5, <1>7, <1>8 DEF KeyInv

LEMMA StutterKeeps ==
  ASSUME KeyInv, UNCHANGED <<home, key, job, crowded>> PROVE KeyInv'
BY DEF KeyInv, KeyTypes, BootIsAlone, serving, OneJob, Hold, JobsKnowTheirs, MarkersAreOld,
       InjectionIsNewest, MarkerTellsTheKey

-----------------------------------------------------------------------------
LEMMA KeyInvStep ==
  ASSUME KeyInv, [Next]_pvars PROVE KeyInv'
<1>1. ASSUME NEW c \in Caller, Accept(c) PROVE KeyInv'
  BY <1>1, AcceptKeeps
<1>2. ASSUME NEW c \in Jobs, Work(c) PROVE KeyInv'
  <2>1. CASE InjectKey(c) \/ InjectMarker(c)
    BY <2>1, InjectKeyKeeps, InjectMarkerKeeps
  <2>2. CASE RunStarts(c) \/ RunBreaks(c) \/ RunLeaves(c)
    BY <2>2, RunKeeps
  <2>3. CASE DeleteHome(c)
    BY <2>3, DeleteHomeKeeps
  <2>4. ASSUME NEW p \in Project, WipeNext(c, p) PROVE KeyInv'
    BY <2>4, WipeNextKeeps
  <2>5. CASE WipeState(c)
    BY <2>5, WipeStateKeeps
  <2> QED
    BY <1>2, <2>1, <2>2, <2>3, <2>4, <2>5, QuietWorkKeeps DEF Work
<1>3. ASSUME NEW p \in Project, BootNext(p) \/ Lose(p) PROVE KeyInv'
  BY <1>3, BootNextKeeps, StutterKeeps DEF Lose
<1>4. CASE BootSkips \/ BootServes
  BY <1>4, BootEndKeeps
<1>5. CASE Regenerate
  BY <1>5, RegenerateKeeps
<1>6. CASE Crash
  BY <1>6, CrashKeeps
<1>7. CASE UNCHANGED pvars
  BY <1>7, StutterKeeps DEF pvars
<1> QED
  BY <1>1, <1>2, <1>3, <1>4, <1>5, <1>6, <1>7 DEF Next, Jobs

\* EnsureGitSSH trusts the marker: when it names the server's key, that key is the one
\* in the home volume, unless two requests were at work on the project at once.
THEOREM MarkerVouchesForKey == Spec => []MarkerTellsTheKey
<1>1. KeyInv => MarkerTellsTheKey
  BY DEF KeyInv
<1> QED
  BY <1>1, KeyInvInit, KeyInvStep, PTL DEF Spec

-----------------------------------------------------------------------------
(* What a project has                                                      *)

StoreTypes ==
  /\ record \in [Project -> BOOLEAN]
  /\ box \in [Project -> {"missing", "running", "exited"}]
  /\ repo \in [Project -> {"absent", "empty", "cloned"}]
  /\ chats \in [Project -> BOOLEAN]
  /\ faults \in 0..MaxFaults
  /\ unlisted \subseteq Project

\* A crash leaves Docker alone, or with the container and the volumes of a run it cut short.
LEMMA CutShortTypes ==
  ASSUME StoreTypes, faults' \in 0..MaxFaults, UNCHANGED <<record, chats, unlisted>>,
         \/ UNCHANGED <<box, repo, home>>
         \/ \E c \in Jobs : box' = [box EXCEPT ![job[c].p] = "exited"] /\ Mounted(job[c].p)
  PROVE  StoreTypes'
<1>1. box' \in [Project -> {"missing", "running", "exited"}]
  BY DEF StoreTypes
<1>2. repo' \in [Project -> {"absent", "empty", "cloned"}]
  <2> DEFINE State == {"absent", "empty", "cloned"}
  <2>1. repo \in [Project -> State] /\ "empty" \in State
    BY DEF StoreTypes
  <2>2. \/ repo' = repo
        \/ \E p : repo' = [repo EXCEPT ![p] = IF @ = "absent" THEN "empty" ELSE @]
    BY DEF Mounted
  <2> HIDE DEF State
  <2>3. repo' \in [Project -> State]
    BY <2>1, <2>2
  <2> QED
    BY <2>3 DEF State
<1>3. /\ record' \in [Project -> BOOLEAN] /\ chats' \in [Project -> BOOLEAN]
      /\ unlisted' \subseteq Project
  BY DEF StoreTypes
<1> QED
  BY <1>1, <1>2, <1>3 DEF StoreTypes

\* A delete of everything has done its work in Docker.
Emptied(p) == box[p] = "missing" /\ repo[p] = "absent" /\ home[p] = NoHome

\* What NothingOrphaned asks of a project that is off the list.
Clean(p) ==
  /\ box[p] = "missing"
  /\ repo[p] # "cloned"
  /\ faults = 0 => repo[p] = "absent" /\ home[p] = NoHome /\ ~chats[p]

\* The states of a job in which its parts fit each other.
Fits(j) ==
  /\ j.at \in {"idle", "next"} => j.p = None /\ ~j.bad
  /\ j.at = "idle" => j.kind = "none"
  /\ j.at = "next" => j.kind \in {"boot", "wipe"}
  /\ j.at \in {"record", "undo"} => j.kind = "create"
  /\ j.kind = "wipe" =>
       j.scope = "all" /\ j.at \in {"next", "stop", "box", "home", "repo", "drop", "chats"}
  /\ j.kind = "boot" => j.at \in {"next", "run", "key", "marker", "start", "look", "clone"}

\* What a job j that works on an uncrowded project has made of it so far: a create
\* has a record before it has anything else, and a delete of everything keeps the
\* record until box and volumes are gone.
Stands(j) ==
  LET p == j.p IN
  /\ j.at = "record" => ~record[p] /\ (p \notin unlisted => Clean(p))
  /\ j.at \in {"run", "key", "marker", "clone", "start", "look", "reserve", "stop", "box",
               "home", "repo", "drop"} => record[p]
  /\ j.kind = "create" /\ j.at \in {"run", "undo"} /\ p \notin unlisted =>
       box[p] = "missing" /\ repo[p] # "cloned" /\ (j.at = "undo" => faults # 0)
  /\ j.at = "home" /\ ~j.bad => box[p] = "missing"
  /\ j.at = "repo" /\ j.scope = "all" /\ ~j.bad => box[p] = "missing" /\ home[p] = NoHome
  /\ j.at = "drop" /\ j.scope # "metadata" => Emptied(p)
  /\ j.at = "chats" =>
       IF j.scope = "metadata" THEN record[p] \/ p \in unlisted ELSE Emptied(p)

JobsFit ==
  /\ \A c \in Jobs : Fits(job[c])
  /\ job[Main].kind \in {"boot", "none"}
  /\ \A c \in Caller : job[c].kind # "boot"

JobsStand == \A c \in Jobs : job[c].p \in Project \ crowded => Stands(job[c])

Free(p) == \A c \in Jobs : job[c].p # p

\* A wipe holds every project, and works on one: those that it has not turned to are
\* free, too.
FreeIsClean ==
  \A p \in Project \ (crowded \cup unlisted) : Free(p) /\ ~record[p] => Clean(p)

\* What a wipe without failures has behind it may be dropped from state.json at once.
WipeLeavesNone ==
  \A c \in Jobs : job[c].kind = "wipe" /\ ~job[c].failed =>
    \A p \in Project \ crowded :
      p = job[c].p \/ p \in job[c].todo \/ ~record[p] \/ Emptied(p)

OrphanInv == StoreTypes /\ JobsFit /\ JobsStand /\ FreeIsClean /\ WipeLeavesNone

\* During the boot: it only turns to projects that are recorded, and those that it
\* has behind it run.
BootInv ==
  job[Main].kind = "boot" =>
    /\ \A p \in job[Main].todo : record[p]
    /\ job[Main].at \in {"look", "clone"} => box[job[Main].p] = "running"
    /\ ~job[Main].failed =>
         \A p \in Project :
           record[p] => p \in job[Main].todo \/ p = job[Main].p \/ box[p] = "running"

LEMMA StartsFit == Fits(Idle) /\ Fits(Boot) /\ Idle.p = None /\ Boot.p = None
                   /\ Idle.kind = "none" /\ Boot.kind = "boot"
BY DEF Fits, Idle, Boot

LEMMA OrphanInvInit == Init => OrphanInv
<1> SUFFICES ASSUME Init PROVE OrphanInv
  OBVIOUS
<1>1. \A c \in Jobs : job[c] = IF c = Main THEN Boot ELSE Idle
  BY DEF Init, Jobs
<1>2. StoreTypes
  BY ProjectAssumption DEF Init, StoreTypes
<1>3. JobsFit
  BY <1>1, StartsFit, ProjectAssumption DEF JobsFit, Jobs
<1>4. JobsStand /\ WipeLeavesNone
  BY <1>1, StartsFit, ProjectAssumption DEF JobsStand, WipeLeavesNone
<1>5. FreeIsClean
  BY DEF Init, FreeIsClean, Clean
<1> QED
  BY <1>2, <1>3, <1>4, <1>5 DEF OrphanInv

-----------------------------------------------------------------------------
(* How a job goes on                                                       *)

\* c alone goes on, with the same request or none.
Moves(c) ==
  /\ job' \in [Jobs -> JobState]
  /\ \A d \in Jobs : d # c => job'[d] = job[d]

\* All but where it stands and whether it failed stays.
Keeps(c) ==
  /\ job'[c].kind = job[c].kind /\ job'[c].p = job[c].p /\ job'[c].scope = job[c].scope
  /\ job'[c].todo = job[c].todo /\ job'[c].failed = job[c].failed

LEMMA GoToMoves ==
  ASSUME KeyInv, NEW c \in Jobs,
         NEW at \in {"run", "undo", "marker", "clone", "start", "look", "reserve", "stop",
                     "box", "home", "repo", "drop", "chats"},
         GoTo(c, at)
  PROVE  Moves(c) /\ Keeps(c) /\ job'[c].at = at /\ job'[c].bad = job[c].bad
<1>1. job \in [Jobs -> JobState] /\ job[c] \in JobState
  BY DEF KeyInv, KeyTypes
<1>2. job' = [job EXCEPT ![c] = [job[c] EXCEPT !.at = at]]
  BY <1>1 DEF GoTo
<1>3. [job[c] EXCEPT !.at = at] \in JobState
  BY <1>1 DEF JobState
<1> QED
  BY <1>1, <1>2, <1>3 DEF Moves, Keeps, JobState

LEMMA GoOnMoves ==
  ASSUME KeyInv, NEW c \in Jobs, NEW at \in {"box", "home", "repo", "drop"},
         NEW err \in BOOLEAN, GoOn(c, at, err)
  PROVE  Moves(c) /\ Keeps(c) /\ job'[c].at = at /\ job'[c].bad = (job[c].bad \/ err)
<1> DEFINE j == [job[c] EXCEPT !.at = at, !.bad = @ \/ err]
<1>1. job \in [Jobs -> JobState] /\ job[c] \in JobState
  BY DEF KeyInv, KeyTypes
<1>2. job' = [job EXCEPT ![c] = j]
  BY <1>1 DEF GoOn
<1>3. j \in JobState
  BY <1>1 DEF JobState
<1>4. /\ j.kind = job[c].kind /\ j.p = job[c].p /\ j.scope = job[c].scope
      /\ j.todo = job[c].todo /\ j.failed = job[c].failed /\ j.at = at
      /\ j.bad = (job[c].bad \/ err)
  BY <1>1 DEF JobState
<1> HIDE DEF j
<1> QED
  BY <1>1, <1>2, <1>3, <1>4 DEF Moves, Keeps

LEMMA GoInjectMoves ==
  ASSUME KeyInv, NEW c \in Jobs, GoInject(c)
  PROVE  Moves(c) /\ Keeps(c) /\ job'[c].at = "key" /\ job'[c].bad = job[c].bad
<1> DEFINE j == [job[c] EXCEPT !.at = "key", !.fp = key]
<1>1. job \in [Jobs -> JobState] /\ job[c] \in JobState /\ key \in 0..MaxKeys
  BY ProjectAssumption DEF KeyInv, KeyTypes
<1>2. job' = [job EXCEPT ![c] = j]
  BY <1>1 DEF GoInject
<1>3. j \in JobState
  BY <1>1 DEF JobState
<1>4. /\ j.kind = job[c].kind /\ j.p = job[c].p /\ j.scope = job[c].scope
      /\ j.todo = job[c].todo /\ j.failed = job[c].failed /\ j.at = "key"
      /\ j.bad = job[c].bad
  BY <1>1 DEF JobState
<1> HIDE DEF j
<1> QED
  BY <1>1, <1>2, <1>3, <1>4 DEF Moves, Keeps

\* A job that ends its work on a project.
Ends(c, err) ==
  \/ /\ job[c].kind \in {"boot", "wipe"}
     /\ job'[c].at = "next" /\ job'[c].p = None /\ ~job'[c].bad
     /\ job'[c].kind = job[c].kind /\ job'[c].scope = job[c].scope
     /\ job'[c].todo = job[c].todo /\ job'[c].failed = (job[c].failed \/ err)
  \/ job[c].kind \notin {"boot", "wipe"} /\ job'[c] = Idle

LEMMA EndMoves ==
  ASSUME KeyInv, NEW c \in Jobs, NEW err \in BOOLEAN, End(c, err)
  PROVE  Moves(c) /\ Ends(c, err)
<1> DEFINE j == [job[c] EXCEPT !.at = "next", !.p = None, !.bad = FALSE,
                               !.failed = job[c].failed \/ err]
<1>1. job \in [Jobs -> JobState] /\ job[c] \in JobState
  BY DEF KeyInv, KeyTypes
<1>2. CASE job[c].kind \in {"boot", "wipe"}
  <2>1. job' = [job EXCEPT ![c] = j]
    BY <1>1, <1>2 DEF End
  <2>2. j \in JobState
    BY <1>1 DEF JobState
  <2>3. /\ j.at = "next" /\ j.p = None /\ ~j.bad /\ j.kind = job[c].kind
        /\ j.scope = job[c].scope /\ j.todo = job[c].todo
        /\ j.failed = (job[c].failed \/ err)
    BY <1>1 DEF JobState
  <2> HIDE DEF j
  <2> QED
    BY <1>1, <1>2, <2>1, <2>2, <2>3 DEF Moves, Ends
<1>3. CASE job[c].kind \notin {"boot", "wipe"}
  <2>1. job' = [job EXCEPT ![c] = Idle]
    BY <1>3 DEF End
  <2> QED
    BY <1>1, <1>3, <2>1, StartStates DEF Moves, Ends
<1> QED
  BY <1>2, <1>3

-----------------------------------------------------------------------------
(* Steps on one project                                                    *)

\* What the other projects have stays.
OthersStay(p) ==
  /\ \A q \in Project \ {p} :
       /\ record'[q] = record[q] /\ box'[q] = box[q] /\ repo'[q] = repo[q]
       /\ home'[q] = home[q] /\ chats'[q] = chats[q]
       /\ q \in unlisted' => q \in unlisted
       /\ q \in unlisted => q \in unlisted'
  /\ crowded' = crowded
  /\ faults' = 0 => faults = 0

\* And c leaves p as it should.
LeavesFit(c, p) ==
  /\ Fits(job'[c])
  /\ job'[c].kind \in {job[c].kind, "none"} /\ job'[c].p \in {p, None}
  /\ job'[c].kind = "wipe" =>
       /\ job'[c].todo = job[c].todo
       /\ ~job'[c].failed => ~job[c].failed

LeavesWell(c, p) ==
  /\ job'[c].p = p => Stands(job[c])'
  /\ job'[c].p = None /\ p \notin unlisted' /\ ~record'[p] => Clean(p)'
  /\ job'[c].kind = "wipe" /\ ~job'[c].failed =>
       p = job'[c].p \/ p \in job'[c].todo \/ ~record'[p] \/ Emptied(p)'

LEMMA StepOnOne ==
  ASSUME KeyInv, KeyInv', OrphanInv, StoreTypes', NEW c \in Jobs, NEW p \in Project,
         job[c].p = p, Moves(c), OthersStay(p), LeavesFit(c, p),
         p \notin crowded => LeavesWell(c, p)
  PROVE  OrphanInv'
<1>1. JobsFit'
  BY DEF OrphanInv, JobsFit, Moves, LeavesFit, Jobs
<1>2. \A d \in Jobs \ {c} : job[d].p = p => p \in crowded
  BY ProjectAssumption DEF KeyInv, OneJob, Hold
<1>3. JobsStand'
  <2> SUFFICES ASSUME NEW d \in Jobs, job'[d].p \in Project \ crowded'
               PROVE  Stands(job[d])'
    BY DEF JobsStand
  <2>1. CASE d = c
    BY <2>1, ProjectAssumption DEF LeavesFit, LeavesWell, OthersStay
  <2>2. CASE d # c
    <3>1. job'[d] = job[d] /\ job[d].p \in Project \ crowded /\ job[d].p # p
      BY <1>2, <2>2 DEF Moves, OthersStay
    <3>2. Stands(job[d])
      BY <3>1 DEF OrphanInv, JobsStand
    <3> QED
      BY <3>1, <3>2 DEF Stands, Clean, Emptied, OthersStay
  <2> QED
    BY <2>1, <2>2
<1>4. FreeIsClean'
  <2> SUFFICES ASSUME NEW q \in Project, q \notin crowded, q \notin unlisted',
                      Free(q)', ~record'[q]
               PROVE  Clean(q)'
    BY DEF FreeIsClean, OthersStay
  <2>1. CASE q = p
    <3>1. job'[c].p = None
      BY <2>1 DEF Free, LeavesFit
    <3> QED
      BY <2>1, <3>1 DEF LeavesWell
  <2>2. CASE q # p
    <3>1. Free(q)
      BY <2>2 DEF Free, Moves
    <3>2. Clean(q)
      BY <2>2, <3>1 DEF OrphanInv, FreeIsClean, OthersStay
    <3> QED
      BY <2>2, <3>2 DEF Clean, OthersStay
  <2> QED
    BY <2>1, <2>2
<1>5. WipeLeavesNone'
  <2> SUFFICES ASSUME NEW d \in Jobs, job'[d].kind = "wipe", ~job'[d].failed,
                      NEW q \in Project, q \notin crowded
               PROVE  q = job'[d].p \/ q \in job'[d].todo \/ ~record'[q] \/ Emptied(q)'
    BY DEF WipeLeavesNone, OthersStay
  <2>1. CASE d = c
    <3>1. CASE q = p
      BY <2>1, <3>1 DEF LeavesWell
    <3>2. CASE q # p
      <4>1. job[c].kind = "wipe" /\ ~job[c].failed /\ job'[c].todo = job[c].todo
        BY <2>1 DEF LeavesFit
      <4>2. q \in job[c].todo \/ ~record[q] \/ Emptied(q)
        BY <3>2, <4>1 DEF OrphanInv, WipeLeavesNone
      <4> QED
        BY <2>1, <3>2, <4>1, <4>2 DEF Emptied, OthersStay
    <3> QED
      BY <3>1, <3>2
  <2>2. CASE d # c
    <3>1. job'[d] = job[d]
      BY <2>2 DEF Moves
    <3>2. q # p
      <4>1. Hold(job[d]) = Project /\ p \in Hold(job[c])
        BY <3>1, ProjectAssumption DEF Hold
      <4> QED
        BY <2>2, <4>1 DEF KeyInv, OneJob
    <3>3. q = job[d].p \/ q \in job[d].todo \/ ~record[q] \/ Emptied(q)
      BY <3>1 DEF OrphanInv, WipeLeavesNone
    <3> QED
      BY <3>1, <3>2, <3>3 DEF Emptied, OthersStay
  <2> QED
    BY <2>1, <2>2
<1> QED
  BY <1>1, <1>3, <1>4, <1>5 DEF OrphanInv

GoesWell(c, p) ==
  Moves(c) /\ OthersStay(p) /\ LeavesFit(c, p) /\ (p \notin crowded => LeavesWell(c, p))

\* What is known of a job that works on a project.
LEMMA JobKnown ==
  ASSUME KeyInv, OrphanInv, NEW c \in Jobs, NEW p \in Project, job[c].p = p
  PROVE  /\ Fits(job[c]) /\ job[c] \in JobState /\ p # None
         /\ record \in [Project -> BOOLEAN]
         /\ box \in [Project -> {"missing", "running", "exited"}]
         /\ repo \in [Project -> {"absent", "empty", "cloned"}]
         /\ chats \in [Project -> BOOLEAN] /\ home \in [Project -> HomeState]
         /\ faults \in Nat /\ faults + 1 # 0 /\ faults <= faults + 1
         /\ p \notin crowded => Stands(job[c])
         /\ p \notin crowded /\ job[c].kind = "wipe" /\ ~job[c].failed =>
              p \in job[c].todo \/ ~record[p] \/ Emptied(p) \/ job[c].p = p
<1>1. JobsFit /\ StoreTypes /\ JobsStand
  BY DEF OrphanInv
<1>2. job[c] \in JobState /\ home \in [Project -> HomeState] /\ p # None
  BY ProjectAssumption DEF KeyInv, KeyTypes
<1>3. faults \in Nat
  BY <1>1, ProjectAssumption DEF StoreTypes
<1> QED
  BY <1>1, <1>2, <1>3 DEF JobsFit, StoreTypes, JobsStand

LEMMA CreateRecordGoes ==
  ASSUME KeyInv, OrphanInv, NEW c \in Jobs, NEW p \in Project, job[c].p = p, CreateRecord(c)
  PROVE  GoesWell(c, p)
<1> USE DEF CreateRecord, At, docker
<1>1. OthersStay(p)
  BY JobKnown DEF OthersStay, NoFault, Fault
<1>2. CASE record' = [record EXCEPT ![p] = TRUE] /\ GoTo(c, "run")
  <2>1. Moves(c) /\ Keeps(c) /\ job'[c].at = "run" /\ job'[c].bad = job[c].bad
    BY <1>2, GoToMoves
  <2>2. LeavesFit(c, p)
    BY <2>1, JobKnown DEF Fits, LeavesFit, Keeps
  <2>3. ASSUME p \notin crowded PROVE LeavesWell(c, p)
    BY <1>2, <2>1, <2>3, JobKnown DEF LeavesWell, Keeps, Stands, Clean, Fits
  <2> QED
    BY <1>1, <2>1, <2>2, <2>3 DEF GoesWell
<1>3. CASE Fault /\ End(c, TRUE) /\ UNCHANGED record
  <2>1. Moves(c) /\ Ends(c, TRUE)
    BY <1>3, EndMoves
  <2>2. LeavesFit(c, p)
    BY <2>1, JobKnown, StartsFit DEF Fits, LeavesFit, Ends
  <2>3. ASSUME p \notin crowded PROVE LeavesWell(c, p)
    BY <1>3, <2>1, <2>3, JobKnown, StartsFit DEF LeavesWell, Ends, Stands, Clean, Fits, Fault
  <2> QED
    BY <1>1, <2>1, <2>2, <2>3 DEF GoesWell
<1> QED
  BY <1>2, <1>3

LEMMA RunStartsGoes ==
  ASSUME KeyInv, OrphanInv, NEW c \in Jobs, NEW p \in Project, job[c].p = p, RunStarts(c)
  PROVE  GoesWell(c, p)
<1> USE DEF RunStarts, At
<1>1. OthersStay(p)
  BY JobKnown DEF OthersStay, NoFault, Mounted
<1>2. Moves(c) /\ Keeps(c) /\ job'[c].at = "key" /\ job'[c].bad = job[c].bad
  BY GoInjectMoves
<1>3. LeavesFit(c, p)
  BY <1>2, JobKnown DEF Fits, LeavesFit, Keeps
<1>4. ASSUME p \notin crowded PROVE LeavesWell(c, p)
  BY <1>2, <1>4, JobKnown DEF LeavesWell, Keeps, Stands, Fits
<1> QED
  BY <1>1, <1>2, <1>3, <1>4 DEF GoesWell

\* A run that fails: a create goes on to take its record back.
LEMMA RunFailsGoes ==
  ASSUME KeyInv, OrphanInv, NEW c \in Jobs, NEW p \in Project, job[c].p = p,
         RunNameTaken(c) \/ RunBreaks(c)
  PROVE  GoesWell(c, p)
<1>1. /\ job[c].at = "run" /\ RunFails(c) /\ record' = record /\ chats' = chats
      /\ crowded' = crowded /\ unlisted' = unlisted
  BY DEF RunNameTaken, RunBreaks, At
<1>2. OthersStay(p)
  BY <1>1, JobKnown DEF OthersStay, NoFault, Fault, Mounted, RunNameTaken, RunBreaks, docker
<1>3. CASE job[c].kind = "create"
  <2>1. Moves(c) /\ Keeps(c) /\ job'[c].at = "undo" /\ job'[c].bad = job[c].bad
    BY <1>1, <1>3, GoToMoves DEF RunFails
  <2>2. LeavesFit(c, p)
    BY <1>3, <2>1, JobKnown DEF Fits, LeavesFit, Keeps
  <2>3. ASSUME p \notin crowded PROVE LeavesWell(c, p)
    <3>1. Stands(job[c]) /\ p # None
      BY <2>3, JobKnown
    <3>2. ASSUME p \notin unlisted
          PROVE  box'[p] = "missing" /\ repo'[p] # "cloned" /\ faults' # 0
      BY <1>1, <1>3, <3>1, <3>2, JobKnown
         DEF Stands, RunNameTaken, RunBreaks, Mounted, Fault, docker
    <3> QED
      BY <1>1, <1>3, <2>1, <3>1, <3>2 DEF LeavesWell, Keeps, Stands
  <2> QED
    BY <1>2, <2>1, <2>2, <2>3 DEF GoesWell
<1>4. CASE job[c].kind # "create"
  <2>1. Moves(c) /\ Ends(c, TRUE)
    BY <1>1, <1>4, EndMoves DEF RunFails
  <2>2. LeavesFit(c, p)
    BY <2>1, JobKnown, StartsFit DEF Fits, LeavesFit, Ends
  <2>3. ASSUME p \notin crowded PROVE LeavesWell(c, p)
    BY <1>1, <2>1, <2>3, JobKnown, StartsFit DEF LeavesWell, Ends, Stands, Fits
  <2> QED
    BY <1>2, <2>1, <2>2, <2>3 DEF GoesWell
<1> QED
  BY <1>3, <1>4

\* A run that fails and leaves its container: of a create it is unlisted from here on.
LEMMA RunLeavesGoes ==
  ASSUME KeyInv, OrphanInv, NEW c \in Jobs, NEW p \in Project, job[c].p = p, RunLeaves(c)
  PROVE  GoesWell(c, p)
<1>1. /\ job[c].at = "run" /\ RunFails(c) /\ record' = record /\ crowded' = crowded
      /\ job[c].kind = "create" => p \in unlisted'
  BY DEF RunLeaves, At
<1>2. OthersStay(p)
  BY <1>1, JobKnown DEF OthersStay, Fault, Mounted, RunLeaves
<1>3. CASE job[c].kind = "create"
  <2>1. Moves(c) /\ Keeps(c) /\ job'[c].at = "undo" /\ job'[c].bad = job[c].bad
    BY <1>1, <1>3, GoToMoves DEF RunFails
  <2>2. LeavesFit(c, p)
    BY <1>3, <2>1, JobKnown DEF Fits, LeavesFit, Keeps
  <2>3. LeavesWell(c, p)
    BY <1>1, <1>3, <2>1, JobKnown DEF LeavesWell, Keeps, Stands
  <2> QED
    BY <1>2, <2>1, <2>2, <2>3 DEF GoesWell
<1>4. CASE job[c].kind # "create"
  <2>1. Moves(c) /\ Ends(c, TRUE)
    BY <1>1, <1>4, EndMoves DEF RunFails
  <2>2. LeavesFit(c, p)
    BY <2>1, JobKnown, StartsFit DEF Fits, LeavesFit, Ends
  <2>3. ASSUME p \notin crowded PROVE LeavesWell(c, p)
    BY <1>1, <2>1, <2>3, JobKnown, StartsFit DEF LeavesWell, Ends, Stands, Fits
  <2> QED
    BY <1>2, <2>1, <2>2, <2>3 DEF GoesWell
<1> QED
  BY <1>3, <1>4

LEMMA CreateUndoGoes ==
  ASSUME KeyInv, OrphanInv, NEW c \in Jobs, NEW p \in Project, job[c].p = p, CreateUndo(c)
  PROVE  GoesWell(c, p)
<1> USE DEF CreateUndo, At, docker
<1>1. OthersStay(p)
  BY JobKnown DEF OthersStay, NoFault, Fault
<1>2. Moves(c) /\ Ends(c, TRUE)
  BY EndMoves
<1>3. LeavesFit(c, p)
  BY <1>2, JobKnown, StartsFit DEF Fits, LeavesFit, Ends
<1>4. ASSUME p \notin crowded PROVE LeavesWell(c, p)
  BY <1>2, <1>4, JobKnown, StartsFit DEF LeavesWell, Ends, Stands, Clean, Fits, Fault, NoFault
<1> QED
  BY <1>1, <1>2, <1>3, <1>4 DEF GoesWell

\* An injection writes the home volume, and its caller goes on.
LEMMA AfterInjectWell ==
  ASSUME KeyInv, OrphanInv, NEW c \in Jobs, NEW p \in Project, job[c].p = p,
         job[c].at \in {"key", "marker"}, AfterInject(c),
         record' = record, OthersStay(p)
  PROVE  GoesWell(c, p)
<1>1. \/ job[c].kind \notin {"boot", "wipe"} /\ GoTo(c, "clone")
      \/ job[c].kind # "wipe" /\ GoTo(c, "start")
      \/ End(c, FALSE)
  BY DEF AfterInject
<1>2. CASE GoTo(c, "clone") \/ GoTo(c, "start")
  <2>1. Moves(c) /\ Keeps(c) /\ job'[c].at \in {"clone", "start"} /\ job'[c].bad = job[c].bad
    BY <1>2, GoToMoves
  <2>2. LeavesFit(c, p)
    BY <2>1, JobKnown DEF Fits, LeavesFit, Keeps
  <2>3. ASSUME p \notin crowded PROVE LeavesWell(c, p)
    BY <2>1, <2>3, JobKnown DEF LeavesWell, Keeps, Stands, Fits
  <2> QED
    BY <2>1, <2>2, <2>3 DEF GoesWell
<1>3. CASE End(c, FALSE)
  <2>1. Moves(c) /\ Ends(c, FALSE)
    BY <1>3, EndMoves
  <2>2. LeavesFit(c, p)
    BY <2>1, JobKnown, StartsFit DEF Fits, LeavesFit, Ends
  <2>3. ASSUME p \notin crowded PROVE LeavesWell(c, p)
    BY <2>1, <2>3, JobKnown, StartsFit DEF LeavesWell, Ends, Stands, Fits
  <2> QED
    BY <2>1, <2>2, <2>3 DEF GoesWell
<1> QED
  BY <1>1, <1>2, <1>3

LEMMA InjectGoes ==
  ASSUME KeyInv, OrphanInv, NEW c \in Jobs, NEW p \in Project, job[c].p = p,
         InjectKey(c) \/ InjectMarker(c)
  PROVE  GoesWell(c, p)
<1>1. /\ job[c].at \in {"key", "marker"} /\ record' = record /\ box' = box /\ repo' = repo
      /\ chats' = chats /\ unlisted' = unlisted /\ crowded' = crowded
  BY DEF InjectKey, InjectMarker, At
<1>2. OthersStay(p)
  BY <1>1, JobKnown DEF OthersStay, InjectKey, InjectMarker, NoFault, Fault
<1>3. CASE AfterInject(c)
  BY <1>1, <1>2, <1>3, AfterInjectWell
<1>4. CASE GoTo(c, "marker")
  <2>1. Moves(c) /\ Keeps(c) /\ job'[c].at = "marker" /\ job'[c].bad = job[c].bad
    BY <1>4, GoToMoves
  <2>2. LeavesFit(c, p)
    BY <1>1, <2>1, JobKnown DEF Fits, LeavesFit, Keeps
  <2>3. ASSUME p \notin crowded PROVE LeavesWell(c, p)
    BY <1>1, <2>1, <2>3, JobKnown DEF LeavesWell, Keeps, Stands, Fits
  <2> QED
    BY <1>2, <2>1, <2>2, <2>3 DEF GoesWell
<1> QED
  BY <1>3, <1>4 DEF InjectKey, InjectMarker

\* Steps after which a request is over, in a project that stays recorded.
LEMMA LastStepGoes ==
  ASSUME KeyInv, OrphanInv, NEW c \in Jobs, NEW p \in Project, job[c].p = p,
         Clone(c) \/ Started(c) \/ AskReserve(c)
  PROVE  GoesWell(c, p)
<1>1. /\ job[c].at \in {"clone", "start", "reserve"} /\ End(c, FALSE)
      /\ record' = record /\ unlisted' = unlisted /\ crowded' = crowded
  BY DEF Clone, Started, AskReserve, At
<1>2. OthersStay(p)
  BY <1>1, JobKnown DEF OthersStay, Clone, Started, AskReserve, NoFault, Fault, docker
<1>3. Moves(c) /\ Ends(c, FALSE)
  BY <1>1, EndMoves
<1>4. LeavesFit(c, p)
  BY <1>3, JobKnown, StartsFit DEF Fits, LeavesFit, Ends
<1>5. ASSUME p \notin crowded PROVE LeavesWell(c, p)
  BY <1>1, <1>3, <1>5, JobKnown, StartsFit DEF LeavesWell, Ends, Stands, Fits
<1> QED
  BY <1>2, <1>3, <1>4, <1>5 DEF GoesWell

\* Steps in a project that stays recorded, after which the request goes on or ends.
LEMMA RecordedGoes ==
  ASSUME KeyInv, OrphanInv, NEW c \in Jobs, NEW p \in Project, job[c].p = p,
         ReconcileStart(c) \/ RepoVolumeEmpty(c) \/ RestartStop(c)
  PROVE  GoesWell(c, p)
<1>1. /\ job[c].at \in {"start", "look", "stop"} /\ job[c].kind # "wipe"
      /\ record' = record /\ unlisted' = unlisted /\ crowded' = crowded
      /\ job[c].kind = "boot" => job[c].at # "stop"
  BY JobKnown DEF ReconcileStart, RepoVolumeEmpty, RestartStop, At, Fits
<1>2. OthersStay(p)
  BY <1>1, JobKnown DEF OthersStay, ReconcileStart, RepoVolumeEmpty, RestartStop, Stopped,
                     NoFault, Fault, docker
<1>3. \/ \E at \in {"look", "clone"} : GoTo(c, at)
      \/ job[c].kind # "boot" /\ GoTo(c, "start")
      \/ \E err \in BOOLEAN : End(c, err)
  <2>1. (~record[job[c].p]) \in BOOLEAN
    BY Zenon
  <2> QED
    BY <1>1, <2>1 DEF ReconcileStart, RepoVolumeEmpty, RestartStop
<1>4. ASSUME NEW at \in {"look", "clone", "start"}, GoTo(c, at) PROVE GoesWell(c, p)
  <2>1. Moves(c) /\ Keeps(c) /\ job'[c].at = at /\ job'[c].bad = job[c].bad
    BY <1>4, GoToMoves
  <2>2. LeavesFit(c, p)
    BY <1>1, <1>4, <2>1, JobKnown DEF Fits, LeavesFit, Keeps
  <2>3. ASSUME p \notin crowded PROVE LeavesWell(c, p)
    BY <1>1, <1>4, <2>1, <2>3, JobKnown DEF LeavesWell, Keeps, Stands, Fits
  <2> QED
    BY <1>2, <2>1, <2>2, <2>3 DEF GoesWell
<1>5. ASSUME NEW err \in BOOLEAN, End(c, err) PROVE GoesWell(c, p)
  <2>1. Moves(c) /\ Ends(c, err)
    BY <1>5, EndMoves
  <2>2. LeavesFit(c, p)
    BY <2>1, JobKnown, StartsFit DEF Fits, LeavesFit, Ends
  <2>3. ASSUME p \notin crowded PROVE LeavesWell(c, p)
    BY <1>1, <2>1, <2>3, JobKnown, StartsFit DEF LeavesWell, Ends, Stands, Fits
  <2> QED
    BY <1>2, <2>1, <2>2, <2>3 DEF GoesWell
<1> QED
  BY <1>3, <1>4, <1>5

-----------------------------------------------------------------------------
(* The steps of a delete                                                   *)

LEMMA DeleteStopGoes ==
  ASSUME KeyInv, OrphanInv, NEW c \in Jobs, NEW p \in Project, job[c].p = p, DeleteStop(c)
  PROVE  GoesWell(c, p)
<1> USE DEF DeleteStop, At, InDelete
<1>1. OthersStay(p)
  BY JobKnown DEF OthersStay, NoFault, Fault, Stopped
<1>2. Moves(c) /\ Keeps(c) /\ job'[c].at = "box" /\ job'[c].bad = job[c].bad
  BY GoToMoves
<1>3. LeavesFit(c, p)
  BY <1>2, JobKnown DEF Fits, LeavesFit, Keeps
<1>4. ASSUME p \notin crowded PROVE LeavesWell(c, p)
  BY <1>2, <1>4, JobKnown DEF LeavesWell, Keeps, Stands, Fits
<1> QED
  BY <1>1, <1>2, <1>3, <1>4 DEF GoesWell

LEMMA DeleteBoxGoes ==
  ASSUME KeyInv, OrphanInv, NEW c \in Jobs, NEW p \in Project, job[c].p = p, DeleteBox(c)
  PROVE  GoesWell(c, p)
<1> USE DEF DeleteBox, At
<1>1. OthersStay(p)
  BY JobKnown DEF OthersStay, NoFault, Fault
<1>2. PICK at \in {"repo", "home"}, err \in BOOLEAN :
        /\ GoOn(c, at, err)
        /\ at = IF job[c].scope = "repo" THEN "repo" ELSE "home"
        /\ ~err => box'[p] = "missing"
  <2>1. box' = [box EXCEPT ![p] = "missing"] => box'[p] = "missing"
    BY JobKnown
  <2> QED
    BY <2>1
<1>3. Moves(c) /\ Keeps(c) /\ job'[c].at = at /\ job'[c].bad = (job[c].bad \/ err)
  BY <1>2, GoOnMoves
<1>4. LeavesFit(c, p)
  BY <1>3, JobKnown DEF Fits, LeavesFit, Keeps
<1>5. ASSUME p \notin crowded PROVE LeavesWell(c, p)
  BY <1>2, <1>3, <1>5, JobKnown DEF LeavesWell, Keeps, Stands, Fits
<1> QED
  BY <1>1, <1>3, <1>4, <1>5 DEF GoesWell

LEMMA DeleteHomeGoes ==
  ASSUME KeyInv, OrphanInv, NEW c \in Jobs, NEW p \in Project, job[c].p = p, DeleteHome(c)
  PROVE  GoesWell(c, p)
<1> USE DEF DeleteHome, At
<1>1. OthersStay(p)
  BY JobKnown DEF OthersStay, NoFault, Fault
<1>2. PICK err \in BOOLEAN :
        /\ IF job[c].scope = "all" THEN GoOn(c, "repo", err) ELSE End(c, err)
        /\ ~err => box[p] = "missing" /\ home'[p] = NoHome
  <2>1. home' = [home EXCEPT ![p] = NoHome] => home'[p] = NoHome
    BY JobKnown
  <2> QED
    BY <2>1
<1>3. CASE job[c].scope = "all"
  <2>1. Moves(c) /\ Keeps(c) /\ job'[c].at = "repo" /\ job'[c].bad = (job[c].bad \/ err)
    BY <1>2, <1>3, GoOnMoves
  <2>2. LeavesFit(c, p)
    BY <2>1, JobKnown DEF Fits, LeavesFit, Keeps
  <2>3. ASSUME p \notin crowded PROVE LeavesWell(c, p)
    BY <1>2, <2>1, <2>3, JobKnown DEF LeavesWell, Keeps, Stands, Fits
  <2> QED
    BY <1>1, <2>1, <2>2, <2>3 DEF GoesWell
<1>4. CASE job[c].scope # "all"
  <2>1. Moves(c) /\ Ends(c, err)
    BY <1>2, <1>4, EndMoves
  <2>2. LeavesFit(c, p)
    BY <2>1, JobKnown, StartsFit DEF Fits, LeavesFit, Ends
  <2>3. ASSUME p \notin crowded PROVE LeavesWell(c, p)
    BY <1>4, <2>1, <2>3, JobKnown, StartsFit DEF LeavesWell, Ends, Stands, Fits
  <2> QED
    BY <1>1, <2>1, <2>2, <2>3 DEF GoesWell
<1> QED
  BY <1>3, <1>4

LEMMA DeleteRepoGoes ==
  ASSUME KeyInv, OrphanInv, NEW c \in Jobs, NEW p \in Project, job[c].p = p, DeleteRepo(c)
  PROVE  GoesWell(c, p)
<1> USE DEF DeleteRepo, At
<1>1. OthersStay(p)
  BY JobKnown DEF OthersStay, NoFault, Fault
<1>2. PICK err \in BOOLEAN :
        /\ RepoThenDrop(c, err)
        /\ ~err => box[p] = "missing" /\ repo'[p] = "absent"
  <2>1. repo' = [repo EXCEPT ![p] = "absent"] => repo'[p] = "absent"
    BY JobKnown
  <2> QED
    BY <2>1
<1>3. CASE job[c].scope = "all" /\ ~(err \/ job[c].bad)
  <2>1. Moves(c) /\ Keeps(c) /\ job'[c].at = "drop" /\ job'[c].bad = (job[c].bad \/ FALSE)
    BY <1>2, <1>3, GoOnMoves DEF RepoThenDrop
  <2>2. LeavesFit(c, p)
    BY <2>1, JobKnown DEF Fits, LeavesFit, Keeps
  <2>3. ASSUME p \notin crowded PROVE LeavesWell(c, p)
    BY <1>2, <1>3, <2>1, <2>3, JobKnown DEF LeavesWell, Keeps, Stands, Fits, Emptied
  <2> QED
    BY <1>1, <2>1, <2>2, <2>3 DEF GoesWell
<1>4. CASE ~(job[c].scope = "all" /\ ~(err \/ job[c].bad))
  <2>1. (err \/ job[c].bad) \in BOOLEAN /\ End(c, err \/ job[c].bad)
    BY <1>2, <1>4, JobKnown DEF RepoThenDrop, JobState
  <2>2. Moves(c) /\ Ends(c, err \/ job[c].bad)
    BY <2>1, EndMoves
  <2>3. LeavesFit(c, p)
    BY <2>2, JobKnown, StartsFit DEF Fits, LeavesFit, Ends
  <2>4. ASSUME p \notin crowded PROVE LeavesWell(c, p)
    BY <1>4, <2>2, <2>4, JobKnown, StartsFit DEF LeavesWell, Ends, Stands, Fits
  <2> QED
    BY <1>1, <2>2, <2>3, <2>4 DEF GoesWell
<1> QED
  BY <1>3, <1>4

LEMMA DropRecordGoes ==
  ASSUME KeyInv, OrphanInv, NEW c \in Jobs, NEW p \in Project, job[c].p = p, DropRecord(c)
  PROVE  GoesWell(c, p)
<1> USE DEF DropRecord, At, docker
<1>1. OthersStay(p)
  BY JobKnown DEF OthersStay, NoFault, Fault
<1>2. Moves(c) /\ Keeps(c) /\ job'[c].at = "chats" /\ job'[c].bad = job[c].bad
  BY GoToMoves
<1>3. LeavesFit(c, p)
  BY <1>2, JobKnown DEF Fits, LeavesFit, Keeps
<1>4. ASSUME p \notin crowded PROVE LeavesWell(c, p)
  BY <1>2, <1>4, JobKnown DEF LeavesWell, Keeps, Stands, Fits, Emptied
<1> QED
  BY <1>1, <1>2, <1>3, <1>4 DEF GoesWell

LEMMA DeleteScopeGoes ==
  ASSUME KeyInv, OrphanInv, NEW c \in Jobs, NEW p \in Project, job[c].p = p, DeleteScope(c)
  PROVE  GoesWell(c, p)
<1> USE DEF DeleteScope, At, docker
<1>1. OthersStay(p)
  BY JobKnown DEF OthersStay, NoFault, Fault
<1>2. Moves(c) /\ Ends(c, FALSE)
  BY EndMoves
<1>3. LeavesFit(c, p)
  BY <1>2, JobKnown, StartsFit DEF Fits, LeavesFit, Ends
<1>4. ASSUME p \notin crowded PROVE LeavesWell(c, p)
  <2>1. ~chats'[p] \/ faults' # 0
    BY JobKnown DEF Fault
  <2> QED
    BY <1>2, <1>4, <2>1, JobKnown, StartsFit DEF LeavesWell, Ends, Stands, Clean, Emptied, Fits
<1> QED
  BY <1>1, <1>2, <1>3, <1>4 DEF GoesWell

-----------------------------------------------------------------------------
(* Requests, and steps on no project or on all                             *)

LEMMA BeginWell ==
  ASSUME KeyInv, OrphanInv, StoreTypes', NEW c \in Caller, NEW S \in SUBSET Project,
         NEW j \in JobState, Begin(c, S, j), Fits(j), j.kind # "boot",
         \A p \in Project : j.p = p /\ p \notin crowded /\ Quiet(p) => Stands(j),
         j.p \in S \cup {None},
         j.kind = "wipe" => \A p \in Project : record[p] => p \in j.todo
  PROVE  OrphanInv'
<1>1. /\ c \in Jobs /\ c # Main /\ job'[c] = j /\ job[c].at = "idle"
      /\ \A d \in Jobs : d # c => job'[d] = job[d]
  BY ProjectAssumption DEF Begin, KeyInv, KeyTypes, Jobs
<1>2. /\ UNCHANGED <<record, box, repo, home, chats, faults, unlisted>>
      /\ crowded' = crowded \cup {p \in S : ~Quiet(p)}
  BY DEF Begin, docker
<1>3. JobsFit'
  BY <1>1 DEF OrphanInv, JobsFit, Jobs
<1>4. \A k : Stands(k) => Stands(k)'
  BY <1>2 DEF Stands, Clean, Emptied
<1>5. JobsStand'
  <2> SUFFICES ASSUME NEW d \in Jobs, job'[d].p \in Project, job'[d].p \notin crowded'
               PROVE  Stands(job[d])'
    BY DEF JobsStand
  <2>1. PICK k : k = job'[d]
    OBVIOUS
  <2>2. Stands(k)
    <3>1. CASE d = c
      <4>1. k = j /\ j.p \in S
        BY <1>1, <2>1, <3>1, ProjectAssumption
      <4>2. Quiet(j.p) /\ j.p \notin crowded
        BY <1>2, <2>1, <4>1
      <4> QED
        BY <2>1, <4>1, <4>2
    <3>2. CASE d # c
      BY <1>1, <1>2, <2>1, <3>2 DEF OrphanInv, JobsStand
    <3> QED
      BY <3>1, <3>2
  <2>3. Stands(k)'
    BY <1>4, <2>2
  <2> QED
    BY <2>1, <2>3 DEF Stands
<1>6. FreeIsClean'
  <2> SUFFICES ASSUME NEW p \in Project, p \notin crowded', p \notin unlisted,
                      Free(p)', ~record[p]
               PROVE  Clean(p)'
    BY <1>2 DEF FreeIsClean
  <2>1. job[c].p # p
    BY <1>1, ProjectAssumption DEF OrphanInv, JobsFit, Fits
  <2>2. Free(p)
    BY <1>1, <2>1 DEF Free
  <2>3. Clean(p)
    BY <1>2, <2>2 DEF OrphanInv, FreeIsClean
  <2> QED
    BY <1>2, <2>3 DEF Clean
<1>7. WipeLeavesNone'
  <2> SUFFICES ASSUME NEW d \in Jobs, job'[d].kind = "wipe", ~job'[d].failed,
                      NEW q \in Project, q \notin crowded'
               PROVE  q = job'[d].p \/ q \in job'[d].todo \/ ~record'[q] \/ Emptied(q)'
    BY DEF WipeLeavesNone
  <2>1. CASE d = c
    BY <1>1, <1>2, <2>1
  <2>2. CASE d # c
    <3>1. q = job[d].p \/ q \in job[d].todo \/ ~record[q] \/ Emptied(q)
      BY <1>1, <1>2, <2>2 DEF OrphanInv, WipeLeavesNone
    <3> QED
      BY <1>1, <1>2, <2>2, <3>1 DEF Emptied
  <2> QED
    BY <2>1, <2>2
<1> QED
  BY <1>3, <1>5, <1>6, <1>7 DEF OrphanInv

\* The start of a request on one project.
LEMMA RequestWell ==
  ASSUME KeyInv, OrphanInv, StoreTypes', NEW c \in Caller, NEW p \in Project, NEW j,
         j \in JobState, j.p = p, j.kind \notin {"wipe", "boot"}, ~j.bad,
         Begin(c, {p}, j), record[p], j.at \in {"run", "key", "start", "reserve", "stop", "drop"},
         j.at = "run" => j.kind # "create", j.at = "drop" => j.scope = "metadata"
  PROVE  OrphanInv'
<1>1. Fits(j) /\ Stands(j)
  BY DEF Fits, Stands
<1> QED
  BY <1>1, BeginWell

LEMMA StopWell ==
  ASSUME KeyInv, OrphanInv, StoreTypes', NEW c \in Caller, NEW p \in Project, Stop(c, p)
  PROVE  OrphanInv'
<1>1. /\ UNCHANGED <<record, repo, home, chats, job, faults, unlisted>>
      /\ record[p] /\ box \in [Project -> {"missing", "running", "exited"}]
      /\ box' = [box EXCEPT ![p] = IF @ = "running" THEN "exited" ELSE @]
      /\ box[p] = "running" /\ crowded \subseteq crowded'
  BY DEF Stop, Stopped, OrphanInv, StoreTypes
<1>2. \A q \in Project : box[q] = "missing" => box'[q] = "missing"
  BY <1>1
<1>3. JobsFit'
  BY <1>1 DEF OrphanInv, JobsFit
<1>4. \A q \in Project : Clean(q) => Clean(q)'
  BY <1>1, <1>2 DEF Clean
<1>5. \A q \in Project : Emptied(q) => Emptied(q)'
  BY <1>1, <1>2 DEF Emptied
<1>6. JobsStand'
  <2> SUFFICES ASSUME NEW d \in Jobs, job[d].p \in Project, job[d].p \notin crowded
               PROVE  Stands(job[d])'
    BY <1>1 DEF JobsStand
  <2> QED
    BY <1>1, <1>2 DEF OrphanInv, JobsStand, Stands, Clean, Emptied
<1>7. FreeIsClean'
  BY <1>1, <1>4 DEF OrphanInv, FreeIsClean, Free
<1>8. WipeLeavesNone'
  BY <1>1, <1>5 DEF OrphanInv, WipeLeavesNone
<1> QED
  BY <1>3, <1>6, <1>7, <1>8 DEF OrphanInv

LEMMA AcceptWell ==
  ASSUME KeyInv, OrphanInv, StoreTypes', NEW c \in Caller, Accept(c)
  PROVE  OrphanInv'
<1>1. ASSUME NEW p \in Project, Create(c, p) PROVE OrphanInv'
  <2>1. PICK j : j = [Idle EXCEPT !.at = "record", !.kind = "create", !.p = p]
    OBVIOUS
  <2>2. j \in JobState /\ j.at = "record" /\ j.kind = "create" /\ j.p = p /\ ~j.bad
    <3>1. j = [at |-> "record", kind |-> "create", p |-> p, scope |-> "all", todo |-> {},
               fp |-> 0, bad |-> FALSE, failed |-> FALSE]
      BY <2>1 DEF Idle
    <3>2. "create" \in Kind /\ "all" \in Scope
      BY DEF Kind, Scope
    <3>3. p \in Project \cup {None} /\ {} \in SUBSET Project /\ 0 \in 0..MaxKeys
      BY ProjectAssumption
    <3> QED
      BY <3>1, <3>2, <3>3 DEF JobState
  <2>3. Begin(c, {p}, j) /\ ~record[p]
    BY <1>1, <2>1 DEF Create, CreateAccepts
  <2>4. ASSUME Quiet(p), p \notin crowded PROVE Stands(j)
    <3>1. Free(p)
      BY <2>4, ProjectAssumption DEF Quiet, Touches, Free, Jobs
    <3>2. p \notin unlisted => Clean(p)
      BY <2>3, <2>4, <3>1 DEF OrphanInv, FreeIsClean
    <3> QED
      BY <2>2, <2>3, <3>2 DEF Stands
  <2> QED
    BY <2>2, <2>3, <2>4, BeginWell DEF Fits
<1>2. ASSUME NEW p \in Project, NEW at \in {"run", "start", "stop", "reserve"},
             NEW kind \in Kind \ {"create", "wipe", "boot"}, record[p],
             Begin(c, {p}, [Idle EXCEPT !.at = at, !.kind = kind, !.p = p])
      PROVE  OrphanInv'
  <2>1. PICK j : j = [Idle EXCEPT !.at = at, !.kind = kind, !.p = p]
    OBVIOUS
  <2>2. j \in JobState /\ j.at = at /\ j.kind = kind /\ j.p = p /\ ~j.bad
    <3>1. Idle \in JobState /\ Idle.bad = FALSE
      BY StartStates DEF Idle
    <3> QED
      BY <2>1, <3>1 DEF JobState
  <2>3. Begin(c, {p}, j)
    BY <1>2, <2>1
  <2> QED
    BY <1>2, <2>2, <2>3, RequestWell
<1>3. ASSUME NEW p \in Project, EnsureContainer(c, p) PROVE OrphanInv'
  BY <1>2, <1>3 DEF EnsureContainer, Kind
<1>4. ASSUME NEW p \in Project, HealthRepair(c, p) PROVE OrphanInv'
  BY <1>2, <1>4 DEF HealthRepair, Kind
<1>5. ASSUME NEW p \in Project, Start(c, p) PROVE OrphanInv'
  BY <1>2, <1>5 DEF Start, Kind
<1>6. ASSUME NEW p \in Project, Restart(c, p) PROVE OrphanInv'
  BY <1>2, <1>6 DEF Restart, Kind
<1>7. ASSUME NEW p \in Project, Ask(c, p) PROVE OrphanInv'
  BY <1>2, <1>7 DEF Ask, Kind
<1>8. ASSUME NEW p \in Project, EnsureGitSSH(c, p) PROVE OrphanInv'
  <2>1. PICK j : j = [Idle EXCEPT !.at = "key", !.kind = "ssh", !.p = p, !.fp = key]
    OBVIOUS
  <2>2. j \in JobState /\ j.at = "key" /\ j.kind = "ssh" /\ j.p = p /\ ~j.bad
    <3>1. Idle \in JobState /\ Idle.bad = FALSE /\ key \in 0..MaxKeys
      BY StartStates DEF Idle, KeyInv, KeyTypes
    <3>2. j \in JobState
      BY <2>1, <3>1 DEF JobState, Kind
    <3> QED
      BY <2>1, <3>1, <3>2 DEF JobState
  <2>3. record[p] /\ Begin(c, {p}, j)
    BY <1>8, <2>1 DEF EnsureGitSSH
  <2> QED
    BY <2>2, <2>3, RequestWell
<1>9. ASSUME NEW p \in Project, NEW s \in Scope, Delete(c, p, s) PROVE OrphanInv'
  <2>1. PICK at \in {"drop", "stop"} : at = IF s = "metadata" THEN "drop" ELSE "stop"
    OBVIOUS
  <2>2. PICK j : j = [Idle EXCEPT !.at = at, !.kind = "delete", !.p = p, !.scope = s]
    OBVIOUS
  <2>3. j \in JobState /\ j.at = at /\ j.kind = "delete" /\ j.p = p /\ j.scope = s /\ ~j.bad
    <3>1. j \in JobState
      BY <2>2, StartStates DEF JobState, Kind
    <3> QED
      BY <2>2, <3>1 DEF Idle
  <2>4. Begin(c, {p}, j) /\ record[p]
    BY <1>9, <2>1, <2>2 DEF Delete
  <2> QED
    BY <2>1, <2>3, <2>4, RequestWell
<1>10. CASE Wipe(c)
  <2> DEFINE T == {p \in Project : record[p]}
  <2>1. T \in SUBSET Project
    BY Zenon
  <2>2. PICK j : j = [Idle EXCEPT !.at = "next", !.kind = "wipe", !.todo = T]
    OBVIOUS
  <2>3. Begin(c, Project, j)
    BY <1>10, <2>2 DEF Wipe
  <2>4. \A p \in Project : record[p] => p \in T
    OBVIOUS
  <2> HIDE DEF T
  <2>5. /\ j \in JobState /\ j.at = "next" /\ j.kind = "wipe" /\ j.p = None /\ ~j.bad
        /\ j.scope = "all" /\ j.todo = T
    <3>1. j = [at |-> "next", kind |-> "wipe", p |-> None, scope |-> "all", todo |-> T,
               fp |-> 0, bad |-> FALSE, failed |-> FALSE]
      BY <2>2 DEF Idle
    <3>2. "wipe" \in Kind /\ "all" \in Scope
      BY DEF Kind, Scope
    <3>3. None \in Project \cup {None} /\ 0 \in 0..MaxKeys
      BY ProjectAssumption
    <3> QED
      BY <2>1, <3>1, <3>2, <3>3 DEF JobState
  <2> QED
    BY <2>3, <2>4, <2>5, BeginWell, ProjectAssumption DEF Fits
<1> QED
  BY <1>1, <1>3, <1>4, <1>5, <1>6, <1>7, <1>8, <1>9, <1>10, StopWell DEF Accept

\* A boot or a wipe turns to a project, or to none.
LEMMA TurnWell ==
  ASSUME KeyInv, KeyInv', OrphanInv, StoreTypes', NEW c \in Jobs, job[c].p = None, Moves(c),
         UNCHANGED <<record, box, repo, home, chats, unlisted, crowded>>,
         faults' = 0 => faults = 0, Fits(job'[c]),
         job'[c].kind \in {job[c].kind, "none"},
         job'[c].p \in Project =>
           record[job'[c].p] /\ job'[c].kind # "create" /\ job'[c].at \in {"stop", "run", "start"},
         job'[c].kind = "wipe" /\ ~job'[c].failed =>
           /\ ~job[c].failed
           /\ \A q \in job[c].todo : q = job'[c].p \/ q \in job'[c].todo
  PROVE  OrphanInv'
<1>1. JobsFit'
  BY DEF OrphanInv, JobsFit, Moves, Jobs
<1>2. JobsStand'
  <2> SUFFICES ASSUME NEW d \in Jobs, job'[d].p \in Project, job'[d].p \notin crowded
               PROVE  Stands(job[d])'
    BY DEF JobsStand
  <2>1. CASE d = c
    BY <2>1 DEF Stands
  <2>2. CASE d # c
    <3>1. job'[d] = job[d] /\ Stands(job[d])
      BY <2>2 DEF Moves, OrphanInv, JobsStand
    <3> QED
      BY <3>1 DEF Stands, Clean, Emptied
  <2> QED
    BY <2>1, <2>2
<1>3. FreeIsClean'
  <2> SUFFICES ASSUME NEW q \in Project, q \notin crowded, q \notin unlisted,
                      Free(q)', ~record[q]
               PROVE  Clean(q)'
    BY DEF FreeIsClean
  <2>1. Free(q)
    BY ProjectAssumption DEF Free, Moves
  <2> QED
    BY <2>1 DEF OrphanInv, FreeIsClean, Clean
<1>4. WipeLeavesNone'
  <2> SUFFICES ASSUME NEW d \in Jobs, job'[d].kind = "wipe", ~job'[d].failed,
                      NEW q \in Project, q \notin crowded
               PROVE  q = job'[d].p \/ q \in job'[d].todo \/ ~record[q] \/ Emptied(q)'
    BY DEF WipeLeavesNone
  <2>1. CASE d = c
    <3>1. q \in job[c].todo \/ ~record[q] \/ Emptied(q)
      BY <2>1, ProjectAssumption DEF OrphanInv, WipeLeavesNone
    <3> QED
      BY <2>1, <3>1 DEF Emptied
  <2>2. CASE d # c
    <3>1. q = job[d].p \/ q \in job[d].todo \/ ~record[q] \/ Emptied(q)
      BY <2>2 DEF OrphanInv, WipeLeavesNone, Moves
    <3> QED
      BY <2>2, <3>1 DEF Emptied, Moves
  <2> QED
    BY <2>1, <2>2
<1> QED
  BY <1>1, <1>2, <1>3, <1>4 DEF OrphanInv

LEMMA FaultsOnlyGrow ==
  ASSUME OrphanInv, Fault \/ NoFault PROVE faults' = 0 => faults = 0
BY ProjectAssumption DEF OrphanInv, StoreTypes, Fault, NoFault

LEMMA WipeNextWell ==
  ASSUME KeyInv, KeyInv', OrphanInv, StoreTypes', NEW c \in Jobs, NEW p \in Project,
         WipeNext(c, p)
  PROVE  OrphanInv'
<1> DEFINE T == job[c].todo \ {p}
           jp == [job[c] EXCEPT !.todo = T, !.at = "stop", !.p = p]
           jn == [job[c] EXCEPT !.todo = T, !.failed = TRUE]
<1>1. /\ UNCHANGED <<record, box, repo, home, chats, unlisted, crowded>>
      /\ faults' = 0 => faults = 0
      /\ job[c].at = "next" /\ job[c].kind = "wipe"
      /\ job[c] \in JobState /\ T \in SUBSET Project /\ job \in [Jobs -> JobState]
      /\ Fits(job[c])
  BY FaultsOnlyGrow
     DEF WipeNext, At, docker, KeyInv, KeyTypes, JobState, OrphanInv, JobsFit
<1>2. CASE record[p]
  <2>1. job' = [job EXCEPT ![c] = jp]
    BY <1>1, <1>2 DEF WipeNext
  <2>2. /\ jp \in JobState /\ jp.at = "stop" /\ jp.p = p /\ jp.kind = "wipe"
        /\ jp.todo = T /\ jp.failed = job[c].failed /\ jp.scope = job[c].scope
        /\ jp.bad = job[c].bad
    BY <1>1 DEF JobState
  <2>3. \A q \in job[c].todo : q = p \/ q \in T
    OBVIOUS
  <2> HIDE DEF T, jp
  <2>4. Moves(c) /\ job'[c] = jp
    BY <1>1, <2>1, <2>2 DEF Moves
  <2> QED
    BY <1>1, <1>2, <2>2, <2>3, <2>4, TurnWell DEF Fits
<1>3. CASE ~record[p]
  <2>1. job' = [job EXCEPT ![c] = jn]
    BY <1>1, <1>3 DEF WipeNext
  <2>2. /\ jn \in JobState /\ jn.at = "next" /\ jn.p = job[c].p /\ jn.kind = "wipe"
        /\ jn.failed /\ jn.scope = job[c].scope /\ jn.bad = job[c].bad
    BY <1>1 DEF JobState
  <2> HIDE DEF T, jn
  <2>3. Moves(c) /\ job'[c] = jn
    BY <1>1, <2>1, <2>2 DEF Moves
  <2> QED
    BY <1>1, <2>2, <2>3, TurnWell, ProjectAssumption DEF Fits
<1> QED
  BY <1>2, <1>3

\* The records that a wipe drops at its end are of projects that it has emptied.
LEMMA WipeStateWell ==
  ASSUME KeyInv, KeyInv', OrphanInv, StoreTypes', NEW c \in Jobs, WipeState(c)
  PROVE  OrphanInv'
<1>1. /\ UNCHANGED <<box, repo, home, unlisted, crowded>>
      /\ faults' = 0 => faults = 0
      /\ job[c].at = "next" /\ job[c].kind = "wipe" /\ job[c].todo = {}
      /\ job \in [Jobs -> JobState] /\ Fits(job[c]) /\ job[c].p = None
      /\ job' = [job EXCEPT ![c] = Idle]
  BY FaultsOnlyGrow DEF WipeState, At, docker, KeyInv, KeyTypes, OrphanInv, JobsFit, Fits
<1>2. Moves(c) /\ job'[c] = Idle
  BY <1>1, StartStates DEF Moves
<1>3. CASE job[c].failed
  <2>1. UNCHANGED <<record, chats>>
    BY <1>3 DEF WipeState
  <2> QED
    BY <1>1, <1>2, <2>1, StartsFit, TurnWell, ProjectAssumption
<1>4. CASE ~job[c].failed
  <2>1. \A q \in Project : ~record'[q] /\ ~chats'[q]
    BY <1>4 DEF WipeState
  <2>2. \A q \in Project \ crowded : ~record[q] \/ Emptied(q)
    BY <1>1, <1>4, ProjectAssumption DEF OrphanInv, WipeLeavesNone
  <2>3. \A q \in Project \ crowded, d \in Jobs : d # c => job[d].p # q
    <3>1. Hold(job[c]) = Project
      BY <1>1 DEF Hold
    <3> QED
      BY <3>1, ProjectAssumption DEF KeyInv, OneJob, Hold
  <2>4. JobsFit'
    BY <1>2, StartsFit DEF OrphanInv, JobsFit, Moves, Jobs
  <2>5. JobsStand'
    BY <1>1, <1>2, <2>3, StartsFit, ProjectAssumption DEF JobsStand, Moves
  <2>6. FreeIsClean'
    <3> SUFFICES ASSUME NEW q \in Project, q \notin crowded, q \notin unlisted
                 PROVE  Clean(q)'
      BY <1>1 DEF FreeIsClean
    <3>1. Clean(q) \/ Emptied(q)
      BY <1>1, <2>2, <2>3, ProjectAssumption DEF OrphanInv, FreeIsClean, Free
    <3> QED
      BY <1>1, <2>1, <3>1 DEF Clean, Emptied
  <2>7. WipeLeavesNone'
    BY <2>1 DEF WipeLeavesNone
  <2> QED
    BY <2>4, <2>5, <2>6, <2>7 DEF OrphanInv
<1> QED
  BY <1>3, <1>4

LEMMA BootNextWell ==
  ASSUME KeyInv, KeyInv', OrphanInv, BootInv, StoreTypes', NEW p \in Project, BootNext(p)
  PROVE  OrphanInv'
<1> DEFINE T == job[Main].todo \ {p}
           at == IF box[p] = "missing" THEN "run" ELSE "start"
           j == [job[Main] EXCEPT !.todo = T, !.p = p, !.at = at]
<1>1. /\ UNCHANGED <<record, box, repo, home, chats, unlisted, crowded>>
      /\ faults' = 0 => faults = 0
      /\ job[Main].at = "next" /\ Main \in Jobs /\ at \in {"run", "start"}
      /\ job[Main] \in JobState /\ T \in SUBSET Project /\ job \in [Jobs -> JobState]
      /\ Fits(job[Main]) /\ job[Main].kind \in {"boot", "none"} /\ p \in job[Main].todo
  BY FaultsOnlyGrow
     DEF BootNext, At, docker, KeyInv, KeyTypes, JobState, OrphanInv, JobsFit, Jobs
<1>2. job' = [job EXCEPT ![Main] = j]
  BY DEF BootNext, KeyInv, KeyTypes
<1> HIDE DEF T, at
<1>3. /\ j \in JobState /\ j.at = at /\ j.p = p /\ j.kind = job[Main].kind
      /\ j.scope = job[Main].scope
  BY <1>1 DEF JobState
<1> HIDE DEF j
<1>4. Moves(Main) /\ job'[Main] = j
  BY <1>1, <1>2, <1>3 DEF Moves
<1>5. job[Main].kind = "boot"
  BY <1>1 DEF OrphanInv, JobsFit, Fits
<1>6. record[p]
  BY <1>1, <1>5 DEF BootInv
<1> QED
  BY <1>1, <1>3, <1>4, <1>5, <1>6, TurnWell, ProjectAssumption DEF Fits

LEMMA BootEndWell ==
  ASSUME KeyInv, KeyInv', OrphanInv, StoreTypes', BootSkips \/ BootServes
  PROVE  OrphanInv'
<1> DEFINE j == [job[Main] EXCEPT !.todo = {}, !.failed = TRUE]
<1>1. /\ UNCHANGED <<record, box, repo, home, chats, unlisted, crowded>>
      /\ faults' = 0 => faults = 0
      /\ job[Main].at = "next" /\ Main \in Jobs
      /\ job[Main] \in JobState /\ job \in [Jobs -> JobState]
      /\ Fits(job[Main]) /\ job[Main].kind \in {"boot", "none"} /\ job[Main].p = None
  BY FaultsOnlyGrow
     DEF BootSkips, BootServes, At, docker, KeyInv, KeyTypes, OrphanInv, JobsFit, Jobs, Fits
<1>2. job' = [job EXCEPT ![Main] = j] \/ job' = [job EXCEPT ![Main] = Idle]
  BY DEF BootSkips, BootServes, KeyInv, KeyTypes
<1>3. /\ j \in JobState /\ j.at = "next" /\ j.p = None /\ j.kind = job[Main].kind
      /\ j.scope = job[Main].scope /\ j.bad = job[Main].bad
  BY <1>1 DEF JobState
<1> HIDE DEF j
<1>4. Moves(Main) /\ job'[Main] \in {j, Idle}
  BY <1>1, <1>2, <1>3, StartStates DEF Moves
<1> QED
  BY <1>1, <1>3, <1>4, StartsFit, TurnWell, ProjectAssumption DEF Fits

\* A container that is lost was there: what has none is left as it is.
LEMMA LoseWell ==
  ASSUME KeyInv, OrphanInv, NEW p \in Project, Lose(p) PROVE OrphanInv' /\ BootInv'
<1>1. /\ UNCHANGED <<record, repo, home, chats, job, unlisted, crowded>>
      /\ box \in [Project -> {"missing", "running", "exited"}]
      /\ box' \in [Project -> {"missing", "running", "exited"}]
      /\ faults' = 0 => faults = 0
      /\ faults' \in 0..MaxFaults
      /\ serving
  BY FaultsOnlyGrow, ProjectAssumption DEF Lose, OrphanInv, StoreTypes, Fault
<1>2. \A q \in Project : box[q] = "missing" => box'[q] = "missing"
  BY <1>1 DEF Lose
<1>3. StoreTypes' /\ JobsFit'
  BY <1>1 DEF OrphanInv, StoreTypes, JobsFit
<1>4. JobsStand'
  BY <1>1, <1>2 DEF OrphanInv, JobsStand, Stands, Clean, Emptied
<1>5. FreeIsClean' /\ WipeLeavesNone'
  BY <1>1, <1>2 DEF OrphanInv, FreeIsClean, WipeLeavesNone, Free, Clean, Emptied
<1>6. BootInv'
  BY <1>1 DEF OrphanInv, JobsFit, Fits, serving, BootInv, Jobs
<1> QED
  BY <1>3, <1>4, <1>5, <1>6 DEF OrphanInv

\* After a crash a project that is off the list is clean wherever its request stood.
LEMMA CrashWell ==
  ASSUME KeyInv, OrphanInv, Crash PROVE OrphanInv' /\ BootInv'
<1>1. /\ UNCHANGED <<record, chats, unlisted, crowded>>
      /\ faults' # 0 /\ faults' \in 0..MaxFaults
      /\ \A d \in Jobs : job'[d] = IF d = Main THEN Boot ELSE Idle
  BY ProjectAssumption DEF Crash, Fault, Jobs, OrphanInv, StoreTypes
<1>2. \A d \in Jobs : job'[d].p = None
  BY <1>1, StartsFit
<1>3. \/ UNCHANGED <<box, repo, home>>
      \/ \E c \in Jobs :
           /\ job[c].at = "run"
           /\ box' = [box EXCEPT ![job[c].p] = "exited"]
           /\ Mounted(job[c].p)
  BY DEF Crash, docker, Jobs
<1>4. StoreTypes'
  <2>1. \/ UNCHANGED <<box, repo, home>>
        \/ \E c \in Jobs : box' = [box EXCEPT ![job[c].p] = "exited"] /\ Mounted(job[c].p)
    BY <1>3
  <2> QED
    BY <1>1, <2>1, CutShortTypes DEF OrphanInv
<1>5. JobsFit'
  BY <1>1, StartsFit, ProjectAssumption DEF JobsFit, Jobs
<1>6. JobsStand'
  BY <1>2, ProjectAssumption DEF JobsStand
<1>7. FreeIsClean'
  <2> SUFFICES ASSUME NEW q \in Project, q \notin crowded, q \notin unlisted, ~record[q]
               PROVE  box'[q] = "missing" /\ repo'[q] # "cloned"
    BY <1>1 DEF FreeIsClean, Clean
  <2>1. /\ box[q] = "missing" /\ repo[q] # "cloned"
        /\ \A c \in Jobs : job[c].at = "run" => job[c].p # q
    <3>1. CASE Free(q)
      BY <3>1 DEF OrphanInv, FreeIsClean, Free, Clean
    <3>2. ASSUME NEW c \in Jobs, job[c].p = q
          PROVE  /\ box[q] = "missing" /\ repo[q] # "cloned" /\ job[c].at # "run"
      <4>1. Stands(job[c]) /\ Fits(job[c]) /\ job[c] \in JobState /\ q # None
        BY <3>2, JobKnown
      <4> QED
        BY <3>2, <4>1 DEF Stands, Fits, Clean, Emptied, JobState
    <3> QED
      BY <3>1, <3>2 DEF Free
  <2>2. box \in [Project -> {"missing", "running", "exited"}]
        /\ repo \in [Project -> {"absent", "empty", "cloned"}]
    BY DEF OrphanInv, StoreTypes
  <2> QED
    BY <1>3, <2>1, <2>2 DEF Mounted
<1>8. WipeLeavesNone'
  BY <1>1, StartsFit DEF WipeLeavesNone
<1>9. BootInv'
  <2> DEFINE S == {p \in Project : record[p]}
  <2>1. job'[Main].todo = S /\ job'[Main].at = "next" /\ ~job'[Main].failed
    BY <1>1 DEF Boot, Idle, Jobs
  <2>2. (\A p \in S : record[p]) /\ (\A p \in Project : record[p] => p \in S)
    OBVIOUS
  <2> HIDE DEF S
  <2> QED
    BY <1>1, <2>1, <2>2 DEF BootInv
<1> QED
  BY <1>4, <1>5, <1>6, <1>7, <1>8, <1>9 DEF OrphanInv

LEMMA RestWell ==
  ASSUME OrphanInv, BootInv,
         UNCHANGED <<record, box, repo, home, chats, job, faults, crowded, unlisted>>
  PROVE  OrphanInv' /\ BootInv'
<1>1. StoreTypes' /\ JobsFit' /\ WipeLeavesNone'
  BY DEF OrphanInv, StoreTypes, JobsFit, WipeLeavesNone, Emptied
<1>2. JobsStand' /\ FreeIsClean'
  BY DEF OrphanInv, JobsStand, Stands, FreeIsClean, Free, Clean, Emptied
<1>3. BootInv'
  BY DEF BootInv
<1> QED
  BY <1>1, <1>2, <1>3 DEF OrphanInv

-----------------------------------------------------------------------------
(* Types                                                                   *)

LEMMA FaultTypes ==
  ASSUME StoreTypes, Fault \/ NoFault PROVE faults' \in 0..MaxFaults
BY ProjectAssumption DEF StoreTypes, Fault, NoFault

LEMMA WorkFaults ==
  ASSUME NEW c \in Jobs, Work(c) PROVE Fault \/ NoFault
BY DEF Work, CreateRecord, RunStarts, RunNameTaken, RunBreaks, RunLeaves, CreateUndo, InjectKey,
       InjectMarker, Clone, ReconcileStart, RepoVolumeEmpty, Started, RestartStop, AskReserve,
       DeleteStop, DeleteBox, DeleteHome, DeleteRepo, DropRecord, DeleteScope, WipeState,
       WipeNext

LEMMA WorkTypes ==
  ASSUME StoreTypes, NEW c \in Jobs, job[c].p \in Project \/ job[c].at = "next", Work(c)
  PROVE  StoreTypes'
<1> USE DEF At, docker
<1>1. faults' \in 0..MaxFaults
  BY WorkFaults, FaultTypes
<1>2. record' \in [Project -> BOOLEAN]
  <2>1. record' \in {record, [record EXCEPT ![job[c].p] = TRUE],
                     [record EXCEPT ![job[c].p] = FALSE], [p \in Project |-> FALSE]}
    BY DEF Work, CreateRecord, RunStarts, RunNameTaken, RunBreaks, RunLeaves, CreateUndo, InjectKey,
       InjectMarker, Clone, ReconcileStart, RepoVolumeEmpty, Started, RestartStop, AskReserve,
       DeleteStop, DeleteBox, DeleteHome, DeleteRepo, DropRecord, DeleteScope, WipeState,
       WipeNext
  <2> QED
    BY <2>1 DEF StoreTypes
<1>3. chats' \in [Project -> BOOLEAN]
  <2>1. chats' \in {chats, [chats EXCEPT ![job[c].p] = TRUE],
                    [chats EXCEPT ![job[c].p] = FALSE], [p \in Project |-> FALSE]}
    BY DEF Work, CreateRecord, RunStarts, RunNameTaken, RunBreaks, RunLeaves, CreateUndo, InjectKey,
       InjectMarker, Clone, ReconcileStart, RepoVolumeEmpty, Started, RestartStop, AskReserve,
       DeleteStop, DeleteBox, DeleteHome, DeleteRepo, DropRecord, DeleteScope, WipeState,
       WipeNext
  <2> QED
    BY <2>1 DEF StoreTypes
<1>4. box' \in [Project -> {"missing", "running", "exited"}]
  <2>1. \/ box' = box
        \/ box' = [box EXCEPT ![job[c].p] = "running"]
        \/ box' = [box EXCEPT ![job[c].p] = "missing"]
        \/ box' = [box EXCEPT ![job[c].p] = "exited"]
        \/ box' = Stopped(job[c].p)
    BY DEF Work, CreateRecord, RunStarts, RunNameTaken, RunBreaks, RunLeaves, CreateUndo, InjectKey,
       InjectMarker, Clone, ReconcileStart, RepoVolumeEmpty, Started, RestartStop, AskReserve,
       DeleteStop, DeleteBox, DeleteHome, DeleteRepo, DropRecord, DeleteScope, WipeState,
       WipeNext
  <2> QED
    BY <2>1 DEF StoreTypes, Stopped
<1>5. repo' \in [Project -> {"absent", "empty", "cloned"}]
  <2>1. \/ repo' = repo
        \/ repo' = [repo EXCEPT ![job[c].p] = "cloned"]
        \/ repo' = [repo EXCEPT ![job[c].p] = "absent"]
        \/ repo' = [repo EXCEPT ![job[c].p] = IF @ = "absent" THEN "empty" ELSE @]
    BY DEF Work, CreateRecord, RunStarts, RunNameTaken, RunBreaks, RunLeaves, CreateUndo, InjectKey,
       InjectMarker, Clone, ReconcileStart, RepoVolumeEmpty, Started, RestartStop, AskReserve,
       DeleteStop, DeleteBox, DeleteHome, DeleteRepo, DropRecord, DeleteScope, WipeState,
       WipeNext, Mounted
  <2> QED
    BY <2>1 DEF StoreTypes
<1>6. unlisted' \subseteq Project
  <2>1. \/ unlisted' = unlisted
        \/ /\ job[c].at \in {"drop", "run"}
           /\ unlisted' \in {unlisted \cup {job[c].p}, unlisted \ {job[c].p}}
    BY DEF Work, CreateRecord, RunStarts, RunNameTaken, RunBreaks, RunLeaves, CreateUndo, InjectKey,
       InjectMarker, Clone, ReconcileStart, RepoVolumeEmpty, Started, RestartStop, AskReserve,
       DeleteStop, DeleteBox, DeleteHome, DeleteRepo, DropRecord, DeleteScope, WipeState,
       WipeNext
  <2> QED
    BY <2>1 DEF StoreTypes
<1> QED
  BY <1>1, <1>2, <1>3, <1>4, <1>5, <1>6 DEF StoreTypes

LEMMA AcceptTypes ==
  ASSUME StoreTypes, NEW c \in Caller, Accept(c) PROVE StoreTypes'
<1>1. ASSUME NEW p \in Project, Stop(c, p) PROVE StoreTypes'
  BY <1>1 DEF StoreTypes, Stop, Stopped
<1>2. ASSUME NEW S, NEW j, Begin(c, S, j) PROVE StoreTypes'
  BY <1>2 DEF StoreTypes, Begin, docker
<1> QED
  BY <1>1, <1>2 DEF Accept, Create, EnsureContainer, HealthRepair, Start, Restart,
                    EnsureGitSSH, Ask, Delete, Wipe

LEMMA BootTypes ==
  ASSUME StoreTypes, BootSkips \/ BootServes \/ \E p \in Project : BootNext(p)
  PROVE  StoreTypes'
<1>1. faults' \in 0..MaxFaults
  BY FaultTypes DEF BootSkips, BootServes, BootNext
<1> QED
  BY <1>1 DEF StoreTypes, BootSkips, BootServes, BootNext, docker

LEMMA StoreTypesStep ==
  ASSUME KeyInv, StoreTypes, [Next]_pvars PROVE StoreTypes'
<1>1. ASSUME NEW c \in Jobs, Work(c) PROVE StoreTypes'
  <2>1. job[c].at # "idle"
    BY <1>1 DEF Work, CreateRecord, RunStarts, RunNameTaken, RunBreaks, RunLeaves, CreateUndo,
       InjectKey, InjectMarker, Clone, ReconcileStart, RepoVolumeEmpty, Started, RestartStop, AskReserve,
       DeleteStop, DeleteBox, DeleteHome, DeleteRepo, DropRecord, DeleteScope, WipeState,
       WipeNext, At
  <2>2. job[c].p \in Project \/ job[c].at = "next"
    BY <2>1 DEF KeyInv, JobsKnowTheirs
  <2> QED
    BY <1>1, <2>2, WorkTypes
<1>2. ASSUME NEW p \in Project, Lose(p) PROVE StoreTypes'
  BY <1>2, ProjectAssumption DEF StoreTypes, Lose, Fault
<1>3. CASE Crash
  <2>1. faults' \in 0..MaxFaults
    BY <1>3, FaultTypes DEF Crash
  <2>2. \/ UNCHANGED <<box, repo, home>>
        \/ \E c \in Jobs : box' = [box EXCEPT ![job[c].p] = "exited"] /\ Mounted(job[c].p)
    BY <1>3 DEF Crash, docker, Jobs
  <2>3. UNCHANGED <<record, chats, unlisted>>
    BY <1>3 DEF Crash
  <2> QED
    BY <2>1, <2>2, <2>3, CutShortTypes
<1>4. CASE Regenerate \/ UNCHANGED pvars
  BY <1>4 DEF StoreTypes, Regenerate, docker, pvars
<1> QED
  BY <1>1, <1>2, <1>3, <1>4, AcceptTypes, BootTypes DEF Next, Jobs

-----------------------------------------------------------------------------
(* The boot                                                                *)

LEMMA BootInvInit == Init => BootInv
<1> SUFFICES ASSUME Init PROVE BootInv
  OBVIOUS
<1>1. job[Main] = Boot /\ \A p \in Project : ~record[p]
  BY DEF Init
<1>2. Boot.todo = {} /\ Boot.at = "next"
  BY <1>1 DEF Boot, Idle
<1> QED
  BY <1>1, <1>2 DEF BootInv

\* Only the boot itself can disturb it: nobody is served meanwhile.
LEMMA BootStands ==
  ASSUME KeyInv, OrphanInv, job'[Main] = job[Main], serving PROVE BootInv'
<1>1. job[Main].kind # "boot"
  BY DEF OrphanInv, JobsFit, Fits, serving, Jobs
<1> QED
  BY <1>1 DEF BootInv

LEMMA WorkGoes ==
  ASSUME KeyInv, OrphanInv, NEW c \in Jobs, NEW p \in Project, job[c].p = p, Work(c)
  PROVE  GoesWell(c, p)
<1>1. job[c].at # "next"
  BY JobKnown DEF Fits
<1>2. ~WipeState(c) /\ \A q \in Project : ~WipeNext(c, q)
  BY <1>1 DEF WipeState, WipeNext, At
<1> QED
  BY <1>2, CreateRecordGoes, RunStartsGoes, RunFailsGoes, RunLeavesGoes, CreateUndoGoes,
     InjectGoes, LastStepGoes, RecordedGoes, DeleteStopGoes, DeleteBoxGoes, DeleteHomeGoes,
     DeleteRepoGoes, DropRecordGoes, DeleteScopeGoes DEF Work

LEMMA BootWorks ==
  ASSUME KeyInv, OrphanInv, BootInv, NEW p \in Project, job[Main].p = p, Work(Main),
         job[Main].kind = "boot"
  PROVE  BootInv'
<1> DEFINE c == Main
<1>1. /\ c \in Jobs /\ OthersStay(p) /\ Fits(job[c]) /\ p # None
      /\ box \in [Project -> {"missing", "running", "exited"}]
  BY WorkGoes, JobKnown DEF GoesWell, Jobs
<1>2. /\ \A q \in job[c].todo : record[q]
      /\ job[c].at \in {"look", "clone"} => box[p] = "running"
      /\ ~job[c].failed =>
           \A q \in Project \ {p} : record[q] => q \in job[c].todo \/ box[q] = "running"
  BY DEF BootInv
<1>3. \/ RunStarts(c) \/ RunNameTaken(c) \/ RunBreaks(c) \/ RunLeaves(c)
      \/ InjectKey(c) \/ InjectMarker(c) \/ Clone(c) \/ ReconcileStart(c) \/ RepoVolumeEmpty(c)
  BY <1>1 DEF Fits, Work, CreateRecord, CreateUndo, Started, RestartStop, AskReserve,
     DeleteStop, DeleteBox, DeleteHome, DeleteRepo, DropRecord, DeleteScope, WipeState,
     WipeNext, At
<1>4. record' = record
  BY <1>3 DEF RunStarts, RunNameTaken, RunBreaks, RunLeaves, InjectKey, InjectMarker, Clone,
     ReconcileStart, RepoVolumeEmpty
<1>5. ASSUME job'[c].todo = job[c].todo, job'[c].failed = job[c].failed, job'[c].p = p,
             job'[c].at \in {"look", "clone"} => box'[p] = "running"
      PROVE  BootInv'
  BY <1>1, <1>2, <1>4, <1>5 DEF BootInv, OthersStay
<1>6. ASSUME Keeps(c), job'[c].at \notin {"look", "clone"} PROVE BootInv'
  BY <1>5, <1>6 DEF Keeps
<1>7. ASSUME NEW err \in BOOLEAN, End(c, err), ~err => box'[p] = "running" PROVE BootInv'
  <2>1. Ends(c, err)
    BY <1>1, <1>7, EndMoves
  <2>2. /\ job'[c].at = "next" /\ job'[c].todo = job[c].todo
        /\ job'[c].failed = (job[c].failed \/ err)
    BY <2>1 DEF Ends
  <2>3. ASSUME ~job'[c].failed, NEW q \in Project, record[q]
        PROVE  q \in job[c].todo \/ box'[q] = "running"
    <3>1. ~job[c].failed /\ ~err
      BY <2>2, <2>3
    <3> QED
      BY <1>1, <1>2, <1>7, <2>3, <3>1 DEF OthersStay
  <2> QED
    BY <1>2, <1>4, <2>2, <2>3 DEF BootInv
<1>8. CASE RunStarts(c)
  <2>1. Keeps(c) /\ job'[c].at = "key"
    BY <1>1, <1>8, GoInjectMoves DEF RunStarts
  <2> QED
    BY <1>6, <2>1
<1>9. CASE RunNameTaken(c) \/ RunBreaks(c) \/ RunLeaves(c)
  BY <1>7, <1>9 DEF RunNameTaken, RunBreaks, RunLeaves, RunFails
<1>10. ASSUME AfterInject(c) PROVE BootInv'
  <2>1. Keeps(c) /\ job'[c].at = "start"
    BY <1>1, <1>10, GoToMoves DEF AfterInject
  <2> QED
    BY <1>6, <2>1
<1>11. CASE InjectKey(c) \/ InjectMarker(c)
  <2>1. GoTo(c, "marker") => Keeps(c) /\ job'[c].at = "marker"
    BY <1>1, GoToMoves
  <2> QED
    BY <1>6, <1>10, <1>11, <2>1 DEF InjectKey, InjectMarker
<1>12. CASE Clone(c)
  BY <1>2, <1>7, <1>12 DEF Clone, At
<1>13. CASE ReconcileStart(c)
  <2>1. CASE End(c, TRUE)
    BY <1>7, <2>1
  <2>2. CASE GoTo(c, "look") /\ box' = [box EXCEPT ![p] = "running"]
    <3>1. Keeps(c) /\ job'[c].at = "look"
      BY <1>1, <2>2, GoToMoves
    <3> QED
      BY <1>1, <1>5, <2>2, <3>1 DEF Keeps
  <2> QED
    BY <1>13, <2>1, <2>2 DEF ReconcileStart
<1>14. CASE RepoVolumeEmpty(c)
  <2>1. job[c].at = "look" /\ box' = box
    BY <1>14 DEF RepoVolumeEmpty, At, docker
  <2>2. CASE GoTo(c, "clone")
    <3>1. Keeps(c) /\ job'[c].at = "clone"
      BY <1>1, <2>2, GoToMoves
    <3> QED
      BY <1>2, <1>5, <2>1, <3>1 DEF Keeps
  <2>3. CASE End(c, ~record[p])
    <3>1. (~record[p]) \in BOOLEAN
      BY Zenon
    <3> QED
      BY <1>2, <1>7, <2>1, <2>3, <3>1
  <2> QED
    BY <1>14, <2>2, <2>3 DEF RepoVolumeEmpty
<1> QED
  BY <1>3, <1>8, <1>9, <1>11, <1>12, <1>13, <1>14

LEMMA WorkWell ==
  ASSUME KeyInv, KeyInv', OrphanInv, BootInv, StoreTypes', NEW c \in Jobs, Work(c)
  PROVE  OrphanInv' /\ BootInv'
<1>1. Fits(job[c]) /\ job[c] \in JobState /\ c \in Caller => c # Main
  BY ProjectAssumption DEF OrphanInv, JobsFit, KeyInv, KeyTypes
<1>2. CASE job[c].p \in Project
  <2>1. PICK p \in Project : job[c].p = p
    BY <1>2
  <2>2. GoesWell(c, p)
    BY <2>1, WorkGoes
  <2>3. OrphanInv'
    BY <2>1, <2>2, StepOnOne DEF GoesWell
  <2>4. CASE c = Main /\ job[c].kind = "boot"
    BY <2>1, <2>3, <2>4, BootWorks
  <2>5. CASE c = Main /\ job[c].kind # "boot"
    <3>1. job'[Main].kind # "boot"
      BY <2>2, <2>5 DEF GoesWell, LeavesFit
    <3> QED
      BY <2>3, <3>1 DEF BootInv
  <2>6. CASE c # Main
    <3>1. serving
      BY <1>2, <2>6, StartsFit, ProjectAssumption DEF KeyInv, BootIsAlone, Jobs
    <3>2. job'[Main] = job[Main]
      BY <2>2, <2>6 DEF GoesWell, Moves, Jobs
    <3> QED
      BY <2>3, <3>1, <3>2, BootStands
  <2> QED
    BY <2>4, <2>5, <2>6
<1>3. CASE job[c].p \notin Project
  <2>1. WipeState(c) \/ \E p \in Project : WipeNext(c, p)
    BY <1>3 DEF KeyInv, JobsKnowTheirs, Work, CreateRecord, RunStarts, RunNameTaken, RunBreaks,
       RunLeaves, CreateUndo, InjectKey, InjectMarker, Clone, ReconcileStart, RepoVolumeEmpty, Started,
       RestartStop, AskReserve, DeleteStop, DeleteBox, DeleteHome, DeleteRepo, DropRecord,
       DeleteScope, At
  <2>2. OrphanInv'
    BY <2>1, WipeNextWell, WipeStateWell
  <2>3. c # Main /\ job'[Main] = job[Main]
    <3>1. job[c].kind = "wipe" /\ job[Main].kind # "wipe"
      BY <2>1 DEF WipeState, WipeNext, OrphanInv, JobsFit
    <3> QED
      BY <2>1, <3>1 DEF WipeState, WipeNext, KeyInv, KeyTypes, Jobs
  <2>4. serving
    BY <2>1, <2>3, StartStates DEF KeyInv, BootIsAlone, WipeState, WipeNext, At, Jobs
  <2> QED
    BY <2>2, <2>3, <2>4, BootStands
<1> QED
  BY <1>2, <1>3

LEMMA BootNextBoots ==
  ASSUME KeyInv, OrphanInv, BootInv, NEW p \in Project, BootNext(p) PROVE BootInv'
<1> DEFINE T == job[Main].todo \ {p}
           at == IF box[p] = "missing" THEN "run" ELSE "start"
           j == [job[Main] EXCEPT !.todo = T, !.p = p, !.at = at]
<1>1. /\ UNCHANGED <<record, box>> /\ job[Main].at = "next" /\ Main \in Jobs
      /\ job[Main] \in JobState /\ at \in {"run", "start"} /\ job[Main].p = None
  BY DEF BootNext, At, docker, KeyInv, KeyTypes, Jobs, OrphanInv, JobsFit, Fits
<1>2. job' = [job EXCEPT ![Main] = j]
  BY DEF BootNext, KeyInv, KeyTypes
<1>3. /\ \A q \in T : q \in job[Main].todo
      /\ \A q \in job[Main].todo : q \in T \/ q = p
  OBVIOUS
<1> HIDE DEF T, at
<1>4. /\ j.at = at /\ j.p = p /\ j.kind = job[Main].kind /\ j.todo = T
      /\ j.failed = job[Main].failed
  BY <1>1 DEF JobState
<1> HIDE DEF j
<1>5. job'[Main] = j
  BY <1>1, <1>2 DEF KeyInv, KeyTypes
<1> QED
  BY <1>1, <1>3, <1>4, <1>5, ProjectAssumption DEF BootInv

LEMMA BootEndBoots ==
  ASSUME KeyInv, OrphanInv, BootSkips \/ BootServes PROVE BootInv'
<1>1. Main \in Jobs /\ job \in [Jobs -> JobState] /\ job[Main] \in JobState
  BY DEF KeyInv, KeyTypes, Jobs
<1>2. CASE BootSkips
  <2>1. job'[Main].todo = {} /\ job'[Main].at = job[Main].at /\ job'[Main].failed
    BY <1>1, <1>2 DEF BootSkips, JobState
  <2> QED
    BY <1>2, <2>1 DEF BootInv, BootSkips, At
<1>3. CASE BootServes
  <2>1. job'[Main] = Idle
    BY <1>1, <1>3 DEF BootServes
  <2> QED
    BY <2>1, StartsFit DEF BootInv
<1> QED
  BY <1>2, <1>3

-----------------------------------------------------------------------------
ProjectsInv == KeyInv /\ OrphanInv /\ BootInv

LEMMA ProjectsInvStep ==
  ASSUME ProjectsInv, [Next]_pvars PROVE ProjectsInv'
<1>1. KeyInv /\ KeyInv' /\ OrphanInv /\ BootInv /\ StoreTypes'
  BY KeyInvStep, StoreTypesStep DEF ProjectsInv, OrphanInv
<1>2. ASSUME NEW c \in Caller, Accept(c) PROVE OrphanInv' /\ BootInv'
  <2>1. serving /\ job'[Main] = job[Main]
    BY <1>1, <1>2, ProjectAssumption
       DEF Accept, Create, EnsureContainer, HealthRepair, Start, Stop, Restart, EnsureGitSSH,
           Ask, Delete, Wipe, Begin, KeyInv, KeyTypes, Jobs
  <2> QED
    BY <1>1, <1>2, <2>1, AcceptWell, BootStands
<1>3. ASSUME NEW c \in Jobs, Work(c) PROVE OrphanInv' /\ BootInv'
  BY <1>1, <1>3, WorkWell
<1>4. ASSUME NEW p \in Project, BootNext(p) PROVE OrphanInv' /\ BootInv'
  BY <1>1, <1>4, BootNextWell, BootNextBoots
<1>5. ASSUME NEW p \in Project, Lose(p) PROVE OrphanInv' /\ BootInv'
  BY <1>1, <1>5, LoseWell
<1>6. ASSUME BootSkips \/ BootServes PROVE OrphanInv' /\ BootInv'
  BY <1>1, <1>6, BootEndWell, BootEndBoots
<1>7. ASSUME Crash PROVE OrphanInv' /\ BootInv'
  BY <1>1, <1>7, CrashWell
<1>8. ASSUME Regenerate \/ UNCHANGED pvars PROVE OrphanInv' /\ BootInv'
  BY <1>1, <1>8, RestWell DEF Regenerate, docker, pvars
<1> QED
  BY <1>1, <1>2, <1>3, <1>4, <1>5, <1>6, <1>7, <1>8 DEF ProjectsInv, Next, Jobs

LEMMA ProjectsInvInit == Init => ProjectsInv
BY KeyInvInit, OrphanInvInit, BootInvInit DEF ProjectsInv

LEMMA ProjectsInvAlways == Spec => []ProjectsInv
BY ProjectsInvInit, ProjectsInvStep, PTL DEF Spec

\* Every store call, every Docker call and every step of a request leaves the record,
\* the container, the volumes and the requests of a project in a state of their types.
THEOREM ProjectsTypesHold == Spec => []ProjectsTypeOK
<1>1. ProjectsInv => ProjectsTypeOK
  BY DEF ProjectsInv, KeyInv, KeyTypes, OrphanInv, StoreTypes, ProjectsTypeOK, Jobs
<1> QED
  BY <1>1, ProjectsInvAlways, PTL

\* Service.Create takes a failed project back, and Service.Delete keeps the record until
\* the rest is gone: a project off the list has left nothing in Docker, if its requests
\* came one at a time and it was not taken off the list alone.
THEOREM DeletedProjectsLeaveNothing == Spec => []NothingOrphaned
<1>1. ProjectsInv => NothingOrphaned
  <2> SUFFICES ASSUME ProjectsInv, NEW p \in Project \ (crowded \cup unlisted),
                      ~record[p], Quiet(p)
               PROVE  Clean(p)
    BY DEF NothingOrphaned, Clean
  <2>1. Free(p)
    BY ProjectAssumption DEF Quiet, Touches, Free, Jobs
  <2> QED
    BY <2>1 DEF ProjectsInv, OrphanInv, FreeIsClean
<1> QED
  BY <1>1, ProjectsInvAlways, PTL

\* BringAllUp has every recorded project running when it is through without a failure.
THEOREM BootBringsAllUp == Spec => []BootHeals
<1>1. ProjectsInv => BootHeals
  BY ProjectAssumption DEF ProjectsInv, OrphanInv, JobsFit, Fits, BootInv, BootHeals, Jobs
<1> QED
  BY <1>1, ProjectsInvAlways, PTL
===================================================================================
