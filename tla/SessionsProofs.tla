------------------------------ MODULE SessionsProofs ------------------------------
(***************************************************************************)
(* The sessions of a project, their records and the installs of plugins,   *)
(* for any names, plugins, requests at once and mishaps: records tell what *)
(* runs, a mark of an install has its install or a clear that failed, and  *)
(* a boot installs what is recorded.  At the end, the lifecycle, the   *)
(* sessions and the Work Sync of a project together.                       *)
(***************************************************************************)
EXTENDS MCProjects, ProjectsProofs, SyncProofs, FiniteSetTheorems, TLAPS

\* What a request is at, and with which of its names and plugins: it walks the steps of
\* its own handler only.
Reopens == {"attach", "ensure", "restart", "revive"}

WithSession(r) ==
  /\ r.n \in Name /\ r.to = Gone
  /\ \/ r.at = "exists" /\ r.op \in {"attach", "ensure"}
     \/ r.at = "kill" /\ r.op \in {"kill", "delete", "restart", "ensure"}
     \/ r.at \in {"count", "remove"} /\ r.op = "delete"
     \/ r.at = "resolve" /\ r.op \in Reopens
     \/ r.at \in {"launch", "mark"} /\ r.op \in Reopens \cup {"launch"} /\ r.h \in Harness
     \/ r.at = "forget" /\ r.op \in {"ensure", "revive"} /\ r.h = Shell
     \/ r.at = "shell" /\ r.op \in Reopens /\ r.h = Shell
     \/ r.at = "record" /\ r.op \in {"ensure", "restart", "revive", "launch"} /\ r.h \in SessionKind

WithTwoNames(r) ==
  /\ r.n \in Name /\ r.to \in Name /\ r.n # r.to
  /\ r.op = "rename" /\ r.at \in {"look", "rename", "move", "remove"}

WithPlugin(r) ==
  /\ r.n = Gone /\ r.to = Gone /\ r.h \in Harness
  /\ \/ r.op = "install" /\ r.at \in {"mark", "run", "note", "clear"}
     \/ r.op = "repair" /\ r.at \in {"run", "note"}

WithNothing(r) == r.op = "none" /\ r.at = "idle" /\ r.n = Gone /\ r.to = Gone /\ r.h = Gone

Shaped(r) == WithNothing(r) \/ WithSession(r) \/ WithTwoNames(r) \/ WithPlugin(r)

Ever == registry \cup dropped

\* Plugins that are recorded or launched are or were registered.
PluginsKnown ==
  /\ \A n \in Name : meta[n] \in Harness => meta[n] \in Ever
  /\ \A c \in Client : request[c].h \in Harness => request[c].h \in Ever

\* Requests that met on a name have mixed all of theirs.
Apart ==
  \A c, d \in Client :
    c # d /\ Names(c) \cap Names(d) # {} => Names(c) \cup Names(d) \subseteq mixed

\* A name whose session is recorded, or gone, or of a plugin that was removed.
Told(n) == tmux[n] = Gone \/ meta[n] = tmux[n] \/ meta[n] \in dropped

AtRestTold == \A n \in Name \ mixed : InUse(n) \/ Told(n)

\* What a request knows of the sessions under its names as long as nobody meets it there.
TellsOld(r) ==
  /\ r.at \in {"exists", "look", "kill", "count", "rename"} => Told(r.n)
  /\ r.at \in {"resolve", "forget", "shell", "move", "remove"} => tmux[r.n] = Gone
  /\ r.at = "launch" /\ r.op = "launch" => Told(r.n)
  /\ r.at = "launch" /\ r.op # "launch" => tmux[r.n] = Gone
  /\ r.at \in {"mark", "record"} => tmux[r.n] \in {r.h, Gone}
  /\ r.op = "attach" /\ r.at \in {"launch", "mark"} => meta[r.n] = r.h
  /\ r.op = "attach" /\ r.at = "shell" => meta[r.n] = Shell \/ meta[r.n] \in dropped

TellsNew(r) ==
  /\ r.at \in {"look", "rename", "remove"} => Told(r.to)
  /\ r.at = "move" => tmux[r.to] = Gone \/ meta[r.n] = tmux[r.to] \/ meta[r.n] \in dropped

Tells(r) ==
  /\ r.n \in Name \ mixed => TellsOld(r)
  /\ r.to \in Name \ mixed => TellsNew(r)

RequestsTell == \A c \in Client : Tells(request[c])

\* Requests are served only after the boot, which has cleared the marks and still has
\* to install what is recorded and missing.
Installs(c, h) == request[c].op = "install" /\ request[c].h = h

MarkStands(h) == h \in stuck \/ \E c \in Client : Installs(c, h)

StartInv ==
  /\ boot # "served" => \A c \in Client : WithNothing(request[c])
  /\ boot # "clear" => \A h \in Harness : marks[h] = "installing" => MarkStands(h)
  /\ boot = "install" => \A h \in registry : marks[h] = "true" => h \in binary \cup toInstall

SessionsInv ==
  /\ SessionsTypeOK
  /\ \A c \in Client : Shaped(request[c])
  /\ PluginsKnown /\ Apart /\ AtRestTold /\ RequestsTell
  /\ StartInv

-----------------------------------------------------------------------------
(* A step of one request                                                   *)

\* What a step of the request c, which is r after it, leaves to the others: of names that
\* are not its own it ends sessions at most, and a name is no longer mixed only when it
\* is at rest and in agreement.
StepTo(c, r) ==
  /\ request' \in [Client -> Request]
  /\ request'[c] = r
  /\ Shaped(r) /\ (r.h \in Harness => r.h \in Ever)
  /\ {r.n, r.to} \cap Name \subseteq Names(c)
  /\ \A d \in Client \ {c} : request'[d] = request[d]
  /\ \A n \in Name \ Names(c) : tmux'[n] \in {tmux[n], Gone} /\ meta'[n] = meta[n]
  /\ \A n \in Name : meta'[n] \in Harness => meta'[n] \in Ever
  /\ mixed' \subseteq mixed \cup Names(c)
  /\ \A n \in mixed : n \in mixed' \/ (~InUse(n)' /\ Told(n)')
  /\ UNCHANGED <<registry, boot, toInstall, dropped>>

\* What it owes to its own names, of which it may have let go.
OwnTold(c, r) ==
  /\ Tells(r)'
  /\ \A n \in Names(c) : n \in mixed' \/ n \in {r.n, r.to} \/ Told(n)'

\* The names of a request are of the project's.
LEMMA NamesKnown ==
  ASSUME NEW c \in Client, Shaped(request[c])
  PROVE  /\ Names(c) = {request[c].n, request[c].to} \cap Name
         /\ request[c].to \in Name => request[c].n \in Name
BY SessionAssumption DEF Names, Shaped, WithNothing, WithSession, WithTwoNames, WithPlugin

\* A name that has left its state only for one in which more plugins were removed.
LEMMA ToldStays ==
  ASSUME NEW n, tmux'[n] \in {tmux[n], Gone}, meta'[n] = meta[n], dropped \subseteq dropped', Told(n)
  PROVE  Told(n)'
BY DEF Told

LEMMA OthersTell ==
  ASSUME SessionsInv, NEW c \in Client, NEW r \in Request, StepTo(c, r), NEW d \in Client \ {c}
  PROVE  /\ request'[d].op = request[d].op /\ request'[d].at = request[d].at
         /\ request'[d].n = request[d].n /\ request'[d].to = request[d].to
         /\ request'[d].h = request[d].h
         /\ Shaped(request[d]')
         /\ Names(d)' = Names(d)
         /\ Tells(request[d])'
<1>1. request[d] \in Request
  BY DEF SessionsInv, SessionsTypeOK
<1>2. /\ request'[d].op = request[d].op /\ request'[d].at = request[d].at
      /\ request'[d].n = request[d].n /\ request'[d].to = request[d].to
      /\ request'[d].h = request[d].h
  BY <1>1 DEF StepTo
<1>3. Shaped(request[d]) /\ Tells(request[d])
  BY DEF SessionsInv, RequestsTell
<1>4. Shaped(request[d]')
  BY <1>2, <1>3 DEF Shaped, WithNothing, WithSession, WithTwoNames, WithPlugin
<1>5. Names(d)' = Names(d)
  BY <1>2 DEF Names
<1>6. /\ Names(d) = {request[d].n, request[d].to} \cap Name
      /\ request[d].to \in Name => request[d].n \in Name
  BY <1>3, NamesKnown
<1>7. \A n \in Names(d) : n \in mixed => n \in mixed'
  BY <1>5 DEF StepTo, InUse
<1>8. ASSUME NEW n \in Names(d), n \notin mixed'
      PROVE  Names(d) \cap Names(c) = {} /\ n \notin mixed
  BY <1>7, <1>8 DEF SessionsInv, Apart
<1>9. dropped' = dropped /\ \A n \in Name \ Names(c) : tmux'[n] \in {tmux[n], Gone} /\ meta'[n] = meta[n]
  BY DEF StepTo
<1>10. ASSUME request[d].n \in Name \ mixed'
       PROVE  TellsOld(request[d])'
  <2>1. request[d].n \in Name \ mixed /\ request[d].n \notin Names(c)
    BY <1>6, <1>8, <1>10
  <2>2. tmux'[request[d].n] \in {tmux[request[d].n], Gone} /\ meta'[request[d].n] = meta[request[d].n]
    BY <1>9, <2>1
  <2> QED
    BY <1>2, <1>3, <1>9, <2>1, <2>2 DEF Tells, TellsOld, Told
<1>11. ASSUME request[d].to \in Name \ mixed'
       PROVE  TellsNew(request[d])'
  <2>1. /\ request[d].to \in Name \ mixed /\ request[d].to \notin Names(c)
        /\ request[d].n \in Name \ Names(c)
    BY <1>6, <1>8, <1>11
  <2>2. /\ tmux'[request[d].n] \in {tmux[request[d].n], Gone} /\ meta'[request[d].n] = meta[request[d].n]
        /\ tmux'[request[d].to] \in {tmux[request[d].to], Gone} /\ meta'[request[d].to] = meta[request[d].to]
    BY <1>9, <2>1
  <2> QED
    BY <1>2, <1>3, <1>9, <2>1, <2>2 DEF Tells, TellsNew, Told
<1> QED
  BY <1>2, <1>4, <1>5, <1>10, <1>11 DEF Tells

\* A name that is not mixed after the step was not mixed before it or has agreed.
LEMMA StepTells ==
  ASSUME SessionsInv, NEW c \in Client, NEW r \in Request, StepTo(c, r), OwnTold(c, r)
  PROVE  /\ \A d \in Client : Shaped(request'[d])
         /\ Apart' /\ AtRestTold' /\ RequestsTell'
<1>1. \A d \in Client : Shaped(request'[d])
  BY OthersTell DEF StepTo
<1>2. RequestsTell'
  BY OthersTell DEF StepTo, OwnTold, RequestsTell
<1>3. Names(c)' \subseteq Names(c)
  BY SessionAssumption
     DEF StepTo, Names, Shaped, WithNothing, WithSession, WithTwoNames, WithPlugin
<1>4. \A d \in Client : Names(d)' \subseteq Names(d) /\ (d # c => Names(d)' = Names(d))
  BY <1>3, OthersTell
<1>5. Apart'
  <2> SUFFICES ASSUME NEW d \in Client, NEW e \in Client, d # e,
                      Names(d)' \cap Names(e)' # {}, NEW n \in Names(d)' \cup Names(e)'
               PROVE  n \in mixed'
    BY DEF Apart
  <2>1. n \in mixed
    BY <1>4 DEF SessionsInv, Apart
  <2>2. InUse(n)'
    BY DEF InUse
  <2> QED
    BY <2>1, <2>2 DEF StepTo
<1>6. AtRestTold'
  <2> SUFFICES ASSUME NEW n \in Name, n \notin mixed', ~InUse(n)'
               PROVE  Told(n)'
    BY DEF AtRestTold
  <2>1. CASE n \in mixed
    BY <2>1 DEF StepTo
  <2>2. CASE n \in Names(c)
    <3>1. n \notin {r.n, r.to}
      BY SessionAssumption DEF InUse, Names, StepTo
    <3> QED
      BY <2>2, <3>1 DEF OwnTold
  <2>3. CASE n \notin mixed /\ n \notin Names(c)
    <3>1. ~InUse(n)
      BY <1>4, <2>3 DEF InUse
    <3>2. Told(n)
      BY <2>3, <3>1 DEF SessionsInv, AtRestTold
    <3>3. tmux'[n] \in {tmux[n], Gone} /\ meta'[n] = meta[n] /\ dropped' = dropped
      BY <2>3 DEF StepTo
    <3> QED
      BY <3>2, <3>3, ToldStays
  <2> QED
    BY <2>1, <2>2, <2>3
<1> QED
  BY <1>1, <1>2, <1>5, <1>6

\* A step of a request that is at work, with what it does to marks and binaries.
LEMMA StepKeeps ==
  ASSUME SessionsInv, NEW c \in Client, NEW r \in Request, StepTo(c, r), OwnTold(c, r),
         Working(c), SessionsTypeOK',
         \A h \in Harness : marks'[h] = "installing" => MarkStands(h)'
  PROVE  SessionsInv'
<1>1. boot' = "served"
  BY DEF StepTo, SessionsInv, StartInv, Working, WithNothing
<1>2. PluginsKnown'
  BY OthersTell DEF StepTo, SessionsInv, PluginsKnown, Ever
<1>4. StartInv'
  BY <1>1 DEF StartInv
<1> QED
  BY <1>2, <1>4, StepTells DEF SessionsInv

SomeSession == [Name -> SessionKind \cup {Gone}]

\* Mixed names stay so while they are in use or disagree.
LEMMA MixingIs ==
  ASSUME NEW S \in SUBSET Name, Mixing(S)
  PROVE  /\ mixed' \subseteq mixed \cup S
         /\ \A n \in mixed \cup S : n \in mixed' \/ (~InUse(n)' /\ Told(n)')
BY DEF Mixing, InUse, Names, Told

\* A step of a request at work on a session: s is the request after it, and S are names
\* that it mixes.
LEMMA RequestSteps ==
  ASSUME SessionsInv, NEW c \in Client, Working(c), request[c].op # "install",
         NEW s \in Request, Shaped(s), s.h \in Harness => s.h \in Ever,
         {s.n, s.to} \cap Name \subseteq Names(c),
         Moved(c, s),
         NEW S \in SUBSET Names(c), Mixing(S),
         UNCHANGED <<registry, boot, toInstall, dropped, stuck, binary>>,
         tmux' \in SomeSession, meta' \in SomeSession,
         dead' \subseteq {n \in Name : tmux'[n] # Gone},
         \A n \in Name \ Names(c) : tmux'[n] \in {tmux[n], Gone} /\ meta'[n] = meta[n],
         \A n \in Names(c) : meta'[n] \in Harness => meta'[n] \in Ever,
         marks' = marks \/ marks' = [marks EXCEPT ![request[c].h] = "true"],
         mishaps' \in 0..MaxMishaps,
         OwnTold(c, s)
  PROVE  SessionsInv'
<1>1. request \in [Client -> Request] /\ mixed \subseteq Name
  BY DEF SessionsInv, SessionsTypeOK
<1>2. Names(c) \subseteq Name
  BY NamesKnown DEF SessionsInv
<1>3. /\ request' \in [Client -> Request]
      /\ request'[c] = s
      /\ \A d \in Client \ {c} : request'[d] = request[d]
  BY <1>1 DEF Moved
<1>4. \A n \in Name : meta'[n] \in Harness => meta'[n] \in Ever
  BY DEF SessionsInv, PluginsKnown
<1>5. /\ mixed' \subseteq mixed \cup Names(c)
      /\ \A n \in mixed : n \in mixed' \/ (~InUse(n)' /\ Told(n)')
  BY <1>2, MixingIs
<1>6. StepTo(c, s)
  BY <1>3, <1>4, <1>5 DEF StepTo
<1>7. marks' \in [Harness -> {"none", "installing", "true"}]
  BY DEF SessionsInv, SessionsTypeOK
<1>8. SessionsTypeOK'
  BY <1>1, <1>2, <1>3, <1>5, <1>7 DEF SessionsInv, SessionsTypeOK, SomeSession
<1>9. boot = "served"
  BY DEF SessionsInv, StartInv, Working, WithNothing
<1>10. ASSUME NEW h \in Harness, marks'[h] = "installing"
       PROVE  MarkStands(h)'
  <2>1. marks[h] = "installing"
    BY <1>10 DEF SessionsInv, SessionsTypeOK
  <2>2. MarkStands(h)
    BY <1>9, <2>1 DEF SessionsInv, StartInv
  <2>3. ASSUME NEW d \in Client, Installs(d, h)
        PROVE  Installs(d, h)'
    BY <1>3, <2>3 DEF Installs
  <2> QED
    BY <2>2, <2>3 DEF MarkStands
<1> QED
  BY <1>6, <1>8, <1>10, StepKeeps

\* One that looks, or ends: what it owes is said of the state as it is.
LEMMA QuietStep ==
  ASSUME SessionsInv, NEW c \in Client, Working(c), request[c].op # "install",
         NEW s \in Request, Shaped(s), s.h \in Harness => s.h \in Ever,
         {s.n, s.to} \cap Name \subseteq Names(c),
         Moved(c, s),
         Mixing({}),
         UNCHANGED <<registry, boot, toInstall, dropped, stuck, binary, tmux, dead, meta>>,
         marks' = marks \/ marks' = [marks EXCEPT ![request[c].h] = "true"],
         mishaps' \in 0..MaxMishaps,
         Tells(s),
         \A n \in Names(c) : n \in mixed \/ n \in {s.n, s.to} \/ Told(n)
  PROVE  SessionsInv'
<1>1. Names(c) \subseteq Name
  BY NamesKnown DEF SessionsInv
<1>2. \A n \in mixed : n \in mixed' \/ (~InUse(n)' /\ Told(n)')
  BY MixingIs
<1>3. request'[c] = s
  BY DEF SessionsInv, SessionsTypeOK, Moved
<1>4. \A n \in {s.n, s.to} \cap Name : InUse(n)'
  BY <1>3, SessionAssumption DEF InUse, Names
<1>5. Tells(s)'
  BY <1>2, <1>4 DEF Tells, TellsOld, TellsNew, Told
<1>6. OwnTold(c, s)
  <2>1. \A n \in Names(c) : n \in mixed' \/ n \in {s.n, s.to} \/ Told(n)'
    BY <1>2 DEF Told
  <2> QED
    BY <1>5, <2>1 DEF OwnTold
<1>7. /\ tmux' \in SomeSession /\ meta' \in SomeSession
      /\ dead' \subseteq {n \in Name : tmux'[n] # Gone}
      /\ \A n \in Names(c) : meta'[n] \in Harness => meta'[n] \in Ever
  BY <1>1 DEF SessionsInv, SessionsTypeOK, SomeSession, PluginsKnown
<1> QED
  BY <1>6, <1>7, RequestSteps

\* A request that ends, having moved nothing.
LEMMA QuietEnd ==
  ASSUME SessionsInv, NEW c \in Client, Working(c), request[c].op # "install",
         Done(c), Mixing({}),
         UNCHANGED <<registry, boot, toInstall, dropped, stuck, binary, tmux, dead, meta>>,
         marks' = marks \/ marks' = [marks EXCEPT ![request[c].h] = "true"],
         mishaps' \in 0..MaxMishaps,
         \A n \in Names(c) \ mixed : Told(n)
  PROVE  SessionsInv'
<1>1. NoRequest \in Request
  BY DEF NoRequest, Request
<1>2. Shaped(NoRequest) /\ {NoRequest.n, NoRequest.to} \cap Name = {} /\ NoRequest.h \notin Harness
  BY SessionAssumption DEF NoRequest, Shaped, WithNothing
<1>3. Tells(NoRequest)
  BY SessionAssumption DEF NoRequest, Tells
<1> QED
  BY <1>1, <1>2, <1>3, QuietStep DEF Done

\* A request as the step at which it is found.
LEMMA RequestKnown ==
  ASSUME SessionsInv, NEW c \in Client
  PROVE  /\ request[c] \in Request /\ Shaped(request[c]) /\ Tells(request[c])
         /\ request[c].h \in Harness => request[c].h \in Ever
         /\ Names(c) = {request[c].n, request[c].to} \cap Name
         /\ mishaps \in 0..MaxMishaps
BY NamesKnown DEF SessionsInv, SessionsTypeOK, RequestsTell, PluginsKnown

LEMMA MishapCounts ==
  ASSUME SessionsInv, Mishap \/ NoMishap
  PROVE  mishaps' \in 0..MaxMishaps
BY SessionAssumption DEF SessionsInv, SessionsTypeOK, Mishap, NoMishap

\* What a command on a name hits are sessions, and of a name that has one just that.
LEMMA HitsKnown ==
  ASSUME SessionsInv, NEW n \in Name
  PROVE  /\ \A m \in Hits(n) : m \in Name /\ tmux[m] # Gone
         /\ tmux[n] # Gone => Hits(n) = {n}
         /\ tmux[n] = Gone => n \notin Hits(n)
<1>1. Longer[n] \subseteq Name
  BY SessionAssumption
<1> QED
  BY <1>1 DEF Hits

LEMMA ExistsKeeps ==
  ASSUME SessionsInv, NEW c \in Client, Exists(c)
  PROVE  SessionsInv'
<1> DEFINE r == request[c]
<1>1. /\ r \in Request /\ r.at = "exists" /\ r.op \in {"attach", "ensure"}
      /\ r.n \in Name /\ r.to = Gone /\ Names(c) = {r.n}
      /\ r.n \notin mixed => Told(r.n)
      /\ r.h \in Harness => r.h \in Ever
  BY RequestKnown, SessionAssumption
     DEF Exists, Step, Shaped, WithNothing, WithSession, WithTwoNames, WithPlugin, Tells, TellsOld
<1>2. /\ UNCHANGED <<registry, boot, toInstall, dropped, stuck, tmux, dead, meta, marks, binary>>
      /\ Mixing({}) /\ mishaps' \in 0..MaxMishaps /\ Working(c) /\ r.op # "install"
  BY <1>1, MishapCounts DEF Exists, Step, tvars, Working
<1>3. CASE Done(c)
  BY <1>1, <1>2, <1>3, QuietEnd
<1>4. ASSUME NEW at \in {"resolve", "kill"}, To(c, at), at = "resolve" => tmux[r.n] = Gone,
             at = "kill" => r.op = "ensure"
      PROVE  SessionsInv'
  <2> DEFINE s == [r EXCEPT !.at = at]
  <2>1. Moved(c, s)
    BY <1>4 DEF To, Moved
  <2>2. /\ s \in Request /\ s.at = at /\ s.op = r.op /\ s.n = r.n /\ s.to = Gone /\ s.h = r.h
    BY <1>1 DEF Request
  <2> HIDE DEF s
  <2>3. Shaped(s)
    BY <1>1, <1>4, <2>2 DEF Shaped, WithSession, Reopens
  <2>4. Tells(s)
    BY <1>1, <1>4, <2>2, SessionAssumption DEF Tells, TellsOld
  <2> QED
    BY <1>1, <1>2, <2>1, <2>2, <2>3, <2>4, QuietStep, SessionAssumption
<1>5. \/ To(c, "resolve") /\ tmux[r.n] = Gone
      \/ To(c, "kill") /\ r.op = "ensure"
      \/ Done(c)
  BY <1>1, HitsKnown DEF Exists
<1> QED
  BY <1>3, <1>4, <1>5

LEMMA LookKeeps ==
  ASSUME SessionsInv, NEW c \in Client, RenameLooks(c)
  PROVE  SessionsInv'
<1> DEFINE r == request[c]
           s == [r EXCEPT !.at = "rename"]
<1>1. /\ r \in Request /\ r.at = "look" /\ r.op = "rename"
      /\ r.n \in Name /\ r.to \in Name /\ r.n # r.to /\ Names(c) = {r.n, r.to}
      /\ r.n \notin mixed => Told(r.n)
      /\ r.to \notin mixed => Told(r.to)
      /\ r.h \in Harness => r.h \in Ever
  BY RequestKnown, SessionAssumption
     DEF RenameLooks, Step, Shaped, WithNothing, WithSession, WithTwoNames, WithPlugin, Tells,
         TellsOld, TellsNew
<1>2. /\ UNCHANGED <<registry, boot, toInstall, dropped, stuck, tmux, dead, meta, marks, binary>>
      /\ Mixing({}) /\ mishaps' \in 0..MaxMishaps /\ Working(c) /\ r.op # "install"
  BY <1>1, MishapCounts DEF RenameLooks, Step, tvars, Working
<1>3. CASE Done(c)
  BY <1>1, <1>2, <1>3, QuietEnd
<1>4. CASE To(c, "rename")
  <2>1. Moved(c, s)
    BY <1>4 DEF To, Moved
  <2>2. /\ s \in Request /\ s.at = "rename" /\ s.op = "rename" /\ s.n = r.n /\ s.to = r.to
        /\ s.h = r.h
    BY <1>1 DEF Request
  <2> HIDE DEF s
  <2>3. Shaped(s)
    BY <1>1, <2>2 DEF Shaped, WithTwoNames
  <2>4. Tells(s)
    BY <1>1, <2>2 DEF Tells, TellsOld, TellsNew
  <2> QED
    BY <1>1, <1>2, <2>1, <2>2, <2>3, <2>4, QuietStep
<1> QED
  BY <1>3, <1>4 DEF RenameLooks

LEMMA CountKeeps ==
  ASSUME SessionsInv, NEW c \in Client, CountSessions(c)
  PROVE  SessionsInv'
<1> DEFINE r == request[c]
<1>1. /\ r \in Request /\ r.at = "count" /\ r.op = "delete"
      /\ r.n \in Name /\ r.to = Gone /\ Names(c) = {r.n}
      /\ r.n \notin mixed => Told(r.n)
      /\ r.h \in Harness => r.h \in Ever
  BY RequestKnown, SessionAssumption
     DEF CountSessions, Step, Shaped, WithNothing, WithSession, WithTwoNames, WithPlugin, Tells,
         TellsOld
<1>2. /\ UNCHANGED <<registry, boot, toInstall, dropped, stuck, tmux, dead, meta, marks, binary>>
      /\ Mixing({}) /\ mishaps' \in 0..MaxMishaps /\ Working(c) /\ r.op # "install"
  BY <1>1, MishapCounts DEF CountSessions, Step, tvars, Working
<1>3. CASE Done(c)
  BY <1>1, <1>2, <1>3, QuietEnd
<1>4. CASE To(c, "kill")
  <2> DEFINE s == [r EXCEPT !.at = "kill"]
  <2>1. Moved(c, s)
    BY <1>4 DEF To, Moved
  <2>2. /\ s \in Request /\ s.at = "kill" /\ s.op = r.op /\ s.n = r.n /\ s.to = Gone /\ s.h = r.h
    BY <1>1 DEF Request
  <2> HIDE DEF s
  <2>3. Shaped(s)
    BY <1>1, <2>2 DEF Shaped, WithSession
  <2>4. Tells(s)
    BY <1>1, <2>2, SessionAssumption DEF Tells, TellsOld
  <2>5. /\ {s.n, s.to} \cap Name \subseteq Names(c)
        /\ \A n \in Names(c) : n \in {s.n, s.to}
        /\ s.h \in Harness => s.h \in Ever
    BY <1>1, <2>2, SessionAssumption
  <2> QED
    BY <1>2, <2>1, <2>2, <2>3, <2>4, <2>5, QuietStep
<1> QED
  BY <1>3, <1>4 DEF CountSessions

LEMMA ResolveKeeps ==
  ASSUME SessionsInv, NEW c \in Client, Resolve(c)
  PROVE  SessionsInv'
<1> DEFINE r == request[c]
           kind == IF meta[r.n] = Gone /\ r.op \in {"restart", "revive"} THEN BaseOf[r.n]
                   ELSE meta[r.n]
<1>1. /\ r \in Request /\ r.at = "resolve" /\ r.op \in Reopens
      /\ r.n \in Name /\ r.to = Gone /\ Names(c) = {r.n}
      /\ r.n \notin mixed => tmux[r.n] = Gone
  BY RequestKnown, SessionAssumption
     DEF Resolve, Step, Shaped, WithNothing, WithSession, WithTwoNames, WithPlugin, Tells, TellsOld
<1>2. /\ UNCHANGED <<registry, boot, toInstall, dropped, stuck, tmux, dead, meta, marks, binary>>
      /\ Mixing({}) /\ mishaps' \in 0..MaxMishaps /\ Working(c) /\ r.op # "install"
  BY <1>1, MishapCounts DEF Resolve, Step, tvars, Working, Reopens
<1>3. CASE Done(c)
  BY <1>1, <1>2, <1>3, QuietEnd DEF Told
<1>4. /\ meta[r.n] \in SessionKind \cup {Gone} /\ (meta[r.n] \in Harness => meta[r.n] \in Ever)
      /\ registry \subseteq Harness
  BY <1>1 DEF SessionsInv, SessionsTypeOK, PluginsKnown
<1>5. kind \in Harness \cup {Shell, Gone} /\ (r.op = "attach" => kind = meta[r.n])
  BY <1>1, <1>4, SessionAssumption DEF SessionKind
<1>6. \/ With(c, "launch", kind) /\ kind \in registry
      \/ With(c, "forget", Shell) /\ r.op \in {"ensure", "revive"}
      \/ With(c, "shell", Shell) /\ (kind \in Harness \ registry \/ kind = Shell \/ r.op = "ensure")
      \/ Done(c)
  <2>1. /\ CASE kind \in registry -> With(c, "launch", kind)
             [] kind \in Harness \ registry ->
                  With(c, IF r.op \in {"ensure", "revive"} THEN "forget" ELSE "shell", Shell)
             [] kind = Shell -> With(c, "shell", Shell)
             [] kind = Gone ->
                  IF r.op = "ensure" /\ (r.new \/ r.n = MainName)
                  THEN With(c, "shell", Shell) ELSE Done(c)
    BY DEF Resolve
  <2> HIDE DEF kind
  <2>2. Shell \notin Harness /\ Gone \notin Harness /\ Shell # Gone
    BY SessionAssumption
  <2>3. CASE kind \in registry
    BY <1>4, <2>1, <2>2, <2>3
  <2>4. CASE kind \in Harness \ registry
    BY <2>1, <2>2, <2>4
  <2>5. CASE kind = Shell
    BY <1>4, <2>1, <2>2, <2>5
  <2>6. CASE kind = Gone
    BY <1>4, <2>1, <2>2, <2>6
  <2> QED
    BY <1>5, <2>3, <2>4, <2>5, <2>6
<1>7. ASSUME NEW at \in {"launch", "forget", "shell"}, NEW h \in SessionKind, With(c, at, h),
             at = "launch" => h = kind /\ h \in registry,
             at # "launch" => h = Shell,
             at = "forget" => r.op \in {"ensure", "revive"},
             at = "shell" => kind \in Harness \ registry \/ kind = Shell \/ r.op = "ensure"
      PROVE  SessionsInv'
  <2> DEFINE s == [r EXCEPT !.at = at, !.h = h, !.new = FALSE]
  <2>1. Moved(c, s)
    BY <1>7 DEF With, Moved
  <2>2. /\ s \in Request /\ s.at = at /\ s.op = r.op /\ s.n = r.n /\ s.to = Gone /\ s.h = h
    BY <1>1, <1>7 DEF Request
  <2> HIDE DEF s, kind
  <2>3. Shaped(s)
    BY <1>1, <1>4, <1>7, <2>2 DEF Shaped, WithSession
  <2>4. s.h \in Harness => s.h \in Ever
    BY <1>7, <2>2, SessionAssumption DEF Ever
  <2>5. r.op = "attach" /\ at = "shell" => meta[r.n] = Shell \/ meta[r.n] \in dropped
    BY <1>4, <1>5, <1>7 DEF Ever
  <2>6. Tells(s)
    BY <1>1, <1>5, <1>7, <2>2, <2>5, SessionAssumption DEF Tells, TellsOld, Reopens
  <2> QED
    BY <1>1, <1>2, <2>1, <2>2, <2>3, <2>4, <2>6, QuietStep, SessionAssumption DEF Reopens
<1>8. Shell \in SessionKind /\ registry \subseteq SessionKind
  BY <1>4 DEF SessionKind
<1> QED
  BY <1>3, <1>6, <1>7, <1>8

\* One that moves sessions or records under its names, and mixes those of S.
LEMMA LoudStep ==
  ASSUME SessionsInv, NEW c \in Client, Working(c), request[c].op # "install",
         NEW s \in Request, Shaped(s), s.h \in Harness => s.h \in Ever,
         {s.n, s.to} \cap Name \subseteq Names(c),
         Moved(c, s), NEW S \in SUBSET Names(c), Mixing(S),
         UNCHANGED <<registry, boot, toInstall, dropped, stuck, binary, marks>>,
         tmux' \in SomeSession, meta' \in SomeSession,
         dead' \subseteq {n \in Name : tmux'[n] # Gone},
         \A n \in Name \ Names(c) : tmux'[n] \in {tmux[n], Gone} /\ meta'[n] = meta[n],
         \A n \in Names(c) : meta'[n] \in Harness => meta'[n] \in Ever,
         mishaps' \in 0..MaxMishaps,
         s.n \in Name \ (mixed \cup S) => TellsOld(s)',
         s.to \in Name \ (mixed \cup S) => TellsNew(s)',
         \A n \in Names(c) \ (mixed \cup S) : n \in {s.n, s.to} \/ Told(n)'
  PROVE  SessionsInv'
<1>1. Names(c) \subseteq Name
  BY NamesKnown DEF SessionsInv
<1>2. \A n \in mixed \cup S : n \in mixed' \/ (~InUse(n)' /\ Told(n)')
  BY <1>1, MixingIs
<1>3. request'[c] = s
  BY DEF SessionsInv, SessionsTypeOK, Moved
<1>4. \A n \in {s.n, s.to} \cap Name : InUse(n)'
  BY <1>3, SessionAssumption DEF InUse, Names
<1>5. Tells(s)'
  BY <1>2, <1>4 DEF Tells
<1>6. OwnTold(c, s)
  BY <1>2, <1>5 DEF OwnTold
<1> QED
  BY <1>6, RequestSteps

\* A request that ends, having moved sessions or records under its names.
LEMMA LoudEnd ==
  ASSUME SessionsInv, NEW c \in Client, Working(c), request[c].op # "install",
         Moved(c, NoRequest), NEW S \in SUBSET Names(c), Mixing(S),
         UNCHANGED <<registry, boot, toInstall, dropped, stuck, binary, marks>>,
         tmux' \in SomeSession, meta' \in SomeSession,
         dead' \subseteq {n \in Name : tmux'[n] # Gone},
         \A n \in Name \ Names(c) : tmux'[n] \in {tmux[n], Gone} /\ meta'[n] = meta[n],
         \A n \in Names(c) : meta'[n] \in Harness => meta'[n] \in Ever,
         mishaps' \in 0..MaxMishaps,
         \A n \in Names(c) \ (mixed \cup S) : Told(n)'
  PROVE  SessionsInv'
<1>1. NoRequest \in Request
  BY DEF NoRequest, Request
<1>2. Shaped(NoRequest) /\ {NoRequest.n, NoRequest.to} \cap Name = {} /\ NoRequest.h \notin Harness
  BY SessionAssumption DEF NoRequest, Shaped, WithNothing
<1>3. NoRequest.op # "delete" /\ NoRequest.n \notin Name /\ NoRequest.to \notin Name
  BY SessionAssumption DEF NoRequest
<1> QED
  BY <1>1, <1>2, <1>3, LoudStep

LEMMA SessionTypes ==
  ASSUME SessionsInv
  PROVE  /\ tmux \in SomeSession /\ meta \in SomeSession
         /\ dead \subseteq {n \in Name : tmux[n] # Gone}
         /\ \A n \in Name : meta[n] \in Harness => meta[n] \in Ever
         /\ marks \in [Harness -> {"none", "installing", "true"}]
         /\ registry \subseteq Harness /\ binary \subseteq Harness /\ dropped \subseteq Harness
         /\ stuck \subseteq Harness
BY DEF SessionsInv, SessionsTypeOK, SomeSession, PluginsKnown

\* tmux has lost the sessions of S.
LEMMA SessionsGone ==
  ASSUME SessionsInv, NEW S,
         tmux' = [n \in Name |-> IF n \in S THEN Gone ELSE tmux[n]], dead' = dead \ S, meta' = meta
  PROVE  /\ tmux' \in SomeSession /\ meta' \in SomeSession
         /\ dead' \subseteq {m \in Name : tmux'[m] # Gone}
         /\ \A m \in Name : tmux'[m] \in {tmux[m], Gone} /\ meta'[m] = meta[m]
         /\ \A m \in Name : meta'[m] \in Harness => meta'[m] \in Ever
         /\ \A m \in Name \cap S : tmux'[m] = Gone
BY SessionTypes DEF SomeSession

\* tmux has one session more.
LEMMA SessionThere ==
  ASSUME SessionsInv, NEW n \in Name, NEW k \in SessionKind,
         tmux' = [tmux EXCEPT ![n] = k], dead' = dead, meta' = meta
  PROVE  /\ tmux' \in SomeSession /\ meta' \in SomeSession
         /\ dead' \subseteq {m \in Name : tmux'[m] # Gone}
         /\ \A m \in Name \ {n} : tmux'[m] \in {tmux[m], Gone} /\ meta'[m] = meta[m]
         /\ \A m \in Name : meta'[m] \in Harness => meta'[m] \in Ever
         /\ tmux'[n] = k
BY SessionTypes, SessionAssumption DEF SomeSession, SessionKind

\* One record is written or dropped.
LEMMA RecordWritten ==
  ASSUME SessionsInv, NEW n \in Name,
         NEW k \in SessionKind \cup {Gone}, k \in Harness => k \in Ever,
         meta' = [meta EXCEPT ![n] = k], dead' = dead, tmux' = tmux
  PROVE  /\ tmux' \in SomeSession /\ meta' \in SomeSession
         /\ dead' \subseteq {m \in Name : tmux'[m] # Gone}
         /\ \A m \in Name \ {n} : tmux'[m] \in {tmux[m], Gone} /\ meta'[m] = meta[m]
         /\ \A m \in Name : meta'[m] \in Harness => meta'[m] \in Ever
         /\ meta'[n] = k
BY SessionTypes DEF SomeSession

\* The same for the one name that a request is about, in the words of LoudStep and LoudEnd.
OpensOwn(c, n, k) ==
  /\ tmux' \in SomeSession /\ meta' \in SomeSession
  /\ dead' \subseteq {m \in Name : tmux'[m] # Gone}
  /\ \A m \in Name \ Names(c) : tmux'[m] \in {tmux[m], Gone} /\ meta'[m] = meta[m]
  /\ \A m \in Names(c) : meta'[m] \in Harness => meta'[m] \in Ever
  /\ tmux'[n] = k

LEMMA OwnSessionThere ==
  ASSUME SessionsInv, NEW c \in Client, NEW n \in Name, NEW k \in SessionKind, Names(c) = {n},
         tmux' = [tmux EXCEPT ![n] = k], dead' = dead, meta' = meta
  PROVE  OpensOwn(c, n, k)
<1>1. /\ tmux' \in SomeSession /\ meta' \in SomeSession
      /\ dead' \subseteq {m \in Name : tmux'[m] # Gone}
      /\ \A m \in Name \ {n} : tmux'[m] \in {tmux[m], Gone} /\ meta'[m] = meta[m]
      /\ \A m \in Name : meta'[m] \in Harness => meta'[m] \in Ever
      /\ tmux'[n] = k
  BY SessionThere
<1> QED
  BY <1>1, Zenon DEF OpensOwn

LEMMA OwnRecordWritten ==
  ASSUME SessionsInv, NEW c \in Client, NEW n \in Name, Names(c) = {n},
         NEW k, k \in SessionKind \/ k = Gone, k \notin Harness \/ k \in Ever,
         meta' = [meta EXCEPT ![n] = k], dead' = dead, tmux' = tmux
  PROVE  /\ tmux' \in SomeSession /\ meta' \in SomeSession
         /\ dead' \subseteq {m \in Name : tmux'[m] # Gone}
         /\ \A m \in Name \ Names(c) : tmux'[m] \in {tmux[m], Gone} /\ meta'[m] = meta[m]
         /\ \A m \in Names(c) : meta'[m] \in Harness => meta'[m] \in Ever
         /\ meta'[n] = k
<1>1. /\ tmux' \in SomeSession /\ meta' \in SomeSession
      /\ dead' \subseteq {m \in Name : tmux'[m] # Gone}
      /\ \A m \in Name \ {n} : tmux'[m] \in {tmux[m], Gone} /\ meta'[m] = meta[m]
      /\ \A m \in Name : meta'[m] \in Harness => meta'[m] \in Ever
      /\ meta'[n] = k
  BY RecordWritten
<1> QED
  BY <1>1, Zenon

LEMMA KillKeeps ==
  ASSUME SessionsInv, NEW c \in Client, KillSession(c)
  PROVE  SessionsInv'
<1> DEFINE r == request[c]
<1>1. /\ r \in Request /\ r.at = "kill" /\ r.op \in {"kill", "delete", "restart", "ensure"}
      /\ r.n \in Name /\ r.to = Gone /\ Names(c) = {r.n}
      /\ r.h \in Harness => r.h \in Ever
  BY RequestKnown, SessionAssumption
     DEF KillSession, Step, Shaped, WithNothing, WithSession, WithTwoNames, WithPlugin
<1>2. /\ UNCHANGED <<registry, boot, toInstall, dropped, stuck, meta, marks, binary>>
      /\ Mixing({}) /\ mishaps' \in 0..MaxMishaps /\ Working(c) /\ r.op # "install"
      /\ tmux' = [n \in Name |-> IF n \in Hits(r.n) THEN Gone ELSE tmux[n]]
      /\ dead' = dead \ Hits(r.n)
  BY <1>1, MishapCounts DEF KillSession, Step, tvars, Working
<1>3. /\ tmux' \in SomeSession /\ meta' \in SomeSession
      /\ dead' \subseteq {m \in Name : tmux'[m] # Gone}
      /\ \A m \in Name \ Names(c) : tmux'[m] \in {tmux[m], Gone} /\ meta'[m] = meta[m]
      /\ \A m \in Names(c) : meta'[m] \in Harness => meta'[m] \in Ever
      /\ tmux'[r.n] = Gone
  <2>1. /\ tmux' \in SomeSession /\ meta' \in SomeSession
        /\ dead' \subseteq {m \in Name : tmux'[m] # Gone}
        /\ \A m \in Name : tmux'[m] \in {tmux[m], Gone} /\ meta'[m] = meta[m]
        /\ \A m \in Name : meta'[m] \in Harness => meta'[m] \in Ever
        /\ \A m \in Name \cap Hits(r.n) : tmux'[m] = Gone
    BY <1>2, SessionsGone
  <2>2. tmux[r.n] = Gone \/ r.n \in Hits(r.n)
    BY <1>1, HitsKnown
  <2> QED
    BY <1>1, <2>1, <2>2
<1>4. CASE Moved(c, NoRequest)
  <2>1. Moved(c, NoRequest) /\ {} \in SUBSET Names(c)
    BY <1>4
  <2> QED
    BY <1>1, <1>2, <1>3, <2>1, LoudEnd DEF Told
<1>5. ASSUME NEW at \in {"remove", "resolve"}, NEW op \in {"delete", "restart", "revive"},
             Moved(c, [r EXCEPT !.at = at, !.op = op]),
             at = "remove" => op = "delete" /\ r.op = "delete",
             at = "resolve" => op \in {"restart", "revive"}
      PROVE  SessionsInv'
  <2>0. [r EXCEPT !.at = at, !.op = op] \in Request
    BY <1>1, <1>5 DEF Request
  <2>1. PICK s \in Request : s = [r EXCEPT !.at = at, !.op = op]
    BY <2>0
  <2>2. /\ Moved(c, s)
        /\ s.at = at /\ s.op = op /\ s.n = r.n /\ s.to = Gone /\ s.h = r.h
    BY <1>1, <1>5, <2>1 DEF Request
  <2>3. Shaped(s)
    BY <1>1, <1>5, <2>2 DEF Shaped, WithSession, Reopens
  <2>4. TellsOld(s)'
    BY <1>1, <1>3, <1>5, <2>2 DEF TellsOld
  <2>6. s.to \notin Name /\ {s.n, s.to} \cap Name \subseteq Names(c) /\ {} \in SUBSET Names(c)
    BY <1>1, <2>2, SessionAssumption
  <2>7. Names(c) \subseteq {s.n, s.to} /\ (s.h \in Harness => s.h \in Ever)
    BY <1>1, <2>2
  <2> QED
    BY <1>2, <1>3, <2>2, <2>3, <2>4, <2>6, <2>7, LoudStep
<1>6. \/ Moved(c, NoRequest)
      \/ r.op = "delete" /\ Moved(c, [r EXCEPT !.at = "remove"])
      \/ r.op = "restart" /\ Moved(c, [r EXCEPT !.at = "resolve"])
      \/ Moved(c, [r EXCEPT !.at = "resolve", !.op = "revive"])
  BY <1>1 DEF KillSession
<1>7. /\ r.op = "delete" => [r EXCEPT !.at = "remove"] = [r EXCEPT !.at = "remove", !.op = "delete"]
      /\ r.op = "restart"
           => [r EXCEPT !.at = "resolve"] = [r EXCEPT !.at = "resolve", !.op = "restart"]
  BY <1>1 DEF Request
<1> QED
  BY <1>4, <1>5, <1>6, <1>7

LEMMA ForgetKeeps ==
  ASSUME SessionsInv, NEW c \in Client, Forget(c)
  PROVE  SessionsInv'
<1> DEFINE r == request[c]
<1>1. /\ r \in Request /\ r.at = "forget" /\ r.op \in {"ensure", "revive"} /\ r.h = Shell
      /\ r.n \in Name /\ r.to = Gone /\ Names(c) = {r.n}
      /\ r.n \notin mixed => tmux[r.n] = Gone
  BY RequestKnown, SessionAssumption
     DEF Forget, Step, Shaped, WithNothing, WithSession, WithTwoNames, WithPlugin, Tells, TellsOld
<1>2. /\ UNCHANGED <<registry, boot, toInstall, dropped, stuck, tmux, dead, marks, binary>>
      /\ Mixing({}) /\ mishaps' \in 0..MaxMishaps /\ Working(c) /\ r.op # "install"
      /\ Moved(c, [r EXCEPT !.at = "shell"])
  BY <1>1, MishapCounts DEF Forget, Step, tvars, Working
<1>3. /\ tmux' \in SomeSession /\ meta' \in SomeSession
      /\ dead' \subseteq {m \in Name : tmux'[m] # Gone}
      /\ \A m \in Name \ Names(c) : tmux'[m] \in {tmux[m], Gone} /\ meta'[m] = meta[m]
      /\ \A m \in Names(c) : meta'[m] \in Harness => meta'[m] \in Ever
  <2>1. CASE meta' = [meta EXCEPT ![r.n] = Gone]
    <3>1. /\ meta' = [meta EXCEPT ![r.n] = Gone] /\ dead' = dead /\ tmux' = tmux
          /\ r.n \in Name /\ Names(c) = {r.n}
      BY <1>1, <1>2, <2>1
    <3>2. Gone \in SessionKind \cup {Gone} /\ (Gone \in Harness => Gone \in Ever)
      BY SessionAssumption
    <3> HIDE DEF r
    <3> QED
      BY <3>1, <3>2, OwnRecordWritten
  <2>2. CASE meta' = meta
    BY <1>1, <1>2, <2>2, SessionTypes
  <2> QED
    BY <2>1, <2>2 DEF Forget
<1>4. [r EXCEPT !.at = "shell"] \in Request
  BY <1>1 DEF Request
<1>5. PICK s \in Request : s = [r EXCEPT !.at = "shell"]
  BY <1>4
<1>6. /\ Moved(c, s)
      /\ s.at = "shell" /\ s.op = r.op /\ s.n = r.n /\ s.to = Gone /\ s.h = Shell
  BY <1>1, <1>2, <1>5 DEF Request
<1>7. Shaped(s)
  BY <1>1, <1>6 DEF Shaped, WithSession, Reopens
<1>8. s.n \in Name \ mixed => TellsOld(s)'
  BY <1>1, <1>2, <1>6 DEF TellsOld
<1>9. /\ s.to \notin Name /\ {s.n, s.to} \cap Name \subseteq Names(c) /\ {} \in SUBSET Names(c)
      /\ Names(c) \subseteq {s.n, s.to} /\ s.h \notin Harness /\ s.op # "delete"
  BY <1>1, <1>6, SessionAssumption
<1> QED
  BY <1>2, <1>3, <1>6, <1>7, <1>8, <1>9, LoudStep

\* A request that goes on to its next step, having moved nothing.
LEMMA QuietGo ==
  ASSUME SessionsInv, NEW c \in Client, Working(c), request[c].op # "install",
         NEW at, To(c, at), Mixing({}), [request[c] EXCEPT !.at = at] \in Request,
         Shaped([request[c] EXCEPT !.at = at]), Tells([request[c] EXCEPT !.at = at]),
         UNCHANGED <<registry, boot, toInstall, dropped, stuck, binary, tmux, dead, meta>>,
         marks' = marks \/ marks' = [marks EXCEPT ![request[c].h] = "true"],
         mishaps' \in 0..MaxMishaps,
         request[c].op # "delete"
  PROVE  SessionsInv'
<1> DEFINE s == [request[c] EXCEPT !.at = at]
<1>1. Moved(c, s)
  BY DEF To, Moved
<1>2. /\ s.op = request[c].op /\ s.n = request[c].n /\ s.to = request[c].to
      /\ s.h = request[c].h
  BY RequestKnown DEF Request
<1>3. /\ s \in Request /\ Shaped(s) /\ Tells(s) /\ (s.h \in Harness => s.h \in Ever)
      /\ Names(c) = {s.n, s.to} \cap Name
  BY <1>2, RequestKnown
<1> HIDE DEF s
<1> QED
  BY <1>1, <1>2, <1>3, QuietStep

LEMMA ShellKeeps ==
  ASSUME SessionsInv, NEW c \in Client, CreateShell(c)
  PROVE  SessionsInv'
<1> DEFINE r == request[c]
<1>1. /\ r \in Request /\ r.at = "shell" /\ r.op \in Reopens /\ r.h = Shell
      /\ r.n \in Name /\ r.to = Gone /\ Names(c) = {r.n}
      /\ r.n \notin mixed => tmux[r.n] = Gone
      /\ r.n \notin mixed /\ r.op = "attach" => meta[r.n] = Shell \/ meta[r.n] \in dropped
  BY RequestKnown, SessionAssumption
     DEF CreateShell, Step, Shaped, WithNothing, WithSession, WithTwoNames, WithPlugin, Tells,
         TellsOld
<1>2. /\ UNCHANGED <<registry, boot, toInstall, dropped, stuck, dead, meta, marks, binary>>
      /\ Mixing({}) /\ mishaps' \in 0..MaxMishaps /\ Working(c) /\ r.op # "install"
  BY <1>1, MishapCounts DEF CreateShell, Step, tvars, Working, Reopens
<1>3. CASE Done(c) /\ tmux' = tmux
  BY <1>1, <1>2, <1>3, QuietEnd DEF Told
<1>4. ASSUME tmux' = [tmux EXCEPT ![r.n] = Shell]
      PROVE  /\ tmux' \in SomeSession /\ meta' \in SomeSession
             /\ dead' \subseteq {m \in Name : tmux'[m] # Gone}
             /\ \A m \in Name \ Names(c) : tmux'[m] \in {tmux[m], Gone} /\ meta'[m] = meta[m]
             /\ \A m \in Names(c) : meta'[m] \in Harness => meta'[m] \in Ever
             /\ tmux'[r.n] = Shell
  <2>1. /\ dead' = dead /\ meta' = meta /\ r.n \in Name /\ Names(c) = {r.n}
        /\ Shell \in SessionKind
    BY <1>1, <1>2 DEF SessionKind
  <2>2. PICK n \in Name : n = r.n
    BY <2>1
  <2> HIDE DEF r
  <2>3. Names(c) = {n} /\ tmux' = [tmux EXCEPT ![n] = Shell]
    BY <1>4, <2>1, <2>2
  <2>4. dead' = dead /\ meta' = meta /\ Shell \in SessionKind
    BY <2>1
  <2>5. OpensOwn(c, n, Shell)
    BY <2>3, <2>4, OwnSessionThere
  <2> QED
    BY <2>2, <2>5, Zenon DEF OpensOwn
<1>5. {} \in SUBSET Names(c)
  OBVIOUS
<1>6. CASE tmux' = [tmux EXCEPT ![r.n] = Shell] /\ r.op = "attach" /\ Moved(c, NoRequest)
  <2>1. \A n \in Names(c) \ mixed : Told(n)'
    BY <1>1, <1>2, <1>4, <1>6 DEF Told
  <2> QED
    BY <1>2, <1>4, <1>5, <1>6, <2>1, LoudEnd
<1>7. CASE /\ tmux' = [tmux EXCEPT ![r.n] = Shell] /\ r.op # "attach"
           /\ Moved(c, [r EXCEPT !.at = "record"])
  <2>1. [r EXCEPT !.at = "record"] \in Request
    BY <1>1 DEF Request
  <2>2. PICK s \in Request : s = [r EXCEPT !.at = "record"]
    BY <2>1
  <2>3. /\ Moved(c, s)
        /\ s.at = "record" /\ s.op = r.op /\ s.n = r.n /\ s.to = Gone /\ s.h = Shell
    BY <1>1, <1>7, <2>2 DEF Request
  <2>4. Shaped(s)
    BY <1>1, <1>7, <2>3 DEF Shaped, WithSession, Reopens, SessionKind
  <2>5. s.n \in Name \ mixed => TellsOld(s)'
    BY <1>4, <1>7, <2>3 DEF TellsOld
  <2>6. /\ s.to \notin Name /\ {s.n, s.to} \cap Name \subseteq Names(c)
        /\ Names(c) \subseteq {s.n, s.to} /\ s.h \notin Harness /\ s.op # "delete"
    BY <1>1, <2>3, SessionAssumption DEF Reopens
  <2> QED
    BY <1>2, <1>4, <1>5, <1>7, <2>3, <2>4, <2>5, <2>6, LoudStep
<1> QED
  BY <1>3, <1>6, <1>7 DEF CreateShell

LEMMA LaunchKeeps ==
  ASSUME SessionsInv, NEW c \in Client, LaunchNamed(c)
  PROVE  SessionsInv'
<1> DEFINE r == request[c]
<1>1. /\ r \in Request /\ r.at = "launch" /\ r.op \in Reopens \cup {"launch"} /\ r.h \in Harness
      /\ r.n \in Name /\ r.to = Gone /\ Names(c) = {r.n} /\ r.h \in Ever
      /\ r.n \notin mixed => Told(r.n)
      /\ r.n \notin mixed /\ r.op # "launch" => tmux[r.n] = Gone
      /\ r.n \notin mixed /\ r.op = "attach" => meta[r.n] = r.h
  <2>1. r.at = "launch"
    BY DEF LaunchNamed, Step
  <2>2. /\ r \in Request /\ Shaped(r) /\ Tells(r) /\ Names(c) = {r.n, r.to} \cap Name
        /\ r.h \in Harness => r.h \in Ever
    BY RequestKnown
  <2>3. /\ r.op \in Reopens \cup {"launch"} /\ r.h \in Harness
        /\ r.n \in Name /\ r.to = Gone
    BY <2>1, <2>2, SessionAssumption
       DEF Shaped, WithNothing, WithSession, WithTwoNames, WithPlugin
  <2>4. Names(c) = {r.n} /\ r.h \in Ever
    BY <2>2, <2>3, SessionAssumption
  <2>5. r.n \notin mixed => TellsOld(r)
    BY <2>2, <2>3 DEF Tells
  <2> HIDE DEF r
  <2>6. /\ r.n \notin mixed => Told(r.n)
        /\ r.n \notin mixed /\ r.op # "launch" => tmux[r.n] = Gone
        /\ r.n \notin mixed /\ r.op = "attach" => meta[r.n] = r.h
    BY <2>1, <2>5 DEF TellsOld, Told
  <2> QED
    BY <2>1, <2>2, <2>3, <2>4, <2>6
<1>2. /\ UNCHANGED <<registry, boot, toInstall, dropped, stuck, dead, meta, marks, binary>>
      /\ Mixing({}) /\ mishaps' \in 0..MaxMishaps /\ Working(c) /\ r.op # "install"
  BY <1>1, MishapCounts DEF LaunchNamed, Step, tvars, Working, Reopens
<1>3. CASE Done(c) /\ tmux' = tmux
  BY <1>1, <1>2, <1>3, QuietEnd
<1>4. CASE tmux[r.n] # Gone /\ r.op = "attach" /\ To(c, "mark") /\ tmux' = tmux
  <2> DEFINE s == [r EXCEPT !.at = "mark"]
  <2>1. s \in Request /\ s.at = "mark" /\ s.op = r.op /\ s.n = r.n /\ s.to = Gone /\ s.h = r.h
    BY <1>1 DEF Request
  <2> HIDE DEF s
  <2>2. Shaped(s) /\ Tells(s)
    BY <1>1, <1>4, <2>1, SessionAssumption DEF Shaped, WithSession, Tells
  <2> QED
    BY <1>2, <1>4, <2>1, <2>2, QuietGo DEF s
<1>5. CASE tmux' = [tmux EXCEPT ![r.n] = r.h] /\ Moved(c, [r EXCEPT !.at = "mark"])
  <2>1. [r EXCEPT !.at = "mark"] \in Request
    BY <1>1 DEF Request
  <2>2. PICK s \in Request : s = [r EXCEPT !.at = "mark"]
    BY <2>1
  <2>3. /\ Moved(c, s)
        /\ s.at = "mark" /\ s.op = r.op /\ s.n = r.n /\ s.to = Gone /\ s.h = r.h
    BY <1>1, <1>5, <2>2 DEF Request
  <2>4. /\ tmux' \in SomeSession /\ meta' \in SomeSession
        /\ dead' \subseteq {m \in Name : tmux'[m] # Gone}
        /\ \A m \in Name \ Names(c) : tmux'[m] \in {tmux[m], Gone} /\ meta'[m] = meta[m]
        /\ \A m \in Names(c) : meta'[m] \in Harness => meta'[m] \in Ever
        /\ tmux'[r.n] = r.h
    <3> DEFINE h == r.h
               n == r.n
    <3>1. /\ tmux' = [tmux EXCEPT ![n] = h] /\ dead' = dead /\ meta' = meta
          /\ n \in Name /\ Names(c) = {n} /\ h \in SessionKind
      BY <1>1, <1>2, <1>5 DEF SessionKind
    <3> HIDE DEF h, n
    <3>2. OpensOwn(c, n, h)
      BY <3>1, OwnSessionThere
    <3> QED
      BY <3>2, Zenon DEF OpensOwn, n, h
  <2>5. Shaped(s)
    BY <1>1, <2>3 DEF Shaped, WithSession
  <2>6. s.n \in Name \ mixed => TellsOld(s)'
    BY <1>1, <1>2, <2>3, <2>4 DEF TellsOld
  <2>7. /\ s.to \notin Name /\ {s.n, s.to} \cap Name \subseteq Names(c) /\ {} \in SUBSET Names(c)
        /\ Names(c) \subseteq {s.n, s.to} /\ s.h \in Ever /\ s.op # "delete"
    BY <1>1, <2>3, SessionAssumption DEF Reopens
  <2> QED
    BY <1>2, <2>3, <2>4, <2>5, <2>6, <2>7, LoudStep
<1> QED
  BY <1>3, <1>4, <1>5 DEF LaunchNamed

LEMMA MarkKeeps ==
  ASSUME SessionsInv, NEW c \in Client, request[c].op # "install", RecordInstall(c)
  PROVE  SessionsInv'
<1> DEFINE r == request[c]
<1>1. /\ r \in Request /\ r.at = "mark" /\ r.op \in Reopens \cup {"launch"} /\ r.h \in Harness
      /\ r.n \in Name /\ r.to = Gone /\ Names(c) = {r.n} /\ r.h \in Ever
      /\ r.n \notin mixed => tmux[r.n] \in {r.h, Gone}
      /\ r.n \notin mixed /\ r.op = "attach" => meta[r.n] = r.h
  BY RequestKnown, SessionAssumption
     DEF RecordInstall, Step, Shaped, WithNothing, WithSession, WithTwoNames, WithPlugin, Tells,
         TellsOld
<1>2. /\ UNCHANGED <<registry, boot, toInstall, dropped, stuck, tmux, dead, meta, binary>>
      /\ Mixing({}) /\ mishaps' \in 0..MaxMishaps /\ Working(c)
      /\ marks' = marks \/ marks' = [marks EXCEPT ![request[c].h] = "true"]
  BY <1>1, MishapCounts DEF RecordInstall, Step, tvars, Working
<1>3. CASE r.op = "attach" /\ Done(c)
  BY <1>1, <1>2, <1>3, QuietEnd DEF Told
<1>4. CASE r.op # "attach" /\ To(c, "record")
  <2> DEFINE s == [r EXCEPT !.at = "record"]
  <2>1. s \in Request /\ s.at = "record" /\ s.op = r.op /\ s.n = r.n /\ s.to = Gone /\ s.h = r.h
    BY <1>1 DEF Request
  <2> HIDE DEF s
  <2>2. Shaped(s) /\ Tells(s)
    BY <1>1, <1>4, <2>1, SessionAssumption
       DEF Shaped, WithSession, Tells, TellsOld, Reopens, SessionKind
  <2>3. r.op # "delete"
    BY <1>1 DEF Reopens
  <2> QED
    BY <1>2, <1>4, <2>1, <2>2, <2>3, QuietGo DEF s
<1> QED
  BY <1>3, <1>4 DEF RecordInstall

LEMMA RecordKeeps ==
  ASSUME SessionsInv, NEW c \in Client, RecordSession(c)
  PROVE  SessionsInv'
<1> DEFINE r == request[c]
<1>1. /\ r \in Request /\ r.at = "record" /\ r.h \in SessionKind /\ r.op # "install"
      /\ r.n \in Name /\ r.to = Gone /\ Names(c) = {r.n} /\ (r.h \in Harness => r.h \in Ever)
      /\ r.n \notin mixed => tmux[r.n] \in {r.h, Gone}
  BY RequestKnown, SessionAssumption
     DEF RecordSession, Step, Shaped, WithNothing, WithSession, WithTwoNames, WithPlugin, Tells,
         TellsOld
<1>2. /\ UNCHANGED <<registry, boot, toInstall, dropped, stuck, tmux, dead, marks, binary>>
      /\ mishaps' \in 0..MaxMishaps /\ Working(c) /\ Moved(c, NoRequest)
  BY <1>1, MishapCounts DEF RecordSession, Step, tvars, Working
<1>3. CASE meta' = [meta EXCEPT ![r.n] = r.h] /\ Mixing({})
  <2>1. /\ tmux' \in SomeSession /\ meta' \in SomeSession
        /\ dead' \subseteq {m \in Name : tmux'[m] # Gone}
        /\ \A m \in Name \ Names(c) : tmux'[m] \in {tmux[m], Gone} /\ meta'[m] = meta[m]
        /\ \A m \in Names(c) : meta'[m] \in Harness => meta'[m] \in Ever
        /\ meta'[r.n] = r.h
    <3> DEFINE h == r.h
               n == r.n
    <3>1. /\ meta' = [meta EXCEPT ![n] = h] /\ dead' = dead /\ tmux' = tmux
          /\ n \in Name /\ Names(c) = {n} /\ h \in SessionKind
          /\ h \notin Harness \/ h \in Ever
      BY <1>1, <1>2, <1>3
    <3> HIDE DEF h, n
    <3>2. /\ tmux' \in SomeSession /\ meta' \in SomeSession
          /\ dead' \subseteq {m \in Name : tmux'[m] # Gone}
          /\ \A m \in Name \ Names(c) : tmux'[m] \in {tmux[m], Gone} /\ meta'[m] = meta[m]
          /\ \A m \in Names(c) : meta'[m] \in Harness => meta'[m] \in Ever
          /\ meta'[n] = h
      BY <3>1, SessionTypes DEF SomeSession
    <3> QED
      BY <3>2 DEF n, h
  <2>2. \A n \in Names(c) \ mixed : Told(n)'
    BY <1>1, <1>2, <2>1 DEF Told
  <2>3. {} \in SUBSET Names(c)
    OBVIOUS
  <2> QED
    BY <1>1, <1>2, <1>3, <2>1, <2>2, <2>3, LoudEnd
<1>4. CASE meta' = meta /\ Mixing({r.n})
  <2>1. {r.n} \in SUBSET Names(c) /\ Names(c) \subseteq {r.n}
    BY <1>1
  <2>2. /\ tmux' \in SomeSession /\ meta' \in SomeSession
        /\ dead' \subseteq {m \in Name : tmux'[m] # Gone}
        /\ \A m \in Name \ Names(c) : tmux'[m] \in {tmux[m], Gone} /\ meta'[m] = meta[m]
        /\ \A m \in Names(c) : meta'[m] \in Harness => meta'[m] \in Ever
    BY <1>1, <1>2, <1>4, SessionTypes
  <2> QED
    BY <1>1, <1>2, <1>4, <2>1, <2>2, LoudEnd
<1> QED
  BY <1>3, <1>4 DEF RecordSession

LEMMA RemoveKeeps ==
  ASSUME SessionsInv, NEW c \in Client, RemoveSession(c)
  PROVE  SessionsInv'
<1> DEFINE r == request[c]
<1>1. /\ r \in Request /\ r.at = "remove" /\ r.op # "install"
      /\ r.n \in Name /\ Names(c) = {r.n, r.to} \cap Name
      /\ r.n \notin mixed => tmux[r.n] = Gone
      /\ r.to \in Name \ mixed => Told(r.to)
  BY RequestKnown, SessionAssumption
     DEF RemoveSession, Step, Shaped, WithNothing, WithSession, WithTwoNames, WithPlugin, Tells,
         TellsOld, TellsNew
<1>2. /\ UNCHANGED <<registry, boot, toInstall, dropped, stuck, tmux, dead, marks, binary>>
      /\ mishaps' \in 0..MaxMishaps /\ Working(c) /\ Moved(c, NoRequest) /\ Mixing({})
  BY <1>1, MishapCounts DEF RemoveSession, Step, tvars, Working
<1>3. /\ tmux' \in SomeSession /\ meta' \in SomeSession
      /\ dead' \subseteq {m \in Name : tmux'[m] # Gone}
      /\ \A m \in Name \ {r.n} : tmux'[m] \in {tmux[m], Gone} /\ meta'[m] = meta[m]
      /\ \A m \in Names(c) : meta'[m] \in Harness => meta'[m] \in Ever
  <2>1. CASE meta' = [meta EXCEPT ![r.n] = Gone]
    BY <1>1, <1>2, <2>1, RecordWritten, SessionAssumption
  <2>2. CASE meta' = meta
    BY <1>1, <1>2, <2>2, SessionTypes
  <2> QED
    BY <2>1, <2>2 DEF RemoveSession
<1>4. \A n \in Names(c) \ mixed : Told(n)'
  BY <1>1, <1>2, <1>3 DEF Told
<1>5. {} \in SUBSET Names(c) /\ Name \ Names(c) \subseteq Name \ {r.n}
  BY <1>1
<1> QED
  BY <1>1, <1>2, <1>3, <1>4, <1>5, LoudEnd

LEMMA MoveKeeps ==
  ASSUME SessionsInv, NEW c \in Client, MoveRecord(c)
  PROVE  SessionsInv'
<1> DEFINE r == request[c]
<1>1. /\ r \in Request /\ r.at = "move" /\ r.op = "rename"
      /\ r.n \in Name /\ r.to \in Name /\ r.n # r.to /\ Names(c) = {r.n, r.to}
      /\ r.n \notin mixed => tmux[r.n] = Gone
      /\ r.to \notin mixed => tmux[r.to] = Gone \/ meta[r.n] = tmux[r.to] \/ meta[r.n] \in dropped
      /\ r.h \in Harness => r.h \in Ever
  BY RequestKnown, SessionAssumption
     DEF MoveRecord, Step, Shaped, WithNothing, WithSession, WithTwoNames, WithPlugin, Tells,
         TellsOld, TellsNew
<1>2. /\ UNCHANGED <<registry, boot, toInstall, dropped, stuck, tmux, dead, marks, binary>>
      /\ mishaps' \in 0..MaxMishaps /\ Working(c)
  BY <1>1, MishapCounts DEF MoveRecord, Step, tvars, Working
<1>3. Gone \notin dropped
  BY SessionAssumption, SessionTypes
<1>4. CASE meta[r.n] = Gone
  <2>1. \A n \in Names(c) \ mixed : Told(n)
    BY <1>1, <1>3, <1>4 DEF Told
  <2> QED
    BY <1>1, <1>2, <1>4, <2>1, QuietEnd DEF MoveRecord
<1>5. CASE meta[r.n] # Gone
  <2>1. [r EXCEPT !.at = "remove"] \in Request
    BY <1>1 DEF Request
  <2>2. PICK s \in Request : s = [r EXCEPT !.at = "remove"]
    BY <2>1
  <2>3. /\ Moved(c, s)
        /\ s.at = "remove" /\ s.op = "rename" /\ s.n = r.n /\ s.to = r.to /\ s.h = r.h
    BY <1>1, <1>5, <2>2 DEF Request, MoveRecord
  <2>4. Shaped(s) /\ {s.n, s.to} \cap Name \subseteq Names(c) /\ Names(c) \subseteq {s.n, s.to}
    BY <1>1, <2>3 DEF Shaped, WithTwoNames
  <2>5. \/ meta' = [meta EXCEPT ![r.to] = meta[r.n]] /\ Mixing({})
        \/ meta' = meta /\ Mixing({r.to})
    BY <1>5 DEF MoveRecord
  <2>6. /\ tmux' \in SomeSession /\ meta' \in SomeSession
        /\ dead' \subseteq {m \in Name : tmux'[m] # Gone}
        /\ \A m \in Name \ {r.to} : tmux'[m] \in {tmux[m], Gone} /\ meta'[m] = meta[m]
        /\ \A m \in Names(c) : meta'[m] \in Harness => meta'[m] \in Ever
    <3>1. meta[r.n] \in SessionKind \cup {Gone} /\ (meta[r.n] \in Harness => meta[r.n] \in Ever)
      BY <1>1, SessionTypes DEF SomeSession
    <3>2. CASE meta' = [meta EXCEPT ![r.to] = meta[r.n]]
      BY <1>1, <1>2, <3>1, <3>2, RecordWritten
    <3>3. CASE meta' = meta
      BY <1>1, <1>2, <3>3, SessionTypes
    <3> QED
      BY <2>5, <3>2, <3>3
  <2>7. \A m \in Name \ Names(c) : tmux'[m] \in {tmux[m], Gone} /\ meta'[m] = meta[m]
    BY <1>1, <2>6
  <2>8. s.n \in Name \ mixed => TellsOld(s)'
    BY <1>1, <1>2, <2>3 DEF TellsOld
  <2>9. CASE meta' = [meta EXCEPT ![r.to] = meta[r.n]] /\ Mixing({})
    <3>1. meta'[r.to] = meta[r.n]
      BY <1>1, <2>9, SessionTypes DEF SomeSession
    <3>2. s.to \in Name \ mixed => TellsNew(s)'
      BY <1>1, <1>2, <2>3, <3>1 DEF TellsNew, Told
    <3>3. {} \in SUBSET Names(c)
      OBVIOUS
    <3> QED
      BY <1>1, <1>2, <2>3, <2>4, <2>6, <2>7, <2>8, <2>9, <3>2, <3>3, LoudStep
  <2>10. CASE meta' = meta /\ Mixing({r.to})
    <3>1. {r.to} \in SUBSET Names(c) /\ s.to \in {r.to}
      BY <1>1, <2>3
    <3> QED
      BY <1>1, <1>2, <2>3, <2>4, <2>6, <2>7, <2>8, <2>10, <3>1, LoudStep
  <2> QED
    BY <2>5, <2>9, <2>10
<1> QED
  BY <1>4, <1>5

LEMMA RenameKeeps ==
  ASSUME SessionsInv, NEW c \in Client, RenameSession(c)
  PROVE  SessionsInv'
<1> DEFINE r == request[c]
<1>1. /\ r \in Request /\ r.at = "rename" /\ r.op = "rename"
      /\ r.n \in Name /\ r.to \in Name /\ r.n # r.to /\ Names(c) = {r.n, r.to}
      /\ r.n \notin mixed => Told(r.n)
      /\ r.to \notin mixed => Told(r.to)
      /\ r.h \in Harness => r.h \in Ever
  BY RequestKnown, SessionAssumption
     DEF RenameSession, Step, Shaped, WithNothing, WithSession, WithTwoNames, WithPlugin, Tells,
         TellsOld, TellsNew
<1>2. /\ UNCHANGED <<registry, boot, toInstall, dropped, stuck, meta, marks, binary>>
      /\ mishaps' \in 0..MaxMishaps /\ Working(c)
  BY <1>1, MishapCounts DEF RenameSession, Step, tvars, Working
<1>3. CASE Done(c) /\ tmux' = tmux /\ dead' = dead /\ Mixing({})
  BY <1>1, <1>2, <1>3, QuietEnd
<1>4. ASSUME NEW m \in Hits(r.n), tmux[r.to] = Gone,
             tmux' = [tmux EXCEPT ![r.to] = tmux[m], ![m] = Gone],
             dead' = {IF n = m THEN r.to ELSE n : n \in dead},
             Moved(c, [r EXCEPT !.at = "move"]),
             Mixing(IF m # r.n \/ r.n \in mixed THEN {r.to} ELSE {})
      PROVE  SessionsInv'
  <2>1. [r EXCEPT !.at = "move"] \in Request
    BY <1>1 DEF Request
  <2>2. PICK s \in Request : s = [r EXCEPT !.at = "move"]
    BY <2>1
  <2>3. /\ Moved(c, s)
        /\ s.at = "move" /\ s.op = "rename" /\ s.n = r.n /\ s.to = r.to /\ s.h = r.h
    BY <1>1, <1>4, <2>2 DEF Request
  <2>4. Shaped(s) /\ {s.n, s.to} \cap Name \subseteq Names(c) /\ Names(c) \subseteq {s.n, s.to}
    BY <1>1, <2>3 DEF Shaped, WithTwoNames
  <2>5. m \in Name /\ tmux[m] # Gone /\ m # r.to /\ (tmux[r.n] = Gone \/ m = r.n)
    BY <1>1, <1>4, HitsKnown
  <2>6. /\ tmux' \in SomeSession
        /\ tmux'[m] = Gone /\ tmux'[r.to] = tmux[m]
        /\ \A k \in Name \ {m, r.to} : tmux'[k] = tmux[k]
    BY <1>1, <1>4, <2>5, SessionTypes DEF SomeSession
  <2>7. dead' \subseteq {k \in Name : tmux'[k] # Gone}
    <3>1. ASSUME NEW n \in dead
          PROVE  (IF n = m THEN r.to ELSE n) \in {k \in Name : tmux'[k] # Gone}
      <4>1. n \in Name /\ tmux[n] # Gone
        BY SessionTypes
      <4> QED
        BY <1>1, <1>4, <2>5, <2>6, <4>1
    <3> QED
      BY <1>4, <3>1
  <2>8. /\ meta' \in SomeSession
        /\ \A k \in Name \ Names(c) : tmux'[k] \in {tmux[k], Gone} /\ meta'[k] = meta[k]
        /\ \A k \in Names(c) : meta'[k] \in Harness => meta'[k] \in Ever
    BY <1>1, <1>2, <2>6, SessionTypes
  <2>9. TellsOld(s)'
    <3>1. tmux'[r.n] = Gone
      BY <1>1, <1>4, <2>5, <2>6
    <3> QED
      BY <2>3, <3>1 DEF TellsOld
  <2>10. CASE Mixing({r.to})
    <3>1. {r.to} \in SUBSET Names(c) /\ s.to \in {r.to}
      BY <1>1, <2>3
    <3> QED
      BY <1>1, <1>2, <2>3, <2>4, <2>6, <2>7, <2>8, <2>9, <2>10, <3>1, LoudStep
  <2>11. CASE m = r.n /\ r.n \notin mixed /\ Mixing({})
    <3>1. {} \in SUBSET Names(c)
      OBVIOUS
    <3>2. TellsNew(s)'
      BY <1>1, <1>2, <2>3, <2>5, <2>6, <2>11 DEF TellsNew, Told
    <3> QED
      BY <1>1, <1>2, <2>3, <2>4, <2>6, <2>7, <2>8, <2>9, <2>11, <3>1, <3>2, LoudStep
  <2> QED
    BY <1>4, <2>10, <2>11
<1>5. \/ Done(c) /\ tmux' = tmux /\ dead' = dead /\ Mixing({})
      \/ \E m \in Hits(r.n) :
           /\ tmux[r.to] = Gone
           /\ tmux' = [tmux EXCEPT ![r.to] = tmux[m], ![m] = Gone]
           /\ dead' = {IF n = m THEN r.to ELSE n : n \in dead}
           /\ Moved(c, [r EXCEPT !.at = "move"])
           /\ Mixing(IF m # r.n \/ r.n \in mixed THEN {r.to} ELSE {})
  BY DEF RenameSession, tvars
<1> QED
  BY <1>3, <1>4, <1>5

-----------------------------------------------------------------------------
(* Requests that begin, installs, the boot and mishaps                     *)

\* A name on which no request is at work tells, and so does one that is met nowhere else.
LEMMA OpenKeeps ==
  ASSUME SessionsInv, NEW c \in Client, NEW r \in Request, Open(c, r), Shaped(r),
         r.h \in Harness => r.h \in registry,
         r.n \in Name => r.at \in {"exists", "look", "kill", "count"}
                           \/ (r.at = "launch" /\ r.op = "launch"),
         r.to \in Name => r.at = "look",
         r.op = "attach" => r.at = "exists"
  PROVE  SessionsInv'
<1> DEFINE own == {r.n, r.to} \ {Gone}
           met == {d \in Client : Names(d) \cap own # {}}
<1>1. /\ boot = "served" /\ request[c].at = "idle"
      /\ request' = [request EXCEPT ![c] = r]
      /\ mixed' = IF met = {} THEN mixed ELSE mixed \cup own \cup UNION {Names(d) : d \in met}
      /\ UNCHANGED <<tmux, dead, meta, registry, marks, binary, boot, toInstall, mishaps, dropped,
                     stuck>>
  BY DEF Open, Working, tvars
<1> HIDE DEF met
<1>2. SessionsTypeOK
  BY DEF SessionsInv
<1>3. WithNothing(request[c]) /\ Names(c) = {}
  BY <1>1, RequestKnown DEF Shaped, WithNothing, WithSession, WithTwoNames, WithPlugin, Names
<1>4. /\ request' \in [Client -> Request] /\ request'[c] = r
      /\ \A d \in Client \ {c} : request'[d] = request[d]
  BY <1>1, <1>2 DEF SessionsTypeOK
<1>5. /\ Names(c)' = own /\ own \subseteq Name
      /\ \A d \in Client \ {c} : Names(d)' = Names(d)
  BY <1>4, SessionAssumption
     DEF Names, Shaped, WithNothing, WithSession, WithTwoNames, WithPlugin
<1>6. \A d \in Client : Names(d) \subseteq Name
  BY NamesKnown DEF SessionsInv
<1>7. mixed \subseteq mixed' /\ mixed' \subseteq Name
  <2>1. UNION {Names(d) : d \in met} \subseteq Name
    BY <1>6 DEF met
  <2>2. mixed \subseteq Name
    BY <1>2 DEF SessionsTypeOK
  <2>3. mixed' = mixed \/ mixed' = mixed \cup own \cup UNION {Names(d) : d \in met}
    BY <1>1
  <2> QED
    BY <1>5, <2>1, <2>2, <2>3
<1>8. \A d \in Client : Names(d) \cap own # {} => own \cup Names(d) \subseteq mixed'
  <2> SUFFICES ASSUME NEW d \in Client, Names(d) \cap own # {}
               PROVE  own \cup Names(d) \subseteq mixed'
    OBVIOUS
  <2>1. d \in met
    BY DEF met
  <2> QED
    BY <1>1, <2>1
<1>9. SessionsTypeOK'
  BY <1>1, <1>2, <1>4, <1>7 DEF SessionsTypeOK
<1>10. \A d \in Client : Shaped(request'[d])
  BY <1>4 DEF SessionsInv
<1>11. PluginsKnown'
  BY <1>1, <1>4 DEF SessionsInv, PluginsKnown, Ever
<1>12. Apart'
  BY <1>5, <1>7, <1>8 DEF SessionsInv, Apart
<1>13. \A n \in Name \ mixed : ~InUse(n) => Told(n)
  BY DEF SessionsInv, AtRestTold
<1>14. AtRestTold'
  <2> SUFFICES ASSUME NEW n \in Name, n \notin mixed', ~InUse(n)'
               PROVE  Told(n)'
    BY DEF AtRestTold
  <2>1. n \notin mixed /\ ~InUse(n)
    BY <1>3, <1>5, <1>7 DEF InUse
  <2> QED
    BY <1>1, <1>13, <2>1 DEF Told
<1>15. \A n \in own \ mixed' : Told(n)
  <2> SUFFICES ASSUME NEW n \in own, n \notin mixed'
               PROVE  Told(n)
    OBVIOUS
  <2>1. ~InUse(n)
    BY <1>8 DEF InUse
  <2> QED
    BY <1>5, <1>7, <1>13, <2>1
<1>16. Tells(r)'
  BY <1>1, <1>15, SessionAssumption DEF Tells, TellsOld, TellsNew, Told
<1>17. RequestsTell'
  <2> SUFFICES ASSUME NEW d \in Client, d # c
               PROVE  Tells(request[d])'
    BY <1>4, <1>16 DEF RequestsTell
  <2>1. Tells(request[d])
    BY DEF SessionsInv, RequestsTell
  <2> QED
    BY <1>1, <1>4, <1>7, <2>1 DEF Tells, TellsOld, TellsNew, Told
<1>19. StartInv'
  <2> SUFFICES ASSUME NEW h \in Harness, marks[h] = "installing"
               PROVE  MarkStands(h)'
    BY <1>1 DEF StartInv
  <2>1. MarkStands(h)
    BY <1>1 DEF SessionsInv, StartInv
  <2>2. ASSUME NEW d \in Client, Installs(d, h)
        PROVE  Installs(d, h)'
    <3>1. d # c
      BY <1>3, <2>2 DEF Installs, WithNothing
    <3> QED
      BY <1>4, <2>2, <3>1 DEF Installs
  <2> QED
    BY <1>1, <2>1, <2>2 DEF MarkStands
<1> QED
  BY <1>9, <1>10, <1>11, <1>12, <1>14, <1>17, <1>19 DEF SessionsInv

LEMMA RequestKeeps ==
  ASSUME SessionsInv, NEW c \in Client, SessionRequest(c)
  PROVE  SessionsInv'
<1>1. ASSUME NEW s \in Request, Open(c, s), s.n \in Name, s.to = Gone, s.h = Gone,
             \/ s.at = "exists" /\ s.op \in {"attach", "ensure"}
             \/ s.at = "kill" /\ s.op \in {"kill", "restart"}
             \/ s.at = "count" /\ s.op = "delete"
      PROVE  SessionsInv'
  <2>1. Shaped(s)
    BY <1>1 DEF Shaped, WithSession
  <2> QED
    BY <1>1, <2>1, OpenKeeps, SessionAssumption
<1>2. ASSUME NEW n \in Name, NEW h \in Harness, LaunchHarness(c, n, h)
      PROVE  SessionsInv'
  <2> DEFINE s == [NoRequest EXCEPT !.op = "launch", !.at = "launch", !.n = n, !.h = h]
  <2>1. /\ s \in Request /\ s.op = "launch" /\ s.at = "launch" /\ s.n = n /\ s.to = Gone /\ s.h = h
    BY DEF NoRequest, Request, SessionKind
  <2>2. Open(c, s) /\ h \in registry
    BY <1>2 DEF LaunchHarness
  <2> HIDE DEF s
  <2>3. Shaped(s)
    BY <2>1 DEF Shaped, WithSession
  <2> QED
    BY <2>1, <2>2, <2>3, OpenKeeps, SessionAssumption
<1>3. ASSUME NEW n \in Name, NEW m \in Name \ {n}, Rename(c, n, m)
      PROVE  SessionsInv'
  <2> DEFINE s == [NoRequest EXCEPT !.op = "rename", !.at = "look", !.n = n, !.to = m]
  <2>1. /\ s \in Request /\ s.op = "rename" /\ s.at = "look" /\ s.n = n /\ s.to = m /\ s.h = Gone
    BY DEF NoRequest, Request
  <2>2. Open(c, s)
    BY <1>3 DEF Rename
  <2> HIDE DEF s
  <2>3. Shaped(s)
    BY <2>1 DEF Shaped, WithTwoNames
  <2> QED
    BY <2>1, <2>2, <2>3, OpenKeeps, SessionAssumption
<1>4. ASSUME NEW h \in Harness, Install(c, h) \/ Repair(c, h)
      PROVE  SessionsInv'
  <2>1. PICK op \in {"install", "repair"}, at \in {"mark", "run", "note"} :
          /\ op = "repair" => at \in {"run", "note"}
          /\ Open(c, [NoRequest EXCEPT !.op = op, !.at = at, !.h = h])
    <3>1. CASE Install(c, h)
      BY <3>1 DEF Install
    <3>2. CASE Repair(c, h) /\ h \in binary
      <4>1. Open(c, [NoRequest EXCEPT !.op = "repair", !.at = "note", !.h = h])
        BY <3>2 DEF Repair, NoRequest
      <4> QED
        BY <4>1
    <3>3. CASE Repair(c, h) /\ h \notin binary
      <4>1. Open(c, [NoRequest EXCEPT !.op = "repair", !.at = "run", !.h = h])
        BY <3>3 DEF Repair, NoRequest
      <4> QED
        BY <4>1
    <3> QED
      BY <1>4, <3>1, <3>2, <3>3
  <2> DEFINE s == [NoRequest EXCEPT !.op = op, !.at = at, !.h = h]
  <2>2. s \in Request /\ s.op = op /\ s.at = at /\ s.n = Gone /\ s.to = Gone /\ s.h = h
    BY DEF NoRequest, Request, SessionKind
  <2>3. Open(c, s) /\ h \in registry
    BY <1>4, <2>1 DEF Install, Repair
  <2> HIDE DEF s
  <2>4. Shaped(s)
    BY <2>1, <2>2 DEF Shaped, WithPlugin
  <2> QED
    BY <2>2, <2>3, <2>4, OpenKeeps, SessionAssumption
<1>5. ASSUME NEW n \in Name, Attach(c, n)
      PROVE  SessionsInv'
  <2> DEFINE s == [NoRequest EXCEPT !.op = "attach", !.at = "exists", !.n = n]
  <2>1. s \in Request /\ s.op = "attach" /\ s.at = "exists" /\ s.n = n /\ s.to = Gone /\ s.h = Gone
    BY DEF NoRequest, Request
  <2>2. Open(c, s)
    BY <1>5 DEF Attach
  <2> HIDE DEF s
  <2> QED
    BY <1>1, <2>1, <2>2
<1>6. ASSUME NEW n \in Name, Kill(c, n)
      PROVE  SessionsInv'
  <2> DEFINE s == [NoRequest EXCEPT !.op = "kill", !.at = "kill", !.n = n]
  <2>1. s \in Request /\ s.op = "kill" /\ s.at = "kill" /\ s.n = n /\ s.to = Gone /\ s.h = Gone
    BY DEF NoRequest, Request
  <2>2. Open(c, s)
    BY <1>6 DEF Kill
  <2> HIDE DEF s
  <2> QED
    BY <1>1, <2>1, <2>2
<1>7. ASSUME NEW n \in Name, DeleteSession(c, n)
      PROVE  SessionsInv'
  <2> DEFINE s == [NoRequest EXCEPT !.op = "delete", !.at = "count", !.n = n]
  <2>1. s \in Request /\ s.op = "delete" /\ s.at = "count" /\ s.n = n /\ s.to = Gone /\ s.h = Gone
    BY DEF NoRequest, Request
  <2>2. Open(c, s)
    BY <1>7 DEF DeleteSession
  <2> HIDE DEF s
  <2> QED
    BY <1>1, <2>1, <2>2
<1>8. ASSUME NEW n \in Name, RestartSession(c, n)
      PROVE  SessionsInv'
  <2> DEFINE s == [NoRequest EXCEPT !.op = "restart", !.at = "kill", !.n = n]
  <2>1. s \in Request /\ s.op = "restart" /\ s.at = "kill" /\ s.n = n /\ s.to = Gone /\ s.h = Gone
    BY DEF NoRequest, Request
  <2>2. Open(c, s)
    BY <1>8 DEF RestartSession
  <2> HIDE DEF s
  <2> QED
    BY <1>1, <2>1, <2>2
<1>9. ASSUME NEW n \in Name, NEW new \in BOOLEAN, Ensure(c, n, new)
      PROVE  SessionsInv'
  <2> DEFINE s == [NoRequest EXCEPT !.op = "ensure", !.at = "exists", !.n = n, !.new = new]
  <2>1. s \in Request /\ s.op = "ensure" /\ s.at = "exists" /\ s.n = n /\ s.to = Gone /\ s.h = Gone
    BY DEF NoRequest, Request
  <2>2. Open(c, s)
    BY <1>9 DEF Ensure
  <2> HIDE DEF s
  <2> QED
    BY <1>1, <2>1, <2>2
<1>10. \A n \in Name : {FALSE, n # MainName} \subseteq BOOLEAN
  BY Zenon
<1> QED
  BY <1>2, <1>3, <1>4, <1>5, <1>6, <1>7, <1>8, <1>9, <1>10 DEF SessionRequest

\* A step of an install or of a repair, which has no session.
LEMMA PluginSteps ==
  ASSUME SessionsInv, NEW c \in Client, WithPlugin(request[c]),
         NEW s \in Request, Shaped(s), s.n = Gone, s.to = Gone,
         s.h \in Harness => s.h = request[c].h,
         request' = [request EXCEPT ![c] = s],
         UNCHANGED <<tmux, dead, meta, mixed, registry, boot, toInstall, dropped>>,
         marks' \in [Harness -> {"none", "installing", "true"}], binary' \subseteq Harness,
         mishaps' \in 0..MaxMishaps, stuck' \subseteq Harness,
         \A h \in Harness : marks'[h] = "installing"
           => \/ s.op = "install" /\ s.h = h
              \/ h \in stuck'
              \/ marks[h] = "installing" /\ ~Installs(c, h) /\ h \notin stuck
  PROVE  SessionsInv'
<1>1. SessionsTypeOK /\ Names(c) = {} /\ Working(c)
  BY DEF SessionsInv, Names, WithPlugin, Working
<1>2. /\ request' \in [Client -> Request] /\ request'[c] = s
      /\ \A d \in Client \ {c} : request'[d] = request[d]
  BY <1>1 DEF SessionsTypeOK
<1>3. s.h \in Harness => s.h \in Ever
  BY DEF SessionsInv, PluginsKnown
<1>4. StepTo(c, s)
  BY <1>1, <1>2, <1>3, SessionTypes, SessionAssumption DEF StepTo, SessionsInv, Ever
<1>5. OwnTold(c, s)
  <2>1. s.op # "delete"
    BY SessionAssumption DEF Shaped, WithNothing, WithSession, WithTwoNames, WithPlugin
  <2> QED
    BY <1>1, <2>1, SessionAssumption DEF OwnTold, Tells
<1>6. SessionsTypeOK'
  BY <1>1, <1>2 DEF SessionsTypeOK
<1>7. boot = "served"
  BY <1>1 DEF SessionsInv, StartInv, Working, WithNothing
<1>8. ASSUME NEW h \in Harness, marks'[h] = "installing"
      PROVE  MarkStands(h)'
  <2>1. CASE s.op = "install" /\ s.h = h
    BY <1>2, <2>1 DEF Installs, MarkStands
  <2>2. CASE marks[h] = "installing" /\ ~Installs(c, h) /\ h \notin stuck
    <3>1. MarkStands(h)
      BY <1>7, <2>2 DEF SessionsInv, StartInv
    <3>2. PICK d \in Client : Installs(d, h)
      BY <2>2, <3>1 DEF MarkStands
    <3> QED
      BY <1>2, <2>2, <3>2 DEF Installs, MarkStands
  <2>3. CASE h \in stuck'
    BY <2>3 DEF MarkStands
  <2> QED
    BY <1>8, <2>1, <2>2, <2>3
<1> QED
  BY <1>1, <1>4, <1>5, <1>6, <1>8, StepKeeps

LEMMA InstallKeeps ==
  ASSUME SessionsInv, NEW c \in Client,
         \/ request[c].op = "install" /\ RecordInstalling(c)
         \/ RunInstall(c) \/ NoteInstall(c) \/ ClearInstalling(c)
  PROVE  SessionsInv'
<1> DEFINE r == request[c]
<1>1. r.at \in {"mark", "run", "note", "clear"} /\ (r.at = "mark" => r.op = "install")
  BY DEF RecordInstalling, RunInstall, NoteInstall, ClearInstalling, Step
<1>2. r \in Request /\ WithPlugin(r) /\ r.h \in Harness
  BY <1>1, RequestKnown DEF Shaped, WithNothing, WithSession, WithTwoNames, WithPlugin, Reopens
<1>3. /\ UNCHANGED <<tmux, dead, meta, mixed, registry, boot, toInstall, dropped>>
      /\ mishaps' \in 0..MaxMishaps
  BY MishapCounts DEF RecordInstalling, RunInstall, NoteInstall, ClearInstalling, Step, tvars
<1>4. /\ marks \in [Harness -> {"none", "installing", "true"}] /\ binary \subseteq Harness
      /\ stuck \subseteq Harness
  BY SessionTypes
<1>5. ASSUME NEW at \in {"run", "note", "clear"}, To(c, at), stuck' = stuck,
             at \in {"run", "clear"} => r.op = "install",
             marks' \in [Harness -> {"none", "installing", "true"}], binary' \subseteq Harness,
             \A h \in Harness : marks'[h] = "installing" => h = r.h \/ marks[h] = "installing"
      PROVE  r.op = "install" => SessionsInv'
  <2> SUFFICES ASSUME r.op = "install"
               PROVE  SessionsInv'
    OBVIOUS
  <2> DEFINE s == [r EXCEPT !.at = at]
  <2>1. /\ s \in Request /\ s.at = at /\ s.op = "install" /\ s.h = r.h
        /\ s.n = Gone /\ s.to = Gone
    BY <1>2 DEF Request, WithPlugin
  <2>2. request' = [request EXCEPT ![c] = s]
    BY <1>5 DEF To
  <2> HIDE DEF s
  <2>3. Shaped(s)
    BY <1>2, <2>1 DEF Shaped, WithPlugin
  <2>4. \A h \in Harness : marks'[h] = "installing"
          => \/ s.op = "install" /\ s.h = h
             \/ h \in stuck'
             \/ marks[h] = "installing" /\ ~Installs(c, h) /\ h \notin stuck
    <3> SUFFICES ASSUME NEW h \in Harness, marks'[h] = "installing", h # r.h
                 PROVE  marks[h] = "installing" /\ ~Installs(c, h)
      BY <1>5, <2>1
    <3> QED
      BY <1>5 DEF Installs
  <2> QED
    BY <1>2, <1>3, <1>4, <1>5, <2>1, <2>2, <2>3, <2>4, PluginSteps
<1>6. ASSUME Done(c), stuck' \subseteq Harness, stuck \subseteq stuck' \cup {r.h},
             marks' \in [Harness -> {"none", "installing", "true"}], binary' \subseteq Harness,
             \A h \in Harness : marks'[h] = "installing"
               => h \in stuck' \/ (marks[h] = "installing" /\ (h = r.h => r.op = "repair" /\ stuck' = stuck))
      PROVE  SessionsInv'
  <2>1. /\ NoRequest \in Request /\ Shaped(NoRequest) /\ NoRequest.n = Gone /\ NoRequest.to = Gone
        /\ NoRequest.h \notin Harness
    BY SessionAssumption DEF NoRequest, Request, Shaped, WithNothing
  <2>2. \A h \in Harness : marks'[h] = "installing"
          => \/ h \in stuck'
             \/ marks[h] = "installing" /\ ~Installs(c, h) /\ h \notin stuck
    BY <1>6 DEF Installs
  <2> QED
    BY <1>2, <1>3, <1>6, <2>1, <2>2, PluginSteps DEF Done, Moved
<1>7. r.op \in {"install", "repair"}
  BY <1>2 DEF WithPlugin
<1>8. CASE r.op = "install" /\ RecordInstalling(c)
  <2>1. To(c, "run") /\ binary' = binary /\ stuck' = stuck
    BY <1>8 DEF RecordInstalling, Step
  <2>2. \/ marks' = [marks EXCEPT ![r.h] = IF marks[r.h] = "true" THEN marks[r.h] ELSE "installing"]
        \/ marks' = marks
    BY <1>8 DEF RecordInstalling
  <2>3. /\ marks' \in [Harness -> {"none", "installing", "true"}]
        /\ \A h \in Harness : marks'[h] = "installing" => h = r.h \/ marks[h] = "installing"
    BY <1>2, <1>4, <2>2
  <2> QED
    BY <1>4, <1>5, <1>8, <2>1, <2>3
<1>9. CASE RunInstall(c)
  <2>1. /\ binary' = binary \/ binary' = binary \cup {r.h}
        /\ marks' = marks /\ stuck' = stuck
        /\ IF r.op = "repair" THEN Done(c) ELSE To(c, "note") \/ To(c, "clear")
    BY <1>9 DEF RunInstall, Step
  <2>2. binary' \subseteq Harness
    BY <1>2, <1>4, <2>1
  <2>3. CASE r.op = "repair"
    BY <1>4, <1>6, <2>1, <2>2, <2>3
  <2>4. CASE r.op = "install"
    BY <1>4, <1>5, <2>1, <2>2, <2>4
  <2> QED
    BY <1>7, <2>3, <2>4
<1>10. CASE NoteInstall(c)
  <2>1. /\ marks' = marks \/ marks' = [marks EXCEPT ![r.h] = "true"]
        /\ binary' = binary /\ stuck' = stuck
        /\ IF r.op = "repair" THEN Done(c) ELSE To(c, "clear")
    BY <1>10 DEF NoteInstall, Step
  <2>2. /\ marks' \in [Harness -> {"none", "installing", "true"}]
        /\ \A h \in Harness : marks'[h] = "installing" => marks[h] = "installing"
    BY <1>4, <2>1
  <2>3. CASE r.op = "repair"
    BY <1>4, <1>6, <2>1, <2>2, <2>3
  <2>4. CASE r.op = "install"
    BY <1>4, <1>5, <2>1, <2>2, <2>4
  <2> QED
    BY <1>7, <2>3, <2>4
<1>11. CASE ClearInstalling(c)
  <2>1. /\ \/ /\ marks' = [marks EXCEPT ![r.h] = IF marks[r.h] = "installing"
                                                  THEN "none" ELSE marks[r.h]]
              /\ stuck' = stuck \ {r.h}
           \/ marks' = marks /\ stuck' = stuck \cup {r.h}
        /\ binary' = binary /\ Done(c)
    BY <1>11 DEF ClearInstalling
  <2>2. /\ marks' \in [Harness -> {"none", "installing", "true"}]
        /\ stuck' \subseteq Harness /\ stuck \subseteq stuck' \cup {r.h}
        /\ \A h \in Harness : marks'[h] = "installing"
             => h \in stuck' \/ (marks[h] = "installing" /\ h # r.h)
    BY <1>2, <1>4, <2>1
  <2> QED
    BY <1>4, <1>6, <2>1, <2>2
<1> QED
  BY <1>8, <1>9, <1>10, <1>11

\* The steps that move no request, no session and no record.
LEMMA CalmKeeps ==
  ASSUME SessionsInv, UNCHANGED <<tmux, dead, meta, request, mixed>>,
         dropped \subseteq dropped', Ever \subseteq Ever', SessionsTypeOK', StartInv'
  PROVE  SessionsInv'
<1>1. \A c \in Client : Shaped(request'[c])
  BY DEF SessionsInv
<1>2. PluginsKnown'
  BY DEF SessionsInv, PluginsKnown
<1>3. Apart'
  BY DEF SessionsInv, Apart, Names
<1>4. AtRestTold'
  BY DEF SessionsInv, AtRestTold, InUse, Names, Told
<1>5. RequestsTell'
  BY DEF SessionsInv, RequestsTell, Tells, TellsOld, TellsNew, Told
<1> QED
  BY <1>1, <1>2, <1>3, <1>4, <1>5 DEF SessionsInv

LEMMA RegistryKeeps ==
  ASSUME SessionsInv, NEW h \in Harness, SaveHarness(h) \/ RemoveHarness(h) \/ BootInstall(h)
  PROVE  SessionsInv'
<1>1. UNCHANGED <<tmux, dead, meta, request, mixed, marks, stuck>> /\ dropped \subseteq dropped'
  BY DEF SaveHarness, RemoveHarness, BootInstall, tvars
<1>2. Ever \subseteq Ever'
  BY DEF SaveHarness, RemoveHarness, BootInstall, Ever
<1>3. mishaps' \in 0..MaxMishaps
  BY MishapCounts DEF SaveHarness, RemoveHarness, BootInstall, NoMishap
<1>4. SessionsTypeOK'
  BY <1>1, <1>3
     DEF SaveHarness, RemoveHarness, BootInstall, Bumpy, SessionsInv, SessionsTypeOK
<1>5. StartInv'
  <2>1. CASE boot = "served" /\ boot' = "served"
    BY <1>1, <2>1 DEF SessionsInv, StartInv, Installs, MarkStands
  <2>2. CASE BootInstall(h)
    BY <1>1, <2>2 DEF BootInstall, Bumpy, SessionsInv, StartInv, Installs, MarkStands
  <2> QED
    BY <2>1, <2>2 DEF SaveHarness, RemoveHarness
<1> QED
  BY <1>1, <1>2, <1>4, <1>5, CalmKeeps

LEMMA BootKeeps ==
  ASSUME SessionsInv, BootClear \/ BootServe \/ UNCHANGED svars
  PROVE  SessionsInv'
<1>1. /\ UNCHANGED <<tmux, dead, meta, request, mixed, binary>> /\ mishaps' \in 0..MaxMishaps
      /\ dropped' = dropped /\ registry \subseteq registry'
  BY MishapCounts DEF BootClear, BootServe, NoMishap, svars, tvars
<1>2. SessionsTypeOK'
  BY <1>1, SessionAssumption DEF BootClear, BootServe, svars, SessionsInv, SessionsTypeOK
<1>3. CASE BootClear
  <2>1. \A h \in Harness : /\ marks'[h] = "installing" => h \in stuck'
                           /\ marks'[h] = "true" => h \in toInstall'
    BY <1>3 DEF BootClear
  <2>2. boot' = "install" /\ registry' \subseteq Harness
    BY <1>3, SessionAssumption DEF BootClear, SessionsInv, SessionsTypeOK
  <2>3. StartInv'
    BY <1>1, <1>3, <2>1, <2>2 DEF BootClear, SessionsInv, StartInv, MarkStands
  <2> QED
    BY <1>1, <1>2, <2>3, CalmKeeps DEF Ever
<1>4. CASE BootServe \/ UNCHANGED svars
  <2>1. StartInv'
    BY <1>1, <1>4 DEF BootServe, svars, SessionsInv, StartInv, Installs, MarkStands
  <2> QED
    BY <1>1, <1>2, <2>1, CalmKeeps DEF Ever
<1> QED
  BY <1>3, <1>4

\* Sessions that end under the requests.
LEMMA SessionsEndKeep ==
  ASSUME SessionsInv, Mixing({}),
         UNCHANGED <<request, meta, registry, dropped, marks, toInstall, stuck>>,
         mishaps' \in 0..MaxMishaps,
         tmux' \in SomeSession, dead' \subseteq {n \in Name : tmux'[n] # Gone},
         \A n \in Name : tmux'[n] \in {tmux[n], Gone},
         binary' \subseteq Harness, boot' \in {boot, "bumpy"},
         boot' # boot => boot = "install",
         boot' = "install" => binary' = binary
  PROVE  SessionsInv'
<1>1. SessionsTypeOK
  BY DEF SessionsInv
<1>2. /\ mixed' \subseteq mixed
      /\ \A n \in mixed : n \in mixed' \/ (~InUse(n)' /\ Told(n)')
  BY MixingIs
<1>3. \A n : InUse(n)' <=> InUse(n)
  BY DEF InUse, Names
<1>4. SessionsTypeOK'
  BY <1>1, <1>2 DEF SessionsTypeOK, SomeSession
<1>5. PluginsKnown'
  BY DEF SessionsInv, PluginsKnown, Ever
<1>6. Apart'
  <2> SUFFICES ASSUME NEW c \in Client, NEW d \in Client, c # d,
                      Names(c) \cap Names(d) # {}, NEW n \in Names(c) \cup Names(d)
               PROVE  n \in mixed'
    BY DEF Apart, Names
  <2>1. n \in mixed
    BY DEF SessionsInv, Apart
  <2> QED
    BY <1>2, <1>3, <2>1 DEF InUse
<1>7. AtRestTold'
  <2> SUFFICES ASSUME NEW n \in Name, n \notin mixed', ~InUse(n)'
               PROVE  Told(n)'
    BY DEF AtRestTold
  <2>1. CASE n \in mixed
    BY <1>2, <2>1
  <2>2. CASE n \notin mixed
    <3>1. Told(n)
      BY <1>3, <2>2 DEF SessionsInv, AtRestTold
    <3> QED
      BY <3>1, ToldStays
  <2> QED
    BY <2>1, <2>2
<1>8. RequestsTell'
  <2> SUFFICES ASSUME NEW c \in Client
               PROVE  Tells(request[c])'
    BY DEF RequestsTell
  <2>1. Tells(request[c]) /\ Names(c) = {request[c].n, request[c].to} \cap Name
    BY RequestKnown
  <2>2. \A n \in Names(c) : n \notin mixed' => n \notin mixed /\ tmux'[n] \in {tmux[n], Gone}
    BY <1>2, <1>3, <2>1 DEF InUse
  <2>3. ASSUME request[c].n \in Name \ mixed'
        PROVE  TellsOld(request[c])'
    BY <2>1, <2>2, <2>3 DEF Tells, TellsOld, Told
  <2>4. ASSUME request[c].to \in Name \ mixed'
        PROVE  TellsNew(request[c])'
    BY <2>1, <2>2, <2>4 DEF Tells, TellsNew, Told
  <2> QED
    BY <2>3, <2>4 DEF Tells
<1>9. StartInv'
  BY DEF SessionsInv, StartInv, Installs, MarkStands
<1> QED
  BY <1>4, <1>5, <1>6, <1>7, <1>8, <1>9 DEF SessionsInv

LEMMA UnderWayIs ==
  ASSUME SessionsInv
  PROVE  UnderWay \subseteq Name /\ \A n : n \in UnderWay <=> InUse(n)
<1>1. \A c \in Client : Names(c) \subseteq Name
  BY NamesKnown DEF SessionsInv
<1> QED
  BY <1>1 DEF UnderWay, InUse

LEMMA MishapKeeps ==
  ASSUME SessionsInv, ContainerLost \/ (\E n \in Name : SessionEnds(n))
  PROVE  SessionsInv'
<1>1. CASE ContainerLost
  <2>1. /\ UNCHANGED <<request, meta, registry, dropped, marks, toInstall, stuck>>
        /\ tmux' = [n \in Name |-> Gone] /\ dead' = {}
        /\ binary' \in {binary, {}} /\ boot' = Bumpy /\ Mixing({})
        /\ mishaps' \in 0..MaxMishaps
    BY <1>1, MishapCounts DEF ContainerLost
  <2>2. tmux' \in SomeSession /\ \A n \in Name : tmux'[n] \in {tmux[n], Gone}
    BY <2>1 DEF SomeSession
  <2>3. boot' \in {boot, "bumpy"} /\ (boot' # boot => boot = "install") /\ boot' # "install"
    BY <2>1 DEF Bumpy
  <2>4. binary' \subseteq Harness /\ dead' \subseteq {n \in Name : tmux'[n] # Gone}
    BY <2>1, SessionTypes
  <2> QED
    BY <2>1, <2>2, <2>3, <2>4, SessionsEndKeep
<1>2. ASSUME NEW n \in Name, SessionEnds(n)
      PROVE  SessionsInv'
  <2>1. /\ UNCHANGED <<request, meta, registry, dropped, marks, toInstall, stuck, binary, boot>>
        /\ tmux[n] # Gone /\ n \notin dead
        /\ Mixing({}) /\ mishaps' \in 0..MaxMishaps
    BY <1>2, MishapCounts DEF SessionEnds
  <2>2. /\ tmux' \in SomeSession /\ \A m \in Name : tmux'[m] \in {tmux[m], Gone}
        /\ dead' \subseteq {m \in Name : tmux'[m] # Gone}
    <3>1. CASE tmux' = [tmux EXCEPT ![n] = Gone] /\ dead' = dead
      BY <2>1, <3>1, SessionTypes DEF SomeSession
    <3>2. CASE tmux' = tmux /\ dead' = dead \cup {n}
      BY <2>1, <3>2, SessionTypes
    <3> QED
      BY <1>2, <3>1, <3>2 DEF SessionEnds
  <2>3. binary' \subseteq Harness
    BY <2>1, SessionTypes
  <2> QED
    BY <2>1, <2>2, <2>3, SessionsEndKeep
<1> QED
  BY <1>1, <1>2

LEMMA ServerCrashKeeps ==
  ASSUME SessionsInv, ServerCrash
  PROVE  SessionsInv'
<1>1. /\ UNCHANGED <<tmux, dead, meta, registry, marks, binary, dropped, stuck>>
      /\ boot' = "clear" /\ toInstall' = {} /\ Mixing(UnderWay)
      /\ request' = [c \in Client |-> NoRequest]
      /\ mishaps' \in 0..MaxMishaps
  BY MishapCounts DEF ServerCrash, tvars
<1>2. SessionsTypeOK
  BY DEF SessionsInv
<1>3. /\ mixed' \subseteq Name
      /\ \A n \in mixed \cup UnderWay : n \in mixed' \/ (~InUse(n)' /\ Told(n)')
  <2>1. UnderWay \in SUBSET Name /\ Mixing(UnderWay)
    BY <1>1, UnderWayIs
  <2>2. /\ mixed' \subseteq mixed \cup UnderWay
        /\ \A n \in mixed \cup UnderWay : n \in mixed' \/ (~InUse(n)' /\ Told(n)')
    BY <2>1, MixingIs
  <2> QED
    BY <1>2, <2>1, <2>2 DEF SessionsTypeOK
<1>4. NoRequest \in Request /\ WithNothing(NoRequest)
  BY DEF NoRequest, Request, WithNothing
<1>5. \A c \in Client : request'[c] = NoRequest /\ Names(c)' = {}
  BY <1>1, <1>4 DEF Names, WithNothing
<1>6. SessionsTypeOK'
  BY <1>1, <1>2, <1>3, <1>4 DEF SessionsTypeOK
<1>7. \A c \in Client : Shaped(request'[c])
  BY <1>4, <1>5 DEF Shaped
<1>8. PluginsKnown' /\ Apart'
  BY <1>1, <1>4, <1>5, SessionAssumption
     DEF SessionsInv, PluginsKnown, Ever, Apart, WithNothing
<1>9. AtRestTold'
  <2> SUFFICES ASSUME NEW n \in Name, n \notin mixed'
               PROVE  Told(n)'
    BY DEF AtRestTold
  <2>1. CASE n \in mixed \cup UnderWay
    BY <1>3, <2>1
  <2>2. CASE n \notin mixed \cup UnderWay
    <3>1. Told(n)
      BY <2>2, UnderWayIs DEF SessionsInv, AtRestTold
    <3> QED
      BY <1>1, <3>1 DEF Told
  <2> QED
    BY <2>1, <2>2
<1>10. RequestsTell'
  BY <1>4, <1>5, SessionAssumption DEF RequestsTell, Tells, WithNothing
<1>11. StartInv'
  BY <1>1, <1>4 DEF StartInv
<1> QED
  BY <1>6, <1>7, <1>8, <1>9, <1>10, <1>11 DEF SessionsInv

-----------------------------------------------------------------------------
(* The theorems                                                            *)

LEMMA SessionsInvInit == SessionsInit => SessionsInv
<1> SUFFICES ASSUME SessionsInit
             PROVE  SessionsInv
  OBVIOUS
<1>1. /\ tmux \in SomeSession
      /\ \A n \in Name \ mixed : tmux[n] = Gone
      /\ mixed \subseteq Name
  BY SessionAssumption DEF SessionsInit, SomeSession, SessionKind
<1>2. NoRequest \in Request /\ WithNothing(NoRequest)
  BY DEF NoRequest, Request, WithNothing
<1>3. marks \in [Harness -> {"none", "installing", "true"}]
  BY DEF SessionsInit
<1>4. SessionsTypeOK
  BY <1>1, <1>2, <1>3, SessionAssumption DEF SessionsInit, SessionsTypeOK, SomeSession
<1>5. \A c \in Client : request[c] = NoRequest /\ Names(c) = {} /\ Shaped(request[c])
  BY <1>2 DEF SessionsInit, Names, WithNothing, Shaped
<1>6. PluginsKnown /\ Apart
  BY <1>2, <1>5, SessionAssumption DEF SessionsInit, PluginsKnown, Apart, WithNothing
<1>7. AtRestTold
  BY <1>1 DEF AtRestTold, Told
<1>8. RequestsTell
  BY <1>2, <1>5, SessionAssumption DEF RequestsTell, Tells, WithNothing
<1>9. StartInv
  BY <1>2, <1>5 DEF SessionsInit, StartInv
<1> QED
  BY <1>4, <1>5, <1>6, <1>7, <1>8, <1>9 DEF SessionsInv

LEMMA SessionsInvStep == SessionsInv /\ [SessionsNext]_svars => SessionsInv'
<1> SUFFICES ASSUME SessionsInv, [SessionsNext]_svars
             PROVE  SessionsInv'
  OBVIOUS
<1>1. ASSUME NEW c \in Client, SessionStep(c)
      PROVE  SessionsInv'
  BY <1>1, ExistsKeeps, LookKeeps, KillKeeps, ResolveKeeps, ForgetKeeps, ShellKeeps, LaunchKeeps, MarkKeeps,
     RecordKeeps, RenameKeeps, MoveKeeps, RemoveKeeps, CountKeeps, InstallKeeps
     DEF SessionStep
<1> QED
  BY <1>1, RequestKeeps, RegistryKeeps, BootKeeps, MishapKeeps, ServerCrashKeeps DEF SessionsNext

LEMMA SessionsInvAlways == SessionsSpec => []SessionsInv
BY SessionsInvInit, SessionsInvStep, PTL DEF SessionsSpec

\* Sessions, records, marks and requests are of their types, for any names, plugins and
\* requests at once: no handler finds itself at a step that is not its own.
THEOREM SessionsTypesHold == SessionsSpec => []SessionsTypeOK
<1>1. SessionsInv => SessionsTypeOK
  BY DEF SessionsInv
<1> QED
  BY SessionsInvAlways, <1>1, PTL

\* Re-entry relaunches the right kind: a session that no request is at work on is
\* recorded as what it runs, through renames, kills, restarts, rebuilds and commands
\* that hit a longer name, unless requests met on its name, a crash or a failed save cut
\* off its record, a rename gave the name to a session it hit by its longer name, or its
\* record is of a plugin that was removed.
THEOREM RecordsTell == SessionsSpec => []RecordsTellTheKind
<1>1. SessionsInv => RecordsTellTheKind
  BY DEF SessionsInv, AtRestTold, RecordsTellTheKind, Told
<1> QED
  BY SessionsInvAlways, <1>1, PTL

\* The probe's "installing" has an install: no end of one, no crash and no boot leaves a
\* mark behind while requests are served, unless the clear of it failed.
THEOREM MarksHaveInstalls == SessionsSpec => []InstallingIsRunning
<1>1. SessionsInv => InstallingIsRunning
  BY DEF SessionsInv, StartInv, InstallingIsRunning, Installs, MarkStands
<1> QED
  BY SessionsInvAlways, <1>1, PTL

\* BringAllUp: a boot that met no mishap has put every recorded plugin's binary there.
THEOREM BootInstalls == SessionsSpec => BootInstallsRecorded
<1> DEFINE Recorded == boot = "install" /\ boot' = "served" =>
                         \A h \in registry : marks[h] = "true" => h \in binary
<1>1. ASSUME SessionsInv, SessionsNext, boot = "install", boot' = "served"
      PROVE  toInstall = {}
  <2>1. \A c \in Client : request[c].at = "idle"
    BY <1>1 DEF SessionsInv, StartInv, WithNothing
  <2>2. ASSUME NEW c \in Client, SessionStep(c) \/ SessionRequest(c)
        PROVE  boot' = boot
    <3>1. \A n \in Name : /\ Attach(c, n) \/ Kill(c, n) \/ DeleteSession(c, n) => boot' = boot
                          /\ RestartSession(c, n) => boot' = boot
      BY DEF Attach, Kill, DeleteSession, RestartSession, Open
    <3>2. \A n \in Name : /\ \A new : Ensure(c, n, new) => boot' = boot
                          /\ \A m : Rename(c, n, m) => boot' = boot
                          /\ \A h : LaunchHarness(c, n, h) => boot' = boot
      BY DEF Ensure, Rename, LaunchHarness, Open
    <3>3. \A h \in Harness : Install(c, h) \/ Repair(c, h) => boot' = boot
      BY DEF Install, Repair, Open
    <3>4. SessionRequest(c) => boot' = boot
      BY <3>1, <3>2, <3>3 DEF SessionRequest
    <3>5. \A at : Step(c, at) => boot' = boot
      BY DEF Step
    <3>6. SessionStep(c) => \E at : Step(c, at)
      BY DEF SessionStep, Exists, RenameLooks, KillSession, Resolve, Forget, CreateShell, LaunchNamed,
         RecordSession, RenameSession, MoveRecord, RemoveSession, CountSessions, RecordInstall,
         RecordInstalling, RunInstall, NoteInstall, ClearInstalling
    <3> QED
      BY <2>2, <3>4, <3>5, <3>6
  <2> QED
    BY <1>1, <2>2 DEF SessionsNext, SaveHarness, RemoveHarness, BootInstall, SessionEnds, BootClear,
       BootServe, ServerCrash, ContainerLost, Bumpy
<1>2. SessionsInv /\ [SessionsNext]_svars => [Recorded]_svars
  BY <1>1 DEF SessionsInv, StartInv
<1> QED
  BY SessionsInvAlways, <1>2, PTL DEF SessionsSpec, BootInstallsRecorded

-----------------------------------------------------------------------------
(* The three components side by side                                       *)

AllInv ==
  /\ ProjectsInv
  /\ SessionsInv
  /\ TransferInv /\ CodesInv /\ AttemptsLeft /\ RestTypes

\* A step of one component leaves the other two as they are: lifecycle, sessions and
\* Work Sync of a project are of their types in every state of all three.
THEOREM AllTypesHold == MCSpec => []TypeOK
<1>1. MCInit => AllInv
  BY ProjectsInvInit, SessionsInvInit, TransferInvInit, CodesInvInit, RestInit DEF MCInit, AllInv
<1>2. AllInv /\ [MCNext]_<<focus, pvars, svars, syncvars>> => AllInv'
  <2> SUFFICES ASSUME AllInv, [MCNext]_<<focus, pvars, svars, syncvars>>
               PROVE  AllInv'
    OBVIOUS
  <2>1. [Next]_pvars /\ [SessionsNext]_svars /\ [SyncNext]_syncvars
    BY DEF MCNext
  <2> QED
    BY <2>1, ProjectsInvStep, SessionsInvStep, TransferInvStep, CodesInvStep, AttemptsLeftStep,
       RestTypesStep DEF AllInv
<1>3. AllInv => TypeOK
  <2>1. ProjectsInv => ProjectsTypeOK
    BY DEF ProjectsInv, KeyInv, KeyTypes, OrphanInv, StoreTypes, ProjectsTypeOK, Jobs
  <2>2. SessionsInv => SessionsTypeOK
    BY DEF SessionsInv
  <2>3. TransferInv /\ CodesInv /\ AttemptsLeft /\ RestTypes => SyncTypeOK
    BY DEF TransferInv, TransferTypes, CodesInv, CodeTypes, AttemptsLeft, RestTypes, SyncTypeOK,
       Stage
  <2> QED
    BY <2>1, <2>2, <2>3 DEF AllInv, TypeOK
<1> QED
  BY <1>1, <1>2, <1>3, PTL DEF MCSpec
===================================================================================
