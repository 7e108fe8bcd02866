-------------------------------- MODULE MCServices --------------------------------
(***************************************************************************)
(* Six smaller components that share no variable, in one run: a behaviour  *)
(* moves one of them and leaves the others in one initial state.           *)
(***************************************************************************)
EXTENDS Terminal, AgentLoop, ObsLog, PushStore, EventLog, CodemapRefs

VARIABLE focus

\* What the pty prints: characters of one to four bytes.
MCStreams == {<<\h41, \hC3, \h9F>>, <<\hE2, \h9F, \h80, \hF0, \h9F, \h8F, \hBF>>,
              <<\hF4, \h80, \h9F, \h9F, \h7F>>, <<\hC3, \hBF, \hC2, \h80, \hEF, \hBF, \hBF>>}

\* Turns of the past: a failed one with a step, one of a silent and one of a told
\* call, one without calls, and one that is too large for two of it.
Turned(failed, answer, steps) ==
  [failed |-> failed, answer |-> answer, steps |-> steps, mine |-> FALSE]

MCTurns == {Turned(TRUE, FALSE, <<"told">>), Turned(FALSE, TRUE, <<"told", "silent">>),
            Turned(FALSE, TRUE, <<>>), Turned(FALSE, TRUE, <<"told", "told">>)}

\* One id that the history may have already, and the same one for two calls.
MCCallIds == {<<>>, <<0>>, <<9, 9>>}

MCPast == UNION {[1..n -> MCTurns] : n \in 0..2}

\* One reference of any ends, two in any order, and three in the order of their first
\* lines: those of each have every way to be apart, to touch and to overlap.
MCRange == {r \in (1..4) \X (1..4) : r[1] <= r[2]}

MCAsks ==
  [1..1 -> (0..4) \X (0..4)] \cup [1..2 -> MCRange]
    \cup {a \in [1..3 -> MCRange] : a[1][1] <= a[2][1] /\ a[2][1] <= a[3][1]}

Focus == {"terminal", "agent", "obs", "push", "events", "refs"}

MCInit ==
  /\ focus \in Focus
  /\ focus = "terminal" \/ stream = <<\h41, \hC3, \h9F>>
  /\ focus = "agent" \/ (product = "codemap" /\ thread = <<>>)
  /\ focus = "refs" \/ (file = <<>> /\ asked = <<<<0, 0>>>>)
  /\ TerminalInit /\ AgentInit /\ ObsInit /\ PushInit /\ EventInit /\ RefInit

MCNext ==
  /\ UNCHANGED focus
  /\ \/ focus = "terminal" /\ TerminalNext /\ UNCHANGED <<avars, ovars, pvars, evars, rvars>>
     \/ focus = "agent" /\ AgentNext /\ UNCHANGED <<bvars, ovars, pvars, evars, rvars>>
     \/ focus = "obs" /\ ObsNext /\ UNCHANGED <<bvars, avars, pvars, evars, rvars>>
     \/ focus = "push" /\ PushNext /\ UNCHANGED <<bvars, avars, ovars, evars, rvars>>
     \/ focus = "events" /\ EventNext /\ UNCHANGED <<bvars, avars, ovars, pvars, rvars>>
     \/ focus = "refs" /\ RefNext /\ UNCHANGED <<bvars, avars, ovars, pvars, evars>>

\* The fairness of the bridge and of the turn, where they move at all.
MCFairness ==
  /\ WF_bvars(focus = "terminal" /\ ReaderStep)
  /\ WF_bvars(focus = "terminal" /\ PumpStep)
  /\ WF_bvars(focus = "terminal" /\ HandlerStep)
  /\ WF_avars(focus = "agent" /\ BoundedStep)

MCSpec ==
  /\ MCInit
  /\ [][MCNext]_<<focus, bvars, avars, ovars, pvars, evars, rvars>>
  /\ MCFairness
===================================================================================
