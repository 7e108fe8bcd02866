------------------------------ MODULE SerialChat ------------------------------
(***************************************************************************)
(* What a chat product promises its user, without slots, locks, requests    *)
(* or files.  A thread is a list of turns.  Each scope has at most one open *)
(* turn: it is appended to its thread, or is the last turn opened again,    *)
(* and only when no other turn of the scope is open.  Closing it settles    *)
(* exactly the turn that was opened, or leaves that turn without an answer. *)
(* Threads may be removed at any moment.                                    *)
(***************************************************************************)
EXTENDS Naturals, Sequences, ChatIds

CONSTANT Reopenable  \* the states a last turn may be opened again from

VARIABLES
  turns,  \* [Thread -> Seq({"reserved", "answered", "failed"})]
  open    \* [Scope -> set of <<thread, turn number>>]: none or one

chatVars == <<turns, open>>

Init ==
  /\ turns = [t \in Thread |-> <<>>]
  /\ open = [k \in Scope |-> {}]

\* A prompt: the next turn of t, its first one when t is new.
Open(k, t) ==
  /\ open[k] = {}
  /\ ScopeOf[t] = k
  /\ turns' = [turns EXCEPT ![t] = Append(@, "reserved")]
  /\ open' = [open EXCEPT ![k] = {<<t, Len(turns[t]) + 1>>}]

\* A retry: the last turn of t again.
Reopen(k, t) ==
  /\ open[k] = {}
  /\ ScopeOf[t] = k
  /\ turns[t] # <<>>
  /\ turns[t][Len(turns[t])] \in Reopenable
  /\ turns' = [turns EXCEPT ![t][Len(turns[t])] = "reserved"]
  /\ open' = [open EXCEPT ![k] = {<<t, Len(turns[t])>>}]

\* The open turn gets its outcome; it is still there and still bare.
Close(k, t, n) ==
  /\ <<t, n>> \in open[k]
  /\ turns[t] # <<>>
  /\ n = Len(turns[t])
  /\ turns[t][n] = "reserved"
  /\ \E outcome \in {"answered", "failed"} :
       turns' = [turns EXCEPT ![t][n] = outcome]
  /\ open' = [open EXCEPT ![k] = {}]

\* The open turn is given up: its thread is gone, or its outcome was lost.
Abandon(k) ==
  /\ open[k] # {}
  /\ open' = [open EXCEPT ![k] = {}]
  /\ UNCHANGED turns

Remove(S) ==
  /\ turns' = [t \in Thread |-> IF t \in S THEN <<>> ELSE turns[t]]
  /\ UNCHANGED open

\* The server restarts: nothing is open any more.
AbandonAll ==
  /\ open' = [k \in Scope |-> {}]
  /\ UNCHANGED turns

Next ==
  \/ \E k \in Scope, t \in Thread : Open(k, t) \/ Reopen(k, t)
  \/ \E k \in Scope, t \in Thread : Close(k, t, Len(turns[t]))
  \/ \E k \in Scope : Abandon(k)
  \/ \E S \in SUBSET Thread : Remove(S)
  \/ AbandonAll

Spec == Init /\ [][Next]_chatVars
=============================================================================
