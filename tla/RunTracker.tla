------------------------------ MODULE RunTracker ------------------------------
(***************************************************************************)
(* runTracker (httpapi/runs.go): one slot per scope that serializes agent   *)
(* runs.  A held slot names the thread of the run, or Blank while the      *)
(* thread is not known yet.  Every method holds the tracker's mutex, so     *)
(* each operator below is one atomic step; the map lives in memory only.   *)
(***************************************************************************)
EXTENDS ChatIds

VARIABLE slots  \* [Scope -> Thread \cup {Blank, Free}]

TrackerTypeOK == slots \in [Scope -> Thread \cup {Blank, Free}]

NewRunTracker == slots = [k \in Scope |-> Free]

Held(k) == slots[k] # Free

\* The tracker forgets to look whether the key is already there.
TakeUnchecked(k, t) == slots' = [slots EXCEPT ![k] = t]

\* Both arguments are strings; they arrive swapped.
TakeSwapped(k, t) == ~Held(k) /\ slots' = [slots EXCEPT ![k] = k]

take(k, t) ==
  /\ ~Held(k)
  /\ slots' = [slots EXCEPT ![k] = t]

\* set repoints a held slot, and is a no-op on a free one.
set(k, t) == slots' = IF Held(k) THEN [slots EXCEPT ![k] = t] ELSE slots

done(k) == slots' = [slots EXCEPT ![k] = Free]

\* Exact match only: a slot taken before its thread was known names nobody.
runningFor(k, t) == slots[k] = t
=============================================================================
