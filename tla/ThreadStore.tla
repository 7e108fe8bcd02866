------------------------------ MODULE ThreadStore ------------------------------
(***************************************************************************)
(* internal/threads: the chat folders on disk.  A folder holds its turns    *)
(* 1.json, 2.json, ... and, in Butler's store, the approvals the turns      *)
(* proposed.  The store has one mutex and writes a file by renaming a       *)
(* temporary one over it, so each operation below is one atomic step.  A    *)
(* turn is "reserved" while its file holds the prompt alone, "failed" once  *)
(* it holds an error and "answered" once it holds a payload.                *)
(***************************************************************************)
EXTENDS Naturals, Sequences, ChatIds

VARIABLES
  turns,   \* [Thread -> Seq(TurnState)]: <<>> when there is no readable folder
  minted,  \* the thread ids handed out so far: MintID never repeats one
  cards    \* [Card -> CardState]: the approvals of all folders

storeVars == <<turns, minted, cards>>

TurnState == {"reserved", "answered", "failed"}

CardStatus == {"unminted", "pending", "approved", "discarded", "deleted"}

CardState == [status: CardStatus, thread: Thread \cup {Blank}, turn: Nat]

NoCard == [status |-> "unminted", thread |-> Blank, turn |-> 0]

StoreTypeOK ==
  /\ turns \in [Thread -> Seq(TurnState)]
  /\ minted \subseteq Thread
  /\ cards \in [Card -> CardState]

EmptyStore ==
  /\ turns = [t \in Thread |-> <<>>]
  /\ minted = {}
  /\ cards = [c \in Card |-> NoCard]

-----------------------------------------------------------------------------
(* Readers                                                                 *)

Exists(t) == turns[t] # <<>>

LastTurn(t) == turns[t][Len(turns[t])]

pendingApprovals(t) ==
  {c \in Card : cards[c].status = "pending" /\ cards[c].thread = t}

-----------------------------------------------------------------------------
(* Writers                                                                 *)

ReserveNewThread(t) ==
  /\ t \notin minted
  /\ minted' = minted \cup {t}
  /\ turns' = [turns EXCEPT ![t] = <<"reserved">>]
  /\ UNCHANGED cards

\* The placeholder lands on the highest turn instead of after it.
ReserveFollowupMaxN(t) ==
  /\ Exists(t)
  /\ pendingApprovals(t) = {}
  /\ turns' = [turns EXCEPT ![t][Len(turns[t])] = "reserved"]
  /\ UNCHANGED <<minted, cards>>

\* approvals.json is not read.
FollowupIgnoresCards(t) == Exists(t)

\* A follow-up needs a thread, and no approval of the thread may be pending.
FollowupAccepted(t) == Exists(t) /\ pendingApprovals(t) = {}

ReserveFollowup(t) ==
  /\ FollowupAccepted(t)
  /\ turns' = [turns EXCEPT ![t] = Append(@, "reserved")]
  /\ UNCHANGED <<minted, cards>>

\* CompleteTurn overwrites N.json, which has to be there, with the outcome.
HasTurn(t, n) == Exists(t) /\ n \in 1..Len(turns[t])

CompleteTurn(t, n, outcome) ==
  /\ HasTurn(t, n)
  /\ turns' = [turns EXCEPT ![t][n] = outcome]
  /\ UNCHANGED <<minted, cards>>

\* BeginRetry rewrites the highest turn, whatever that turn holds.
BeginRetry(t) ==
  /\ Exists(t)
  /\ turns' = [turns EXCEPT ![t][Len(turns[t])] = "reserved"]
  /\ UNCHANGED <<minted, cards>>

\* The folder and everything in it goes; removing what is not there succeeds.
RemoveFolders(S) ==
  /\ turns' = [t \in Thread |-> IF t \in S THEN <<>> ELSE turns[t]]
  /\ cards' = [c \in Card |-> IF cards[c].thread \in S
                              THEN [cards[c] EXCEPT !.status = "deleted"]
                              ELSE cards[c]]
  /\ UNCHANGED minted

Delete(t) == RemoveFolders({t})

\* The empty scope, Butler's, is refused.
DeleteScope(k) == k # Blank /\ RemoveFolders({t \in Thread : ScopeOf[t] = k})

Purge == RemoveFolders(Thread)

-----------------------------------------------------------------------------
(* Approvals                                                               *)

\* The default status is left out of the new approval.
AddApprovalBlank(t, n, c) ==
  /\ Exists(t)
  /\ cards[c].status = "unminted"
  /\ cards' = [cards EXCEPT ![c] = [status |-> Blank, thread |-> t, turn |-> n]]
  /\ UNCHANGED <<turns, minted>>

AddApproval(t, n, c) ==
  /\ Exists(t)
  /\ cards[c].status = "unminted"
  /\ cards' = [cards EXCEPT ![c] = [status |-> "pending", thread |-> t, turn |-> n]]
  /\ UNCHANGED <<turns, minted>>

\* FindApproval scans the folders that exist.
FindApproval(c) == cards[c].status \notin {"unminted", "deleted"}

\* An approval is resolved only out of "pending".
Resolvable(c) == cards[c].status = "pending"

ResolveApproval(c, status) ==
  /\ Resolvable(c)
  /\ cards' = [cards EXCEPT ![c].status = status]
  /\ UNCHANGED <<turns, minted>>
=============================================================================
