------------------------------- MODULE AgentLoop -------------------------------
(***************************************************************************)
(* One turn of the model loop that Butler and CodeMap share (agent/loop.go *)
(* and turn.go): the scope check, the history of the thread, the rounds of *)
(* tool calls, the close-out and, for CodeMap, the format call; and the    *)
(* transcript that is folded from the trace events and saved with the turn.*)
(***************************************************************************)
EXTENDS Naturals, SequencesExt, FiniteSetsExt

CONSTANTS
  ToolCall,      \* calls of tools that there are, a name with its arguments
  StrayCall,     \* calls of tools that there are not
  MaxSteps,      \* tool rounds of a turn (6 for Butler, 8 for CodeMap)
  StepAttempts,  \* tries of one model call (3)
  MaxCalls,      \* bound on the calls of one reply
  CallIds,       \* ids that the model server may give the calls of a reply: sequences
  Bounded,       \* tools that end within a time of their own
  HistoryTurns,  \* turns and
  HistorySize,   \* size of what a turn is told of its thread (20 and 16 KB)
  PastTurns      \* what the store may hold of the thread: sequences of turns

\* A turn of a thread: its steps are those with an output or an error, or silent
\* ones; mine is the placeholder that was reserved for this turn, which a CodeMap
\* turn is reserved after its history was read.
Turn == [failed : BOOLEAN, answer : BOOLEAN, steps : Seq({"told", "silent"}), mine : BOOLEAN]

Placeholder == [failed |-> FALSE, answer |-> FALSE, steps |-> <<>>, mine |-> TRUE]

ASSUME AgentAssumption ==
  /\ MaxSteps \in Nat \ {0} /\ StepAttempts \in Nat \ {0} /\ MaxCalls \in Nat
  /\ HistoryTurns \in Nat \ {0} /\ HistorySize \in Nat
  /\ ToolCall \cap StrayCall = {}
  /\ CallIds \subseteq {ids \in Seq(Nat) : Len(ids) <= MaxCalls}
  /\ Bounded \subseteq ToolCall
  /\ PastTurns \subseteq Seq(Turn)

VARIABLES
  product,     \* "butler" or "codemap"
  thread,      \* the turns of the thread, the reserved one last
  turn,        \* "gate", "ask", "tools", "closeout", "format", "ended"
  step,        \* loop steps that are done
  attempt,     \* failed tries of the model call under way
  calls,       \* the calls of the round: name, id, whether they run, what came out
  lastCall,    \* the previous call that ran
  talk,        \* the messages of the request
  transcript,  \* RoundCollector: [steps, pending]
  nudged,      \* the grounding nudge is spent (Butler turns have none)
  cancelled,   \* the turn's context is done
  result,      \* "none", "answered", "refused" or "failed"
  ran          \* (history) the calls that ran, in the order of the model

avars == <<product, thread, turn, step, attempt, calls, lastCall, talk, transcript,
           nudged, cancelled, result, ran>>

NoCall == "no call"
ModelCall == ToolCall \cup StrayCall

-----------------------------------------------------------------------------
(* The request                                                             *)

Told(t) == Cardinality({i \in DOMAIN t.steps : t.steps[i] = "told"})

SizeOf(t) == 1 + (IF t.answer THEN 1 ELSE 0) + Told(t)

SizeOfAll(ts) == FoldLeft(LAMBDA n, t : n + SizeOf(t), 0, ts)

\* The newest turns, without the oldest while they are too large.
Recent(ts) ==
  LET from == {i \in 1..(Len(ts) + 1) :
                 \/ i = Len(ts) + 1
                 \/ i > Len(ts) - HistoryTurns /\ SizeOfAll(SubSeq(ts, i, Len(ts))) <= HistorySize}
  IN SubSeq(ts, Min(from), Len(ts))

\* The ids of the calls, or of the one that a reply answers; k is the id "call_k".
Message(role, ids) == [role |-> role, ids |-> ids]

Say(req, role) == [req EXCEPT !.talk = Append(req.talk, Message(role, <<>>))]

AnsweredCalls(ids) ==
  <<Message("calls", ids)>> \o [i \in 1..Len(ids) |-> Message("reply", <<ids[i]>>)]

\* The ids of every saved turn begin anew.
ReplayNumbered(req, n) ==
  [req EXCEPT !.talk = req.talk \o AnsweredCalls([i \in 1..n |-> i - 1])]

\* The calls of a saved turn are numbered on.
ReplayCalls(req, n) ==
  [talk |-> req.talk \o AnsweredCalls([i \in 1..n |-> req.seq + i - 1]),
   seq |-> req.seq + n]

\* A failed turn is told by its prompt, the placeholder not at all.
Replay(req, t) ==
  LET asked == Say(req, "user") IN
  CASE t.mine -> req
    [] ~t.mine /\ ~t.failed /\ Told(t) > 0 -> ReplayCalls(asked, Told(t))
    [] ~t.mine /\ ~t.failed /\ Told(t) = 0 /\ t.answer -> Say(asked, "said")
    [] OTHER -> asked

\* The developer messages: the system prompt, and for Butler the lead-in behind it.
Guides == IF product = "butler" THEN 2 ELSE 1

Guide == [i \in 1..Guides |-> Message("developer", <<>>)]

Request(ts) ==
  LET upto[i \in 0..Len(ts)] ==
        IF i = 0 THEN [talk |-> Guide, seq |-> 0]
        ELSE Replay(upto[i - 1], ts[i])
  IN upto[Len(ts)]

AssembleMessages(ts) == Say(Request(Recent(ts)), "prompt").talk

-----------------------------------------------------------------------------
(* The transcript                                                          *)

\* Collect: the event of a finished call ends the first call that is pending.
Started(tr, c) == [tr EXCEPT !.pending = Append(tr.pending, c)]

Finished(tr, c, out) ==
  [steps |-> Append(tr.steps, [call |-> IF tr.pending = <<>> THEN c ELSE Head(tr.pending),
                               result |-> <<c, out>>]),
   pending |-> IF tr.pending = <<>> THEN <<>> ELSE Tail(tr.pending)]

\* The events of the calls that ran, in the order of cs.
Collected(cs) ==
  LET upto[i \in 0..Len(cs)] ==
        IF i = 0 THEN transcript
        ELSE IF cs[i].runs THEN Finished(upto[i - 1], cs[i].name, cs[i].out)
        ELSE upto[i - 1]
  IN upto[Len(cs)]

-----------------------------------------------------------------------------
\* A Butler turn reads its thread from the store, with its own placeholder, and has
\* no nudge; a CodeMap turn gets the history that was read before its reservation.
AskButler(past) == product = "butler" /\ thread = Append(past, Placeholder) /\ nudged = TRUE

AskCodemap(past) == product = "codemap" /\ thread = past /\ nudged = FALSE

AgentInit ==
  /\ \E past \in PastTurns : AskButler(past) \/ AskCodemap(past)
  /\ turn = "gate"
  /\ step = 0 /\ attempt = 0
  /\ calls = <<>> /\ lastCall = NoCall
  /\ talk = <<>>
  /\ transcript = [steps |-> <<>>, pending |-> <<>>]
  /\ cancelled = FALSE
  /\ result = "none"
  /\ ran = <<>>

EndTurn(how) == turn' = "ended" /\ result' = how

\* A CodeMap turn takes the refusal for an answer and fails on its format; a gate
\* that fails lets the turn pass.
Gate ==
  /\ turn = "gate"
  /\ \/ /\ EndTurn(IF product = "butler" THEN "refused" ELSE "failed")
        /\ UNCHANGED talk
     \/ /\ turn' = "ask"
        /\ talk' = AssembleMessages(thread)
        /\ UNCHANGED result
  /\ UNCHANGED <<product, thread, step, attempt, calls, lastCall, transcript, nudged,
                 cancelled, ran>>

Attempts == IF turn = "format" THEN 1 ELSE StepAttempts

\* The last try is followed by the first again.
RetryForever ==
  /\ turn \in {"ask", "closeout", "format"}
  /\ IF ~cancelled
     THEN attempt' = (attempt + 1) % StepAttempts /\ UNCHANGED <<turn, result>>
     ELSE EndTurn("failed") /\ UNCHANGED attempt
  /\ UNCHANGED <<product, thread, step, calls, lastCall, talk, transcript, nudged, cancelled, ran>>

\* An error, no choices or an empty answer: another try, if there is one left.
ModelFails ==
  /\ turn \in {"ask", "closeout", "format"}
  /\ IF ~cancelled /\ attempt + 1 < Attempts
     THEN attempt' = attempt + 1 /\ UNCHANGED <<turn, result>>
     ELSE EndTurn("failed") /\ UNCHANGED attempt
  /\ UNCHANGED <<product, thread, step, calls, lastCall, talk, transcript, nudged, cancelled, ran>>

\* A text without calls; one that has used no tool yet may be asked once to verify.
SettleText(offTopic) ==
  LET nudge == turn = "ask" /\ step = 0 /\ MaxSteps > 1 /\ ~nudged /\ ~offTopic IN
  /\ turn \in {"ask", "closeout"}
  /\ ~cancelled
  /\ attempt' = 0
  /\ IF nudge
     THEN /\ nudged' = TRUE
          /\ step' = step + 1
          /\ talk' = Append(Append(talk, Message("said", <<>>)), Message("user", <<>>))
          /\ UNCHANGED <<turn, result>>
     ELSE /\ IF product = "codemap" THEN turn' = "format" /\ UNCHANGED result
             ELSE EndTurn("answered")
          /\ UNCHANGED <<nudged, step, talk>>
  /\ UNCHANGED <<product, thread, calls, lastCall, transcript, cancelled, ran>>
-----------------------------------------------------------------------------
(* A round of tool calls                                                   *)

\* A repeat of the previous call is blocked, with both its events at once; a stray
\* call is answered without one; the others start.
Judge(acc, c, id) ==
  LET add(runs, out) == Append(acc.calls, [name |-> c, id |-> id, runs |-> runs, out |-> out]) IN
  CASE c = acc.prev ->
         [calls |-> add(FALSE, "blocked"), prev |-> acc.prev,
          tr |-> Finished(Started(acc.tr, c), c, "blocked"), ran |-> acc.ran]
    [] c # acc.prev /\ c \in StrayCall ->
         [acc EXCEPT !.calls = add(FALSE, "unknown")]
    [] c # acc.prev /\ c \in ToolCall ->
         [calls |-> add(TRUE, "none"), prev |-> c, tr |-> Started(acc.tr, c),
          ran |-> Append(acc.ran, c)]

\* In the order of the reply.
Classify(cs, ids) ==
  LET upto[i \in 0..Len(cs)] ==
        IF i = 0 THEN [calls |-> <<>>, prev |-> lastCall, tr |-> transcript, ran |-> ran]
        ELSE Judge(upto[i - 1], cs[i], ids[i])
  IN upto[Len(cs)]

\* The ids are the model server's; nobody compares them with each other or with those
\* of the history.
AnswerTools(cs, ids) ==
  LET round == Classify(cs, ids) IN
  /\ turn = "ask" /\ ~cancelled
  /\ turn' = "tools"
  /\ attempt' = 0
  /\ calls' = round.calls
  /\ lastCall' = round.prev
  /\ transcript' = round.tr
  /\ ran' = round.ran
  /\ talk' = Append(talk, Message("calls", ids))
  /\ UNCHANGED <<product, thread, step, nudged, cancelled, result>>

\* The calls of a round run at once and end in any order.
RunTool(i) ==
  /\ turn = "tools"
  /\ i \in 1..Len(calls) /\ calls[i].runs /\ calls[i].out = "none"
  /\ \E out \in {"output", "error"} : calls' = [calls EXCEPT ![i].out = out]
  /\ UNCHANGED <<product, thread, turn, step, attempt, lastCall, talk, transcript,
                 nudged, cancelled, result, ran>>

\* When all have ended they are answered in the order of the reply; after the last
\* round the model is asked to close without tools.
EndRound ==
  /\ turn = "tools"
  /\ \A i \in 1..Len(calls) : calls[i].out # "none"
  /\ talk' = talk \o [i \in 1..Len(calls) |-> Message("reply", <<calls[i].id>>)]
                  \o (IF step + 1 = MaxSteps THEN <<Message("user", <<>>)>> ELSE <<>>)
  /\ calls' = <<>>
  /\ step' = step + 1
  /\ turn' = IF step + 1 = MaxSteps THEN "closeout" ELSE "ask"
  /\ UNCHANGED <<product, thread, attempt, lastCall, nudged, cancelled, result, ran>>

\* The results are told as they come in.
ReplyAsTheyEnd ==
  /\ EndRound
  /\ \E order \in {o \in [DOMAIN calls -> DOMAIN calls] : IsInjective(o)} :
       transcript' = Collected([i \in DOMAIN calls |-> calls[order[i]]])

ReplyInOrder == EndRound /\ transcript' = Collected(calls)

\* The close-out has no tools: a reply that calls some has no text and is no answer.
CloseOutCalls ==
  /\ turn = "closeout"
  /\ EndTurn("failed")
  /\ UNCHANGED <<product, thread, step, attempt, calls, lastCall, talk, transcript,
                 nudged, cancelled, ran>>

\* formatResult and the decoding of what it returns: sections, or a failed turn.
FormatResult ==
  /\ turn = "format" /\ ~cancelled
  /\ \E how \in {"answered", "failed"} : EndTurn(how)
  /\ UNCHANGED <<product, thread, step, attempt, calls, lastCall, talk, transcript,
                 nudged, cancelled, ran>>

\* A CodeMap turn has a deadline; a Butler turn is detached from its request.
Deadline ==
  /\ product = "codemap" /\ turn # "ended" /\ ~cancelled
  /\ cancelled' = TRUE
  /\ UNCHANGED <<product, thread, turn, step, attempt, calls, lastCall, talk, transcript,
                 nudged, result, ran>>

-----------------------------------------------------------------------------
ModelReplies ==
  \/ \E offTopic \in BOOLEAN : SettleText(offTopic)
  \/ \E ids \in CallIds : \E cs \in [DOMAIN ids -> ModelCall] : AnswerTools(cs, ids)
  \/ CloseOutCalls \/ FormatResult

TurnStep ==
  \/ Gate \/ ModelFails \/ ModelReplies \/ ReplyInOrder
  \/ \E i \in 1..MaxCalls : RunTool(i)

AgentNext == TurnStep \/ Deadline

\* Butler's turn has no deadline, and some of its tools have none either.
Endless(i) == product = "butler" /\ calls[i].name \notin Bounded

\* What somebody bounds: every model call by stepTimeout, a tool by its own timeout or by
\* the deadline of a CodeMap turn.
BoundedStep ==
  \/ Gate \/ ModelFails \/ ModelReplies \/ ReplyInOrder
  \/ \E i \in 1..MaxCalls : RunTool(i) /\ ~Endless(i)

AgentSpec == AgentInit /\ [][AgentNext]_avars /\ WF_avars(BoundedStep)

-----------------------------------------------------------------------------
(* Properties                                                              *)

\* What the provider asks of a request, through history, rounds, blocked and stray
\* calls and the nudge: the developer messages (two for Butler) come first and nowhere
\* else; the prompt of the turn is there once; behind a message with calls are the
\* replies to each of them in their order, and no reply is anywhere else. The calls of
\* the history, which come before the prompt, have ids of their own ("fresh,
\* globally-unique", replayCalls); those of the turn are the model server's, and nothing
\* here says that they differ.
RequestIsWellFormed ==
  turn \in {"ask", "closeout"} =>
    /\ Len(talk) >= Guides
    /\ \A i \in 1..Len(talk) : talk[i].role = "developer" <=> i <= Guides
    /\ \A i \in 1..Len(talk) : talk[i].role = "calls" =>
         \A j \in 1..Len(talk[i].ids) :
           i + j <= Len(talk) /\ talk[i + j] = Message("reply", <<talk[i].ids[j]>>)
    /\ \A i \in 1..Len(talk) : talk[i].role = "reply" =>
         \E k \in 1..(i - 1) :
           talk[k].role = "calls" /\ \E j \in 1..Len(talk[k].ids) : i = k + j
    /\ \E p \in 1..Len(talk) :
         /\ \A i \in 1..Len(talk) : talk[i].role = "prompt" <=> i = p
         /\ \A i, j \in 1..(p - 1) :
              talk[i].role = "reply" /\ talk[j].role = "reply" /\ talk[i].ids = talk[j].ids => i = j

\* A tool of Butler that nobody bounds has not answered.
ToolHangs ==
  turn = "tools" /\ \E i \in 1..Len(calls) : calls[i].runs /\ calls[i].out = "none" /\ Endless(i)

\* gather: "weak models cannot loop forever": a turn that has passed the scope check
\* ends, whatever the model and its tools answer, but for a Butler turn of which a tool
\* without a timeout never answers: wg.Wait waits for it for good.
TurnEnds == turn # "gate" ~> (turn = "ended" \/ []ToolHangs)

\* RoundCollector: an "out-of-order event" falls "back to the done event's own
\* identity"; so a step of the transcript bears the result of its own call.
StepsMatchTheirCalls ==
  \A i \in 1..Len(transcript.steps) : transcript.steps[i].call = transcript.steps[i].result[1]

\* Without a blocked repeat the transcript of a finished round is in the order of the
\* model, one step for each call that ran, each with the result of its own.
TranscriptIsTheTurn ==
  LET steps == transcript.steps IN
  (\A i \in 1..Len(steps) : steps[i].result[2] # "blocked") /\ turn \in {"ask", "closeout", "ended"}
  => StepsMatchTheirCalls /\ ran = [i \in 1..Len(steps) |-> steps[i].call]
=============================================================================
