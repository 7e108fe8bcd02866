-------------------------------- MODULE Terminal --------------------------------
(***************************************************************************)
(* runTerminal of httpapi/terminal.go, the bridge of one attached browser: *)
(* the reader of its frames, the pump that writes input into the pty's     *)
(* pipe, the handler that waits for either end, and the output, which is   *)
(* cut into frames that hold whole characters.                             *)
(***************************************************************************)
EXTENDS Naturals, SequencesExt, FiniteSetsExt

CONSTANTS
  QueueCap,     \* capacity of the inputs channel (64 in the code)
  MaxFrames,    \* bound on the frames of the browser
  Streams       \* what the pty prints: bytes that make up whole characters

\* The bytes that go on with a character, and those that start one of k bytes.
Continuation == \h80..\hBF
Starters(k) == <<0..\h7F, \hC2..\hDF, \hE0..\hEF, \hF0..\hF4>>[k]

\* A character of k bytes at place i of what is printed, and no byte too many.
CharacterAt(st, i, k) ==
  /\ st[i] \in Starters(k)
  /\ i + k - 1 <= Len(st)
  /\ \A j \in (i + 1)..(i + k - 1) : st[j] \in Continuation
  /\ i + k <= Len(st) => st[i + k] \notin Continuation

WholeCharacters(st) ==
  /\ st \in Seq(0..255)
  /\ st # <<>> => st[1] \notin Continuation
  /\ \A i \in 1..Len(st) : st[i] \in Continuation \/ \E k \in 1..4 : CharacterAt(st, i, k)

ASSUME TerminalAssumption ==
  /\ QueueCap \in Nat \ {0} /\ MaxFrames \in Nat
  /\ \A st \in Streams : WholeCharacters(st)

VARIABLES
  browser,   \* "here" or "gone"
  socket,    \* "open" or "closed", the server's side of the connection
  frames,    \* how many frames have been read
  reader,    \* "read", "input" (holds one), "closed"
  queued,    \* how many inputs are in the channel
  inputs,    \* the channel: "open" or "closed"
  pump,      \* "none", "wait", "write", "drain", "done"
  attach,    \* the exec in the container: "none", "running", "ended"
  handler,   \* "attach", "select", "await", "return", "returned"
  stream,    \* what the pty prints
  printed,   \* bytes of it that the pty has written so far
  framed     \* bytes of it that went out in frames; the rest is the carry

bridge == <<browser, socket, frames, reader, queued, inputs, pump, attach, handler>>
output == <<stream, printed, framed>>
bvars == <<bridge, output>>

TerminalInit ==
  /\ browser = "here" /\ socket = "open"
  /\ frames = 0 /\ reader = "read"
  /\ queued = 0 /\ inputs = "open" /\ pump = "none"
  /\ attach = "none" /\ handler = "attach"
  /\ stream \in Streams
  /\ printed = 0 /\ framed = 0

-----------------------------------------------------------------------------
(* Output                                                                  *)

\* The first of the four-byte starts is taken for a start of three.
SizeOffByOne(b) ==
  CASE b < \h80 -> 1
    [] b >= \hC2 /\ b < \hE0 -> 2
    [] b >= \hE0 /\ b <= \hF0 -> 3
    [] b > \hF0 /\ b <= \hF4 -> 4
    [] b > \hF4 -> 1
    [] OTHER -> 0

\* How many bytes the character has that a byte starts; 0 for a continuation.
Size(b) ==
  CASE b < \h80 -> 1
    [] b >= \hC2 /\ b < \hE0 -> 2
    [] b >= \hE0 /\ b < \hF0 -> 3
    [] b >= \hF0 /\ b <= \hF4 -> 4
    [] b > \hF4 -> 1
    [] OTHER -> 0

\* The length of the longest prefix that ends with a character: the last start
\* among the last three bytes decides, and without one nothing is held.
SplitUTF8(bs) ==
  LET n == Len(bs)
      starts == {i \in 1..3 : i <= n /\ Size(bs[n + 1 - i]) > 0}
  IN IF starts = {} THEN n
     ELSE LET i == Min(starts) IN IF i < Size(bs[n + 1 - i]) THEN n - i ELSE n

\* One write of the pty: the carry and the chunk, then the new carry.
Output(k) ==
  /\ attach = "running" /\ socket = "open"
  /\ printed + k <= Len(stream)
  /\ printed' = printed + k
  /\ framed' = framed + SplitUTF8(SubSeq(stream, framed + 1, printed + k))
  /\ UNCHANGED <<bridge, stream>>

-----------------------------------------------------------------------------
(* Input                                                                   *)

AttachStarts ==
  /\ handler = "attach"
  /\ \/ handler' = "select" /\ attach' = "running" /\ pump' = "wait"
     \/ handler' = "returned" /\ UNCHANGED <<attach, pump>>
  /\ UNCHANGED <<browser, socket, frames, reader, queued, inputs, output>>

\* The goroutines run once the exec is attached.
Running == attach # "none"

\* A resize or a junk frame changes nothing here.
ReadFrame ==
  /\ Running /\ reader = "read" /\ socket = "open" /\ browser = "here"
  /\ frames < MaxFrames
  /\ frames' = frames + 1
  /\ reader' \in {"input", "read"}
  /\ UNCHANGED <<browser, socket, queued, inputs, pump, attach, handler, output>>

\* The reader waits for room in the channel.
EnqueueBlocking ==
  /\ reader = "input"
  /\ queued < QueueCap
  /\ queued' = queued + 1
  /\ reader' = "read"
  /\ UNCHANGED <<browser, socket, frames, inputs, pump, attach, handler, output>>

\* With the channel full the input is shed.
Enqueue ==
  /\ reader = "input"
  /\ queued' = IF queued < QueueCap THEN queued + 1 ELSE queued
  /\ reader' = "read"
  /\ UNCHANGED <<browser, socket, frames, inputs, pump, attach, handler, output>>

ReaderEnds ==
  /\ Running /\ reader = "read"
  /\ browser = "gone" \/ socket = "closed"
  /\ reader' = "closed"
  /\ UNCHANGED <<browser, socket, frames, queued, inputs, pump, attach, handler, output>>

PumpTakes ==
  /\ pump \in {"wait", "drain"}
  /\ queued > 0
  /\ queued' = queued - 1
  /\ pump' = IF pump = "wait" THEN "write" ELSE "drain"
  /\ UNCHANGED <<browser, socket, frames, reader, inputs, attach, handler, output>>

\* The pipe is synchronous: a write waits until the pty drains it, which a pty that
\* has stopped keeping up, or an exec that has ended, never does.
PumpWrites ==
  /\ pump = "write" /\ attach = "running"
  /\ pump' = "wait"
  /\ UNCHANGED <<browser, socket, frames, reader, queued, inputs, attach, handler, output>>

\* It fails when the handler's return closes the pipe.
PumpFails ==
  /\ pump = "write" /\ handler = "returned"
  /\ pump' = "drain"
  /\ UNCHANGED <<browser, socket, frames, reader, queued, inputs, attach, handler, output>>

PumpEnds ==
  /\ pump \in {"wait", "drain"}
  /\ queued = 0 /\ inputs = "closed"
  /\ pump' = "done"
  /\ UNCHANGED <<browser, socket, frames, reader, queued, inputs, attach, handler, output>>

-----------------------------------------------------------------------------
(* The handler and the two ends                                            *)

\* The exec ended: exit frame, then the socket is closed so that the reader ends.
SelectDone ==
  /\ handler = "select" /\ attach = "ended"
  /\ socket' = "closed"
  /\ handler' = "await"
  /\ UNCHANGED <<browser, frames, reader, queued, inputs, pump, attach, output>>

SelectClosed ==
  /\ handler = "select" /\ reader = "closed"
  /\ handler' = "await"
  /\ UNCHANGED <<browser, socket, frames, reader, queued, inputs, pump, attach, output>>

\* The channel is closed while the reader may still send on it.
CloseAtOnce ==
  /\ handler = "await"
  /\ inputs' = "closed"
  /\ handler' = "return"
  /\ UNCHANGED <<browser, socket, frames, reader, queued, pump, attach, output>>

\* Only when the reader has ended is there no producer left.
CloseInputs ==
  /\ handler = "await" /\ reader = "closed"
  /\ inputs' = "closed"
  /\ handler' = "return"
  /\ UNCHANGED <<browser, socket, frames, reader, queued, pump, attach, output>>

\* The deferred calls close the pipe, cancel the exec and close the socket.
Return ==
  /\ handler = "return"
  /\ handler' = "returned"
  /\ attach' = "ended"
  /\ socket' = "closed"
  /\ UNCHANGED <<browser, frames, reader, queued, inputs, pump, output>>

BrowserLeaves ==
  /\ browser = "here"
  /\ browser' = "gone"
  /\ UNCHANGED <<socket, frames, reader, queued, inputs, pump, attach, handler, output>>

SessionEndsThere ==
  /\ attach = "running"
  /\ attach' = "ended"
  /\ UNCHANGED <<browser, socket, frames, reader, queued, inputs, pump, handler, output>>

-----------------------------------------------------------------------------
ReaderStep == Enqueue \/ ReaderEnds
PumpStep == PumpTakes \/ PumpFails \/ PumpEnds
HandlerStep == SelectDone \/ SelectClosed \/ CloseInputs \/ Return

TerminalNext ==
  \/ AttachStarts \/ ReadFrame \/ ReaderStep \/ PumpStep \/ PumpWrites \/ HandlerStep
  \/ BrowserLeaves \/ SessionEndsThere
  \/ \E k \in 1..4 : Output(k)

\* The goroutines are scheduled; that a frame comes, that the pty reads its input
\* and that either end goes away is nobody's promise.
TerminalFairness == WF_bvars(ReaderStep) /\ WF_bvars(PumpStep) /\ WF_bvars(HandlerStep)

TerminalSpec == TerminalInit /\ [][TerminalNext]_bvars /\ TerminalFairness

-----------------------------------------------------------------------------
(* Properties                                                              *)

\* splitUTF8 and the carry: at every time all whole characters that the pty has
\* printed are out, in frames that each end with a character, and only the start of
\* an unfinished one is held.
FramesAreWhole ==
  LET ends == {e \in 0..Len(stream) : e < Len(stream) => stream[e + 1] \notin Continuation}
  IN framed = Max({e \in ends : e <= printed})

\* runTerminal closes the channel only when its producer has ended: a send on a
\* closed channel would panic in the middle of the server.
NoSendAfterClose == inputs = "closed" => reader = "closed"

\* Once the browser is gone or the session has ended, the handler returns and
\* neither the reader nor the pump is left behind, even with a pty that no longer
\* reads and a full channel.
BridgeIsTornDown ==
  Running /\ (browser = "gone" \/ attach = "ended")
    ~> handler = "returned" /\ reader = "closed" /\ pump = "done"
=============================================================================
