---------------------------- MODULE RunnerSession ----------------------------
(***************************************************************************)
(* One runner process, its three pipes and the Host threads that talk to   *)
(* it (src/src/runner_launcher.cpp, src/src/runner_protocol.cpp and the    *)
(* runners' main functions), driven as RecoveringRunner drives it.         *)
(*                                                                         *)
(* A message travels as two pieces, header and body, through a pipe that   *)
(* holds Capacity pieces; a read takes any number of them, so both parsers *)
(* see every split.  During synthesize a second Host thread drains the     *)
(* audio pipe while the first waits for the reply: Kokoro and the stub     *)
(* reply before the audio, Qwen after it.                                  *)
(*                                                                         *)
(* When faulty holds, the process may die, hang or babble, the deadline    *)
(* may pass and the user may cancel, at any moment.  Otherwise the process *)
(* runs, and answers in time.                                              *)
(***************************************************************************)
EXTENDS Naturals, Sequences

CONSTANTS
  Engines,   \* which runners are modelled
  Frames,    \* audio frames of a sentence
  Capacity,  \* pieces a pipe holds
  MaxCalls   \* bound on the requests after which no call begins

ASSUME RunnerBounds ==
  /\ Engines \subseteq {"kokoro", "qwen", "stub"}
  /\ Frames \in Nat \ {0} /\ Capacity \in Nat \ {0} /\ MaxCalls \in Nat

VARIABLES
  engine, faulty,   \* chosen at the start
  live,             \* session_ is set
  call,             \* the RecoveringRunner call under way
  method, id,       \* the request under way
  outcome, spoken,  \* how the last call ended, and the audio it returned
  host,             \* where the calling thread is
  outgoing,         \* pieces it has still to write
  ctlBuffer, replies,  \* the control parser's buffer, pending_control_messages_
  reply,            \* the response taken
  ctlError,         \* control_error
  cause,            \* why the session is being finished
  reader,           \* where the audio thread is
  audBuffer, frames,   \* the audio parser's buffer, the frames received
  audError, audFirst,  \* audio_error, audio_failed_first
  abort,            \* abort_io_
  late, cancelled,  \* the deadline has passed; the cancel predicate
  stdin, control, audio,  \* the pipes
  stdinClosed,      \* control_input_closed_
  proc,             \* the process
  inBuffer, toWrite,   \* its parser's buffer, what it has still to write
  loaded            \* it has a model

callVars == <<live, call, method, id, outcome, spoken>>
hostVars == <<host, outgoing, ctlBuffer, replies, reply, ctlError, cause>>
readerVars == <<reader, audBuffer, frames, audError, audFirst>>
waitVars == <<abort, late, cancelled>>
procVars == <<proc, inBuffer, toWrite, loaded>>
vars == <<engine, faulty, callVars, hostVars, readerVars, waitVars,
          stdin, control, audio, stdinClosed, procVars>>

-----------------------------------------------------------------------------
(* Messages, frames and their parsers.                                     *)

Message(what, i) == [what |-> what, id |-> i]
Frame(i, n, last) == [what |-> "audio", id |-> i, n |-> n, last |-> last]
NoReply == Message("none", 0)

\* A framed message: header and body.
Wire(m) == << [of |-> m, half |-> 1], [of |-> m, half |-> 2] >>

\* Bytes no parser accepts.
Junk == [of |-> NoReply, half |-> 0]

\* The parser throws: a header without a length, or a body out of place.
Malformed(buffer) == \E i \in DOMAIN buffer : buffer[i].half # 2 - (i % 2)

\* The messages completed in a buffer, and the bytes kept for the next push.
Complete(buffer) == [i \in 1 .. Len(buffer) \div 2 |-> buffer[2 * i].of]
Kept(buffer) == SubSeq(buffer, 2 * (Len(buffer) \div 2) + 1, Len(buffer))

\* What is left of a pipe when n pieces have been read.
After(n, pipe) == SubSeq(pipe, n + 1, Len(pipe))
First(n, pipe) == SubSeq(pipe, 1, n)

-----------------------------------------------------------------------------
(* The runners: the answers each may give, as writes to the two pipes, and *)
(* whether a model is loaded afterwards.                                   *)

Says(pipe, m) == [i \in 1 .. 2 |-> [to |-> pipe, piece |-> Wire(m)[i]]]
Ok(i) == Says("control", Message("ok", i))
Error(i) == Says("control", Message("error", i))
Answer(out, l) == [out |-> out, loaded |-> l]

\* A frame for each sample count, written in turn.
Sounds(i, n) ==
  [k \in 1 .. 2 * n |->
     [to |-> "audio", piece |-> Wire(Frame(i, (k + 1) \div 2, FALSE))[2 - (k % 2)]]]
Closing(i, n) == Says("audio", Frame(i, n, TRUE))

\* Kokoro: a package it cannot open is refused, and nothing stays loaded.
KokoroLoad(i) == {Answer(Ok(i), TRUE), Answer(Error(i), FALSE)}

\* Kokoro flags its last frame and replies before it writes the first.
KokoroSynthesis(i) ==
  {Answer(Ok(i) \o Sounds(i, Frames - 1) \o Closing(i, Frames), TRUE)}

\* Qwen: a load that fails leaves nothing loaded.
QwenLoad(i) == {Answer(Ok(i), TRUE), Answer(Error(i), FALSE)}

\* Qwen streams its frames while it generates; a prompt that is too long, or
\* speech without an end, is rejected after any number of them.
QwenGenerate(i) ==
  {[sounds |-> Sounds(i, n), ok |-> FALSE] : n \in 0 .. Frames}
    \union {[sounds |-> Sounds(i, Frames), ok |-> TRUE]}

\* Qwen closes the stream with an empty frame, then replies or rejects.
QwenSynthesis(i) ==
  {Answer(g.sounds \o Closing(i, 0) \o IF g.ok THEN Ok(i) ELSE Error(i), TRUE) :
     g \in QwenGenerate(i)}

\* The stub refuses loads on demand, holds no model and has one frame to say.
StubLoad(i) == {Answer(Ok(i), TRUE), Answer(Error(i), loaded)}
StubSynthesis(i) == {Answer(Ok(i) \o Closing(i, 1), loaded)}

\* One message of the runner's main loop.  Synthesis without a model throws; an
\* engine that throws for another reason is one of ProcDies' faults.
Handled(m, load, synthesis) ==
  CASE m.what = "initialize" -> {Answer(Ok(m.id), loaded)}
    [] m.what = "load"       -> load
    [] m.what = "unload"     -> {Answer(Ok(m.id), FALSE)}
    [] m.what = "synthesize" -> synthesis
KokoroHandles(m) ==
  Handled(m, KokoroLoad(m.id), IF loaded THEN KokoroSynthesis(m.id) ELSE {})
QwenHandles(m) ==
  Handled(m, QwenLoad(m.id), IF loaded THEN QwenSynthesis(m.id) ELSE {})
StubHandles(m) == Handled(m, StubLoad(m.id), StubSynthesis(m.id))

Handles(m) ==
  CASE engine = "kokoro" -> KokoroHandles(m)
    [] engine = "qwen"   -> QwenHandles(m)
    [] engine = "stub"   -> StubHandles(m)

\* What a complete sentence sounds like.
Sentence(i) ==
  CASE engine = "kokoro" -> [n \in 1 .. Frames |-> Frame(i, n, n = Frames)]
    [] engine = "qwen"   -> [n \in 1 .. Frames |-> Frame(i, n, FALSE)] \o <<Frame(i, 0, TRUE)>>
    [] engine = "stub"   -> <<Frame(i, 1, TRUE)>>

-----------------------------------------------------------------------------
(* The process.                                                            *)

Running == proc = "running"

\* read_some_stdin() and the parser; a message that is complete is handled.
ProcReads ==
  /\ Running /\ toWrite = <<>>
  /\ \E n \in 1 .. Len(stdin) :
       LET buffer == inBuffer \o First(n, stdin) IN
       /\ stdin' = After(n, stdin)
       /\ inBuffer' = Kept(buffer)
       /\ IF Complete(buffer) = <<>>
          THEN UNCHANGED <<proc, toWrite, loaded>>
          ELSE LET m == Complete(buffer)[1] IN
               \/ \E a \in Handles(m) :
                    toWrite' = a.out /\ loaded' = a.loaded /\ UNCHANGED proc
               \/ /\ Handles(m) = {}
                  /\ proc' = "exited" /\ UNCHANGED <<toWrite, loaded>>
  /\ UNCHANGED <<engine, faulty, callVars, hostVars, readerVars, waitVars,
                 control, audio, stdinClosed>>

\* End of input: the main loop returns.
ProcEndOfInput ==
  /\ Running /\ toWrite = <<>> /\ stdin = <<>> /\ stdinClosed
  /\ proc' = "exited"
  /\ UNCHANGED <<engine, faulty, callVars, hostVars, readerVars, waitVars,
                 stdin, control, audio, stdinClosed, inBuffer, toWrite, loaded>>

\* write_stdout() and RunnerAudioOutput::write_frame block while a pipe is full.
ProcWrites ==
  /\ Running /\ toWrite # <<>>
  /\ LET next == Head(toWrite) IN
     IF next.to = "control"
     THEN /\ Len(control) < Capacity
          /\ control' = Append(control, next.piece) /\ UNCHANGED audio
     ELSE /\ Len(audio) < Capacity
          /\ audio' = Append(audio, next.piece) /\ UNCHANGED control
  /\ toWrite' = Tail(toWrite)
  /\ UNCHANGED <<engine, faulty, callVars, hostVars, readerVars, waitVars,
                 stdin, stdinClosed, proc, inBuffer, loaded>>

\* A faulty process exits, at any point of anything.
ProcDies ==
  /\ faulty /\ Running
  /\ proc' = "exited"
  /\ UNCHANGED <<engine, faulty, callVars, hostVars, readerVars, waitVars,
                 stdin, control, audio, stdinClosed, inBuffer, toWrite, loaded>>

\* A faulty process writes what the protocol does not allow.
ProcBabbles ==
  /\ faulty /\ Running
  /\ \/ /\ Len(control) < Capacity /\ control' = Append(control, Junk)
        /\ UNCHANGED audio
     \/ /\ Len(audio) < Capacity /\ audio' = Append(audio, Junk)
        /\ UNCHANGED control
  /\ UNCHANGED <<engine, faulty, callVars, hostVars, readerVars, waitVars,
                 stdin, stdinClosed, procVars>>

-----------------------------------------------------------------------------
(* The thread that makes the call.                                         *)

\* check_wait(), in its order of precedence.
MayWait == ~cancelled /\ ~abort /\ ~late
Interruption == IF cancelled THEN "cancelled" ELSE IF abort THEN "aborted" ELSE "late"

\* The next request of this call, with a deadline of its own.
Request(next, i) ==
  /\ method' = next /\ id' = i
  /\ outgoing' = Wire(Message(next, i))
  /\ host' = "write" /\ abort' = FALSE /\ late' = FALSE

\* The call ends, and whatever the session keeps for the next one is kept.
Return(o, audible) ==
  /\ call' = "none" /\ outcome' = o /\ spoken' = audible
  /\ host' = "idle" /\ reply' = NoReply /\ frames' = <<>>
  /\ UNCHANGED <<live, method, id, outgoing, ctlBuffer, replies, ctlError, cause,
                 reader, audBuffer, audError, audFirst, waitVars>>

\* The session is given up for a reason: close_control_input(), then wait.
GiveUp(why) ==
  /\ host' = "finish" /\ cause' = why /\ stdinClosed' = TRUE
  /\ UNCHANGED <<callVars, outgoing, ctlBuffer, replies, reply, ctlError,
                 readerVars, waitVars, stdin, control, audio, procVars>>

\* A call of RecoveringRunner.
Begin(c) ==
  /\ call = "none" /\ id < MaxCalls
  /\ c = "prepare" => ~live
  /\ c = "unload" => live
  /\ call' = c /\ outcome' = "none" /\ spoken' = <<>> /\ cancelled' = FALSE
  /\ IF live
     THEN Request(c, id + 1)
     ELSE host' = "spawn" /\ UNCHANGED <<method, id, outgoing, abort, late>>
  /\ UNCHANGED <<engine, faulty, live, ctlBuffer, replies, reply, ctlError, cause,
                 readerVars, stdin, control, audio, stdinClosed, procVars>>

\* start(): the constructor makes the pipes and the process.
Spawn ==
  /\ host = "spawn"
  /\ live' = TRUE /\ proc' = "running"
  /\ Request("initialize", id + 1)
  /\ UNCHANGED <<engine, faulty, call, outcome, spoken, ctlBuffer, replies, reply,
                 ctlError, cause, readerVars, cancelled, stdin, control, audio,
                 stdinClosed, inBuffer, toWrite, loaded>>

\* It cannot; its handles are closed and there is no session.
SpawnFails ==
  /\ host = "spawn" /\ faulty
  /\ Return(IF cancelled THEN "cancelled" ELSE "broken", <<>>)
  /\ UNCHANGED <<engine, faulty, stdin, control, audio, stdinClosed, procVars>>

\* write_all(): one piece, while the pipe has room and a reader.
HostWrites ==
  /\ host = "write" /\ outgoing # <<>> /\ MayWait
  /\ Running /\ Len(stdin) < Capacity
  /\ stdin' = Append(stdin, Head(outgoing)) /\ outgoing' = Tail(outgoing)
  /\ UNCHANGED <<engine, faulty, callVars, host, ctlBuffer, replies, reply, ctlError,
                 cause, readerVars, waitVars, control, audio, stdinClosed, procVars>>

\* Mutant: the audio is drained after the reply.
StartsWaitingAlone ==
  /\ host = "write" /\ outgoing = <<>>
  /\ host' = "await"
  /\ UNCHANGED <<engine, faulty, callVars, outgoing, ctlBuffer, replies, reply, ctlError,
                 cause, readerVars, waitVars, stdin, control, audio, stdinClosed, procVars>>

\* All is written: wait for the reply, and for synthesize start the audio thread.
StartsWaiting ==
  /\ host = "write" /\ outgoing = <<>>
  /\ host' = "await"
  /\ reader' = IF method = "synthesize" THEN "reading" ELSE "none"
  /\ UNCHANGED <<engine, faulty, callVars, outgoing, ctlBuffer, replies, reply, ctlError,
                 cause, audBuffer, frames, audError, audFirst, waitVars,
                 stdin, control, audio, stdinClosed, procVars>>

\* An error of the control channel.  During synthesize it interrupts the audio
\* thread and waits for it; an unload goes on to finish() whatever happened.
ControlFails(e) ==
  IF method = "synthesize" /\ host = "await"
  THEN /\ ctlError' = e /\ abort' = TRUE /\ host' = "join"
       /\ UNCHANGED <<callVars, outgoing, ctlBuffer, replies, reply, cause, readerVars,
                      late, cancelled, stdin, control, audio, stdinClosed, procVars>>
  ELSE GiveUp(IF method = "unload" THEN "unloaded" ELSE e)

\* The wait is over for another reason, or the process has closed its pipe.
HostFails ==
  /\ \/ host = "write" /\ outgoing # <<>>
     \/ host = "await" /\ replies = <<>>
  /\ \/ ~MayWait /\ ControlFails(Interruption)
     \/ /\ MayWait /\ ~Running
        /\ host = "await" => control = <<>>
        /\ ControlFails("closed")
  /\ UNCHANGED <<engine, faulty>>

\* receive_control_message(): read some bytes and push them to the parser.
HostReads ==
  /\ host = "await" /\ replies = <<>> /\ MayWait
  /\ \E n \in 1 .. Len(control) :
       LET buffer == ctlBuffer \o First(n, control) IN
       IF Malformed(buffer)
       THEN ControlFails("malformed")
       ELSE /\ control' = After(n, control)
            /\ ctlBuffer' = Kept(buffer) /\ replies' = Complete(buffer)
            /\ UNCHANGED <<callVars, host, outgoing, reply, ctlError, cause, readerVars,
                           waitVars, stdin, audio, stdinClosed, procVars>>
  /\ UNCHANGED <<engine, faulty>>

\* The reply to synthesize is kept until the audio is complete.
TakeSpoken ==
  /\ host = "await" /\ replies # <<>> /\ method = "synthesize"
  /\ reply' = Head(replies) /\ replies' = Tail(replies) /\ host' = "join"
  /\ UNCHANGED <<engine, faulty, callVars, outgoing, ctlBuffer, ctlError, cause, readerVars,
                 waitVars, stdin, control, audio, stdinClosed, procVars>>

\* start(): initialize, load, and then the request the session was started for.
TakeStarted ==
  /\ host = "await" /\ replies # <<>> /\ method \in {"initialize", "load"}
  /\ LET taken == Head(replies) IN
     IF taken.what = "error"
     THEN GiveUp("refused")
     ELSE /\ replies' = Tail(replies)
          /\ IF method = "load" /\ call = "prepare"
             THEN /\ call' = "none" /\ outcome' = "ok" /\ host' = "idle"
                  /\ UNCHANGED <<method, id, outgoing, abort, late>>
             ELSE /\ Request(IF method = "initialize" THEN "load" ELSE call, id + 1)
                  /\ UNCHANGED <<call, outcome>>
          /\ UNCHANGED <<live, spoken, ctlBuffer, reply, ctlError, cause, readerVars,
                         cancelled, stdin, control, audio, stdinClosed, procVars>>
  /\ UNCHANGED <<engine, faulty>>

\* RecoveringRunner::unload() finishes the session, whatever the reply.
TakeUnloaded ==
  /\ host = "await" /\ replies # <<>> /\ method = "unload"
  /\ GiveUp("unloaded")
  /\ UNCHANGED <<engine, faulty>>

\* Mutant: the control channel's error is reported whenever there is one.
FirstErrorControl == IF ctlError # "none" THEN ctlError ELSE audError

\* The first of the two errors, and never the interruption it caused.
FirstError ==
  IF audError # "none" /\ (audFirst \/ ctlError = "none") THEN audError ELSE ctlError

\* Mutant: a rejection is returned without draining the audio.
JoinUndrained ==
  /\ host = "join" /\ (reader \in {"done", "failed"} \/ reply.what = "error")
  /\ IF FirstError # "none"
     THEN GiveUp(FirstError)
     ELSE /\ call' = "none" /\ host' = "idle" /\ abort' = FALSE
          /\ reader' = "none" /\ reply' = NoReply /\ frames' = <<>>
          /\ IF reply.what = "error"
             THEN outcome' = "rejected" /\ UNCHANGED spoken
             ELSE outcome' = "ok" /\ spoken' = frames
          /\ UNCHANGED <<live, method, id, outgoing, ctlBuffer, replies, ctlError, cause,
                         audBuffer, audError, audFirst, late, cancelled,
                         stdin, control, audio, stdinClosed, procVars>>
  /\ UNCHANGED <<engine, faulty>>

\* reader.join(), and the outcome of synthesize.
Join ==
  /\ host = "join" /\ reader \in {"done", "failed"}
  /\ IF FirstError # "none"
     THEN GiveUp(FirstError)
     ELSE /\ call' = "none" /\ host' = "idle" /\ abort' = FALSE
          /\ reader' = "none" /\ reply' = NoReply /\ frames' = <<>>
          /\ IF reply.what = "error"
             THEN outcome' = "rejected" /\ UNCHANGED spoken
             ELSE outcome' = "ok" /\ spoken' = frames
          /\ UNCHANGED <<live, method, id, outgoing, ctlBuffer, replies, ctlError, cause,
                         audBuffer, audError, audFirst, late, cancelled,
                         stdin, control, audio, stdinClosed, procVars>>
  /\ UNCHANGED <<engine, faulty>>

\* The outcome RecoveringRunner makes of a finished session.
Ending ==
  IF cause = "unloaded" THEN "ok"
  ELSE IF cause = "refused" THEN "refused"
  ELSE IF cause = "cancelled" \/ cancelled THEN "cancelled"
  ELSE "broken"

\* finish() has reaped the process, or has waited once more for one it killed and
\* gives that up too: it closes the pipes, and the session is reset.
Dropped ==
  /\ host = "finish" /\ proc \in {"exited", "killed"}
  /\ call' = "none" /\ host' = "idle" /\ live' = FALSE
  /\ outcome' = Ending /\ cause' = "none"
  /\ outgoing' = <<>> /\ ctlBuffer' = <<>> /\ replies' = <<>> /\ reply' = NoReply
  /\ ctlError' = "none" /\ reader' = "none" /\ audBuffer' = <<>> /\ frames' = <<>>
  /\ audError' = "none" /\ audFirst' = FALSE /\ abort' = FALSE /\ late' = FALSE
  /\ stdin' = <<>> /\ control' = <<>> /\ audio' = <<>> /\ stdinClosed' = FALSE
  /\ proc' = "none" /\ inBuffer' = <<>> /\ toWrite' = <<>> /\ loaded' = FALSE
  /\ UNCHANGED <<engine, faulty, method, id, spoken, cancelled>>

\* The shutdown deadline of a faulty process passes and it is killed.  Nothing is
\* known of it any more: the second wait is bounded and its result ignored.
Kill ==
  /\ faulty /\ host = "finish" /\ Running
  /\ proc' = "killed"
  /\ UNCHANGED <<engine, faulty, callVars, hostVars, readerVars, waitVars,
                 stdin, control, audio, stdinClosed, inBuffer, toWrite, loaded>>

-----------------------------------------------------------------------------
(* The audio thread of send_request().                                     *)

\* Its exception handler: the first to fail interrupts the other.
AudioFails(e) ==
  /\ audError' = e /\ audFirst' = ~abort /\ abort' = TRUE /\ reader' = "failed"
  /\ UNCHANGED <<audBuffer, frames, audio>>

\* receive_audio_stream(): read some bytes, until a frame ends the stream.
ReaderReads ==
  /\ reader = "reading" /\ MayWait
  /\ \E n \in 1 .. Len(audio) :
       LET buffer == audBuffer \o First(n, audio) IN
       IF Malformed(buffer)
       THEN AudioFails("malformed")
       ELSE /\ audio' = After(n, audio)
            /\ audBuffer' = Kept(buffer)
            /\ frames' = frames \o Complete(buffer)
            /\ reader' = IF \E i \in DOMAIN Complete(buffer) : Complete(buffer)[i].last
                         THEN "done" ELSE "reading"
            /\ UNCHANGED <<audError, audFirst, abort>>
  /\ UNCHANGED <<engine, faulty, callVars, hostVars, late, cancelled,
                 stdin, control, stdinClosed, procVars>>

ReaderFails ==
  /\ reader = "reading"
  /\ \/ ~MayWait /\ AudioFails(Interruption)
     \/ MayWait /\ ~Running /\ audio = <<>> /\ AudioFails("closed")
  /\ UNCHANGED <<engine, faulty, callVars, hostVars, late, cancelled,
                 stdin, control, stdinClosed, procVars>>

-----------------------------------------------------------------------------
(* Time and the user.                                                      *)

Expire ==
  /\ faulty /\ host \in {"write", "await", "join"} /\ ~late
  /\ late' = TRUE
  /\ UNCHANGED <<engine, faulty, callVars, hostVars, readerVars, abort, cancelled,
                 stdin, control, audio, stdinClosed, procVars>>

Cancel ==
  /\ faulty /\ call # "none" /\ ~cancelled
  /\ cancelled' = TRUE
  /\ UNCHANGED <<engine, faulty, callVars, hostVars, readerVars, abort, late,
                 stdin, control, audio, stdinClosed, procVars>>

-----------------------------------------------------------------------------

Init ==
  /\ engine \in Engines /\ faulty \in BOOLEAN
  /\ live = FALSE /\ call = "none" /\ method = "none" /\ id = 0
  /\ outcome = "none" /\ spoken = <<>>
  /\ host = "idle" /\ outgoing = <<>> /\ ctlBuffer = <<>> /\ replies = <<>>
  /\ reply = NoReply /\ ctlError = "none" /\ cause = "none"
  /\ reader = "none" /\ audBuffer = <<>> /\ frames = <<>>
  /\ audError = "none" /\ audFirst = FALSE
  /\ abort = FALSE /\ late = FALSE /\ cancelled = FALSE
  /\ stdin = <<>> /\ control = <<>> /\ audio = <<>> /\ stdinClosed = FALSE
  /\ proc = "none" /\ inBuffer = <<>> /\ toWrite = <<>> /\ loaded = FALSE

HostStep ==
  \/ Spawn \/ SpawnFails \/ HostWrites \/ StartsWaiting \/ HostFails \/ HostReads
  \/ TakeSpoken \/ TakeStarted \/ TakeUnloaded \/ Join \/ Dropped
ReaderStep == ReaderReads \/ ReaderFails
ProcStep == ProcReads \/ ProcEndOfInput \/ ProcWrites

Next ==
  \/ \E c \in {"prepare", "synthesize", "unload"} : Begin(c)
  \/ HostStep \/ ReaderStep \/ ProcStep
  \/ ProcDies \/ ProcBabbles \/ Kill \/ Expire \/ Cancel

\* The Host's threads run and time passes; only a sound process is sure to run.
Fairness ==
  /\ WF_vars(HostStep) /\ WF_vars(ReaderStep) /\ WF_vars(Kill) /\ WF_vars(Expire)
  /\ WF_vars(~faulty /\ ProcStep)

Spec == Init /\ [][Next]_vars /\ Fairness

-----------------------------------------------------------------------------
(* Properties.                                                             *)

Errors == {"none", "cancelled", "aborted", "late", "closed", "malformed"}

\* Every variable keeps its type.
TypeOK ==
  /\ engine \in Engines /\ faulty \in BOOLEAN /\ live \in BOOLEAN
  /\ call \in {"none", "prepare", "synthesize", "unload"}
  /\ method \in {"none", "initialize", "load", "synthesize", "unload"}
  /\ outcome \in {"none", "ok", "rejected", "refused", "broken", "cancelled"}
  /\ host \in {"idle", "spawn", "write", "await", "join", "finish"}
  /\ reader \in {"none", "reading", "done", "failed"}
  /\ ctlError \in Errors /\ audError \in Errors
  /\ cause \in (Errors \union {"refused", "unloaded"})
  /\ proc \in {"none", "running", "exited", "killed"}
  /\ Len(stdin) <= Capacity /\ Len(control) <= Capacity /\ Len(audio) <= Capacity

\* A sentence is returned whole or not at all, and its audio is that of the
\* request: no frame of an earlier, rejected or broken request is left in a
\* pipe or a parser.  (receive_audio_stream, RunnerAudioFrameParser.)
SpokenIsWhole == spoken # <<>> => spoken = Sentence(id)

\* Replies carry an id that is never compared: they are matched by arrival.
\* A reply that is taken nevertheless answers the request it is taken for,
\* however late an earlier one was answered.  (send_request, drop_session.)
RepliesMatch == \A r \in {reply} \union {replies[i] : i \in DOMAIN replies} :
                  r # NoReply => r.id = id

\* The error a session is given up for is the one that happened, never the
\* interruption of the other reader that it caused.  (send_request.)
OriginalErrorReported == cause # "aborted"

\* A process that runs and answers in time is never taken for a broken one,
\* however its writes to two bounded pipes and the Host's reads interleave.
SoundRunnerServes == ~faulty => outcome \notin {"broken", "cancelled"}

\* A session that waits for the next request waits with empty channels.
AlignedWhenIdle ==
  live /\ host = "idle" =>
    /\ replies = <<>> /\ ctlBuffer = <<>> /\ audBuffer = <<>>
    /\ ~faulty => control = <<>> /\ audio = <<>> /\ toWrite = <<>>

\* No request gets anything of another one: no frame, no reply and no byte.
ExchangeIsClean == TypeOK /\ SpokenIsWhole /\ RepliesMatch /\ AlignedWhenIdle

\* A runner that did nothing wrong is not given up, and one that is given up is
\* given up for what it did.
FailuresAreReal == OriginalErrorReported /\ SoundRunnerServes

\* The session implements RunnerContract: in particular every call ends.
Contract == INSTANCE RunnerContract WITH ready <- live /\ call = "none"
ImplementsContract == Contract!Spec

=============================================================================
