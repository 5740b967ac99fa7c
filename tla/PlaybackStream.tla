--------------------------- MODULE PlaybackStream ---------------------------
(***************************************************************************)
(* One utterance's endpoint stream (src/src/playback_sink.cpp): one client  *)
(* for all of its sentences, fed and drained by calls that never overlap,   *)
(* while the endpoint plays what is queued, the user pauses, seeks and      *)
(* stops, and Windows moves or takes away the endpoint.                     *)
(* A place in the audio is a sentence and ticks into it; every frame rate   *)
(* has a whole number of ticks per frame.                                   *)
(***************************************************************************)
EXTENDS Integers, Sequences

CONSTANTS
  Ticks,       \* ticks per second
  Clips,   \* the sentences, as records of rate and frames
  Endpoints,   \* frame rate of each endpoint
  Capacity,    \* frames in the endpoint buffer
  MaxSeeks,    \* bound on seeks
  MaxLosses,   \* bound on invalidations
  MaxMoves     \* bound on changes of the default endpoint

ASSUME StreamBounds ==
  /\ Ticks \in Nat \ {0} /\ Capacity \in Nat \ {0}
  /\ Clips # <<>> /\ Clips \in Seq([rate : Nat \ {0}, frames : Nat \ {0}])
  /\ \A s \in DOMAIN Clips : Ticks % Clips[s].rate = 0
  /\ Endpoints # <<>> /\ Endpoints \in Seq(Nat \ {0})
  /\ \A e \in DOMAIN Endpoints : Ticks % Endpoints[e] = 0
  /\ MaxSeeks \in Nat /\ MaxLosses \in Nat /\ MaxMoves \in Nat

VARIABLES
  follows,    \* device_name_ is the system default
  default,    \* where that name leads to
  client,     \* client_, endpoint_id_, source_rate_ and started_, or NoClient
  buffer,     \* frames the endpoint has yet to play
  generation, \* generation_
  segment,    \* the sentence fed last: its first frame and next_frame
  call,       \* the call under way, and where it is
  playNext,   \* where the pipeline plays from next, and the seek it handled
  control,    \* the token: cancelled, paused, seeks and the last one's target
  position,   \* the published position
  due,        \* history: up to where sound was played, or lost with an endpoint
  overrun,    \* history: frames played during a pause
  upsets      \* history: losses and moves so far

callVars == <<call, playNext, position>>
endpointVars == <<client, buffer>>
streamVars == <<follows, default, endpointVars, generation, segment, callVars,
                control, due, overrun, upsets>>

NoClient == [endpoint |-> 0]
Opened == client # NoClient
Rate == Endpoints[client.endpoint]
Count == Len(Clips)
Smaller(a, b) == IF a < b THEN a ELSE b

\* convert_frame_position() rounds down, convert_pcm_s16le() up.
Converted(frame, from, to) == (frame * to) \div from
ConvertedFrames(s, to) == (Clips[s].frames * to + Clips[s].rate - 1) \div Clips[s].rate

PlaceAt(s, frame, rate) == [s |-> s, at |-> frame * (Ticks \div rate)]
SourcePlace(p) == PlaceAt(p.s, p.frame, Clips[p.s].rate)
EndOf(s) == PlaceAt(s, Clips[s].frames, Clips[s].rate)

-----------------------------------------------------------------------------
(* The pieces of a call                                                    *)

\* close() and flush() drop what is queued; a flushed client stands still.
Closed == client' = NoClient /\ buffer' = <<>>
ClientFlushed ==
  /\ client' = [client EXCEPT !.started = FALSE] /\ buffer' = <<>>
  /\ segment' = [segment EXCEPT !.next = segment.base]
Started(b) == client' = [client EXCEPT !.started = b] /\ UNCHANGED buffer
StreamKept == UNCHANGED <<endpointVars, segment>>

At(pc) == call' = [call EXCEPT !.pc = pc] /\ UNCHANGED <<playNext, position>>

\* The pipeline joins the call, which last published `heard`, and takes up a seek
\* before what comes next.
ReturnedAt(interrupted, heard) ==
  LET ended == IF control.cancelled THEN "stopped"
               ELSE IF call.op = "drain" /\ ~interrupted THEN "done" ELSE "idle"
      sought == ended = "idle" /\ control.seeks # playNext.handled
  IN /\ call' = [call EXCEPT !.pc = ended]
     /\ playNext' = IF sought
                    THEN [s |-> control.target.s, frame |-> control.target.frame,
                          handled |-> control.seeks]
                    ELSE [s |-> call.s + 1, frame |-> 0, handled |-> playNext.handled]
     /\ position' = IF sought THEN SourcePlace(control.target) ELSE heard

Returned(interrupted) == ReturnedAt(interrupted, position)

\* EndpointInvalidated ends a drain; play_from() begins again with what was not
\* queued, on whatever endpoint there is now.
Invalidated ==
  /\ Closed
  /\ CASE call.op = "drain" -> Returned(FALSE)
       [] call.op = "reopen" /\ control.cancelled -> Returned(FALSE)
       [] call.op = "reopen" /\ ~control.cancelled ->
            call' = [call EXCEPT !.op = "play", !.pc = "open"] /\ UNCHANGED <<playNext, position>>
       [] call.op = "play" ->
            /\ call' = [call EXCEPT !.pc = "open",
                          !.frame = Converted(segment.next, Rate, Clips[call.s].rate)]
            /\ UNCHANGED <<playNext, position>>

\* stop() notices a lost endpoint only if the client was running.
Stopped(next) ==
  IF client.started /\ client.lost THEN Invalidated ELSE Started(FALSE) /\ next

-----------------------------------------------------------------------------
(* play_from() and drain()                                                 *)

StreamInit ==
  /\ follows \in BOOLEAN /\ default = 1
  /\ client = NoClient /\ buffer = <<>> /\ generation = 0
  /\ segment = [s |-> 1, base |-> 0, next |-> 0]
  /\ call = [op |-> "play", s |-> 1, frame |-> 0, gen |-> 0, pc |-> "idle"]
  /\ playNext = [s |-> 1, frame |-> 0, handled |-> 0]
  /\ control = [cancelled |-> FALSE, paused |-> FALSE, seeks |-> 0, target |-> [s |-> 1, frame |-> 0]]
  /\ position = PlaceAt(1, 0, Ticks) /\ due = PlaceAt(1, 0, Ticks)
  /\ overrun = 0 /\ upsets = [losses |-> 0, moves |-> 0]

\* default_endpoint_changed(), or a source of another format: the client is
\* drained and opened anew.
Reopens(s) ==
  Opened /\ (client.source # Clips[s].rate \/ (follows /\ client.endpoint # default))

\* Mutant: what was queued before the seek is kept.
FlushStaleNever == StreamKept

\* A call after a seek drops what an earlier one left in the buffer.
FlushStale ==
  IF Opened /\ playNext.handled # generation THEN ClientFlushed ELSE StreamKept

PlayFrom ==
  /\ call.pc = "idle" /\ playNext.s <= Count /\ ~control.cancelled
  /\ FlushStale
  /\ generation' = playNext.handled
  /\ call' = [op |-> IF Reopens(playNext.s) THEN "reopen" ELSE "play",
              s |-> playNext.s, frame |-> playNext.frame, gen |-> playNext.handled,
              pc |-> IF Reopens(playNext.s) THEN "observe" ELSE "open"]
  /\ due' = IF playNext.handled # generation THEN SourcePlace(playNext) ELSE due
  /\ UNCHANGED <<follows, default, playNext, position, control, overrun, upsets>>

Drain ==
  /\ call.pc = "idle" /\ playNext.s > Count /\ ~control.cancelled
  /\ call' = [op |-> "drain", s |-> Count, frame |-> 0, gen |-> playNext.handled,
              pc |-> IF Opened THEN "observe" ELSE "done"]
  /\ UNCHANGED <<follows, default, endpointVars, generation, segment, playNext, position,
                 control, due, overrun, upsets>>

\* open() unless the client is kept, and where the sentence begins in the queue.
OpenStream ==
  /\ call.pc = "open"
  /\ LET source == Clips[call.s].rate
         on == IF Opened THEN client.endpoint ELSE default
         first == Smaller(ConvertedFrames(call.s, Endpoints[on]),
                        Converted(call.frame, source, Endpoints[on]))
     IN /\ client' = IF Opened THEN client
                     ELSE [endpoint |-> on, source |-> source, lost |-> FALSE, started |-> FALSE]
        /\ segment' = [s |-> call.s, base |-> first, next |-> first]
  /\ call' = [call EXCEPT !.pc = "observe"]
  /\ position' = SourcePlace(call)
  /\ UNCHANGED <<follows, default, buffer, generation, playNext, control, due, overrun, upsets>>

\* No endpoint answers to the configured name, or it refuses the format.
OpenFails ==
  /\ call.pc = "open" /\ ~Opened
  /\ At("failed")
  /\ UNCHANGED <<follows, default, endpointVars, generation, segment, control,
                 due, overrun, upsets>>

\* observe_controls()
Observe ==
  /\ call.pc = "observe"
  /\ CASE control.cancelled -> Stopped(Returned(FALSE)) /\ UNCHANGED segment
       [] ~control.cancelled /\ control.seeks # call.gen -> ClientFlushed /\ Returned(TRUE)
       [] ~control.cancelled /\ control.seeks = call.gen /\ control.paused ->
            Stopped(At("held")) /\ UNCHANGED segment
       [] OTHER -> At("feed") /\ StreamKept
  /\ UNCHANGED <<follows, default, generation, control, due, overrun, upsets>>

\* wait_until_resumed_or_seek() returns.
Released ==
  /\ call.pc = "held"
  /\ \/ control.cancelled /\ Returned(FALSE) /\ StreamKept
     \/ ~control.cancelled /\ control.seeks # call.gen /\ ClientFlushed /\ Returned(TRUE)
     \/ /\ ~control.cancelled /\ control.seeks = call.gen /\ ~control.paused
        /\ At("feed") /\ StreamKept
  /\ UNCHANGED <<follows, default, generation, control, due, overrun, upsets>>

\* The next n frames of the sentence, as the endpoint will play them.
Frames(n) ==
  [k \in 1 .. n |->
     [gen |-> generation, from |-> PlaceAt(call.s, segment.next + k - 1, Rate),
      until |-> PlaceAt(call.s, segment.next + k, Rate)]]

\* One turn of play_from()'s loop: fill the buffer, start the client, return when
\* all is queued.
Feed ==
  /\ call.pc = "feed" /\ call.op = "play"
  /\ LET total == ConvertedFrames(call.s, Rate)
         n == Smaller(Capacity - Len(buffer), total - segment.next)
     IN IF client.lost THEN Invalidated /\ UNCHANGED segment
        ELSE /\ buffer' = buffer \o Frames(n)
             /\ segment' = [segment EXCEPT !.next = @ + n]
             /\ client' = [client EXCEPT !.started = TRUE]
             /\ IF segment.next + n >= total THEN Returned(FALSE) ELSE At("wait")
  /\ UNCHANGED <<follows, default, generation, control, due, overrun, upsets>>

\* One turn of drain()'s loop.
Empty ==
  /\ call.pc = "feed" /\ call.op \in {"drain", "reopen"}
  /\ IF client.lost THEN Invalidated
     ELSE Started(TRUE) /\ At(IF buffer = <<>> THEN "emptied" ELSE "wait")
  /\ UNCHANGED <<follows, default, generation, segment, control, due, overrun, upsets>>

\* publish_position(): the tail of an earlier sentence counts as nothing played.
Published ==
  IF client.lost \/ Len(buffer) > segment.next - segment.base THEN position
  ELSE PlaceAt(segment.s, segment.next - Len(buffer), Rate)

\* wait_for_period(): the endpoint asks for more, or a period has passed.
Wait ==
  /\ call.pc = "wait"
  /\ position' = Published
  /\ call' = [call EXCEPT !.pc = "observe"]
  /\ UNCHANGED <<follows, default, endpointVars, generation, segment, playNext, control,
                 due, overrun, upsets>>

\* The end of drain().  Its stop() is outside the try block, so an endpoint lost
\* just then fails the utterance.
Emptied ==
  /\ call.pc = "emptied"
  /\ CASE client.lost -> At("failed") /\ UNCHANGED endpointVars
       [] ~client.lost /\ (call.op = "drain" \/ control.cancelled) ->
            Started(FALSE) /\ ReturnedAt(FALSE, Published)
       [] ~client.lost /\ call.op = "reopen" /\ ~control.cancelled ->
            /\ Closed
            /\ call' = [call EXCEPT !.op = "play", !.pc = "open"]
            /\ position' = Published /\ UNCHANGED playNext
  /\ UNCHANGED <<follows, default, generation, segment, control, due, overrun, upsets>>

-----------------------------------------------------------------------------
(* The endpoint, Windows and the user                                      *)

Audible == Opened /\ client.started /\ ~client.lost /\ buffer # <<>>

\* The endpoint plays a frame; with nothing queued it plays silence.
Play ==
  /\ Audible
  /\ buffer' = Tail(buffer)
  /\ due' = Head(buffer).until
  /\ overrun' = IF control.paused THEN overrun + 1 ELSE 0
  /\ UNCHANGED <<follows, default, client, generation, segment, callVars, control, upsets>>

\* The endpoint is gone, with what was queued on it.
Lose ==
  /\ Opened /\ ~client.lost /\ upsets.losses < MaxLosses
  /\ client' = [client EXCEPT !.lost = TRUE]
  /\ buffer' = <<>>
  /\ due' = IF buffer = <<>> THEN due ELSE buffer[Len(buffer)].until
  /\ upsets' = [upsets EXCEPT !.losses = @ + 1]
  /\ UNCHANGED <<follows, default, generation, segment, callVars, control, overrun>>

MoveDefault ==
  /\ follows /\ upsets.moves < MaxMoves
  /\ \E e \in DOMAIN Endpoints \ {default} : default' = e
  /\ upsets' = [upsets EXCEPT !.moves = @ + 1]
  /\ UNCHANGED <<follows, endpointVars, generation, segment, callVars, control, due, overrun>>

PauseOrResume ==
  /\ ~control.cancelled
  /\ control' = [control EXCEPT !.paused = ~@]
  /\ overrun' = 0
  /\ UNCHANGED <<follows, default, endpointVars, generation, segment, callVars, due, upsets>>

Seek ==
  /\ ~control.cancelled /\ control.seeks < MaxSeeks
  /\ \E s \in DOMAIN Clips : \E f \in 0 .. Clips[s].frames :
       control' = [control EXCEPT !.seeks = @ + 1, !.target = [s |-> s, frame |-> f]]
  /\ UNCHANGED <<follows, default, endpointVars, generation, segment, callVars, due,
                 overrun, upsets>>

CancelStream ==
  /\ ~control.cancelled
  /\ control' = [control EXCEPT !.cancelled = TRUE]
  /\ UNCHANGED <<follows, default, endpointVars, generation, segment, callVars, due,
                 overrun, upsets>>

StreamNext ==
  \/ PlayFrom \/ Drain \/ OpenStream \/ OpenFails \/ Observe \/ Released \/ Feed \/ Empty
  \/ Wait \/ Emptied \/ Play \/ Lose \/ MoveDefault \/ PauseOrResume \/ Seek \/ CancelStream

-----------------------------------------------------------------------------

\* What of a sentence a place has passed: its last frame on an endpoint may end later.
WithinSentence(p) == Smaller(p.at, EndOf(p.s).at)

\* How far the endpoints lost so far can set a sentence back, by rounding to their
\* frames and back to the source's.
Drift(s, e) == upsets.losses * (Ticks \div Clips[s].rate + Ticks \div Endpoints[e])

\* What is about to be heard follows what was: nothing is skipped, no more is
\* repeated than the rounding of each replaced endpoint and of this one, and nothing
\* queued before a handled seek is heard.  (play_from, flush, convert_frame_position.)
HeardInOrder ==
  Audible =>
    LET sound == Head(buffer)
    IN /\ sound.gen = generation
       /\ \/ /\ sound.from.s = due.s /\ sound.from.at <= due.at
             /\ \E e \in DOMAIN Endpoints :
                  sound.from.at > WithinSentence(due) - Drift(due.s, e) - Ticks \div Rate
          \/ /\ sound.from.s = due.s + 1
             /\ sound.from.at = 0 /\ due.at >= EndOf(due.s).at

\* Pause holds the client stopped, also one that was opened meanwhile, and comes
\* to effect within what was queued and one more filling of the buffer.
PauseIsSilent ==
  /\ call.pc = "held" => ~client.started
  /\ overrun <= 2 * Capacity

\* The utterance is only done when its last frame was played.
DrainedIsHeard ==
  call.pc = "done" => due.s = Count /\ due.at >= EndOf(Count).at

\* A place that was heard, or where the sentence fed last begins.
Before(p, q) == p.s < q.s \/ (p.s = q.s /\ p.at <= q.at)
Reached(p, q) == Before(p, q) \/ p = [s |-> segment.s, at |-> 0]

\* The displayed position is one that was heard, the start of the sentence fed last
\* (which may be queued behind the tail of others), or between two calls where a
\* seek is about to begin: it does not run ahead with the buffer.
\* (Between two clients it may: the drain of a stream that a seek has flushed
\* publishes the start of the sentence left behind.)
PositionIsHeard ==
  call.pc \notin {"open", "failed", "stopped"} =>
    \/ Reached(position, due)
    \/ call.pc = "idle" /\ playNext.handled # generation /\ position = SourcePlace(playNext)

\* One endpoint stream is heard as one recording.
StreamIsHeard == HeardInOrder /\ PauseIsSilent /\ DrainedIsHeard /\ PositionIsHeard

=============================================================================
