----------------------- MODULE SynthesisPipelineProofs -----------------------
(***************************************************************************)
(* Proofs about SynthesisPipeline, for every number of sentences, every    *)
(* lookahead, all durations and speeds, any number of seeks and of speed   *)
(* changes.                                                                *)
(*                                                                         *)
(* The coordinator services playback between any two of its statements, so *)
(* what it knew before it pumped need not hold after it.  The inductive    *)
(* invariant IInv says what does survive a pump: which statements may be   *)
(* resumed (Resumable), that a request in flight has its place reserved    *)
(* (Backpressure), and, as long as nothing was sought, how the coordinator, *)
(* the playback thread and the listener agree on where the text is         *)
(* (PlaysInOrder, HeardSoFar).                                             *)
(***************************************************************************)
EXTENDS SynthesisPipeline, WellFoundedInduction, TLAPS

-----------------------------------------------------------------------------
(* Least elements.                                                         *)

\* A nonempty set of naturals has a least element.
LEMMA LeastNatural ==
  ASSUME NEW T \in SUBSET Nat, T # {}
  PROVE  \E x \in T : \A y \in T : x <= y
<1> DEFINE R == {p \in Nat \X Nat : p[1] < p[2]}
<1>1. IsWellFoundedOn(R, Nat)
  BY NatLessThanWellFounded DEF OpToRel
<1>2. \E x \in T : \A y \in T : <<y, x>> \notin R
  <2> HIDE DEF R
  <2> QED BY <1>1, WFMin
<1>3. PICK x \in T : \A y \in T : <<y, x>> \notin R
  BY <1>2
<1>4. ASSUME NEW y \in T PROVE x <= y
  <2>1. x \in Nat /\ y \in Nat
    OBVIOUS
  <2>2. <<y, x>> \in Nat \X Nat /\ <<y, x>> \notin R
    BY <1>3, <2>1
  <2>3. ~ (y < x)
    BY <2>2
  <2>4. QED BY <2>1, <2>3
<1>5. QED BY <1>4

LEMMA MinOfNaturals ==
  ASSUME NEW T \in SUBSET Nat, T # {}
  PROVE  Min(T) \in T /\ \A y \in T : Min(T) <= y
BY LeastNatural DEF Min

LEMMA MinMaxOfTwo ==
  ASSUME NEW a \in Nat, NEW b \in Nat
  PROVE  /\ Min({a, b}) = IF a <= b THEN a ELSE b
         /\ Max({a, b}) = IF a <= b THEN b ELSE a
BY DEF Min, Max

-----------------------------------------------------------------------------
(* The inductive invariant.                                                *)

\* The utterance is being given up: nothing is retained or played any more.
Left == {"abort", "unwind", "aborted"}

\* The coordinator waits for everything that was queued to be heard.
Draining == pc = "join" /\ ret = "drained"

\* A sentence is being synthesized, or is about to be, or waits to be retained.
InFlight == synth # "none" \/ pc = "readgen"

\* The first sentence begins the timeline.
BeginsAtZero == IF retained = <<>> THEN generated = 0 ELSE retained[1].start = 0

Timeline == TimelineIsGapless /\ BeginsAtZero

\* What the coordinator may rely on where a pump returns to, or a drain ends.
Resumable ==
  /\ pc \in {"service", "launch"} => ret # "drained"
  /\ ret = "gate" /\ pc \in {"service", "join", "seek", "reseek", "launch"} =>
       nextText <= Texts
  /\ pc = "gate" => nextText <= Texts
  /\ pc = "reseek" => retained # <<>> /\ handled <= seekRead /\ seekGen > 0
  /\ player = "playing" => playIndex >= 1
  /\ player = "draining" => Draining
  /\ Draining => player \in {"draining", "ended"} /\ nextText > Texts /\ nextPlay > Len(retained)
  /\ pc \in {"finish", "done"} => player = "none" /\ nextPlay = Texts + 1
  /\ pc = "done" => ~Cancelled

\* The sentence in flight has a place within the lookahead, and within what may
\* still come after a pause.
Backpressure ==
  /\ LookaheadIsBounded /\ PauseStopsLookahead
  /\ InFlight => Unplayed < Lookahead
  /\ InFlight /\ Control \in paused => Len(retained) <= pauseMark

\* Without a seek the sentence to play is the one after those launched.
PlaysInOrder ==
  seekGen = 0 /\ pc \notin Left =>
    /\ nextFrame = 0
    /\ player # "none" => ~interrupted
    /\ player = "none" \/ Draining => nextPlay = launched + 1
    /\ player # "none" /\ ~Draining => playIndex = launched /\ nextPlay = launched

\* Without a seek or a stop the listener is where the playback thread is, or
\* where the next one will begin.
HeardSoFar ==
  seekGen = 0 /\ pc \notin Left /\ ~Cancelled =>
    /\ player = "none" \/ Draining => expect = [text |-> nextPlay, frame |-> 0]
    /\ player = "playing" => /\ playPos < retained[playIndex].duration
                             /\ expect = [text |-> playIndex, frame |-> playPos]
    /\ player = "ended" /\ ~Draining /\ ~playFailed =>
         expect = [text |-> playIndex + 1, frame |-> 0]

IInv ==
  /\ TypeOK
  /\ Timeline
  /\ Backpressure
  /\ Resumable
  /\ PlaysInOrder
  /\ HeardSoFar

-----------------------------------------------------------------------------
(* What the operators return.                                              *)

LEMMA ChunkFields ==
  ASSUME TypeOK, NEW i \in 1 .. Len(retained)
  PROVE  /\ retained[i] \in Chunks
         /\ retained[i].text \in 1 .. Texts /\ retained[i].start \in Nat
         /\ retained[i].duration \in Nat \ {0} /\ retained[i].gen \in Nat
<1>1. retained[i] \in Chunks
  BY DEF TypeOK
<1>2. retained[i].duration \in Durations
  BY <1>1 DEF Chunks
<1>3. QED
  BY PipelineAssumption, <1>1, <1>2 DEF Chunks

LEMMA PlaceType ==
  ASSUME NEW t \in 1 .. Texts, NEW p \in Nat, NEW d \in Nat
  PROVE  Place(t, p, d) \in [text : 1 .. Texts + 1, frame : Nat]
BY PipelineAssumption DEF Place

\* discard_unplayed keeps what was launched, and the timeline ends there.
LEMMA Discarded ==
  ASSUME TypeOK, Timeline, DiscardUnplayed
  PROVE  /\ retained' \in Seq(Chunks) /\ Len(retained') = launched
         /\ \A i \in 1 .. launched : retained'[i] = retained[i]
         /\ nextText' = launched + 1 /\ nextText' \in 1 .. Texts + 1
         /\ generated' \in Nat
         /\ nextPlay' = IF nextPlay <= launched + 1 THEN nextPlay ELSE launched + 1
         /\ expect' \in [text : 1 .. Texts + 1, frame : Nat]
         /\ (expect.text <= launched + 1 => expect' = expect)
         /\ (TimelineIsGapless /\ BeginsAtZero)'
<1> USE PipelineAssumption
<1>1. CASE Unplayed = 0
  <2>1. launched = Len(retained)
    BY <1>1 DEF TypeOK, Unplayed
  <2>2. UNCHANGED <<nextText, generated, retained, nextPlay, expect>>
    BY <1>1 DEF DiscardUnplayed, NothingRewound
  <2>3. (TimelineIsGapless /\ BeginsAtZero)'
    BY <2>2 DEF Timeline, TimelineIsGapless, BeginsAtZero
  <2>4. QED BY <2>1, <2>2, <2>3 DEF Timeline, TimelineIsGapless, TypeOK
<1>2. CASE Unplayed # 0
  <2>1. launched \in Nat /\ Len(retained) \in Nat /\ launched + 1 \in 1 .. Len(retained)
    BY <1>2 DEF TypeOK, Unplayed
  <2>2. retained' = SubSeq(retained, 1, launched)
    BY <1>2 DEF DiscardUnplayed, Rewind
  <2>3. /\ retained' \in Seq(Chunks) /\ Len(retained') = launched
        /\ \A i \in 1 .. launched : retained'[i] = retained[i]
    BY <2>1, <2>2 DEF TypeOK
  <2> DEFINE first == retained[launched + 1]
  <2>4. first.text = launched + 1 /\ first.text \in 1 .. Texts /\ first.start \in Nat
    BY <2>1, ChunkFields DEF Timeline, TimelineIsGapless
  <2>5. /\ nextText' = launched + 1 /\ generated' = first.start
        /\ nextPlay' = Min({nextPlay, launched + 1})
        /\ expect' = IF expect.text > launched + 1 THEN [text |-> launched + 1, frame |-> 0]
                                                   ELSE expect
    BY <1>2, <2>4 DEF DiscardUnplayed, Rewind, FirstUnplayed, NextPlayAfter
  <2>6. nextPlay' = IF nextPlay <= launched + 1 THEN nextPlay ELSE launched + 1
    BY <2>1, <2>5, MinMaxOfTwo DEF TypeOK
  <2>7. /\ expect' \in [text : 1 .. Texts + 1, frame : Nat]
        /\ (expect.text <= launched + 1 => expect' = expect)
    BY <2>1, <2>4, <2>5 DEF TypeOK
  <2>8. TimelineIsGapless'
    <3>1. nextText' = Len(retained') + 1
      BY <2>3, <2>5
    <3>2. ASSUME NEW i \in 1 .. Len(retained')
          PROVE  /\ retained'[i].text = i
                 /\ retained'[i].start + retained'[i].duration
                      = IF i = Len(retained') THEN generated' ELSE retained'[i + 1].start
      <4>1. i \in 1 .. launched /\ i \in 1 .. Len(retained) /\ i # Len(retained)
        BY <2>1, <2>3
      <4>2. retained[i].text = i /\ retained[i].start + retained[i].duration = retained[i + 1].start
        BY <4>1 DEF Timeline, TimelineIsGapless
      <4>3. CASE i = launched
        BY <2>3, <2>5, <4>1, <4>2, <4>3
      <4>4. CASE i # launched
        <5>1. i + 1 \in 1 .. launched
          BY <2>1, <4>1, <4>4
        <5>2. QED BY <2>3, <4>1, <4>2, <4>4, <5>1
      <4>5. QED BY <4>3, <4>4
    <3>3. QED BY <3>1, <3>2 DEF TimelineIsGapless
  <2>9. BeginsAtZero'
    <3>1. retained # <<>> /\ retained[1].start = 0
      BY <2>1 DEF Timeline, BeginsAtZero, TypeOK
    <3>2. CASE launched = 0
      <4>1. retained' = <<>>
        BY <2>3, <3>2
      <4>2. generated' = 0
        BY <2>5, <3>1, <3>2
      <4>3. QED BY <4>1, <4>2 DEF BeginsAtZero
    <3>3. CASE launched # 0
      <4>1. retained' # <<>> /\ retained'[1] = retained[1]
        BY <2>1, <2>3, <3>3
      <4>2. QED BY <3>1, <4>1 DEF BeginsAtZero
    <3>4. QED BY <3>2, <3>3
  <2>10. QED BY <2>1, <2>3, <2>4, <2>5, <2>6, <2>7, <2>8, <2>9
<1>3. QED BY <1>1, <1>2

\* Retaining a sentence extends the timeline by it.
LEMMA Retained ==
  ASSUME TypeOK, Timeline, RetainChunk
  PROVE  /\ retained' \in Seq(Chunks) /\ Len(retained') = Len(retained) + 1
         /\ \A i \in 1 .. Len(retained) : retained'[i] = retained[i]
         /\ nextText' \in 1 .. Texts + 1
         /\ generated' \in Nat
         /\ (TimelineIsGapless /\ BeginsAtZero)'
<1> USE PipelineAssumption
<1> DEFINE n == Len(retained)
<1>1. PICK d \in Durations :
        /\ retained' = Append(retained, [text |-> textIndex, start |-> generated, duration |-> d,
                                         speed |-> chunkSpeed, gen |-> chunkGen])
        /\ generated' = generated + d
  BY DEF RetainChunk
<1> DEFINE new == [text |-> textIndex, start |-> generated, duration |-> d,
                   speed |-> chunkSpeed, gen |-> chunkGen]
<1>2. n \in Nat /\ textIndex = n + 1 /\ nextText' = n + 2 /\ textIndex \in 1 .. Texts
  BY DEF TypeOK, Timeline, TimelineIsGapless, RetainChunk
<1>3. new \in Chunks
  BY <1>1 DEF TypeOK, Chunks
<1>4. /\ retained' \in Seq(Chunks) /\ Len(retained') = n + 1
      /\ \A i \in 1 .. n : retained'[i] = retained[i]
      /\ retained'[n + 1] = new
  <2> HIDE DEF new
  <2>1. retained' = Append(retained, new)
    BY <1>1 DEF new
  <2>2. retained \in Seq(Chunks)
    BY DEF TypeOK
  <2>3. QED BY <1>3, <2>1, <2>2
<1>5. generated' \in Nat /\ generated' = generated + d /\ d \in Nat /\ generated \in Nat
  BY <1>1 DEF TypeOK
<1>6. TimelineIsGapless'
  <2>1. nextText' = Len(retained') + 1
    BY <1>2, <1>4
  <2>2. ASSUME NEW i \in 1 .. Len(retained')
        PROVE  /\ retained'[i].text = i
               /\ retained'[i].start + retained'[i].duration
                    = IF i = Len(retained') THEN generated' ELSE retained'[i + 1].start
    <3>1. CASE i = n + 1
      BY <1>1, <1>2, <1>4, <1>5, <3>1
    <3>2. CASE i # n + 1
      <4>1. i \in 1 .. n
        BY <1>2, <1>4, <3>2
      <4>2. /\ retained[i].text = i
            /\ retained[i].start + retained[i].duration
                 = IF i = n THEN generated ELSE retained[i + 1].start
        BY <4>1 DEF Timeline, TimelineIsGapless
      <4>3. CASE i = n
        BY <1>2, <1>4, <4>1, <4>2, <4>3
      <4>4. CASE i # n
        <5>1. i + 1 \in 1 .. n
          BY <1>2, <4>1, <4>4
        <5>2. QED BY <1>2, <1>4, <4>1, <4>2, <4>4, <5>1
      <4>5. QED BY <4>3, <4>4
    <3>3. QED BY <3>1, <3>2
  <2>3. QED BY <2>1, <2>2 DEF TimelineIsGapless
<1>7. BeginsAtZero'
  <2>1. retained' # <<>>
    BY <1>2, <1>4
  <2>2. CASE n = 0
    <3>1. retained = <<>> /\ generated = 0
      BY <2>2 DEF TypeOK, Timeline, BeginsAtZero
    <3>2. QED BY <1>4, <2>1, <2>2, <3>1 DEF BeginsAtZero
  <2>3. CASE n # 0
    <3>1. retained # <<>> /\ retained'[1] = retained[1]
      BY <1>2, <1>4, <2>3
    <3>2. QED BY <2>1, <3>1 DEF Timeline, BeginsAtZero
  <2>4. QED BY <2>2, <2>3
<1>8. QED BY <1>2, <1>4, <1>5, <1>6, <1>7

\* A seek leads to a place inside a retained sentence, or to its end.
LEMMA Sought ==
  ASSUME TypeOK, Timeline, retained # <<>>
  PROVE  LET target == Min({seekTarget, generated})
             segment == SegmentAt(target)
             chunk == retained[segment]
         IN  /\ segment \in 1 .. Len(retained)
             /\ Min({chunk.duration, target - chunk.start}) \in Nat
<1> DEFINE target == Min({seekTarget, generated})
           T == {i \in 1 .. Len(retained) :
                   \/ i = Len(retained)
                   \/ target < retained[i].start + retained[i].duration}
           s == Min(T)
<1>1. target \in Nat
  BY MinMaxOfTwo DEF TypeOK
<1>2. Len(retained) \in Nat \ {0}
  BY DEF TypeOK
<1>3. T \in SUBSET Nat /\ T # {}
  BY <1>2
<1>4. s \in T /\ \A y \in T : s <= y
  <2> HIDE DEF T
  <2> QED BY <1>3, MinOfNaturals
<1>5. s \in 1 .. Len(retained)
  BY <1>4
<1>6. retained[s].start \in Nat /\ retained[s].duration \in Nat
  BY <1>5, ChunkFields
<1>7. target >= retained[s].start
  <2> HIDE DEF target
  <2>1. CASE s = 1
    <3>1. retained[s].start = 0
      BY <2>1 DEF Timeline, BeginsAtZero
    <3>2. QED BY <1>1, <3>1
  <2>2. CASE s # 1
    <3>1. s - 1 \in 1 .. Len(retained) /\ s - 1 # Len(retained)
      BY <1>2, <1>5, <2>2
    <3>2. s - 1 \notin T
      BY <1>4, <1>5, <3>1
    <3>3. ~ (target < retained[s - 1].start + retained[s - 1].duration)
      BY <3>1, <3>2
    <3>4. retained[s - 1].start + retained[s - 1].duration = retained[(s - 1) + 1].start
      BY <3>1 DEF Timeline, TimelineIsGapless
    <3>5. (s - 1) + 1 = s
      BY <1>5
    <3>6. QED BY <1>1, <1>6, <3>3, <3>4, <3>5
  <2>3. QED BY <2>1, <2>2
<1>8. target - retained[s].start \in Nat
  BY <1>1, <1>6, <1>7
<1>9. Min({retained[s].duration, target - retained[s].start}) \in Nat
  <2> HIDE DEF s, target
  <2> QED BY <1>6, <1>8, MinMaxOfTwo
<1>10. SegmentAt(target) = s
  BY DEF SegmentAt
<1>11. QED BY <1>5, <1>9, <1>10

-----------------------------------------------------------------------------
(* Every step keeps the invariant.                                         *)

LEMMA TimelineFrame ==
  ASSUME Timeline, UNCHANGED <<nextText, retained, generated>>
  PROVE  Timeline'
BY DEF Timeline, TimelineIsGapless, BeginsAtZero

LEMMA ControllerKeepsTypes ==
  ASSUME ControllerTypeOK, StopPlayback \/ PausePlayback \/ ResumePlayback
  PROVE  ControllerTypeOK'
<1>1. CASE active = None
  BY <1>1 DEF ControllerTypeOK, States, StopPlayback, PausePlayback, ResumePlayback
<1>2. CASE active # None
  <2>1. active \in Utterances
    BY <1>2 DEF ControllerTypeOK
  <2>2. /\ UNCHANGED <<active, defaultSpeed, speed, generation>>
        /\ cancelled' = cancelled \/ cancelled' = cancelled \union {active}
        /\ paused' \in {paused, paused \union {active}, paused \ {active}}
        /\ state' \in States
    BY <1>2 DEF States, StopPlayback, PausePlayback, ResumePlayback
  <2>3. QED BY <2>1, <2>2 DEF ControllerTypeOK
<1>3. QED BY <1>1, <1>2

LEMMA IInvInit == Init => IInv
<1> SUFFICES ASSUME Init PROVE IInv
  OBVIOUS
<1> USE PipelineAssumption DEF Init
<1>1. retained \in Seq(Chunks) /\ Len(retained) = 0
  OBVIOUS
<1>2. TypeOK
  <2>1. ControllerTypeOK
    BY DEF ControllerTypeOK, States
  <2>2. expect \in [text : 1 .. Texts + 1, frame : Nat]
    OBVIOUS
  <2>3. chunkSpeed \in Speeds /\ textIndex \in 1 .. Texts /\ nextText \in 1 .. Texts + 1
    OBVIOUS
  <2>4. /\ launched \in 0 .. Len(retained) /\ nextPlay \in 1 .. Len(retained) + 1
        /\ handled \in 0 .. seekGen /\ seekRead \in 0 .. seekGen /\ playIndex \in 0 .. launched
        /\ playSeek \in 0 .. handled /\ seekGen \in 0 .. MaxSeeks /\ pauseMark \in 0 .. Texts
        /\ 0 \in Nat
    BY <1>1
  <2>5. pc = "loop" /\ ret = "loop" /\ synth = "none" /\ player = "none"
    OBVIOUS
  <2>6. /\ generated \in Nat /\ chunkGen \in Nat /\ nextFrame \in Nat /\ playPos \in Nat
        /\ seekTarget \in Nat /\ interrupted \in BOOLEAN /\ playFailed \in BOOLEAN
    OBVIOUS
  <2> QED BY <1>1, <2>1, <2>2, <2>3, <2>4, <2>5, <2>6 DEF TypeOK
<1>3. Timeline
  BY <1>1 DEF Timeline, TimelineIsGapless, BeginsAtZero
<1>4. Backpressure
  BY <1>1 DEF Backpressure, LookaheadIsBounded, PauseStopsLookahead, InFlight, Unplayed
<1>5. Resumable /\ PlaysInOrder /\ HeardSoFar
  BY <1>1 DEF Resumable, PlaysInOrder, HeardSoFar, Draining
<1>6. QED
  BY <1>2, <1>3, <1>4, <1>5 DEF IInv

LEMMA IInvStep == IInv /\ [Next]_vars => IInv'
<1> SUFFICES ASSUME IInv, [Next]_vars PROVE IInv'
  OBVIOUS
<1> USE PipelineAssumption
<1>1. CASE ServicePlayback
  <2>1. Timeline'
    BY <1>1, TimelineFrame DEF IInv, ServicePlayback, Cancelled, Joinable, SeekPending, controllerVars, coordinatorVars, playerVars, seekVars
  <2>2. TypeOK'
    BY <1>1 DEF IInv, TypeOK, ControllerTypeOK, ServicePlayback, Cancelled, Joinable, SeekPending, controllerVars, coordinatorVars, playerVars, seekVars, Timeline, TimelineIsGapless, Resumable
  <2>3. Backpressure'
    BY <1>1 DEF IInv, TypeOK, ControllerTypeOK, ServicePlayback, Cancelled, Joinable, SeekPending, controllerVars, coordinatorVars, playerVars, seekVars, Timeline, TimelineIsGapless, Backpressure, LookaheadIsBounded, PauseStopsLookahead, InFlight, Unplayed
  <2>4. Resumable'
    BY <1>1 DEF IInv, TypeOK, ControllerTypeOK, ServicePlayback, Cancelled, Joinable, SeekPending, controllerVars, coordinatorVars, playerVars, seekVars, Resumable, Draining, Cancelled
  <2>5. PlaysInOrder'
    BY <1>1 DEF IInv, TypeOK, ControllerTypeOK, ServicePlayback, Cancelled, Joinable, SeekPending, controllerVars, coordinatorVars, playerVars, seekVars, PlaysInOrder, Resumable, Draining, Left
  <2>6. HeardSoFar'
    BY <1>1 DEF IInv, TypeOK, ControllerTypeOK, ServicePlayback, Cancelled, Joinable, SeekPending, controllerVars, coordinatorVars, playerVars, seekVars, PlaysInOrder, HeardSoFar, Resumable, Draining, Left, Cancelled
  <2>7. QED BY <2>1, <2>2, <2>3, <2>4, <2>5, <2>6 DEF IInv
<1>2. CASE JoinPlayback
  <2>1. Timeline'
    BY <1>2, TimelineFrame DEF IInv, JoinPlayback, controllerVars, coordinatorVars, playerVars, seekVars
  <2>2. TypeOK'
    <3>1. nextPlay' \in 1 .. Len(retained) + 1
      BY <1>2 DEF IInv, TypeOK, JoinPlayback
    <3>2. QED
      BY <1>2, <3>1 DEF IInv, TypeOK, ControllerTypeOK, JoinPlayback, controllerVars, seekVars
  <2>3. Backpressure'
    BY <1>2 DEF IInv, TypeOK, ControllerTypeOK, JoinPlayback, controllerVars, coordinatorVars, playerVars, seekVars, Timeline, TimelineIsGapless, Backpressure, LookaheadIsBounded, PauseStopsLookahead, InFlight, Unplayed
  <2>4. Resumable'
    <3>1. pc' = "finish" => nextPlay' = Texts + 1
      BY <1>2 DEF IInv, TypeOK, JoinPlayback, Resumable, Draining, Timeline, TimelineIsGapless
    <3>2. QED
      BY <1>2, <3>1 DEF IInv, TypeOK, JoinPlayback, Resumable, Draining, controllerVars, seekVars
  <2>5. PlaysInOrder'
    BY <1>2 DEF IInv, TypeOK, ControllerTypeOK, JoinPlayback, controllerVars, coordinatorVars, playerVars, seekVars, PlaysInOrder, Resumable, Draining, Left
  <2>6. HeardSoFar'
    BY <1>2 DEF IInv, TypeOK, ControllerTypeOK, JoinPlayback, controllerVars, coordinatorVars, playerVars, seekVars, PlaysInOrder, HeardSoFar, Resumable, Draining, Left, Cancelled
  <2>7. QED BY <2>1, <2>2, <2>3, <2>4, <2>5, <2>6 DEF IInv
<1>3. CASE ApplyPendingSeek
  <2>1. Timeline'
    BY <1>3, TimelineFrame DEF IInv, ApplyPendingSeek, AfterSeek, Cancelled, SeekPending, controllerVars, coordinatorVars, playerVars, seekVars
  <2>2. TypeOK'
    BY <1>3 DEF IInv, TypeOK, ControllerTypeOK, ApplyPendingSeek, AfterSeek, Cancelled, SeekPending, controllerVars, coordinatorVars, playerVars, seekVars, Timeline, TimelineIsGapless, Resumable
  <2>3. Backpressure'
    BY <1>3 DEF IInv, TypeOK, ControllerTypeOK, ApplyPendingSeek, AfterSeek, Cancelled, SeekPending, controllerVars, coordinatorVars, playerVars, seekVars, Timeline, TimelineIsGapless, Backpressure, LookaheadIsBounded, PauseStopsLookahead, InFlight, Unplayed
  <2>4. Resumable'
    BY <1>3 DEF IInv, TypeOK, ControllerTypeOK, ApplyPendingSeek, AfterSeek, Cancelled, SeekPending, controllerVars, coordinatorVars, playerVars, seekVars, Resumable, Draining, Cancelled
  <2>5. PlaysInOrder'
    BY <1>3 DEF IInv, TypeOK, ControllerTypeOK, ApplyPendingSeek, AfterSeek, Cancelled, SeekPending, controllerVars, coordinatorVars, playerVars, seekVars, PlaysInOrder, Resumable, Draining, Left
  <2>6. HeardSoFar'
    BY <1>3 DEF IInv, TypeOK, ControllerTypeOK, ApplyPendingSeek, AfterSeek, Cancelled, SeekPending, controllerVars, coordinatorVars, playerVars, seekVars, PlaysInOrder, HeardSoFar, Resumable, Draining, Left, Cancelled
  <2>7. QED BY <2>1, <2>2, <2>3, <2>4, <2>5, <2>6 DEF IInv
<1>4. CASE LaunchNothing
  <2>1. Timeline'
    BY <1>4, TimelineFrame DEF IInv, LaunchNothing, CanLaunch, Joinable, controllerVars, coordinatorVars, playerVars, seekVars
  <2>2. TypeOK'
    BY <1>4 DEF IInv, TypeOK, ControllerTypeOK, LaunchNothing, CanLaunch, Joinable, controllerVars, coordinatorVars, playerVars, seekVars, Timeline, TimelineIsGapless, Resumable
  <2>3. Backpressure'
    BY <1>4 DEF IInv, TypeOK, ControllerTypeOK, LaunchNothing, CanLaunch, Joinable, controllerVars, coordinatorVars, playerVars, seekVars, Timeline, TimelineIsGapless, Backpressure, LookaheadIsBounded, PauseStopsLookahead, InFlight, Unplayed
  <2>4. Resumable'
    BY <1>4 DEF IInv, TypeOK, ControllerTypeOK, LaunchNothing, CanLaunch, Joinable, controllerVars, coordinatorVars, playerVars, seekVars, Resumable, Draining, Cancelled
  <2>5. PlaysInOrder'
    BY <1>4 DEF IInv, TypeOK, ControllerTypeOK, LaunchNothing, CanLaunch, Joinable, controllerVars, coordinatorVars, playerVars, seekVars, PlaysInOrder, Resumable, Draining, Left
  <2>6. HeardSoFar'
    BY <1>4 DEF IInv, TypeOK, ControllerTypeOK, LaunchNothing, CanLaunch, Joinable, controllerVars, coordinatorVars, playerVars, seekVars, PlaysInOrder, HeardSoFar, Resumable, Draining, Left, Cancelled
  <2>7. QED BY <2>1, <2>2, <2>3, <2>4, <2>5, <2>6 DEF IInv
<1>5. CASE Loop
  <2>1. Timeline'
    BY <1>5, TimelineFrame DEF IInv, Loop, controllerVars, coordinatorVars, playerVars, seekVars
  <2>2. TypeOK'
    BY <1>5 DEF IInv, TypeOK, ControllerTypeOK, Loop, controllerVars, coordinatorVars, playerVars, seekVars, Timeline, TimelineIsGapless, Resumable
  <2>3. Backpressure'
    BY <1>5 DEF IInv, TypeOK, ControllerTypeOK, Loop, controllerVars, coordinatorVars, playerVars, seekVars, Timeline, TimelineIsGapless, Backpressure, LookaheadIsBounded, PauseStopsLookahead, InFlight, Unplayed
  <2>4. Resumable'
    BY <1>5 DEF IInv, TypeOK, ControllerTypeOK, Loop, controllerVars, coordinatorVars, playerVars, seekVars, Resumable, Draining, Cancelled
  <2>5. PlaysInOrder'
    BY <1>5 DEF IInv, TypeOK, ControllerTypeOK, Loop, controllerVars, coordinatorVars, playerVars, seekVars, PlaysInOrder, Resumable, Draining, Left
  <2>6. HeardSoFar'
    BY <1>5 DEF IInv, TypeOK, ControllerTypeOK, Loop, controllerVars, coordinatorVars, playerVars, seekVars, PlaysInOrder, HeardSoFar, Resumable, Draining, Left, Cancelled
  <2>7. QED BY <2>1, <2>2, <2>3, <2>4, <2>5, <2>6 DEF IInv
<1>6. CASE Gate
  <2>1. Timeline'
    BY <1>6, TimelineFrame DEF IInv, Gate, MustWait, Unplayed, controllerVars, coordinatorVars, playerVars, seekVars
  <2>2. TypeOK'
    <3>1. textIndex' \in 1 .. Texts /\ chunkSpeed' \in Speeds
      BY <1>6 DEF IInv, TypeOK, ControllerTypeOK, Gate, Resumable
    <3>2. QED
      BY <1>6, <3>1 DEF IInv, TypeOK, ControllerTypeOK, Gate, controllerVars, playerVars, seekVars
  <2>3. Backpressure'
    BY <1>6 DEF IInv, TypeOK, ControllerTypeOK, Gate, MustWait, Unplayed, controllerVars, coordinatorVars, playerVars, seekVars, Timeline, TimelineIsGapless, Backpressure, LookaheadIsBounded, PauseStopsLookahead, InFlight, Unplayed
  <2>4. Resumable'
    BY <1>6 DEF IInv, TypeOK, ControllerTypeOK, Gate, MustWait, Unplayed, controllerVars, coordinatorVars, playerVars, seekVars, Resumable, Draining, Cancelled
  <2>5. PlaysInOrder'
    BY <1>6 DEF IInv, TypeOK, ControllerTypeOK, Gate, MustWait, Unplayed, controllerVars, coordinatorVars, playerVars, seekVars, PlaysInOrder, Resumable, Draining, Left
  <2>6. HeardSoFar'
    BY <1>6 DEF IInv, TypeOK, ControllerTypeOK, Gate, MustWait, Unplayed, controllerVars, coordinatorVars, playerVars, seekVars, PlaysInOrder, HeardSoFar, Resumable, Draining, Left, Cancelled
  <2>7. QED BY <2>1, <2>2, <2>3, <2>4, <2>5, <2>6 DEF IInv
<1>7. CASE StartSynthesis
  <2>1. Timeline'
    BY <1>7, TimelineFrame DEF IInv, StartSynthesis, controllerVars, coordinatorVars, playerVars, seekVars
  <2>2. TypeOK'
    BY <1>7 DEF IInv, TypeOK, ControllerTypeOK, StartSynthesis, controllerVars, coordinatorVars, playerVars, seekVars, Timeline, TimelineIsGapless, Resumable
  <2>3. Backpressure'
    BY <1>7 DEF IInv, TypeOK, ControllerTypeOK, StartSynthesis, controllerVars, coordinatorVars, playerVars, seekVars, Timeline, TimelineIsGapless, Backpressure, LookaheadIsBounded, PauseStopsLookahead, InFlight, Unplayed
  <2>4. Resumable'
    BY <1>7 DEF IInv, TypeOK, ControllerTypeOK, StartSynthesis, controllerVars, coordinatorVars, playerVars, seekVars, Resumable, Draining, Cancelled
  <2>5. PlaysInOrder'
    BY <1>7 DEF IInv, TypeOK, ControllerTypeOK, StartSynthesis, controllerVars, coordinatorVars, playerVars, seekVars, PlaysInOrder, Resumable, Draining, Left
  <2>6. HeardSoFar'
    BY <1>7 DEF IInv, TypeOK, ControllerTypeOK, StartSynthesis, controllerVars, coordinatorVars, playerVars, seekVars, PlaysInOrder, HeardSoFar, Resumable, Draining, Left, Cancelled
  <2>7. QED BY <2>1, <2>2, <2>3, <2>4, <2>5, <2>6 DEF IInv
<1>8. CASE AwaitLookahead
  <2>1. Timeline'
    BY <1>8, TimelineFrame DEF IInv, AwaitLookahead, controllerVars, coordinatorVars, playerVars, seekVars
  <2>2. TypeOK'
    BY <1>8 DEF IInv, TypeOK, ControllerTypeOK, AwaitLookahead, controllerVars, coordinatorVars, playerVars, seekVars, Timeline, TimelineIsGapless, Resumable
  <2>3. Backpressure'
    BY <1>8 DEF IInv, TypeOK, ControllerTypeOK, AwaitLookahead, controllerVars, coordinatorVars, playerVars, seekVars, Timeline, TimelineIsGapless, Backpressure, LookaheadIsBounded, PauseStopsLookahead, InFlight, Unplayed
  <2>4. Resumable'
    BY <1>8 DEF IInv, TypeOK, ControllerTypeOK, AwaitLookahead, controllerVars, coordinatorVars, playerVars, seekVars, Resumable, Draining, Cancelled
  <2>5. PlaysInOrder'
    BY <1>8 DEF IInv, TypeOK, ControllerTypeOK, AwaitLookahead, controllerVars, coordinatorVars, playerVars, seekVars, PlaysInOrder, Resumable, Draining, Left
  <2>6. HeardSoFar'
    BY <1>8 DEF IInv, TypeOK, ControllerTypeOK, AwaitLookahead, controllerVars, coordinatorVars, playerVars, seekVars, PlaysInOrder, HeardSoFar, Resumable, Draining, Left, Cancelled
  <2>7. QED BY <2>1, <2>2, <2>3, <2>4, <2>5, <2>6 DEF IInv
<1>9. CASE SynthesisThrew
  <2>1. Timeline'
    BY <1>9, TimelineFrame DEF IInv, SynthesisThrew, controllerVars, coordinatorVars, playerVars, seekVars
  <2>2. TypeOK'
    BY <1>9 DEF IInv, TypeOK, ControllerTypeOK, SynthesisThrew, controllerVars, coordinatorVars, playerVars, seekVars, Timeline, TimelineIsGapless, Resumable
  <2>3. Backpressure'
    BY <1>9 DEF IInv, TypeOK, ControllerTypeOK, SynthesisThrew, controllerVars, coordinatorVars, playerVars, seekVars, Timeline, TimelineIsGapless, Backpressure, LookaheadIsBounded, PauseStopsLookahead, InFlight, Unplayed
  <2>4. Resumable'
    BY <1>9 DEF IInv, TypeOK, ControllerTypeOK, SynthesisThrew, controllerVars, coordinatorVars, playerVars, seekVars, Resumable, Draining, Cancelled
  <2>5. PlaysInOrder'
    BY <1>9 DEF IInv, TypeOK, ControllerTypeOK, SynthesisThrew, controllerVars, coordinatorVars, playerVars, seekVars, PlaysInOrder, Resumable, Draining, Left
  <2>6. HeardSoFar'
    BY <1>9 DEF IInv, TypeOK, ControllerTypeOK, SynthesisThrew, controllerVars, coordinatorVars, playerVars, seekVars, PlaysInOrder, HeardSoFar, Resumable, Draining, Left, Cancelled
  <2>7. QED BY <2>1, <2>2, <2>3, <2>4, <2>5, <2>6 DEF IInv
<1>10. CASE PlayOutOne
  <2>1. Timeline'
    BY <1>10, TimelineFrame DEF IInv, PlayOutOne, Joinable, controllerVars, coordinatorVars, playerVars, seekVars
  <2>2. TypeOK'
    BY <1>10 DEF IInv, TypeOK, ControllerTypeOK, PlayOutOne, Joinable, controllerVars, coordinatorVars, playerVars, seekVars, Timeline, TimelineIsGapless, Resumable
  <2>3. Backpressure'
    BY <1>10 DEF IInv, TypeOK, ControllerTypeOK, PlayOutOne, Joinable, controllerVars, coordinatorVars, playerVars, seekVars, Timeline, TimelineIsGapless, Backpressure, LookaheadIsBounded, PauseStopsLookahead, InFlight, Unplayed
  <2>4. Resumable'
    BY <1>10 DEF IInv, TypeOK, ControllerTypeOK, PlayOutOne, Joinable, controllerVars, coordinatorVars, playerVars, seekVars, Resumable, Draining, Cancelled
  <2>5. PlaysInOrder'
    BY <1>10 DEF IInv, TypeOK, ControllerTypeOK, PlayOutOne, Joinable, controllerVars, coordinatorVars, playerVars, seekVars, PlaysInOrder, Resumable, Draining, Left
  <2>6. HeardSoFar'
    BY <1>10 DEF IInv, TypeOK, ControllerTypeOK, PlayOutOne, Joinable, controllerVars, coordinatorVars, playerVars, seekVars, PlaysInOrder, HeardSoFar, Resumable, Draining, Left, Cancelled
  <2>7. QED BY <2>1, <2>2, <2>3, <2>4, <2>5, <2>6 DEF IInv
<1>11. CASE PlayOutRewound
  <2>1. Timeline'
    BY <1>11, TimelineFrame DEF IInv, PlayOutRewound, controllerVars, coordinatorVars, playerVars, seekVars
  <2>2. TypeOK'
    BY <1>11 DEF IInv, TypeOK, ControllerTypeOK, PlayOutRewound, controllerVars, coordinatorVars, playerVars, seekVars, Timeline, TimelineIsGapless, Resumable
  <2>3. Backpressure'
    BY <1>11 DEF IInv, TypeOK, ControllerTypeOK, PlayOutRewound, controllerVars, coordinatorVars, playerVars, seekVars, Timeline, TimelineIsGapless, Backpressure, LookaheadIsBounded, PauseStopsLookahead, InFlight, Unplayed
  <2>4. Resumable'
    BY <1>11 DEF IInv, TypeOK, ControllerTypeOK, PlayOutRewound, controllerVars, coordinatorVars, playerVars, seekVars, Resumable, Draining, Cancelled
  <2>5. PlaysInOrder'
    BY <1>11 DEF IInv, TypeOK, ControllerTypeOK, PlayOutRewound, controllerVars, coordinatorVars, playerVars, seekVars, PlaysInOrder, Resumable, Draining, Left
  <2>6. HeardSoFar'
    BY <1>11 DEF IInv, TypeOK, ControllerTypeOK, PlayOutRewound, controllerVars, coordinatorVars, playerVars, seekVars, PlaysInOrder, HeardSoFar, Resumable, Draining, Left, Cancelled
  <2>7. QED BY <2>1, <2>2, <2>3, <2>4, <2>5, <2>6 DEF IInv
<1>12. CASE DrainStream
  <2>1. Timeline'
    BY <1>12, TimelineFrame DEF IInv, DrainStream, Joinable, Cancelled, controllerVars, coordinatorVars, playerVars, seekVars
  <2>2. TypeOK'
    <3>1. /\ playSeek' \in 0 .. handled /\ interrupted' \in BOOLEAN
          /\ player' \in {"none", "draining"} /\ ret' \in {ret, "drained"} /\ pc' \in {"abort", "join"}
      <4>1. /\ handled \in Nat /\ handled \in 0 .. handled /\ player = "none"
            /\ playSeek \in 0 .. handled /\ interrupted \in BOOLEAN
        BY <1>12 DEF IInv, TypeOK, DrainStream, Joinable
      <4>2. QED BY <1>12, <4>1 DEF DrainStream
    <3>2. QED
      BY <1>12, <3>1 DEF IInv, TypeOK, ControllerTypeOK, DrainStream, controllerVars, seekVars
  <2>3. Backpressure'
    BY <1>12 DEF IInv, TypeOK, ControllerTypeOK, DrainStream, Joinable, Cancelled, controllerVars, coordinatorVars, playerVars, seekVars, Timeline, TimelineIsGapless, Backpressure, LookaheadIsBounded, PauseStopsLookahead, InFlight, Unplayed
  <2>4. Resumable'
    BY <1>12 DEF IInv, TypeOK, ControllerTypeOK, DrainStream, Joinable, Cancelled, controllerVars, coordinatorVars, playerVars, seekVars, Resumable, Draining, Cancelled
  <2>5. PlaysInOrder'
    BY <1>12 DEF IInv, TypeOK, ControllerTypeOK, DrainStream, Joinable, Cancelled, controllerVars, coordinatorVars, playerVars, seekVars, PlaysInOrder, Resumable, Draining, Left
  <2>6. HeardSoFar'
    BY <1>12 DEF IInv, TypeOK, ControllerTypeOK, DrainStream, Joinable, Cancelled, controllerVars, coordinatorVars, playerVars, seekVars, PlaysInOrder, HeardSoFar, Resumable, Draining, Left, Cancelled
  <2>7. QED BY <2>1, <2>2, <2>3, <2>4, <2>5, <2>6 DEF IInv
<1>13. CASE FinishUtterance
  <2>1. Timeline'
    BY <1>13, TimelineFrame DEF IInv, FinishUtterance, Cancelled, controllerVars, coordinatorVars, playerVars, seekVars
  <2>2. TypeOK'
    BY <1>13 DEF IInv, TypeOK, ControllerTypeOK, FinishUtterance, Cancelled, controllerVars, coordinatorVars, playerVars, seekVars, Timeline, TimelineIsGapless, Resumable
  <2>3. Backpressure'
    BY <1>13 DEF IInv, TypeOK, ControllerTypeOK, FinishUtterance, Cancelled, controllerVars, coordinatorVars, playerVars, seekVars, Timeline, TimelineIsGapless, Backpressure, LookaheadIsBounded, PauseStopsLookahead, InFlight, Unplayed
  <2>4. Resumable'
    BY <1>13 DEF IInv, TypeOK, ControllerTypeOK, FinishUtterance, Cancelled, controllerVars, coordinatorVars, playerVars, seekVars, Resumable, Draining, Cancelled
  <2>5. PlaysInOrder'
    BY <1>13 DEF IInv, TypeOK, ControllerTypeOK, FinishUtterance, Cancelled, controllerVars, coordinatorVars, playerVars, seekVars, PlaysInOrder, Resumable, Draining, Left
  <2>6. HeardSoFar'
    BY <1>13 DEF IInv, TypeOK, ControllerTypeOK, FinishUtterance, Cancelled, controllerVars, coordinatorVars, playerVars, seekVars, PlaysInOrder, HeardSoFar, Resumable, Draining, Left, Cancelled
  <2>7. QED BY <2>1, <2>2, <2>3, <2>4, <2>5, <2>6 DEF IInv
<1>14. CASE Abort
  <2>1. Timeline'
    BY <1>14, TimelineFrame DEF IInv, Abort, Joinable, CancelToken, Cancelled, controllerVars, coordinatorVars, playerVars, seekVars
  <2>2. TypeOK'
    BY <1>14 DEF IInv, TypeOK, ControllerTypeOK, Abort, Joinable, CancelToken, Cancelled, controllerVars, coordinatorVars, playerVars, seekVars, Timeline, TimelineIsGapless, Resumable
  <2>3. Backpressure'
    BY <1>14 DEF IInv, TypeOK, ControllerTypeOK, Abort, Joinable, CancelToken, Cancelled, controllerVars, coordinatorVars, playerVars, seekVars, Timeline, TimelineIsGapless, Backpressure, LookaheadIsBounded, PauseStopsLookahead, InFlight, Unplayed
  <2>4. Resumable'
    BY <1>14 DEF IInv, TypeOK, ControllerTypeOK, Abort, Joinable, CancelToken, Cancelled, controllerVars, coordinatorVars, playerVars, seekVars, Resumable, Draining, Cancelled
  <2>5. PlaysInOrder'
    BY <1>14 DEF IInv, TypeOK, ControllerTypeOK, Abort, Joinable, CancelToken, Cancelled, controllerVars, coordinatorVars, playerVars, seekVars, PlaysInOrder, Resumable, Draining, Left
  <2>6. HeardSoFar'
    BY <1>14 DEF IInv, TypeOK, ControllerTypeOK, Abort, Joinable, CancelToken, Cancelled, controllerVars, coordinatorVars, playerVars, seekVars, PlaysInOrder, HeardSoFar, Resumable, Draining, Left, Cancelled
  <2>7. QED BY <2>1, <2>2, <2>3, <2>4, <2>5, <2>6 DEF IInv
<1>15. CASE Unwind
  <2>1. Timeline'
    BY <1>15, TimelineFrame DEF IInv, Unwind, controllerVars, coordinatorVars, playerVars, seekVars
  <2>2. TypeOK'
    BY <1>15 DEF IInv, TypeOK, ControllerTypeOK, Unwind, controllerVars, coordinatorVars, playerVars, seekVars, Timeline, TimelineIsGapless, Resumable
  <2>3. Backpressure'
    BY <1>15 DEF IInv, TypeOK, ControllerTypeOK, Unwind, controllerVars, coordinatorVars, playerVars, seekVars, Timeline, TimelineIsGapless, Backpressure, LookaheadIsBounded, PauseStopsLookahead, InFlight, Unplayed
  <2>4. Resumable'
    BY <1>15 DEF IInv, TypeOK, ControllerTypeOK, Unwind, controllerVars, coordinatorVars, playerVars, seekVars, Resumable, Draining, Cancelled
  <2>5. PlaysInOrder'
    BY <1>15 DEF IInv, TypeOK, ControllerTypeOK, Unwind, controllerVars, coordinatorVars, playerVars, seekVars, PlaysInOrder, Resumable, Draining, Left
  <2>6. HeardSoFar'
    BY <1>15 DEF IInv, TypeOK, ControllerTypeOK, Unwind, controllerVars, coordinatorVars, playerVars, seekVars, PlaysInOrder, HeardSoFar, Resumable, Draining, Left, Cancelled
  <2>7. QED BY <2>1, <2>2, <2>3, <2>4, <2>5, <2>6 DEF IInv
<1>16. CASE SynthesisReturns
  <2>1. Timeline'
    BY <1>16, TimelineFrame DEF IInv, SynthesisReturns, SynthesisEnds, controllerVars, coordinatorVars, playerVars, seekVars
  <2>2. TypeOK'
    BY <1>16 DEF IInv, TypeOK, ControllerTypeOK, SynthesisReturns, SynthesisEnds, controllerVars, coordinatorVars, playerVars, seekVars, Timeline, TimelineIsGapless, Resumable
  <2>3. Backpressure'
    BY <1>16 DEF IInv, TypeOK, ControllerTypeOK, SynthesisReturns, SynthesisEnds, controllerVars, coordinatorVars, playerVars, seekVars, Timeline, TimelineIsGapless, Backpressure, LookaheadIsBounded, PauseStopsLookahead, InFlight, Unplayed
  <2>4. Resumable'
    BY <1>16 DEF IInv, TypeOK, ControllerTypeOK, SynthesisReturns, SynthesisEnds, controllerVars, coordinatorVars, playerVars, seekVars, Resumable, Draining, Cancelled
  <2>5. PlaysInOrder'
    BY <1>16 DEF IInv, TypeOK, ControllerTypeOK, SynthesisReturns, SynthesisEnds, controllerVars, coordinatorVars, playerVars, seekVars, PlaysInOrder, Resumable, Draining, Left
  <2>6. HeardSoFar'
    BY <1>16 DEF IInv, TypeOK, ControllerTypeOK, SynthesisReturns, SynthesisEnds, controllerVars, coordinatorVars, playerVars, seekVars, PlaysInOrder, HeardSoFar, Resumable, Draining, Left, Cancelled
  <2>7. QED BY <2>1, <2>2, <2>3, <2>4, <2>5, <2>6 DEF IInv
<1>17. CASE SynthesisFails
  <2>1. Timeline'
    BY <1>17, TimelineFrame DEF IInv, SynthesisFails, SynthesisEnds, controllerVars, coordinatorVars, playerVars, seekVars
  <2>2. TypeOK'
    BY <1>17 DEF IInv, TypeOK, ControllerTypeOK, SynthesisFails, SynthesisEnds, controllerVars, coordinatorVars, playerVars, seekVars, Timeline, TimelineIsGapless, Resumable
  <2>3. Backpressure'
    BY <1>17 DEF IInv, TypeOK, ControllerTypeOK, SynthesisFails, SynthesisEnds, controllerVars, coordinatorVars, playerVars, seekVars, Timeline, TimelineIsGapless, Backpressure, LookaheadIsBounded, PauseStopsLookahead, InFlight, Unplayed
  <2>4. Resumable'
    BY <1>17 DEF IInv, TypeOK, ControllerTypeOK, SynthesisFails, SynthesisEnds, controllerVars, coordinatorVars, playerVars, seekVars, Resumable, Draining, Cancelled
  <2>5. PlaysInOrder'
    BY <1>17 DEF IInv, TypeOK, ControllerTypeOK, SynthesisFails, SynthesisEnds, controllerVars, coordinatorVars, playerVars, seekVars, PlaysInOrder, Resumable, Draining, Left
  <2>6. HeardSoFar'
    BY <1>17 DEF IInv, TypeOK, ControllerTypeOK, SynthesisFails, SynthesisEnds, controllerVars, coordinatorVars, playerVars, seekVars, PlaysInOrder, HeardSoFar, Resumable, Draining, Left, Cancelled
  <2>7. QED BY <2>1, <2>2, <2>3, <2>4, <2>5, <2>6 DEF IInv
<1>18. CASE SynthesisCancelled
  <2>1. Timeline'
    BY <1>18, TimelineFrame DEF IInv, SynthesisCancelled, SynthesisEnds, Cancelled, controllerVars, coordinatorVars, playerVars, seekVars
  <2>2. TypeOK'
    BY <1>18 DEF IInv, TypeOK, ControllerTypeOK, SynthesisCancelled, SynthesisEnds, Cancelled, controllerVars, coordinatorVars, playerVars, seekVars, Timeline, TimelineIsGapless, Resumable
  <2>3. Backpressure'
    BY <1>18 DEF IInv, TypeOK, ControllerTypeOK, SynthesisCancelled, SynthesisEnds, Cancelled, controllerVars, coordinatorVars, playerVars, seekVars, Timeline, TimelineIsGapless, Backpressure, LookaheadIsBounded, PauseStopsLookahead, InFlight, Unplayed
  <2>4. Resumable'
    BY <1>18 DEF IInv, TypeOK, ControllerTypeOK, SynthesisCancelled, SynthesisEnds, Cancelled, controllerVars, coordinatorVars, playerVars, seekVars, Resumable, Draining, Cancelled
  <2>5. PlaysInOrder'
    BY <1>18 DEF IInv, TypeOK, ControllerTypeOK, SynthesisCancelled, SynthesisEnds, Cancelled, controllerVars, coordinatorVars, playerVars, seekVars, PlaysInOrder, Resumable, Draining, Left
  <2>6. HeardSoFar'
    BY <1>18 DEF IInv, TypeOK, ControllerTypeOK, SynthesisCancelled, SynthesisEnds, Cancelled, controllerVars, coordinatorVars, playerVars, seekVars, PlaysInOrder, HeardSoFar, Resumable, Draining, Left, Cancelled
  <2>7. QED BY <2>1, <2>2, <2>3, <2>4, <2>5, <2>6 DEF IInv
<1>19. CASE DrainEnds
  <2>1. Timeline'
    BY <1>19, TimelineFrame DEF IInv, DrainEnds, PlayerReturns, Unobstructed, controllerVars, coordinatorVars, playerVars, seekVars
  <2>2. TypeOK'
    BY <1>19 DEF IInv, TypeOK, ControllerTypeOK, DrainEnds, PlayerReturns, Unobstructed, controllerVars, coordinatorVars, playerVars, seekVars, Timeline, TimelineIsGapless, Resumable
  <2>3. Backpressure'
    BY <1>19 DEF IInv, TypeOK, ControllerTypeOK, DrainEnds, PlayerReturns, Unobstructed, controllerVars, coordinatorVars, playerVars, seekVars, Timeline, TimelineIsGapless, Backpressure, LookaheadIsBounded, PauseStopsLookahead, InFlight, Unplayed
  <2>4. Resumable'
    BY <1>19 DEF IInv, TypeOK, ControllerTypeOK, DrainEnds, PlayerReturns, Unobstructed, controllerVars, coordinatorVars, playerVars, seekVars, Resumable, Draining, Cancelled
  <2>5. PlaysInOrder'
    BY <1>19 DEF IInv, TypeOK, ControllerTypeOK, DrainEnds, PlayerReturns, Unobstructed, controllerVars, coordinatorVars, playerVars, seekVars, PlaysInOrder, Resumable, Draining, Left
  <2>6. HeardSoFar'
    BY <1>19 DEF IInv, TypeOK, ControllerTypeOK, DrainEnds, PlayerReturns, Unobstructed, controllerVars, coordinatorVars, playerVars, seekVars, PlaysInOrder, HeardSoFar, Resumable, Draining, Left, Cancelled
  <2>7. QED BY <2>1, <2>2, <2>3, <2>4, <2>5, <2>6 DEF IInv
<1>20. CASE PlayerStops
  <2>1. Timeline'
    BY <1>20, TimelineFrame DEF IInv, PlayerStops, PlayerReturns, Cancelled, controllerVars, coordinatorVars, playerVars, seekVars
  <2>2. TypeOK'
    BY <1>20 DEF IInv, TypeOK, ControllerTypeOK, PlayerStops, PlayerReturns, Cancelled, controllerVars, coordinatorVars, playerVars, seekVars, Timeline, TimelineIsGapless, Resumable
  <2>3. Backpressure'
    BY <1>20 DEF IInv, TypeOK, ControllerTypeOK, PlayerStops, PlayerReturns, Cancelled, controllerVars, coordinatorVars, playerVars, seekVars, Timeline, TimelineIsGapless, Backpressure, LookaheadIsBounded, PauseStopsLookahead, InFlight, Unplayed
  <2>4. Resumable'
    BY <1>20 DEF IInv, TypeOK, ControllerTypeOK, PlayerStops, PlayerReturns, Cancelled, controllerVars, coordinatorVars, playerVars, seekVars, Resumable, Draining, Cancelled
  <2>5. PlaysInOrder'
    BY <1>20 DEF IInv, TypeOK, ControllerTypeOK, PlayerStops, PlayerReturns, Cancelled, controllerVars, coordinatorVars, playerVars, seekVars, PlaysInOrder, Resumable, Draining, Left
  <2>6. HeardSoFar'
    BY <1>20 DEF IInv, TypeOK, ControllerTypeOK, PlayerStops, PlayerReturns, Cancelled, controllerVars, coordinatorVars, playerVars, seekVars, PlaysInOrder, HeardSoFar, Resumable, Draining, Left, Cancelled
  <2>7. QED BY <2>1, <2>2, <2>3, <2>4, <2>5, <2>6 DEF IInv
<1>21. CASE PlayerSeeks
  <2>1. Timeline'
    BY <1>21, TimelineFrame DEF IInv, PlayerSeeks, PlayerReturns, controllerVars, coordinatorVars, playerVars, seekVars
  <2>2. TypeOK'
    BY <1>21 DEF IInv, TypeOK, ControllerTypeOK, PlayerSeeks, PlayerReturns, controllerVars, coordinatorVars, playerVars, seekVars, Timeline, TimelineIsGapless, Resumable
  <2>3. Backpressure'
    BY <1>21 DEF IInv, TypeOK, ControllerTypeOK, PlayerSeeks, PlayerReturns, controllerVars, coordinatorVars, playerVars, seekVars, Timeline, TimelineIsGapless, Backpressure, LookaheadIsBounded, PauseStopsLookahead, InFlight, Unplayed
  <2>4. Resumable'
    BY <1>21 DEF IInv, TypeOK, ControllerTypeOK, PlayerSeeks, PlayerReturns, controllerVars, coordinatorVars, playerVars, seekVars, Resumable, Draining, Cancelled
  <2>5. PlaysInOrder'
    BY <1>21 DEF IInv, TypeOK, ControllerTypeOK, PlayerSeeks, PlayerReturns, controllerVars, coordinatorVars, playerVars, seekVars, PlaysInOrder, Resumable, Draining, Left
  <2>6. HeardSoFar'
    BY <1>21 DEF IInv, TypeOK, ControllerTypeOK, PlayerSeeks, PlayerReturns, controllerVars, coordinatorVars, playerVars, seekVars, PlaysInOrder, HeardSoFar, Resumable, Draining, Left, Cancelled
  <2>7. QED BY <2>1, <2>2, <2>3, <2>4, <2>5, <2>6 DEF IInv
<1>22. CASE EndpointFails
  <2>1. Timeline'
    BY <1>22, TimelineFrame DEF IInv, EndpointFails, PlayerReturns, controllerVars, coordinatorVars, playerVars, seekVars
  <2>2. TypeOK'
    BY <1>22 DEF IInv, TypeOK, ControllerTypeOK, EndpointFails, PlayerReturns, controllerVars, coordinatorVars, playerVars, seekVars, Timeline, TimelineIsGapless, Resumable
  <2>3. Backpressure'
    BY <1>22 DEF IInv, TypeOK, ControllerTypeOK, EndpointFails, PlayerReturns, controllerVars, coordinatorVars, playerVars, seekVars, Timeline, TimelineIsGapless, Backpressure, LookaheadIsBounded, PauseStopsLookahead, InFlight, Unplayed
  <2>4. Resumable'
    BY <1>22 DEF IInv, TypeOK, ControllerTypeOK, EndpointFails, PlayerReturns, controllerVars, coordinatorVars, playerVars, seekVars, Resumable, Draining, Cancelled
  <2>5. PlaysInOrder'
    BY <1>22 DEF IInv, TypeOK, ControllerTypeOK, EndpointFails, PlayerReturns, controllerVars, coordinatorVars, playerVars, seekVars, PlaysInOrder, Resumable, Draining, Left
  <2>6. HeardSoFar'
    BY <1>22 DEF IInv, TypeOK, ControllerTypeOK, EndpointFails, PlayerReturns, controllerVars, coordinatorVars, playerVars, seekVars, PlaysInOrder, HeardSoFar, Resumable, Draining, Left, Cancelled
  <2>7. QED BY <2>1, <2>2, <2>3, <2>4, <2>5, <2>6 DEF IInv
<1>23. CASE LaunchFails
  <2>1. Timeline'
    BY <1>23, TimelineFrame DEF IInv, LaunchFails, controllerVars, coordinatorVars, playerVars, seekVars
  <2>2. TypeOK'
    <3>1. launched' \in 0 .. Len(retained) /\ playIndex \in 0 .. launched'
      <4>1. /\ launched \in Nat /\ nextPlay \in Nat /\ launched <= Len(retained)
            /\ Len(retained) \in Nat /\ nextPlay <= Len(retained) /\ playIndex \in 0 .. launched
            /\ launched' = Max({launched, nextPlay})
        BY <1>23 DEF IInv, TypeOK, LaunchFails, CanLaunch
      <4>2. launched' = IF launched <= nextPlay THEN nextPlay ELSE launched
        BY <4>1, MinMaxOfTwo
      <4>3. QED BY <4>1, <4>2
    <3>2. ControllerTypeOK'
      BY <1>23 DEF IInv, TypeOK, LaunchFails, LaunchAllowed, PrepareSentence, ControllerTypeOK,
        States, controllerVars
    <3>3. QED
      BY <1>23, <3>1, <3>2 DEF IInv, TypeOK, LaunchFails, playerVars, seekVars
  <2>3. Backpressure'
    <3>1. launched' \in Nat /\ launched' >= launched /\ Len(retained) \in Nat /\ launched \in Nat
      <4>1. /\ launched \in Nat /\ nextPlay \in Nat /\ Len(retained) \in Nat
            /\ launched' = Max({launched, nextPlay})
        BY <1>23 DEF IInv, TypeOK, LaunchFails
      <4>2. launched' = IF launched <= nextPlay THEN nextPlay ELSE launched
        BY <4>1, MinMaxOfTwo
      <4>3. QED BY <4>1, <4>2
    <3>2. UNCHANGED <<retained, synth, pauseMark, paused>> /\ pc' = "abort" /\ pc = "launch"
      BY <1>23 DEF LaunchFails, LaunchAllowed, PrepareSentence, controllerVars
    <3>3. QED
      BY <3>1, <3>2 DEF IInv, Backpressure, LookaheadIsBounded, PauseStopsLookahead, InFlight, Unplayed
  <2>4. Resumable'
    BY <1>23 DEF IInv, TypeOK, ControllerTypeOK, LaunchFails, controllerVars, coordinatorVars, playerVars, seekVars, Resumable, Draining, Cancelled
  <2>5. PlaysInOrder'
    BY <1>23 DEF IInv, TypeOK, ControllerTypeOK, LaunchFails, controllerVars, coordinatorVars, playerVars, seekVars, PlaysInOrder, Resumable, Draining, Left
  <2>6. HeardSoFar'
    BY <1>23 DEF IInv, TypeOK, ControllerTypeOK, LaunchFails, controllerVars, coordinatorVars, playerVars, seekVars, PlaysInOrder, HeardSoFar, Resumable, Draining, Left, Cancelled
  <2>7. QED BY <2>1, <2>2, <2>3, <2>4, <2>5, <2>6 DEF IInv
<1>24. CASE RetainFails
  <2>1. Timeline'
    BY <1>24, TimelineFrame DEF IInv, RetainFails, controllerVars, coordinatorVars, playerVars, seekVars
  <2>2. TypeOK'
    BY <1>24 DEF IInv, TypeOK, ControllerTypeOK, RetainFails, controllerVars, coordinatorVars, playerVars, seekVars, Timeline, TimelineIsGapless, Resumable
  <2>3. Backpressure'
    BY <1>24 DEF IInv, TypeOK, ControllerTypeOK, RetainFails, controllerVars, coordinatorVars, playerVars, seekVars, Timeline, TimelineIsGapless, Backpressure, LookaheadIsBounded, PauseStopsLookahead, InFlight, Unplayed
  <2>4. Resumable'
    BY <1>24 DEF IInv, TypeOK, ControllerTypeOK, RetainFails, controllerVars, coordinatorVars, playerVars, seekVars, Resumable, Draining, Cancelled
  <2>5. PlaysInOrder'
    BY <1>24 DEF IInv, TypeOK, ControllerTypeOK, RetainFails, controllerVars, coordinatorVars, playerVars, seekVars, PlaysInOrder, Resumable, Draining, Left
  <2>6. HeardSoFar'
    BY <1>24 DEF IInv, TypeOK, ControllerTypeOK, RetainFails, controllerVars, coordinatorVars, playerVars, seekVars, PlaysInOrder, HeardSoFar, Resumable, Draining, Left, Cancelled
  <2>7. QED BY <2>1, <2>2, <2>3, <2>4, <2>5, <2>6 DEF IInv
<1>25. CASE UserStops
  <2>1. Timeline'
    BY <1>25, TimelineFrame DEF IInv, UserStops, StopPlayback, UserUnchanged, Running, controllerVars, coordinatorVars, playerVars, seekVars
  <2>2. TypeOK'
    <3>1. ControllerTypeOK'
      BY <1>25, ControllerKeepsTypes DEF IInv, TypeOK, UserStops
    <3>2. QED
      BY <1>25, <3>1 DEF IInv, TypeOK, UserStops, UserUnchanged, coordinatorVars, playerVars, seekVars
  <2>3. Backpressure'
    BY <1>25 DEF IInv, TypeOK, ControllerTypeOK, UserStops, StopPlayback, UserUnchanged, Running, controllerVars, coordinatorVars, playerVars, seekVars, Timeline, TimelineIsGapless, Backpressure, LookaheadIsBounded, PauseStopsLookahead, InFlight, Unplayed
  <2>4. Resumable'
    BY <1>25 DEF IInv, TypeOK, ControllerTypeOK, UserStops, StopPlayback, UserUnchanged, Running, controllerVars, coordinatorVars, playerVars, seekVars, Resumable, Draining, Cancelled
  <2>5. PlaysInOrder'
    BY <1>25 DEF IInv, TypeOK, ControllerTypeOK, UserStops, StopPlayback, UserUnchanged, Running, controllerVars, coordinatorVars, playerVars, seekVars, PlaysInOrder, Resumable, Draining, Left
  <2>6. HeardSoFar'
    BY <1>25 DEF IInv, TypeOK, ControllerTypeOK, UserStops, StopPlayback, UserUnchanged, Running, controllerVars, coordinatorVars, playerVars, seekVars, PlaysInOrder, HeardSoFar, Resumable, Draining, Left, Cancelled
  <2>7. QED BY <2>1, <2>2, <2>3, <2>4, <2>5, <2>6 DEF IInv
<1>26. CASE UserPauses
  <2>1. Timeline'
    BY <1>26, TimelineFrame DEF IInv, UserPauses, PausePlayback, UserUnchanged, Running, controllerVars, coordinatorVars, playerVars, seekVars
  <2>2. TypeOK'
    <3>1. ControllerTypeOK'
      BY <1>26, ControllerKeepsTypes DEF IInv, TypeOK, UserPauses
    <3>2. pauseMark' \in 0 .. Texts
      BY <1>26 DEF IInv, TypeOK, UserPauses, Timeline, TimelineIsGapless
    <3>3. QED
      BY <1>26, <3>1, <3>2 DEF IInv, TypeOK, UserPauses, UserUnchanged, coordinatorVars, playerVars, seekVars
  <2>3. Backpressure'
    BY <1>26 DEF IInv, TypeOK, ControllerTypeOK, UserPauses, PausePlayback, UserUnchanged, Running, controllerVars, coordinatorVars, playerVars, seekVars, Timeline, TimelineIsGapless, Backpressure, LookaheadIsBounded, PauseStopsLookahead, InFlight, Unplayed
  <2>4. Resumable'
    BY <1>26 DEF IInv, TypeOK, ControllerTypeOK, UserPauses, PausePlayback, UserUnchanged, Running, controllerVars, coordinatorVars, playerVars, seekVars, Resumable, Draining, Cancelled
  <2>5. PlaysInOrder'
    BY <1>26 DEF IInv, TypeOK, ControllerTypeOK, UserPauses, PausePlayback, UserUnchanged, Running, controllerVars, coordinatorVars, playerVars, seekVars, PlaysInOrder, Resumable, Draining, Left
  <2>6. HeardSoFar'
    BY <1>26 DEF IInv, TypeOK, ControllerTypeOK, UserPauses, PausePlayback, UserUnchanged, Running, controllerVars, coordinatorVars, playerVars, seekVars, PlaysInOrder, HeardSoFar, Resumable, Draining, Left, Cancelled
  <2>7. QED BY <2>1, <2>2, <2>3, <2>4, <2>5, <2>6 DEF IInv
<1>27. CASE UserResumes
  <2>1. Timeline'
    BY <1>27, TimelineFrame DEF IInv, UserResumes, ResumePlayback, UserUnchanged, Running, controllerVars, coordinatorVars, playerVars, seekVars
  <2>2. TypeOK'
    <3>1. ControllerTypeOK'
      BY <1>27, ControllerKeepsTypes DEF IInv, TypeOK, UserResumes
    <3>2. QED
      BY <1>27, <3>1 DEF IInv, TypeOK, UserResumes, UserUnchanged, coordinatorVars, playerVars, seekVars
  <2>3. Backpressure'
    BY <1>27 DEF IInv, TypeOK, ControllerTypeOK, UserResumes, ResumePlayback, UserUnchanged, Running, controllerVars, coordinatorVars, playerVars, seekVars, Timeline, TimelineIsGapless, Backpressure, LookaheadIsBounded, PauseStopsLookahead, InFlight, Unplayed
  <2>4. Resumable'
    BY <1>27 DEF IInv, TypeOK, ControllerTypeOK, UserResumes, ResumePlayback, UserUnchanged, Running, controllerVars, coordinatorVars, playerVars, seekVars, Resumable, Draining, Cancelled
  <2>5. PlaysInOrder'
    BY <1>27 DEF IInv, TypeOK, ControllerTypeOK, UserResumes, ResumePlayback, UserUnchanged, Running, controllerVars, coordinatorVars, playerVars, seekVars, PlaysInOrder, Resumable, Draining, Left
  <2>6. HeardSoFar'
    BY <1>27 DEF IInv, TypeOK, ControllerTypeOK, UserResumes, ResumePlayback, UserUnchanged, Running, controllerVars, coordinatorVars, playerVars, seekVars, PlaysInOrder, HeardSoFar, Resumable, Draining, Left, Cancelled
  <2>7. QED BY <2>1, <2>2, <2>3, <2>4, <2>5, <2>6 DEF IInv
<1>28. CASE UserChangesSpeed
  <2>1. Timeline'
    BY <1>28, TimelineFrame DEF IInv, UserChangesSpeed, SetActiveSpeed, UserUnchanged, Running, controllerVars, coordinatorVars, playerVars, seekVars
  <2>2. TypeOK'
    BY <1>28 DEF IInv, TypeOK, ControllerTypeOK, UserChangesSpeed, SetActiveSpeed, UserUnchanged, Running, controllerVars, coordinatorVars, playerVars, seekVars, Timeline, TimelineIsGapless, Resumable
  <2>3. Backpressure'
    BY <1>28 DEF IInv, TypeOK, ControllerTypeOK, UserChangesSpeed, SetActiveSpeed, UserUnchanged, Running, controllerVars, coordinatorVars, playerVars, seekVars, Timeline, TimelineIsGapless, Backpressure, LookaheadIsBounded, PauseStopsLookahead, InFlight, Unplayed
  <2>4. Resumable'
    BY <1>28 DEF IInv, TypeOK, ControllerTypeOK, UserChangesSpeed, SetActiveSpeed, UserUnchanged, Running, controllerVars, coordinatorVars, playerVars, seekVars, Resumable, Draining, Cancelled
  <2>5. PlaysInOrder'
    BY <1>28 DEF IInv, TypeOK, ControllerTypeOK, UserChangesSpeed, SetActiveSpeed, UserUnchanged, Running, controllerVars, coordinatorVars, playerVars, seekVars, PlaysInOrder, Resumable, Draining, Left
  <2>6. HeardSoFar'
    BY <1>28 DEF IInv, TypeOK, ControllerTypeOK, UserChangesSpeed, SetActiveSpeed, UserUnchanged, Running, controllerVars, coordinatorVars, playerVars, seekVars, PlaysInOrder, HeardSoFar, Resumable, Draining, Left, Cancelled
  <2>7. QED BY <2>1, <2>2, <2>3, <2>4, <2>5, <2>6 DEF IInv
<1>29. CASE UserSeeks
  <2>1. Timeline'
    BY <1>29, TimelineFrame DEF IInv, UserSeeks, UserUnchanged, Running, controllerVars, coordinatorVars, playerVars, seekVars
  <2>2. TypeOK'
    BY <1>29 DEF IInv, TypeOK, ControllerTypeOK, UserSeeks, UserUnchanged, Running, controllerVars, coordinatorVars, playerVars, seekVars, Timeline, TimelineIsGapless, Resumable
  <2>3. Backpressure'
    BY <1>29 DEF IInv, TypeOK, ControllerTypeOK, UserSeeks, UserUnchanged, Running, controllerVars, coordinatorVars, playerVars, seekVars, Timeline, TimelineIsGapless, Backpressure, LookaheadIsBounded, PauseStopsLookahead, InFlight, Unplayed
  <2>4. Resumable'
    BY <1>29 DEF IInv, TypeOK, ControllerTypeOK, UserSeeks, UserUnchanged, Running, controllerVars, coordinatorVars, playerVars, seekVars, Resumable, Draining, Cancelled
  <2>5. PlaysInOrder'
    BY <1>29 DEF IInv, TypeOK, ControllerTypeOK, UserSeeks, UserUnchanged, Running, controllerVars, coordinatorVars, playerVars, seekVars, PlaysInOrder, Resumable, Draining, Left
  <2>6. HeardSoFar'
    BY <1>29 DEF IInv, TypeOK, ControllerTypeOK, UserSeeks, UserUnchanged, Running, controllerVars, coordinatorVars, playerVars, seekVars, PlaysInOrder, HeardSoFar, Resumable, Draining, Left, Cancelled
  <2>7. QED BY <2>1, <2>2, <2>3, <2>4, <2>5, <2>6 DEF IInv
<1>30. CASE UNCHANGED vars
  <2>1. Timeline'
    BY <1>30, TimelineFrame DEF IInv, vars, coordinatorVars
  <2>2. TypeOK' /\ Backpressure'
    BY <1>30 DEF IInv, vars, controllerVars, coordinatorVars, playerVars, seekVars, TypeOK,
      ControllerTypeOK, Backpressure, LookaheadIsBounded, PauseStopsLookahead, InFlight, Unplayed
  <2>3. Resumable' /\ PlaysInOrder' /\ HeardSoFar'
    BY <1>30 DEF IInv, vars, controllerVars, coordinatorVars, playerVars, seekVars, Resumable,
      PlaysInOrder, HeardSoFar, Draining, Cancelled
  <2>4. QED BY <2>1, <2>2, <2>3 DEF IInv
<1>31. CASE LaunchRefused
  <2> DEFINE Rest == <<controllerVars, ret, launched, textIndex, chunkSpeed, chunkGen, nextFrame,
                       handled, seekRead, synth, playerVars, seekVars, pauseMark>>
  <2>1. /\ pc = "launch" /\ player = "none" /\ DiscardUnplayed /\ pc' = ret /\ UNCHANGED Rest
        /\ nextPlay > launched /\ nextPlay <= Len(retained)
    BY <1>31 DEF LaunchRefused, CanLaunch, Joinable, FirstPlayback
  <2>2. /\ retained' \in Seq(Chunks) /\ Len(retained') = launched
        /\ nextText' = launched + 1 /\ nextText' \in 1 .. Texts + 1
        /\ generated' \in Nat
        /\ nextPlay' = launched + 1
        /\ expect' \in [text : 1 .. Texts + 1, frame : Nat]
        /\ (expect.text <= launched + 1 => expect' = expect)
        /\ TimelineIsGapless' /\ BeginsAtZero'
    BY <2>1, Discarded DEF IInv, TypeOK
  <2>3. Timeline'
    BY <2>2 DEF Timeline
  <2>4. TypeOK'
    BY <2>1, <2>2 DEF IInv, TypeOK, ControllerTypeOK, controllerVars, playerVars, seekVars, Resumable
  <2>5. Backpressure'
    BY <2>1, <2>2 DEF IInv, TypeOK, Backpressure, LookaheadIsBounded, PauseStopsLookahead,
      InFlight, Unplayed, controllerVars
  <2>6. Resumable'
    BY <2>1, <2>2 DEF IInv, TypeOK, Resumable, Draining, Timeline, TimelineIsGapless, playerVars
  <2>7. PlaysInOrder'
    BY <2>1, <2>2 DEF IInv, TypeOK, PlaysInOrder, Resumable, Draining, Left, playerVars, seekVars
  <2>8. HeardSoFar'
    BY <2>1, <2>2 DEF IInv, TypeOK, PlaysInOrder, HeardSoFar, Resumable, Draining, Left, Cancelled,
      controllerVars, playerVars, seekVars
  <2>9. QED BY <2>3, <2>4, <2>5, <2>6, <2>7, <2>8 DEF IInv
<1>32. CASE LaunchRetainedChunk
  <2>1. /\ pc = "launch" /\ player = "none" /\ pc' = ret /\ nextPlay <= Len(retained)
        /\ launched' = Max({launched, nextPlay}) /\ nextFrame' = 0
        /\ player' = "playing" /\ playIndex' = nextPlay /\ playPos' = nextFrame
        /\ playSeek' = handled /\ interrupted' = FALSE
        /\ UNCHANGED <<ret, nextText, retained, generated, textIndex, chunkSpeed, chunkGen, nextPlay,
                       handled, seekRead, synth, playFailed, seekGen, seekTarget, expect, pauseMark>>
        /\ UNCHANGED <<paused, cancelled>>
    BY <1>32 DEF LaunchRetainedChunk, CanLaunch, Joinable, LaunchAllowed, PrepareSentence,
      controllerVars, seekVars
  <2>2. /\ launched' = (IF launched <= nextPlay THEN nextPlay ELSE launched)
        /\ launched \in Nat /\ nextPlay \in Nat \ {0} /\ Len(retained) \in Nat
        /\ launched <= Len(retained)
    <3>1. /\ launched \in Nat /\ nextPlay \in Nat \ {0} /\ Len(retained) \in Nat
          /\ launched <= Len(retained)
      BY DEF IInv, TypeOK
    <3>2. QED BY <2>1, <3>1, MinMaxOfTwo
  <2>3. Timeline'
    BY <2>1, TimelineFrame DEF IInv
  <2>4. TypeOK'
    <3>1. ControllerTypeOK'
      BY <1>32 DEF IInv, TypeOK, LaunchRetainedChunk, LaunchAllowed, PrepareSentence,
        ControllerTypeOK, States, controllerVars
    <3>2. /\ launched' \in 0 .. Len(retained) /\ playIndex' \in 0 .. launched' /\ playPos' \in Nat
          /\ playSeek' \in 0 .. handled /\ nextFrame' \in Nat
      BY <2>1, <2>2 DEF IInv, TypeOK
    <3>3. pc' \in {"gate", "await", "merge", "loop", "playout"}
      BY <2>1 DEF IInv, TypeOK, Resumable
    <3>4. QED BY <2>1, <3>1, <3>2, <3>3 DEF IInv, TypeOK
  <2>5. Backpressure'
    BY <2>1, <2>2 DEF IInv, TypeOK, Backpressure, LookaheadIsBounded, PauseStopsLookahead,
      InFlight, Unplayed
  <2>6. Resumable'
    BY <2>1, <2>2 DEF IInv, TypeOK, Resumable, Draining
  <2>7. PlaysInOrder'
    BY <2>1, <2>2 DEF IInv, TypeOK, PlaysInOrder, Resumable, Draining, Left
  <2>8. HeardSoFar'
    <3>1. nextPlay \in 1 .. Len(retained) /\ retained[nextPlay].duration \in Nat \ {0}
      BY <2>1, <2>2, ChunkFields DEF IInv
    <3>2. QED
      BY <2>1, <2>2, <3>1 DEF IInv, TypeOK, PlaysInOrder, HeardSoFar, Resumable, Draining, Left,
        Cancelled
  <2>9. QED BY <2>3, <2>4, <2>5, <2>6, <2>7, <2>8 DEF IInv
<1>33. CASE ApplySeekTarget
  <2> DEFINE target == Min({seekTarget, generated})
             segment == SegmentAt(target)
             within == Min({retained[segment].duration, target - retained[segment].start})
  <2>1. /\ pc = "reseek" /\ pc' = AfterSeek /\ handled' = seekRead
        /\ nextPlay' = segment /\ nextFrame' = within
        /\ expect' = Place(retained[segment].text, within, retained[segment].duration)
        /\ UNCHANGED <<controllerVars, ret, nextText, retained, launched, generated, textIndex,
                       chunkSpeed, chunkGen, seekRead, synth, playerVars, seekVars, pauseMark>>
    BY <1>33 DEF ApplySeekTarget
  <2>2. retained # <<>> /\ handled <= seekRead
    BY <2>1 DEF IInv, Resumable
  <2>3. segment \in 1 .. Len(retained) /\ within \in Nat
    BY <2>2, Sought DEF IInv
  <2>4. expect' \in [text : 1 .. Texts + 1, frame : Nat]
    <3>1. retained[segment].text \in 1 .. Texts /\ retained[segment].duration \in Nat
      BY <2>3, ChunkFields DEF IInv
    <3> HIDE DEF within, segment
    <3>2. QED BY <2>1, <2>3, <3>1, PlaceType
  <2> HIDE DEF within, segment, target
  <2>5. pc' \in {"abort", "loop", "launch"} /\ (pc' = "launch" => ret # "drained")
    BY <2>1 DEF AfterSeek
  <2>6. Timeline'
    BY <2>1, TimelineFrame DEF IInv
  <2>7. TypeOK'
    <3>1. handled' \in 0 .. seekGen /\ playSeek \in 0 .. handled' /\ nextPlay' \in 1 .. Len(retained) + 1
      BY <2>1, <2>2, <2>3 DEF IInv, TypeOK
    <3>2. QED
      BY <2>1, <2>3, <2>4, <2>5, <3>1 DEF IInv, TypeOK, ControllerTypeOK, controllerVars,
        playerVars, seekVars
  <2>8. Backpressure'
    BY <2>1, <2>5 DEF IInv, Backpressure, LookaheadIsBounded, PauseStopsLookahead, InFlight, Unplayed,
      controllerVars
  <2>9. Resumable'
    BY <2>1, <2>5 DEF IInv, TypeOK, Resumable, Draining, AfterSeek, playerVars
  <2>10. seekGen > 0
    BY <2>1 DEF IInv, Resumable
  <2>11. seekGen' # 0
    BY <2>1, <2>10 DEF IInv, TypeOK, seekVars
  <2>12. PlaysInOrder' /\ HeardSoFar'
    BY <2>11 DEF PlaysInOrder, HeardSoFar
  <2>13. QED BY <2>6, <2>7, <2>8, <2>9, <2>12 DEF IInv
<1>34. CASE DropStale
  <2>1. /\ pc = "merge" /\ synth' = "none" /\ pc' = "loop"
        /\ NothingRewound \/ DiscardUnplayed
        /\ UNCHANGED <<controllerVars, ret, launched, textIndex, chunkSpeed, chunkGen, nextFrame,
                       handled, seekRead, playerVars, seekVars, pauseMark>>
    BY <1>34 DEF DropStale
  <2>2. CASE NothingRewound
    <3>1. Timeline'
      BY <2>2, TimelineFrame DEF IInv, NothingRewound
    <3>2. TypeOK'
      BY <2>1, <2>2 DEF IInv, TypeOK, ControllerTypeOK, NothingRewound, controllerVars, playerVars,
        seekVars
    <3>3. Backpressure'
      BY <2>1, <2>2 DEF IInv, Backpressure, LookaheadIsBounded, PauseStopsLookahead, InFlight,
        Unplayed, NothingRewound, controllerVars
    <3>4. Resumable' /\ PlaysInOrder' /\ HeardSoFar'
      BY <2>1, <2>2 DEF IInv, Resumable, PlaysInOrder, HeardSoFar, Draining, Left, Cancelled,
        NothingRewound, controllerVars, playerVars, seekVars
    <3>5. QED BY <3>1, <3>2, <3>3, <3>4 DEF IInv
  <2>3. CASE DiscardUnplayed
    <3>1. /\ retained' \in Seq(Chunks) /\ Len(retained') = launched
          /\ \A i \in 1 .. launched : retained'[i] = retained[i]
          /\ nextText' = launched + 1 /\ nextText' \in 1 .. Texts + 1
          /\ generated' \in Nat
          /\ nextPlay' = (IF nextPlay <= launched + 1 THEN nextPlay ELSE launched + 1)
          /\ expect' \in [text : 1 .. Texts + 1, frame : Nat]
          /\ (expect.text <= launched + 1 => expect' = expect)
          /\ TimelineIsGapless' /\ BeginsAtZero'
      BY <2>3, Discarded DEF IInv
    <3>2. Timeline'
      BY <3>1 DEF Timeline
    <3>3. TypeOK'
      <4>1. /\ launched \in 0 .. Len(retained') /\ playIndex \in 0 .. launched
            /\ nextPlay' \in 1 .. Len(retained') + 1
        BY <2>1, <3>1 DEF IInv, TypeOK
      <4>2. QED
        BY <2>1, <3>1, <4>1 DEF IInv, TypeOK, ControllerTypeOK, controllerVars, playerVars, seekVars
    <3>4. Backpressure'
      BY <2>1, <3>1 DEF IInv, TypeOK, Backpressure, LookaheadIsBounded, PauseStopsLookahead,
        InFlight, Unplayed, controllerVars
    <3>5. Resumable'
      BY <2>1, <3>1 DEF IInv, TypeOK, Resumable, Draining, playerVars
    <3>6. PlaysInOrder'
      BY <2>1, <3>1 DEF IInv, TypeOK, PlaysInOrder, Resumable, Draining, Left, playerVars, seekVars
    <3>7. HeardSoFar'
      <4>1. CASE seekGen = 0 /\ ~Cancelled /\ ~(player = "ended" /\ playFailed)
        <5>1. expect.text <= launched + 1
          BY <2>1, <4>1 DEF IInv, TypeOK, PlaysInOrder, HeardSoFar, Resumable, Draining, Left
        <5>2. QED
          BY <2>1, <3>1, <4>1, <5>1 DEF IInv, TypeOK, PlaysInOrder, HeardSoFar, Resumable, Draining, Left,
            Cancelled, controllerVars, playerVars, seekVars
      <4>2. CASE ~(seekGen = 0 /\ ~Cancelled /\ ~(player = "ended" /\ playFailed))
        BY <2>1, <4>2 DEF HeardSoFar, Draining, Cancelled, controllerVars, playerVars, seekVars
      <4>3. QED BY <4>1, <4>2
    <3>8. QED BY <3>2, <3>3, <3>4, <3>5, <3>6, <3>7 DEF IInv
  <2>4. QED BY <2>1, <2>2, <2>3
<1>35. CASE RetainChunk
  <2>1. /\ pc = "merge" /\ synth = "ready" /\ synth' = "none" /\ pc' = "service" /\ ret' = "loop"
        /\ UNCHANGED <<controllerVars, launched, textIndex, chunkSpeed, chunkGen, nextPlay, nextFrame,
                       handled, seekRead, playerVars, seekVars, expect, pauseMark>>
    BY <1>35 DEF RetainChunk
  <2>2. /\ retained' \in Seq(Chunks) /\ Len(retained') = Len(retained) + 1
        /\ \A i \in 1 .. Len(retained) : retained'[i] = retained[i]
        /\ nextText' \in 1 .. Texts + 1 /\ generated' \in Nat
        /\ TimelineIsGapless' /\ BeginsAtZero'
    BY <1>35, Retained DEF IInv
  <2>3. Timeline'
    BY <2>2 DEF Timeline
  <2>4. TypeOK'
    <3>1. launched \in 0 .. Len(retained') /\ nextPlay \in 1 .. Len(retained') + 1
      BY <2>1, <2>2 DEF IInv, TypeOK
    <3>2. QED
      BY <2>1, <2>2, <3>1 DEF IInv, TypeOK, ControllerTypeOK, controllerVars, playerVars, seekVars
  <2>5. Backpressure'
    BY <2>1, <2>2 DEF IInv, TypeOK, Backpressure, LookaheadIsBounded, PauseStopsLookahead,
      InFlight, Unplayed, controllerVars
  <2>6. Resumable'
    BY <2>1, <2>2 DEF IInv, TypeOK, Resumable, Draining, playerVars
  <2>7. PlaysInOrder'
    BY <2>1, <2>2 DEF IInv, TypeOK, PlaysInOrder, Resumable, Draining, Left, playerVars, seekVars
  <2>8. HeardSoFar'
    BY <2>1, <2>2 DEF IInv, TypeOK, PlaysInOrder, HeardSoFar, Resumable, Draining, Left, Cancelled,
      controllerVars, playerVars, seekVars
  <2>9. QED BY <2>3, <2>4, <2>5, <2>6, <2>7, <2>8 DEF IInv
<1>36. CASE PlayFrame
  <2>1. /\ player = "playing" /\ ~Cancelled /\ playSeek = seekGen
        /\ playPos' = Min({playPos + 1, retained[playIndex].duration})
        /\ player' = (IF playPos' = retained[playIndex].duration THEN "ended" ELSE "playing")
        /\ expect' = (IF playSeek = handled
                        THEN Place(retained[playIndex].text, playPos', retained[playIndex].duration)
                        ELSE expect)
        /\ UNCHANGED <<controllerVars, coordinatorVars, synth, playIndex, playSeek, interrupted,
                       playFailed, seekVars, pauseMark>>
    BY <1>36 DEF PlayFrame, Unobstructed
  <2>2. playIndex \in 1 .. Len(retained)
    <3>1. /\ playIndex \in 0 .. launched /\ launched \in 0 .. Len(retained) /\ Len(retained) \in Nat
          /\ playIndex >= 1
      BY <2>1 DEF IInv, TypeOK, Resumable
    <3>2. QED BY <3>1
  <2>3. /\ retained[playIndex].text \in 1 .. Texts /\ retained[playIndex].text = playIndex
        /\ retained[playIndex].duration \in Nat \ {0}
    BY <2>2, ChunkFields DEF IInv, Timeline, TimelineIsGapless
  <2>4. /\ playPos' \in Nat /\ playPos' <= retained[playIndex].duration
        /\ playPos' = (IF playPos + 1 <= retained[playIndex].duration
                         THEN playPos + 1 ELSE retained[playIndex].duration)
    <3>1. playPos \in Nat /\ playPos + 1 \in Nat
      BY DEF IInv, TypeOK
    <3>2. QED BY <2>1, <2>3, <3>1, MinMaxOfTwo
  <2>5. Place(retained[playIndex].text, playPos', retained[playIndex].duration)
          \in [text : 1 .. Texts + 1, frame : Nat]
    BY <2>3, <2>4, PlaceType
  <2>6. Timeline'
    BY <2>1, TimelineFrame DEF IInv, coordinatorVars
  <2>7. TypeOK'
    <3>1. player' \in {"playing", "ended"} /\ expect' \in [text : 1 .. Texts + 1, frame : Nat]
      BY <2>1, <2>5 DEF IInv, TypeOK
    <3>2. UNCHANGED <<playIndex, playSeek, interrupted, playFailed, synth, pauseMark>>
      BY <2>1
    <3>3. playPos' \in Nat
      BY <2>4
    <3>4. UNCHANGED <<controllerVars, coordinatorVars, seekVars>>
      BY <2>1
    <3> HIDE <2>1
    <3>5. QED
      BY <3>1, <3>2, <3>3, <3>4 DEF IInv, TypeOK, ControllerTypeOK, controllerVars, coordinatorVars, seekVars
  <2>8. Backpressure'
    BY <2>1 DEF IInv, Backpressure, LookaheadIsBounded, PauseStopsLookahead, InFlight, Unplayed,
      controllerVars, coordinatorVars
  <2>9. Resumable'
    BY <2>1, <2>2 DEF IInv, TypeOK, Resumable, Draining, Cancelled, controllerVars, coordinatorVars,
      seekVars
  <2>10. PlaysInOrder'
    BY <2>1 DEF IInv, TypeOK, PlaysInOrder, Resumable, Draining, Left, coordinatorVars, seekVars
  <2>11. HeardSoFar'
    <3>1. CASE seekGen = 0 /\ pc \notin Left
      <4>1. expect' = Place(playIndex, playPos', retained[playIndex].duration)
        BY <2>1, <2>3, <3>1 DEF IInv, TypeOK
      <4>2. UNCHANGED <<retained, playIndex, pc, ret>> /\ ~(Draining')
        BY <2>1 DEF IInv, Resumable, Draining, coordinatorVars
      <4>3. QED
        BY <2>1, <2>3, <2>4, <4>1, <4>2 DEF HeardSoFar, Place
    <3>2. CASE ~(seekGen = 0 /\ pc \notin Left)
      BY <2>1, <3>2 DEF HeardSoFar, coordinatorVars, seekVars
    <3>3. QED BY <3>1, <3>2
  <2>12. QED BY <2>6, <2>7, <2>8, <2>9, <2>10, <2>11 DEF IInv
<1>37. QED
  BY <1>1, <1>2, <1>3, <1>4, <1>5, <1>6, <1>7, <1>8, <1>9, <1>10, <1>11, <1>12, <1>13, <1>14, <1>15, <1>16, <1>17, <1>18, <1>19, <1>20, <1>21, <1>22, <1>23, <1>24, <1>25, <1>26, <1>27, <1>28, <1>29, <1>30, <1>31, <1>32, <1>33, <1>34, <1>35, <1>36 DEF Next, Coordinator, SynthesisTask, PlaybackThread, Failures, User

-----------------------------------------------------------------------------
(* What every behaviour of the specification satisfies.                    *)

LEMMA Invariance == Spec => []IInv
BY IInvInit, IInvStep, PTL DEF Spec

\* Every variable of the pipeline keeps its type: no sentence index, seek or
\* launch count ever points outside of what is retained.
THEOREM TypeCorrect == Spec => []TypeOK
BY Invariance, PTL DEF IInv

\* The retained audio stays one gapless timeline of the text, and synthesis never
\* runs further ahead than the lookahead, nor past a pause by more than the
\* sentence in flight, in spite of rewinds, seeks and pauses at any time.
THEOREM TimelineStaysKept == Spec => []TimelineIsKept
<1>1. IInv => TimelineIsKept
  BY DEF IInv, Timeline, Backpressure, TimelineIsKept
<1>2. QED BY <1>1, Invariance, PTL

\* Discarding what was synthesized at a stale speed never touches a sentence
\* that was launched, and nothing else shortens the timeline.
THEOREM HeardStays == Spec => HeardAudioStays
<1> DEFINE Kept == /\ launched' >= launched
                   /\ Len(retained') >= launched
                   /\ \A i \in 1 .. launched : retained'[i] = retained[i]
<1>1. IInv /\ [Next]_vars => [Kept]_vars
  <2> SUFFICES ASSUME IInv, Next PROVE Kept
    OBVIOUS
  <2>1. launched \in Nat /\ Len(retained) \in Nat /\ launched <= Len(retained) /\ nextPlay \in Nat
    BY DEF IInv, TypeOK
  <2>2. CASE UNCHANGED retained /\ (UNCHANGED launched \/ launched' = Max({launched, nextPlay}))
    <3>1. CASE launched' = Max({launched, nextPlay})
      <4>1. launched' = IF launched <= nextPlay THEN nextPlay ELSE launched
        BY <2>1, <3>1, MinMaxOfTwo
      <4>2. QED BY <2>1, <2>2, <4>1
    <3>2. QED BY <2>1, <2>2, <3>1
  <2>3. CASE UNCHANGED launched /\ DiscardUnplayed
    <3>1. Len(retained') = launched /\ \A i \in 1 .. launched : retained'[i] = retained[i]
      BY <2>3, Discarded DEF IInv
    <3>2. QED BY <2>1, <2>3, <3>1
  <2>4. CASE RetainChunk
    <3>1. Len(retained') = Len(retained) + 1 /\ \A i \in 1 .. Len(retained) : retained'[i] = retained[i]
      BY <2>4, Retained DEF IInv
    <3>2. launched' = launched
      BY <2>4 DEF RetainChunk
    <3>3. QED BY <2>1, <3>1, <3>2
  <2>5. CASE Coordinator
    <3>1. CASE LaunchRetainedChunk
      BY <2>2, <3>1 DEF LaunchRetainedChunk
    <3>2. CASE LaunchRefused \/ DropStale
      BY <2>2, <2>3, <3>2 DEF LaunchRefused, DropStale, NothingRewound
    <3>3. CASE \/ ServicePlayback \/ JoinPlayback \/ ApplyPendingSeek \/ ApplySeekTarget
               \/ LaunchNothing \/ Loop \/ Gate
      BY <2>2, <3>3 DEF ServicePlayback, JoinPlayback, ApplyPendingSeek, ApplySeekTarget,
        LaunchNothing, Loop, Gate
    <3>4. CASE \/ StartSynthesis \/ AwaitLookahead \/ SynthesisThrew \/ PlayOutOne
               \/ PlayOutRewound \/ DrainStream \/ FinishUtterance \/ Abort \/ Unwind
      BY <2>2, <3>4 DEF StartSynthesis, AwaitLookahead, SynthesisThrew, PlayOutOne,
        PlayOutRewound, DrainStream, FinishUtterance, Abort, Unwind
    <3>5. QED BY <2>4, <2>5, <3>1, <3>2, <3>3, <3>4 DEF Coordinator
  <2>6. CASE SynthesisTask \/ PlaybackThread \/ User
    BY <2>2, <2>6 DEF SynthesisTask, SynthesisReturns, SynthesisCancelled, SynthesisEnds,
      PlaybackThread, PlayFrame, DrainEnds, PlayerStops, PlayerSeeks, PlayerReturns,
      User, UserStops, UserPauses, UserResumes, UserChangesSpeed, UserSeeks, UserUnchanged,
      coordinatorVars
  <2>7. CASE Failures
    BY <2>2, <2>7 DEF Failures, LaunchFails, RetainFails, SynthesisFails, EndpointFails,
      SynthesisEnds, PlayerReturns, coordinatorVars
  <2>8. QED BY <2>5, <2>6, <2>7 DEF Next
<1>2. QED BY <1>1, Invariance, PTL DEF Spec, HeardAudioStays

\* Until the first seek the text is heard in order and without a gap: playback
\* begins exactly where it ended, a sentence that was synthesized again begins at
\* its beginning, and the utterance is done only when all of it was queued.
THEOREM NothingIsSkipped == Spec => NothingSkipped
<1> DEFINE Continues == Launching /\ seekGen = 0 =>
             Place(retained[playIndex'].text, playPos', retained[playIndex'].duration) = expect
<1>1. IInv => DoneMeansHeard
  BY DEF IInv, Resumable, PlaysInOrder, HeardSoFar, DoneMeansHeard, Left
<1>2. IInv /\ [Next]_vars => [Continues]_vars
  <2> SUFFICES ASSUME IInv, Next, Launching, seekGen = 0
               PROVE  Place(retained[playIndex'].text, playPos', retained[playIndex'].duration)
                        = expect
    OBVIOUS
  <2>1. LaunchRetainedChunk
    <3>1. CASE Coordinator
      BY <3>1 DEF Coordinator, Launching, ServicePlayback, JoinPlayback, ApplyPendingSeek,
        ApplySeekTarget, LaunchNothing, LaunchRefused, Loop, Gate, StartSynthesis, AwaitLookahead,
        SynthesisThrew, DropStale, RetainChunk, PlayOutOne, PlayOutRewound, DrainStream,
        FinishUtterance, Abort, Unwind, playerVars
    <3>2. CASE SynthesisTask \/ PlaybackThread \/ Failures \/ User
      BY <3>2 DEF Launching, SynthesisTask, SynthesisReturns, SynthesisCancelled, SynthesisEnds,
        PlaybackThread, PlayFrame, DrainEnds, PlayerStops, PlayerSeeks, PlayerReturns,
        User, UserStops, UserPauses, UserResumes, UserChangesSpeed, UserSeeks, UserUnchanged,
        Failures, LaunchFails, RetainFails, SynthesisFails, EndpointFails, playerVars
    <3>3. QED BY <3>1, <3>2 DEF Next
  <2>2. /\ pc = "launch" /\ player = "none" /\ nextPlay <= Len(retained)
        /\ playIndex' = nextPlay /\ playPos' = nextFrame
    BY <2>1 DEF LaunchRetainedChunk, CanLaunch, Joinable
  <2>3. nextPlay = launched + 1 /\ nextFrame = 0 /\ ret # "drained"
    BY <2>2 DEF IInv, PlaysInOrder, Resumable, Left
  <2>4. ~Cancelled
    <3>1. FirstPlayback
      BY <2>3 DEF IInv, TypeOK, FirstPlayback
    <3>2. QED
      BY <2>1, <3>1 DEF LaunchRetainedChunk, LaunchAllowed, PrepareSentence, SentenceAllowed, Cancelled
  <2>5. expect = [text |-> nextPlay, frame |-> 0]
    BY <2>2, <2>4 DEF IInv, HeardSoFar, Left
  <2>6. nextPlay \in 1 .. Len(retained)
    BY <2>2 DEF IInv, TypeOK
  <2>7. retained[nextPlay].duration \in Nat \ {0} /\ retained[nextPlay].text = nextPlay
    BY <2>6, ChunkFields DEF IInv, Timeline, TimelineIsGapless
  <2>8. QED BY <2>2, <2>3, <2>5, <2>7 DEF Place
<1>3. QED BY <1>1, <1>2, Invariance, PTL DEF Spec, NothingSkipped
=============================================================================
