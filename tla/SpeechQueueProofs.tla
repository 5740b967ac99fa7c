------------------------- MODULE SpeechQueueProofs -------------------------
(***************************************************************************)
(* Proofs about SpeechQueue, for every number of requests, speed changes   *)
(* and published documents, and every set of speeds and profiles.          *)
(*                                                                         *)
(* The safety properties are not inductive one by one.  What ties them     *)
(* together is the inductive invariant IInv below: no request the worker   *)
(* has not taken yet is known to the controller in any way (Untouched), so *)
(* beginning one starts from a clean token; and the worker holds a request *)
(* exactly in the states in which it owes a finish() (HoldsRequest).       *)
(***************************************************************************)
EXTENDS SpeechQueue, TLAPS

-----------------------------------------------------------------------------
(* Facts about the waiting line.                                           *)

\* Taking the head splits the elements into the head and the rest.
LEMMA HeadAndTail ==
  ASSUME NEW S, NEW s \in Seq(S), s # <<>>
  PROVE  /\ Head(s) \in S
         /\ Tail(s) \in Seq(S)
         /\ Elements(s) = {Head(s)} \union Elements(Tail(s))
         /\ Len(Tail(s)) = Len(s) - 1
         /\ \A i \in 1 .. Len(Tail(s)) : Tail(s)[i] = s[i + 1]
         /\ Head(s) = s[1]
<1>1. /\ Len(s) \in Nat \ {0}
      /\ Head(s) = s[1]
      /\ Head(s) \in S
      /\ Tail(s) \in Seq(S)
      /\ Len(Tail(s)) = Len(s) - 1
      /\ \A i \in 1 .. Len(s) - 1 : Tail(s)[i] = s[i + 1]
  OBVIOUS
<1>2. ASSUME NEW x \in Elements(s)
      PROVE  x \in {Head(s)} \union Elements(Tail(s))
  <2>1. PICK i \in 1 .. Len(s) : x = s[i]
    BY DEF Elements
  <2>2. CASE i = 1
    BY <1>1, <2>1, <2>2
  <2>3. CASE i # 1
    <3>1. i - 1 \in 1 .. Len(Tail(s)) /\ Tail(s)[i - 1] = s[i]
      BY <1>1, <2>3
    <3>2. QED BY <2>1, <3>1 DEF Elements
  <2>4. QED BY <2>2, <2>3
<1>3. ASSUME NEW x \in Elements(Tail(s))
      PROVE  x \in Elements(s)
  <2>1. PICK i \in 1 .. Len(Tail(s)) : x = Tail(s)[i]
    BY DEF Elements
  <2>2. i + 1 \in 1 .. Len(s) /\ x = s[i + 1]
    BY <1>1, <2>1
  <2>3. QED BY <2>2 DEF Elements
<1>4. Head(s) \in Elements(s)
  BY <1>1 DEF Elements
<1>5. QED BY <1>1, <1>2, <1>3, <1>4

\* Queueing at the end adds one element and keeps the places of the others.
LEMMA AppendAtEnd ==
  ASSUME NEW S, NEW s \in Seq(S), NEW e \in S
  PROVE  /\ Append(s, e) \in Seq(S)
         /\ Elements(Append(s, e)) = Elements(s) \union {e}
         /\ Len(Append(s, e)) = Len(s) + 1
         /\ \A i \in 1 .. Len(s) : Append(s, e)[i] = s[i]
         /\ Append(s, e)[Len(s) + 1] = e
<1>1. /\ Len(s) \in Nat
      /\ Append(s, e) \in Seq(S)
      /\ Len(Append(s, e)) = Len(s) + 1
      /\ \A i \in 1 .. Len(s) : Append(s, e)[i] = s[i]
      /\ Append(s, e)[Len(s) + 1] = e
  OBVIOUS
<1>2. 1 .. Len(s) + 1 = (1 .. Len(s)) \union {Len(s) + 1}
  BY <1>1
<1>3. QED BY <1>1, <1>2 DEF Elements

LEMMA ShortLines ==
  /\ Elements(<<>>) = {}
  /\ \A e : Elements(<<e>>) = {e}
<1>1. Elements(<<>>) = {}
  BY DEF Elements
<1>2. ASSUME NEW e PROVE Elements(<<e>>) = {e}
  <2>1. Len(<<e>>) = 1 /\ <<e>>[1] = e
    OBVIOUS
  <2>2. 1 .. 1 = {1}
    OBVIOUS
  <2>3. QED BY <2>1, <2>2 DEF Elements
<1>3. QED BY <1>1, <1>2

-----------------------------------------------------------------------------
(* The inductive invariant.                                                *)

Idling == {"wait", "warm", "unload", "exited"}

Settled == {t \in Requests : outcome[t] # "none"}

\* Every request the system mentions was submitted.
KnownRequests ==
  /\ Elements(pending) \subseteq 1 .. submitted
  /\ revoked \subseteq 1 .. submitted
  /\ cancelled \subseteq 1 .. submitted
  /\ paused \subseteq 1 .. submitted
  /\ Settled \subseteq 1 .. submitted
  /\ current # None => current \in 1 .. submitted

\* A waiting request is newer than every token that was cancelled or paused.
Untouched ==
  \A r \in Elements(pending), t \in Requests :
    t \in cancelled \/ t \in paused => t < r

HoldsRequest == current = None <=> worker \in Idling

\* Before the engine gives up, only a stop cancels the running request.
CancelledByStop ==
  worker \in {"begun", "speak"} /\ current \in cancelled => current \in revoked

FinishIsAccountedFor ==
  worker = "finish" => current \in revoked \/ outcome[current] \in {"spoken", "failed"}

IInv ==
  /\ TypeOK
  /\ StopIsFinal
  /\ StatusMatchesWorker
  /\ PauseFlagMatchesState
  /\ ServedInOrder
  /\ OnlyStopsDropRequests
  /\ KnownRequests
  /\ Untouched
  /\ HoldsRequest
  /\ CancelledByStop
  /\ FinishIsAccountedFor

-----------------------------------------------------------------------------
(* Type correctness.                                                       *)

LEMMA KnownNumbers ==
  ASSUME TypeOK, submitted < MaxRequests
  PROVE  /\ submitted + 1 \in Requests
         /\ submitted + 1 \in 0 .. MaxRequests
         /\ <<submitted + 1>> \in Seq(Requests)
BY QueueAssumption DEF TypeOK, Requests

\* What a stop takes back is a set of submitted requests.
LEMMA OutstandingType ==
  ASSUME TypeOK
  PROVE  /\ Elements(pending) \subseteq Requests
         /\ Outstanding \subseteq Requests
         /\ <<>> \in Seq(Requests)
<1>1. pending \in Seq(Requests) /\ current \in Requests \union {None}
  BY DEF TypeOK
<1>2. \A i \in 1 .. Len(pending) : pending[i] \in Requests
  BY <1>1
<1>3. Elements(pending) \subseteq Requests
  BY <1>2 DEF Elements
<1>4. <<>> \in Seq(Requests)
  OBVIOUS
<1>5. QED BY <1>1, <1>3, <1>4 DEF Outstanding

LEMMA InitType == Init => TypeOK
<1> SUFFICES ASSUME Init PROVE TypeOK
  OBVIOUS
<1>1. published \in Documents /\ published.speed \in Speeds
  BY DEF Init, Documents
<1>2. ControllerTypeOK
  BY <1>1 DEF Init, ControllerInit, ControllerTypeOK, States
<1>3. pending \in Seq(Requests)
  BY DEF Init
<1>4. outcome \in [Requests -> {"none", "spoken", "cancelled", "failed"}]
  BY DEF Init
<1>5. /\ submitted \in 0 .. MaxRequests
      /\ publishes \in 0 .. MaxPublishes
  BY QueueAssumption DEF Init
<1>6. QED
  BY <1>1, <1>2, <1>3, <1>4, <1>5 DEF Init, TypeOK

LEMMA TypeStep == TypeOK /\ HoldsRequest /\ [Next]_vars => TypeOK'
<1> SUFFICES ASSUME TypeOK, HoldsRequest, [Next]_vars PROVE TypeOK'
  OBVIOUS
<1> USE QueueAssumption, NoneAssumption, OutstandingType
<1>1. CASE SubmitInterrupt
  BY <1>1, KnownNumbers
  DEF TypeOK, ControllerTypeOK, vars, controllerVars, queueVars, historyVars, SubmitInterrupt, StopPlayback, Outstanding, States
<1>2. CASE SubmitEnqueue
  BY <1>2, KnownNumbers, AppendAtEnd
  DEF TypeOK, ControllerTypeOK, vars, controllerVars, queueVars, historyVars, SubmitEnqueue, EnqueueAs, States
<1>3. CASE StopSpeech
  BY <1>3
  DEF TypeOK, ControllerTypeOK, vars, controllerVars, queueVars, historyVars, StopSpeech, StopPlayback, Outstanding, States
<1>4. CASE Pause
  BY <1>4
  DEF TypeOK, ControllerTypeOK, vars, controllerVars, queueVars, historyVars, Pause, PausePlayback, States
<1>5. CASE Resume
  BY <1>5
  DEF TypeOK, ControllerTypeOK, vars, controllerVars, queueVars, historyVars, Resume, ResumePlayback, States
<1>6. CASE \E v \in Speeds : ChangeSpeed(v)
  BY <1>6
  DEF TypeOK, ControllerTypeOK, vars, controllerVars, queueVars, historyVars, ChangeSpeed, SetActiveSpeed, States
<1>7. CASE Quit
  BY <1>7
  DEF TypeOK, ControllerTypeOK, vars, controllerVars, queueVars, historyVars, Quit, StopPlayback, Outstanding, States
<1>8. CASE \E d \in Documents : ApplySettings(d)
  BY <1>8
  DEF TypeOK, ControllerTypeOK, vars, controllerVars, queueVars, historyVars, ApplySettings, SetDefaultSpeed, Documents, States
<1>9. CASE SwapSnapshot
  BY <1>9
  DEF TypeOK, ControllerTypeOK, vars, controllerVars, queueVars, historyVars, SwapSnapshot, States
<1>10. CASE RequestWarm
  BY <1>10
  DEF TypeOK, ControllerTypeOK, vars, controllerVars, queueVars, historyVars, RequestWarm, States
<1>11. CASE TakeRequest
  BY <1>11, HeadAndTail
  DEF TypeOK, ControllerTypeOK, vars, controllerVars, queueVars, historyVars, TakeRequest, Begin, States
<1>12. CASE TakeSnapshot
  BY <1>12
  DEF TypeOK, ControllerTypeOK, vars, controllerVars, queueVars, historyVars, TakeSnapshot, States
<1>13. CASE GoIdle
  BY <1>13
  DEF TypeOK, ControllerTypeOK, vars, controllerVars, queueVars, historyVars, GoIdle, States
<1>14. CASE WarmEnds
  BY <1>14
  DEF TypeOK, ControllerTypeOK, vars, controllerVars, queueVars, historyVars, WarmEnds, States
<1>15. CASE WarmCancelled
  BY <1>15
  DEF TypeOK, ControllerTypeOK, vars, controllerVars, queueVars, historyVars, WarmCancelled, States
<1>16. CASE UnloadIfIdle
  BY <1>16
  DEF TypeOK, ControllerTypeOK, vars, controllerVars, queueVars, historyVars, UnloadIfIdle, States
<1>17. CASE StartSentence
  BY <1>17
  DEF TypeOK, ControllerTypeOK, vars, controllerVars, queueVars, historyVars, StartSentence, HoldsRequest, Idling, PrepareSentence, SentenceAllowed, States
<1>18. CASE SpeakReturns
  BY <1>18
  DEF TypeOK, ControllerTypeOK, vars, controllerVars, queueVars, historyVars, SpeakReturns, States
<1>19. CASE SpeakCancelled
  BY <1>19
  DEF TypeOK, ControllerTypeOK, vars, controllerVars, queueVars, historyVars, SpeakCancelled, States
<1>20. CASE EngineAborts
  BY <1>20
  DEF TypeOK, ControllerTypeOK, vars, controllerVars, queueVars, historyVars, EngineAborts, HoldsRequest, Idling, CancelToken, States
<1>21. CASE SpeakFails
  BY <1>21
  DEF TypeOK, ControllerTypeOK, vars, controllerVars, queueVars, historyVars, SpeakFails, HoldsRequest, Idling, Fail, States
<1>22. CASE FinishRequest
  BY <1>22
  DEF TypeOK, ControllerTypeOK, vars, controllerVars, queueVars, historyVars, FinishRequest, Finish, States
<1>23. CASE WorkerExits
  BY <1>23
  DEF TypeOK, ControllerTypeOK, vars, controllerVars, queueVars, historyVars, WorkerExits, States
<1>24. CASE UNCHANGED vars
  BY <1>24 DEF TypeOK, ControllerTypeOK, vars, controllerVars, queueVars, historyVars
<1>25. QED
  BY <1>1, <1>2, <1>3, <1>4, <1>5, <1>6, <1>7, <1>8, <1>9, <1>10, <1>11, <1>12, <1>13, <1>14, <1>15, <1>16, <1>17, <1>18, <1>19, <1>20, <1>21, <1>22, <1>23, <1>24
  DEF Next, Clients, Publish, Worker

-----------------------------------------------------------------------------
(* The invariant is inductive.                                             *)

LEMMA IInvInit == Init => IInv
<1> SUFFICES ASSUME Init PROVE IInv
  OBVIOUS
<1>1. TypeOK
  BY InitType
<1>2. Elements(pending) = {} /\ Len(pending) = 0
  BY ShortLines DEF Init
<1>3. QED
  BY <1>1, <1>2
  DEF IInv, Init, ControllerInit, StopIsFinal, StatusMatchesWorker, PauseFlagMatchesState, ServedInOrder, OnlyStopsDropRequests, KnownRequests, Untouched, HoldsRequest, CancelledByStop, FinishIsAccountedFor, Idling, Settled, Requests

LEMMA IInvStep == IInv /\ [Next]_vars => IInv'
<1> SUFFICES ASSUME IInv, [Next]_vars PROVE IInv'
  OBVIOUS
<1> USE QueueAssumption, NoneAssumption
<1>0. TypeOK /\ TypeOK'
  BY TypeStep DEF IInv
<1>1. CASE SubmitInterrupt
  <2> DEFINE r == submitted + 1
  <2>1. /\ r \in Requests /\ r \notin 1 .. submitted
        /\ pending' = <<r>> /\ Len(pending') = 1
        /\ Elements(pending') = {r}
        /\ 1 .. submitted' = (1 .. submitted) \union {r}
    BY <1>0, <1>1, ShortLines DEF SubmitInterrupt, TypeOK, Requests
  <2>2. /\ revoked' = revoked \union Elements(pending) \union ({current} \ {None})
        /\ revoked' \subseteq 1 .. submitted
    BY <1>0, <1>1 DEF SubmitInterrupt, Outstanding, IInv, KnownRequests
  <2>3. /\ cancelled' = cancelled \union ({active} \ {None})
        /\ state' = IF active = None THEN state ELSE "Stopping"
        /\ UNCHANGED <<active, paused, worker, current, outcome>>
    BY <1>1 DEF SubmitInterrupt, StopPlayback
  <2>4. StopIsFinal'
    <3>1. None \notin 1 .. submitted
      BY <1>0 DEF TypeOK, Requests
    <3>2. QED BY <2>1, <2>2, <2>3, <3>1 DEF StopIsFinal
  <2>5. StatusMatchesWorker' /\ PauseFlagMatchesState'
    BY <2>3 DEF IInv, StatusMatchesWorker, PauseFlagMatchesState
  <2>6. KnownRequests'
    BY <1>0, <2>1, <2>2, <2>3
    DEF IInv, KnownRequests, StatusMatchesWorker, Settled
  <2>7. ServedInOrder' /\ Untouched'
    <3>1. None \notin Requests
      OBVIOUS
    <3>2. \A t \in Requests : \/ t = current \/ outcome[t] # "none"
                              \/ t \in cancelled' \/ t \in paused
            => t \in 1 .. submitted
      BY <2>3, <3>1 DEF IInv, KnownRequests, Settled, StatusMatchesWorker
    <3>3. \A t \in 1 .. submitted : t < r
      BY <1>0 DEF TypeOK
    <3>4. \A i, j \in 1 .. Len(pending') : ~(i < j)
      BY <2>1
    <3>5. QED
      BY <2>1, <2>3, <3>2, <3>3, <3>4 DEF ServedInOrder, Untouched
  <2>8. OnlyStopsDropRequests'
    BY <2>1, <2>2, <2>3 DEF IInv, OnlyStopsDropRequests
  <2>9. HoldsRequest' /\ CancelledByStop' /\ FinishIsAccountedFor'
    BY <2>2, <2>3 DEF IInv, HoldsRequest, CancelledByStop, FinishIsAccountedFor, StatusMatchesWorker, Idling
  <2>10. QED
    BY <1>0, <2>4, <2>5, <2>6, <2>7, <2>8, <2>9 DEF IInv
<1>2. CASE SubmitEnqueue
  <2> DEFINE r == submitted + 1
  <2>1. /\ r \in Requests /\ r \notin 1 .. submitted
        /\ pending \in Seq(Requests)
        /\ 1 .. submitted' = (1 .. submitted) \union {r}
    BY <1>0, <1>2 DEF SubmitEnqueue, EnqueueAs, TypeOK, Requests
  <2>2. /\ pending' = Append(pending, r)
        /\ UNCHANGED <<active, state, cancelled, paused, worker, current, revoked, outcome>>
    BY <1>2 DEF SubmitEnqueue, EnqueueAs, controllerVars, historyVars
  <2>3. /\ Elements(pending') = Elements(pending) \union {r}
        /\ Len(pending) \in Nat /\ Len(pending') = Len(pending) + 1
        /\ \A i \in 1 .. Len(pending) : pending'[i] = pending[i]
        /\ pending'[Len(pending) + 1] = r
    BY <2>1, <2>2, AppendAtEnd
  <2>4. StopIsFinal'
    BY <2>1, <2>2, <2>3 DEF IInv, StopIsFinal, KnownRequests
  <2>5. StatusMatchesWorker' /\ PauseFlagMatchesState'
    BY <2>2 DEF IInv, StatusMatchesWorker, PauseFlagMatchesState
  <2>6. KnownRequests'
    BY <2>1, <2>2, <2>3 DEF IInv, KnownRequests, Settled
  <2>7. \A i, j \in 1 .. Len(pending') : i < j => pending'[i] < pending'[j]
    <3>1. \A i \in 1 .. Len(pending) : pending[i] \in 1 .. submitted
      BY DEF IInv, KnownRequests, Elements
    <3>2. SUFFICES ASSUME NEW i \in 1 .. Len(pending'), NEW j \in 1 .. Len(pending'), i < j
                   PROVE  pending'[i] < pending'[j]
      OBVIOUS
    <3>3. i \in 1 .. Len(pending) /\ pending'[i] = pending[i] /\ pending[i] \in 1 .. submitted
      BY <2>3, <3>1, <3>2
    <3>4. CASE j = Len(pending) + 1
      BY <1>0, <2>3, <3>3, <3>4 DEF TypeOK
    <3>5. CASE j \in 1 .. Len(pending)
      BY <2>3, <3>2, <3>3, <3>5 DEF IInv, ServedInOrder
    <3>6. QED BY <2>3, <3>4, <3>5
  <2>8. ServedInOrder' /\ Untouched'
    <3>1. None \notin Requests
      OBVIOUS
    <3>2. \A t \in Requests : \/ t = current \/ outcome[t] # "none"
                              \/ t \in cancelled \/ t \in paused
            => t < r
      BY <1>0, <3>1 DEF IInv, KnownRequests, Settled, TypeOK
    <3>3. QED
      BY <2>2, <2>3, <2>7, <3>2 DEF IInv, ServedInOrder, Untouched
  <2>9. OnlyStopsDropRequests'
    BY <2>1, <2>2, <2>3 DEF IInv, OnlyStopsDropRequests
  <2>10. HoldsRequest' /\ CancelledByStop' /\ FinishIsAccountedFor'
    BY <2>2 DEF IInv, HoldsRequest, CancelledByStop, FinishIsAccountedFor, Idling
  <2>11. QED
    BY <1>0, <2>4, <2>5, <2>6, <2>8, <2>9, <2>10 DEF IInv
<1>3. CASE StopSpeech
  BY <1>0, <1>3, ShortLines
  DEF IInv, TypeOK, ControllerTypeOK, vars, controllerVars, queueVars, historyVars, StopIsFinal, StatusMatchesWorker, PauseFlagMatchesState, ServedInOrder, OnlyStopsDropRequests, KnownRequests, Untouched, HoldsRequest, CancelledByStop, FinishIsAccountedFor, Idling, Settled, StopSpeech, StopPlayback, Outstanding, Requests, States
<1>4. CASE Pause
  BY <1>0, <1>4
  DEF IInv, TypeOK, ControllerTypeOK, vars, controllerVars, queueVars, historyVars, StopIsFinal, StatusMatchesWorker, PauseFlagMatchesState, ServedInOrder, OnlyStopsDropRequests, KnownRequests, Untouched, HoldsRequest, CancelledByStop, FinishIsAccountedFor, Idling, Settled, Pause, PausePlayback, Requests, States
<1>5. CASE Resume
  BY <1>0, <1>5
  DEF IInv, TypeOK, ControllerTypeOK, vars, controllerVars, queueVars, historyVars, StopIsFinal, StatusMatchesWorker, PauseFlagMatchesState, ServedInOrder, OnlyStopsDropRequests, KnownRequests, Untouched, HoldsRequest, CancelledByStop, FinishIsAccountedFor, Idling, Settled, Resume, ResumePlayback, Requests, States
<1>6. CASE \E v \in Speeds : ChangeSpeed(v)
  BY <1>0, <1>6
  DEF IInv, TypeOK, ControllerTypeOK, vars, controllerVars, queueVars, historyVars, StopIsFinal, StatusMatchesWorker, PauseFlagMatchesState, ServedInOrder, OnlyStopsDropRequests, KnownRequests, Untouched, HoldsRequest, CancelledByStop, FinishIsAccountedFor, Idling, Settled, ChangeSpeed, SetActiveSpeed, Requests, States
<1>7. CASE Quit
  BY <1>0, <1>7, ShortLines
  DEF IInv, TypeOK, ControllerTypeOK, vars, controllerVars, queueVars, historyVars, StopIsFinal, StatusMatchesWorker, PauseFlagMatchesState, ServedInOrder, OnlyStopsDropRequests, KnownRequests, Untouched, HoldsRequest, CancelledByStop, FinishIsAccountedFor, Idling, Settled, Quit, StopPlayback, Outstanding, Requests, States
<1>8. CASE \E d \in Documents : ApplySettings(d)
  BY <1>0, <1>8
  DEF IInv, TypeOK, ControllerTypeOK, vars, controllerVars, queueVars, historyVars, StopIsFinal, StatusMatchesWorker, PauseFlagMatchesState, ServedInOrder, OnlyStopsDropRequests, KnownRequests, Untouched, HoldsRequest, CancelledByStop, FinishIsAccountedFor, Idling, Settled, ApplySettings, SetDefaultSpeed, Documents, Requests, States
<1>9. CASE SwapSnapshot
  BY <1>0, <1>9
  DEF IInv, TypeOK, ControllerTypeOK, vars, controllerVars, queueVars, historyVars, StopIsFinal, StatusMatchesWorker, PauseFlagMatchesState, ServedInOrder, OnlyStopsDropRequests, KnownRequests, Untouched, HoldsRequest, CancelledByStop, FinishIsAccountedFor, Idling, Settled, SwapSnapshot, Requests, States
<1>10. CASE RequestWarm
  BY <1>0, <1>10
  DEF IInv, TypeOK, ControllerTypeOK, vars, controllerVars, queueVars, historyVars, StopIsFinal, StatusMatchesWorker, PauseFlagMatchesState, ServedInOrder, OnlyStopsDropRequests, KnownRequests, Untouched, HoldsRequest, CancelledByStop, FinishIsAccountedFor, Idling, Settled, RequestWarm, Requests, States
<1>11. CASE TakeRequest
  <2> DEFINE r == Head(pending)
  <2>1. /\ pending \in Seq(Requests) /\ pending # <<>>
        /\ worker = "wait" /\ worker' = "begun"
        /\ current' = r /\ active' = r /\ state' = "Preparing"
        /\ pending' = Tail(pending)
        /\ cancelled' = cancelled \union ({active} \ {None})
        /\ UNCHANGED <<submitted, paused, revoked, outcome>>
    BY <1>0, <1>11 DEF TakeRequest, Begin, TypeOK, historyVars
  <2>2. /\ r \in Requests /\ r = pending[1]
        /\ Elements(pending) = {r} \union Elements(pending')
        /\ Len(pending) \in Nat \ {0} /\ Len(pending') = Len(pending) - 1
        /\ \A i \in 1 .. Len(pending') : pending'[i] = pending[i + 1]
    <3>1. Len(pending) \in Nat \ {0}
      BY <2>1
    <3>2. QED BY <2>1, <3>1, HeadAndTail
  <2>3. /\ active = None /\ current = None /\ cancelled' = cancelled
        /\ r # None
    BY <2>1, <2>2 DEF IInv, StatusMatchesWorker, HoldsRequest, Idling
  <2>4. \A i, j \in 1 .. Len(pending') : i < j => pending'[i] < pending'[j]
    BY <2>2 DEF IInv, ServedInOrder
  <2>5. \A q \in Elements(pending') : r < q
    <3>1. \A i \in 1 .. Len(pending') : r < pending'[i]
      BY <2>2 DEF IInv, ServedInOrder
    <3>2. QED BY <3>1 DEF Elements
  <2>6. \A t \in Requests : t \in cancelled \/ t \in paused \/ outcome[t] # "none" => t < r
    BY <2>2 DEF IInv, Untouched, ServedInOrder
  <2>7. r \notin cancelled /\ r \notin paused /\ r \notin revoked
    BY <2>2, <2>6 DEF IInv, StopIsFinal, Requests
  <2>8. StopIsFinal' /\ StatusMatchesWorker' /\ PauseFlagMatchesState'
    BY <2>1, <2>2, <2>3, <2>7
    DEF IInv, StopIsFinal, StatusMatchesWorker, PauseFlagMatchesState
  <2>9. ServedInOrder' /\ Untouched'
    BY <2>1, <2>2, <2>3, <2>4, <2>5 DEF IInv, ServedInOrder, Untouched
  <2>10. OnlyStopsDropRequests' /\ KnownRequests'
    <3>1. None \notin 1 .. submitted
      BY <1>0 DEF TypeOK, Requests
    <3>2. QED
      BY <2>1, <2>2, <2>3, <3>1
      DEF IInv, OnlyStopsDropRequests, KnownRequests, Settled
  <2>11. HoldsRequest' /\ CancelledByStop' /\ FinishIsAccountedFor'
    BY <2>1, <2>3, <2>7
    DEF HoldsRequest, CancelledByStop, FinishIsAccountedFor, Idling
  <2>12. QED
    BY <1>0, <2>8, <2>9, <2>10, <2>11 DEF IInv
<1>12. CASE TakeSnapshot
  BY <1>0, <1>12
  DEF IInv, TypeOK, ControllerTypeOK, vars, controllerVars, queueVars, historyVars, StopIsFinal, StatusMatchesWorker, PauseFlagMatchesState, ServedInOrder, OnlyStopsDropRequests, KnownRequests, Untouched, HoldsRequest, CancelledByStop, FinishIsAccountedFor, Idling, Settled, TakeSnapshot, Requests, States
<1>13. CASE GoIdle
  BY <1>0, <1>13
  DEF IInv, TypeOK, ControllerTypeOK, vars, controllerVars, queueVars, historyVars, StopIsFinal, StatusMatchesWorker, PauseFlagMatchesState, ServedInOrder, OnlyStopsDropRequests, KnownRequests, Untouched, HoldsRequest, CancelledByStop, FinishIsAccountedFor, Idling, Settled, GoIdle, Requests, States
<1>14. CASE WarmEnds
  BY <1>0, <1>14
  DEF IInv, TypeOK, ControllerTypeOK, vars, controllerVars, queueVars, historyVars, StopIsFinal, StatusMatchesWorker, PauseFlagMatchesState, ServedInOrder, OnlyStopsDropRequests, KnownRequests, Untouched, HoldsRequest, CancelledByStop, FinishIsAccountedFor, Idling, Settled, WarmEnds, Requests, States
<1>15. CASE WarmCancelled
  BY <1>0, <1>15
  DEF IInv, TypeOK, ControllerTypeOK, vars, controllerVars, queueVars, historyVars, StopIsFinal, StatusMatchesWorker, PauseFlagMatchesState, ServedInOrder, OnlyStopsDropRequests, KnownRequests, Untouched, HoldsRequest, CancelledByStop, FinishIsAccountedFor, Idling, Settled, WarmCancelled, Requests, States
<1>16. CASE UnloadIfIdle
  BY <1>0, <1>16
  DEF IInv, TypeOK, ControllerTypeOK, vars, controllerVars, queueVars, historyVars, StopIsFinal, StatusMatchesWorker, PauseFlagMatchesState, ServedInOrder, OnlyStopsDropRequests, KnownRequests, Untouched, HoldsRequest, CancelledByStop, FinishIsAccountedFor, Idling, Settled, UnloadIfIdle, Requests, States
<1>17. CASE StartSentence
  BY <1>0, <1>17
  DEF IInv, TypeOK, ControllerTypeOK, vars, controllerVars, queueVars, historyVars, StopIsFinal, StatusMatchesWorker, PauseFlagMatchesState, ServedInOrder, OnlyStopsDropRequests, KnownRequests, Untouched, HoldsRequest, CancelledByStop, FinishIsAccountedFor, Idling, Settled, StartSentence, HoldsRequest, Idling, PrepareSentence, SentenceAllowed, Requests, States
<1>18. CASE SpeakReturns
  BY <1>0, <1>18
  DEF IInv, TypeOK, ControllerTypeOK, vars, controllerVars, queueVars, historyVars, StopIsFinal, StatusMatchesWorker, PauseFlagMatchesState, ServedInOrder, OnlyStopsDropRequests, KnownRequests, Untouched, HoldsRequest, CancelledByStop, FinishIsAccountedFor, Idling, Settled, SpeakReturns, Requests, States
<1>19. CASE SpeakCancelled
  BY <1>0, <1>19
  DEF IInv, TypeOK, ControllerTypeOK, vars, controllerVars, queueVars, historyVars, StopIsFinal, StatusMatchesWorker, PauseFlagMatchesState, ServedInOrder, OnlyStopsDropRequests, KnownRequests, Untouched, HoldsRequest, CancelledByStop, FinishIsAccountedFor, Idling, Settled, SpeakCancelled, Requests, States
<1>20. CASE EngineAborts
  BY <1>0, <1>20
  DEF IInv, TypeOK, ControllerTypeOK, vars, controllerVars, queueVars, historyVars, StopIsFinal, StatusMatchesWorker, PauseFlagMatchesState, ServedInOrder, OnlyStopsDropRequests, KnownRequests, Untouched, HoldsRequest, CancelledByStop, FinishIsAccountedFor, Idling, Settled, EngineAborts, HoldsRequest, Idling, CancelToken, Requests, States
<1>21. CASE SpeakFails
  BY <1>0, <1>21
  DEF IInv, TypeOK, ControllerTypeOK, vars, controllerVars, queueVars, historyVars, StopIsFinal, StatusMatchesWorker, PauseFlagMatchesState, ServedInOrder, OnlyStopsDropRequests, KnownRequests, Untouched, HoldsRequest, CancelledByStop, FinishIsAccountedFor, Idling, Settled, SpeakFails, HoldsRequest, Idling, Fail, Requests, States
<1>22. CASE FinishRequest
  BY <1>0, <1>22
  DEF IInv, TypeOK, ControllerTypeOK, vars, controllerVars, queueVars, historyVars, StopIsFinal, StatusMatchesWorker, PauseFlagMatchesState, ServedInOrder, OnlyStopsDropRequests, KnownRequests, Untouched, HoldsRequest, CancelledByStop, FinishIsAccountedFor, Idling, Settled, FinishRequest, Finish, Requests, States
<1>23. CASE WorkerExits
  BY <1>0, <1>23
  DEF IInv, TypeOK, ControllerTypeOK, vars, controllerVars, queueVars, historyVars, StopIsFinal, StatusMatchesWorker, PauseFlagMatchesState, ServedInOrder, OnlyStopsDropRequests, KnownRequests, Untouched, HoldsRequest, CancelledByStop, FinishIsAccountedFor, Idling, Settled, WorkerExits, Requests, States
<1>24. CASE UNCHANGED vars
  BY <1>0, <1>24 DEF IInv, TypeOK, ControllerTypeOK, vars, controllerVars, queueVars, historyVars, StopIsFinal, StatusMatchesWorker, PauseFlagMatchesState, ServedInOrder, OnlyStopsDropRequests, KnownRequests, Untouched, HoldsRequest, CancelledByStop, FinishIsAccountedFor, Idling, Settled
<1>25. QED
  BY <1>1, <1>2, <1>3, <1>4, <1>5, <1>6, <1>7, <1>8, <1>9, <1>10, <1>11, <1>12, <1>13, <1>14, <1>15, <1>16, <1>17, <1>18, <1>19, <1>20, <1>21, <1>22, <1>23, <1>24
  DEF Next, Clients, Publish, Worker

-----------------------------------------------------------------------------
(* The theorems.                                                           *)

THEOREM Invariance == Spec => []IInv
<1>1. Init => IInv
  BY IInvInit
<1>2. IInv /\ [Next]_vars => IInv'
  BY IInvStep
<1>3. QED BY <1>1, <1>2, PTL DEF Spec

\* The variables of the queue and of the controller keep their types.
THEOREM TypeCorrect == Spec => []TypeOK
<1>1. IInv => TypeOK
  BY DEF IInv
<1>2. QED BY <1>1, Invariance, PTL

\* A stop, an interrupting read or Quit is final whatever the worker is doing,
\* requests of two threads are spoken in order, and none is lost unless a stop
\* discarded it.
THEOREM NoneLostOrOvertaken == Spec => []RequestsAreKept
<1>1. IInv => RequestsAreKept
  BY DEF IInv, RequestsAreKept
<1>2. QED BY <1>1, Invariance, PTL

\* What the windows and the Local API show agrees with the worker and with the
\* token's pause flag.
THEOREM StatusIsTruthful == Spec => []StatusIsTrue
<1>1. IInv => StatusIsTrue
  BY DEF IInv, StatusIsTrue
<1>2. QED BY <1>1, Invariance, PTL

\* No request is first heard after it was discarded.
THEOREM DiscardedStaySilent == Spec => NoSoundAfterStop
<1>1. IInv /\ [Next]_vars => [\A r \in heard' \ heard : r \notin revoked]_vars
  <2> SUFFICES ASSUME IInv, [Next]_vars, NEW r \in heard' \ heard
               PROVE  r \notin revoked
    OBVIOUS
  <2>1. CASE StartSentence
    <3>1. r = active /\ r \notin cancelled
      BY <2>1 DEF StartSentence, PrepareSentence, SentenceAllowed
    <3>2. QED BY <3>1 DEF IInv, StopIsFinal
  <2>2. CASE ~StartSentence
    <3>1. heard' = heard
      BY <2>2 DEF Next, Clients, Publish, Worker, vars, historyVars, SubmitInterrupt,
        SubmitEnqueue, EnqueueAs, StopSpeech, Pause, Resume, ChangeSpeed, Quit,
        ApplySettings, SwapSnapshot, RequestWarm, TakeRequest, TakeSnapshot,
        GoIdle, WarmEnds, WarmCancelled, UnloadIfIdle, SpeakReturns,
        SpeakCancelled, EngineAborts, SpeakFails, FinishRequest, WorkerExits
    <3>2. QED BY <3>1
  <2>3. QED BY <2>1, <2>2
<1>2. QED BY <1>1, Invariance, PTL DEF Spec, NoSoundAfterStop

\* An error stays on display until the next request begins.
THEOREM ErrorsStay == Spec => ErrorStaysUntilNextRead
<1>1. IInv /\ [Next]_vars
      => [state = "Error" /\ state' # "Error" => active' # None /\ worker' = "begun"]_vars
  <2> SUFFICES ASSUME IInv, [Next]_vars, state = "Error", state' # "Error"
               PROVE  active' # None /\ worker' = "begun"
    OBVIOUS
  <2>1. active = None
    BY DEF IInv, StatusMatchesWorker
  <2>2. CASE TakeRequest
    <3>1. Head(pending) # None
      BY <2>2, HeadAndTail, NoneAssumption, QueueAssumption DEF IInv, TypeOK, TakeRequest
    <3>2. QED BY <2>2, <3>1 DEF TakeRequest, Begin
  <2>3. CASE ~TakeRequest
    <3>1. state' = state
      BY <2>1, <2>3 DEF Next, Clients, Publish, Worker, vars, controllerVars,
        SubmitInterrupt, SubmitEnqueue, EnqueueAs, StopSpeech, Pause, Resume,
        ChangeSpeed, Quit, ApplySettings, SwapSnapshot, RequestWarm,
        TakeSnapshot, GoIdle, WarmEnds, WarmCancelled, UnloadIfIdle,
        StartSentence, SpeakReturns, SpeakCancelled, EngineAborts, SpeakFails,
        FinishRequest, WorkerExits, StopPlayback, PausePlayback, ResumePlayback,
        SetActiveSpeed, SetDefaultSpeed, PrepareSentence, SentenceAllowed,
        CancelToken, Fail, Finish
    <3>2. QED BY <3>1
  <2>4. QED BY <2>2, <2>3
<1>2. QED BY <1>1, Invariance, PTL DEF Spec, ErrorStaysUntilNextRead

-----------------------------------------------------------------------------
(* The queue implements the sequential service.                            *)

LEMMA ServiceInit == Init => Service!Init
BY DEF Init, ControllerInit, Service!Init, Speaking

LEMMA ServiceStep == IInv /\ IInv' /\ [Next]_vars => [Service!Next]_(Service!serviceVars)
<1> SUFFICES ASSUME IInv, IInv', [Next]_vars
             PROVE  [Service!Next]_(Service!serviceVars)
  OBVIOUS
<1> USE QueueAssumption, NoneAssumption DEF Speaking
<1>1. CASE SubmitInterrupt
  <2>1. Speaking' = None
    BY <1>1 DEF SubmitInterrupt, StopPlayback
  <2>2. Service!Interrupt
    BY <1>1, <2>1 DEF SubmitInterrupt, Service!Interrupt
  <2>3. QED BY <2>2 DEF Service!Next
<1>2. CASE SubmitEnqueue
  <2>1. Service!Enqueue
    BY <1>2 DEF SubmitEnqueue, EnqueueAs, controllerVars, historyVars, Service!Enqueue
  <2>2. QED BY <2>1 DEF Service!Next
<1>3. CASE StopSpeech \/ Quit
  <2>1. Speaking' = None /\ pending' = <<>> /\ UNCHANGED <<submitted, heard>>
    BY <1>3 DEF StopSpeech, Quit, StopPlayback
  <2>2. QED BY <2>1 DEF Service!Next, Service!Silence
<1>4. CASE TakeRequest
  <2>1. active = None /\ pending \in Seq(Requests) /\ pending # <<>>
    BY <1>4 DEF TakeRequest, IInv, TypeOK, StatusMatchesWorker
  <2>2. Head(pending) \in Elements(pending) /\ Head(pending) \in Requests
    BY <2>1, HeadAndTail
  <2>3. Head(pending) \notin cancelled
    BY <2>2 DEF IInv, Untouched, Requests
  <2>4. Speaking = None /\ Speaking' = Head(pending)
    BY <1>4, <2>1, <2>2, <2>3 DEF TakeRequest, Begin
  <2>5. Service!Start
    BY <1>4, <2>4 DEF TakeRequest, Service!Start, historyVars
  <2>6. QED BY <2>5 DEF Service!Next
<1>5. CASE StartSentence
  <2>1. Speaking = current /\ current # None /\ Speaking' = Speaking
    BY <1>5 DEF StartSentence, PrepareSentence, SentenceAllowed, IInv, HoldsRequest, Idling
  <2>2. Service!Sound
    BY <1>5, <2>1 DEF StartSentence, queueVars, Service!Sound
  <2>3. QED BY <2>2 DEF Service!Next
<1>6. CASE EngineAborts \/ SpeakFails \/ FinishRequest
  <2>1. Speaking' \in {Speaking, None} /\ UNCHANGED <<submitted, pending, heard>>
    BY <1>6 DEF EngineAborts, SpeakFails, FinishRequest, CancelToken, Fail, Finish, historyVars
  <2>2. QED BY <2>1 DEF Service!Next, Service!End, Service!serviceVars
<1>7. CASE \/ Pause \/ Resume \/ \E s \in Speeds : ChangeSpeed(s)
           \/ \E d \in Documents : ApplySettings(d)
           \/ SwapSnapshot \/ RequestWarm \/ TakeSnapshot \/ GoIdle \/ WarmEnds
           \/ WarmCancelled \/ UnloadIfIdle \/ SpeakReturns \/ SpeakCancelled
           \/ WorkerExits \/ UNCHANGED vars
  <2>1. UNCHANGED <<active, cancelled, submitted, pending, heard>>
    BY <1>7 DEF Pause, Resume, ChangeSpeed, ApplySettings, SwapSnapshot,
      RequestWarm, TakeSnapshot, GoIdle, WarmEnds, WarmCancelled, UnloadIfIdle,
      SpeakReturns, SpeakCancelled, WorkerExits, PausePlayback, ResumePlayback,
      SetActiveSpeed, SetDefaultSpeed, vars, controllerVars, queueVars, historyVars
  <2>2. QED BY <2>1 DEF Service!serviceVars
<1>8. QED
  BY <1>1, <1>2, <1>3, <1>4, <1>5, <1>6, <1>7 DEF Next, Clients, Publish, Worker

\* Whatever its threads do, the queue behaves for its callers like the
\* sequential service: one utterance at a time, in order, silent once stopped.
THEOREM QueueImplementsService == Spec => ImplementsService
<1>1. Init => Service!Init
  BY ServiceInit
<1>2. IInv /\ IInv' /\ [Next]_vars => [Service!Next]_(Service!serviceVars)
  BY ServiceStep
<1>3. QED
  BY <1>1, <1>2, Invariance, PTL DEF Spec, ImplementsService, Service!Spec

=============================================================================
