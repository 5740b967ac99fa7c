------------------------- MODULE ModelSessionProofs -------------------------
(***************************************************************************)
(* Proofs about ModelSession, for every set of models and every bound.     *)
(*                                                                         *)
(* Each property holds because of who owns the mutex, so the inductive     *)
(* invariant says, for every place a holder of the mutex can be in, what   *)
(* it knows about the runner (Holding), about the models refused so far    *)
(* (Refusals) and about the restart that is left (RestartBudget).          *)
(***************************************************************************)
EXTENDS ModelSession, TLAPS

-----------------------------------------------------------------------------
(* The inductive invariant.                                                *)

Leased == {"prepare", "synth", "attempt", "release"}

Holding ==
  /\ speech \in Leased => resident = wanted
  /\ speech # "idle" => wanted # None
  /\ ui = "prepare" => resident # None /\ ~live
  /\ live => resident # None
  /\ status = IF live THEN resident ELSE None
  /\ switching # None => disk[switching] < MaxSwitches
  /\ speech = "attempt" => chunks > 0

Refusals ==
  /\ speech \in {"acquire", "prepare", "synth", "attempt"} => wanted \notin refused
  /\ speech # "idle" /\ fallback # None => fallback # wanted /\ fallback \notin refused

\* A restart that was used since the last chunk was completed is still on
\* record where the next failure will look for it.
RestartBudget ==
  /\ restarts \in {0, 1}
  /\ speech = "acquire" => restarts = 0
  /\ speech = "prepare" /\ restarts = 1 => retried /\ spent
  /\ speech = "synth" /\ restarts = 1 => spent
  /\ speech = "attempt" /\ restarts = 1 => retried

IInv ==
  /\ TypeOK
  /\ OneOwner
  /\ NoStaleFiles
  /\ LoadedIsAvailable
  /\ Holding
  /\ Refusals
  /\ RestartBudget

-----------------------------------------------------------------------------

LEMMA Counters ==
  /\ 0 \in 0 .. MaxSwitches /\ 0 \in 0 .. MaxLoads /\ 0 \in 0 .. MaxChunks
  /\ \A k \in 0 .. MaxSwitches : k < MaxSwitches => k + 1 \in 0 .. MaxSwitches
  /\ \A k \in 0 .. MaxLoads : k < MaxLoads => k + 1 \in 0 .. MaxLoads
  /\ \A k \in 0 .. MaxChunks : k > 0 => k - 1 \in 0 .. MaxChunks
  /\ \A k \in 1 .. MaxChunks : k \in 0 .. MaxChunks
  /\ 0 \in Nat /\ \A k \in Nat : k + 1 \in Nat
BY BoundsAssumption

LEMMA IInvInit == Init => IInv
<1> SUFFICES ASSUME Init PROVE IInv
  OBVIOUS
<1>1. TypeOK
  BY Counters DEF Init, TypeOK, OptionalModel
<1>2. QED
  BY <1>1
  DEF IInv, Init, OneOwner, NoStaleFiles, LoadedIsAvailable, Holding, Refusals,
      RestartBudget, Leased

LEMMA IInvStep == IInv /\ [Next]_vars => IInv'
<1> SUFFICES ASSUME IInv, [Next]_vars PROVE IInv'
  OBVIOUS
<1> USE ModelsAssumption
<1>1. CASE \E m \in Models, f \in OptionalModel, n \in 1 .. MaxChunks :
             f # m /\ BeginJob("read", m, f, n)
  <2>1. TypeOK'
    BY ZenonT(120), Counters, <1>1 DEF IInv, TypeOK, OptionalModel, BeginJob,
      runnerVars, speechVars, uiVars, diskVars, historyVars
  <2>2. OneOwner' /\ NoStaleFiles' /\ LoadedIsAvailable'
    BY <1>1 DEF IInv, TypeOK, OptionalModel, OneOwner, NoStaleFiles, LoadedIsAvailable, Holding, Leased,
      BeginJob, runnerVars, speechVars, uiVars, diskVars, historyVars
  <2>3. Holding' /\ Refusals' /\ RestartBudget'
    BY <1>1 DEF IInv, TypeOK, OptionalModel, OneOwner, Holding, Leased, Refusals, RestartBudget,
      BeginJob, runnerVars, speechVars, uiVars, diskVars, historyVars
  <2>4. QED BY <2>1, <2>2, <2>3 DEF IInv
<1>2. CASE \E m \in Models : BeginJob("warm", m, None, 0)
  <2>1. TypeOK'
    BY Counters, <1>2 DEF IInv, TypeOK, OptionalModel, BeginJob,
      runnerVars, speechVars, uiVars, diskVars, historyVars
  <2>2. OneOwner' /\ NoStaleFiles' /\ LoadedIsAvailable'
    BY <1>2 DEF IInv, TypeOK, OptionalModel, OneOwner, NoStaleFiles, LoadedIsAvailable, Holding, Leased,
      BeginJob, runnerVars, speechVars, uiVars, diskVars, historyVars
  <2>3. Holding' /\ Refusals' /\ RestartBudget'
    BY <1>2 DEF IInv, TypeOK, OptionalModel, OneOwner, Holding, Leased, Refusals, RestartBudget,
      BeginJob, runnerVars, speechVars, uiVars, diskVars, historyVars
  <2>4. QED BY <2>1, <2>2, <2>3 DEF IInv
<1>3. CASE Cancel
  <2>1. TypeOK'
    BY Counters, <1>3 DEF IInv, TypeOK, OptionalModel, Cancel,
      runnerVars, speechVars, uiVars, diskVars, historyVars
  <2>2. OneOwner' /\ NoStaleFiles' /\ LoadedIsAvailable'
    BY <1>3 DEF IInv, TypeOK, OptionalModel, OneOwner, NoStaleFiles, LoadedIsAvailable, Holding, Leased,
      Cancel, runnerVars, speechVars, uiVars, diskVars, historyVars
  <2>3. Holding' /\ Refusals' /\ RestartBudget'
    BY <1>3 DEF IInv, TypeOK, OptionalModel, OneOwner, Holding, Leased, Refusals, RestartBudget,
      Cancel, runnerVars, speechVars, uiVars, diskVars, historyVars
  <2>4. QED BY <2>1, <2>2, <2>3 DEF IInv
<1>4. CASE Acquire
  <2>1. TypeOK'
    <3>1. /\ owner' = "speech" /\ speech' = "prepare" /\ retried' = FALSE
          /\ UNCHANGED <<job, wanted, fallback, chunks, cancelled, result, ui, uiRetried,
                         loads, switching, disk, restarts, refused>>
      BY <1>4 DEF Acquire, uiVars, diskVars, historyVars
    <3>2. CASE resident = wanted
      <4>1. UNCHANGED <<resident, live, spent, opened, status, failures>>
        BY <1>4, <3>2 DEF Acquire, runnerVars
      <4>2. retried' \in BOOLEAN
        BY <3>1
      <4>3. QED BY <3>1, <4>1, <4>2 DEF IInv, TypeOK
    <3>3. CASE resident # wanted
      <4>1. wanted \in OptionalModel
        BY DEF IInv, TypeOK
      <4>2. Replaced(wanted)
        BY <1>4, <3>3 DEF Acquire
      <4>3. /\ resident' = wanted /\ opened' = 0 /\ status' = None /\ failures' = failures
            /\ live' = FALSE /\ spent' = FALSE
        BY <4>2 DEF Replaced
      <4>4. /\ retried' \in BOOLEAN /\ live' \in BOOLEAN /\ spent' \in BOOLEAN
            /\ opened' \in 0 .. MaxSwitches /\ status' \in OptionalModel
        BY Counters, <3>1, <4>3 DEF OptionalModel
      <4>5. QED
        BY <3>1, <4>1, <4>3, <4>4 DEF IInv, TypeOK
    <3>4. QED BY <3>2, <3>3
  <2>2. OneOwner' /\ NoStaleFiles' /\ LoadedIsAvailable'
    BY <1>4 DEF IInv, TypeOK, OptionalModel, OneOwner, NoStaleFiles, LoadedIsAvailable, Holding, Leased,
      Acquire, Replaced, runnerVars, speechVars, uiVars, diskVars, historyVars
  <2>3. Holding' /\ Refusals' /\ RestartBudget'
    BY <1>4 DEF IInv, TypeOK, OptionalModel, OneOwner, Holding, Leased, Refusals, RestartBudget,
      Acquire, Replaced, runnerVars, speechVars, uiVars, diskVars, historyVars
  <2>4. QED BY <2>1, <2>2, <2>3 DEF IInv
<1>5. CASE Release
  <2>1. TypeOK'
    BY Counters, <1>5 DEF IInv, TypeOK, OptionalModel, Holding, Leased, Release,
      runnerVars, speechVars, uiVars, diskVars, historyVars
  <2>2. OneOwner' /\ NoStaleFiles' /\ LoadedIsAvailable'
    BY <1>5 DEF IInv, TypeOK, OptionalModel, OneOwner, NoStaleFiles, LoadedIsAvailable, Holding, Leased,
      Release, runnerVars, speechVars, uiVars, diskVars, historyVars
  <2>3. Holding' /\ Refusals' /\ RestartBudget'
    BY <1>5 DEF IInv, TypeOK, OptionalModel, OneOwner, Holding, Leased, Refusals, RestartBudget,
      Release, runnerVars, speechVars, uiVars, diskVars, historyVars
  <2>4. QED BY <2>1, <2>2, <2>3 DEF IInv
<1>6. CASE PrepareLoaded
  <2>1. TypeOK'
    BY Counters, <1>6 DEF IInv, TypeOK, OptionalModel, PrepareLoaded, Prepared, EndLease,
      runnerVars, speechVars, uiVars, diskVars, historyVars
  <2>2. OneOwner' /\ NoStaleFiles' /\ LoadedIsAvailable'
    BY <1>6 DEF IInv, TypeOK, OptionalModel, OneOwner, NoStaleFiles, LoadedIsAvailable, Holding, Leased,
      PrepareLoaded, Prepared, EndLease, runnerVars, speechVars, uiVars, diskVars, historyVars
  <2>3. Holding' /\ Refusals' /\ RestartBudget'
    BY <1>6 DEF IInv, TypeOK, OptionalModel, OneOwner, Holding, Leased, Refusals, RestartBudget,
      PrepareLoaded, Prepared, EndLease, runnerVars, speechVars, uiVars, diskVars, historyVars
  <2>4. QED BY <2>1, <2>2, <2>3 DEF IInv
<1>7. CASE PrepareStarts
  <2>1. TypeOK'
    BY Counters, <1>7 DEF IInv, TypeOK, OptionalModel, Holding, Leased, PrepareStarts, Prepared, EndLease, Started,
      runnerVars, speechVars, uiVars, diskVars, historyVars
  <2>2. OneOwner' /\ NoStaleFiles' /\ LoadedIsAvailable'
    BY <1>7 DEF IInv, TypeOK, OptionalModel, OneOwner, NoStaleFiles, LoadedIsAvailable, Holding, Leased,
      PrepareStarts, Prepared, EndLease, Started, runnerVars, speechVars, uiVars, diskVars, historyVars
  <2>3. Holding' /\ Refusals' /\ RestartBudget'
    BY <1>7 DEF IInv, TypeOK, OptionalModel, OneOwner, Holding, Leased, Refusals, RestartBudget,
      PrepareStarts, Prepared, EndLease, Started, runnerVars, speechVars, uiVars, diskVars, historyVars
  <2>4. QED BY <2>1, <2>2, <2>3 DEF IInv
<1>8. CASE PrepareRejected
  <2>1. TypeOK'
    BY ZenonT(120), Counters, <1>8 DEF IInv, TypeOK, OptionalModel, Holding, Leased, PrepareRejected, EndLease, Rejected,
      runnerVars, speechVars, uiVars, diskVars, historyVars
  <2>2. OneOwner' /\ NoStaleFiles' /\ LoadedIsAvailable'
    BY <1>8 DEF IInv, TypeOK, OptionalModel, OneOwner, NoStaleFiles, LoadedIsAvailable, Holding, Leased,
      PrepareRejected, EndLease, Rejected, runnerVars, speechVars, uiVars, diskVars, historyVars
  <2>3. Holding' /\ Refusals' /\ RestartBudget'
    BY <1>8 DEF IInv, TypeOK, OptionalModel, OneOwner, Holding, Leased, Refusals, RestartBudget,
      PrepareRejected, EndLease, Rejected, runnerVars, speechVars, uiVars, diskVars, historyVars
  <2>4. QED BY <2>1, <2>2, <2>3 DEF IInv
<1>9. CASE PrepareCancelled
  <2>1. TypeOK'
    BY ZenonT(120), Counters, <1>9 DEF IInv, TypeOK, OptionalModel, PrepareCancelled, EndLease, Dropped,
      runnerVars, speechVars, uiVars, diskVars, historyVars
  <2>2. OneOwner' /\ NoStaleFiles' /\ LoadedIsAvailable'
    BY <1>9 DEF IInv, TypeOK, OptionalModel, OneOwner, NoStaleFiles, LoadedIsAvailable, Holding, Leased,
      PrepareCancelled, EndLease, Dropped, runnerVars, speechVars, uiVars, diskVars, historyVars
  <2>3. Holding' /\ Refusals' /\ RestartBudget'
    BY <1>9 DEF IInv, TypeOK, OptionalModel, OneOwner, Holding, Leased, Refusals, RestartBudget,
      PrepareCancelled, EndLease, Dropped, runnerVars, speechVars, uiVars, diskVars, historyVars
  <2>4. QED BY <2>1, <2>2, <2>3 DEF IInv
<1>10. CASE PrepareBreaks
  <2>1. TypeOK'
    BY ZenonT(120), Counters, <1>10 DEF IInv, TypeOK, OptionalModel, Holding, Leased, PrepareBreaks, Recover, EndLease, Dropped,
      runnerVars, speechVars, uiVars, diskVars, historyVars
  <2>2. OneOwner' /\ NoStaleFiles' /\ LoadedIsAvailable'
    BY <1>10 DEF IInv, TypeOK, OptionalModel, OneOwner, NoStaleFiles, LoadedIsAvailable, Holding, Leased,
      PrepareBreaks, Recover, EndLease, Dropped, runnerVars, speechVars, uiVars, diskVars, historyVars
  <2>3. Holding' /\ Refusals'
    BY <1>10 DEF IInv, Holding, Leased, Refusals, PrepareBreaks, Recover, EndLease, Dropped,
      runnerVars, speechVars, uiVars, diskVars, historyVars
  <2>5. RestartBudget'
    <3>1. CASE ~cancelled /\ ~retried
      <4>1. speech = "prepare" /\ restarts = 0
        BY <1>10, <3>1 DEF IInv, RestartBudget, PrepareBreaks
      <4>2. speech' = "prepare" /\ retried' = TRUE /\ spent' = TRUE /\ restarts' = 1
        <5>1. /\ Dropped(TRUE) /\ retried' = TRUE /\ restarts' = restarts + 1
              /\ UNCHANGED <<owner, speech, job, wanted, fallback, chunks, cancelled,
                             result, uiVars, diskVars, refused>>
          BY Zenon, <1>10, <3>1 DEF PrepareBreaks, Recover
        <5>2. speech' = speech /\ spent' = (spent \/ TRUE)
          BY <5>1 DEF Dropped
        <5>3. restarts' = 1
          BY <4>1, <5>1
        <5>4. QED BY <4>1, <5>1, <5>2, <5>3
      <4>3. QED BY <4>2 DEF RestartBudget
    <3>2. CASE cancelled \/ retried
      <4>1. speech' = "release" /\ restarts' = restarts
        BY <1>10, <3>2 DEF PrepareBreaks, Recover, EndLease, historyVars
      <4>2. QED BY <4>1 DEF IInv, RestartBudget
    <3>3. QED BY <3>1, <3>2
  <2>4. QED BY <2>1, <2>2, <2>3, <2>5 DEF IInv
<1>11. CASE BeginChunk
  <2>1. TypeOK'
    <3>1. /\ speech' = "attempt" /\ retried' = spent /\ spent' = FALSE
          /\ UNCHANGED <<owner, resident, live, opened, status, failures, job, wanted,
                         fallback, chunks, cancelled, result, ui, uiRetried, loads,
                         switching, disk, restarts, refused>>
      BY <1>11 DEF BeginChunk, uiVars, diskVars, historyVars
    <3>2. retried' \in BOOLEAN /\ spent' \in BOOLEAN
      BY <3>1 DEF IInv, TypeOK
    <3>3. QED BY <3>1, <3>2 DEF IInv, TypeOK
  <2>2. OneOwner' /\ NoStaleFiles' /\ LoadedIsAvailable'
    BY <1>11 DEF IInv, TypeOK, OptionalModel, OneOwner, NoStaleFiles, LoadedIsAvailable, Holding, Leased,
      BeginChunk, runnerVars, speechVars, uiVars, diskVars, historyVars
  <2>3. Holding' /\ Refusals' /\ RestartBudget'
    BY <1>11 DEF IInv, TypeOK, OptionalModel, OneOwner, Holding, Leased, Refusals, RestartBudget,
      BeginChunk, runnerVars, speechVars, uiVars, diskVars, historyVars
  <2>4. QED BY <2>1, <2>2, <2>3 DEF IInv
<1>12. CASE ReadEnds
  <2>1. TypeOK'
    BY Counters, <1>12 DEF IInv, TypeOK, OptionalModel, ReadEnds, EndLease,
      runnerVars, speechVars, uiVars, diskVars, historyVars
  <2>2. OneOwner' /\ NoStaleFiles' /\ LoadedIsAvailable'
    BY <1>12 DEF IInv, TypeOK, OptionalModel, OneOwner, NoStaleFiles, LoadedIsAvailable, Holding, Leased,
      ReadEnds, EndLease, runnerVars, speechVars, uiVars, diskVars, historyVars
  <2>3. Holding' /\ Refusals' /\ RestartBudget'
    BY <1>12 DEF IInv, TypeOK, OptionalModel, OneOwner, Holding, Leased, Refusals, RestartBudget,
      ReadEnds, EndLease, runnerVars, speechVars, uiVars, diskVars, historyVars
  <2>4. QED BY <2>1, <2>2, <2>3 DEF IInv
<1>13. CASE ChunkCancelled
  <2>1. TypeOK'
    BY ZenonT(120), Counters, <1>13 DEF IInv, TypeOK, OptionalModel, ChunkCancelled, EndLease, Dropped,
      runnerVars, speechVars, uiVars, diskVars, historyVars
  <2>2. OneOwner' /\ NoStaleFiles' /\ LoadedIsAvailable'
    BY <1>13 DEF IInv, TypeOK, OptionalModel, OneOwner, NoStaleFiles, LoadedIsAvailable, Holding, Leased,
      ChunkCancelled, EndLease, Dropped, runnerVars, speechVars, uiVars, diskVars, historyVars
  <2>3. Holding' /\ Refusals' /\ RestartBudget'
    BY <1>13 DEF IInv, TypeOK, OptionalModel, OneOwner, Holding, Leased, Refusals, RestartBudget,
      ChunkCancelled, EndLease, Dropped, runnerVars, speechVars, uiVars, diskVars, historyVars
  <2>4. QED BY <2>1, <2>2, <2>3 DEF IInv
<1>14. CASE ChunkRestarts
  <2>1. TypeOK'
    BY Counters, <1>14 DEF IInv, TypeOK, OptionalModel, Holding, Leased, ChunkRestarts, Started,
      runnerVars, speechVars, uiVars, diskVars, historyVars
  <2>2. OneOwner' /\ NoStaleFiles' /\ LoadedIsAvailable'
    BY <1>14 DEF IInv, TypeOK, OptionalModel, OneOwner, NoStaleFiles, LoadedIsAvailable, Holding, Leased,
      ChunkRestarts, Started, runnerVars, speechVars, uiVars, diskVars, historyVars
  <2>3. Holding' /\ Refusals' /\ RestartBudget'
    BY <1>14 DEF IInv, TypeOK, OptionalModel, OneOwner, Holding, Leased, Refusals, RestartBudget,
      ChunkRestarts, Started, runnerVars, speechVars, uiVars, diskVars, historyVars
  <2>4. QED BY <2>1, <2>2, <2>3 DEF IInv
<1>15. CASE ChunkRestartRejected
  <2>1. TypeOK'
    BY ZenonT(120), Counters, <1>15 DEF IInv, TypeOK, OptionalModel, Holding, Leased, ChunkRestartRejected, EndLease, Rejected,
      runnerVars, speechVars, uiVars, diskVars, historyVars
  <2>2. OneOwner' /\ NoStaleFiles' /\ LoadedIsAvailable'
    BY <1>15 DEF IInv, TypeOK, OptionalModel, OneOwner, NoStaleFiles, LoadedIsAvailable, Holding, Leased,
      ChunkRestartRejected, EndLease, Rejected, runnerVars, speechVars, uiVars, diskVars, historyVars
  <2>3. Holding' /\ Refusals' /\ RestartBudget'
    BY <1>15 DEF IInv, TypeOK, OptionalModel, OneOwner, Holding, Leased, Refusals, RestartBudget,
      ChunkRestartRejected, EndLease, Rejected, runnerVars, speechVars, uiVars, diskVars, historyVars
  <2>4. QED BY <2>1, <2>2, <2>3 DEF IInv
<1>16. CASE ChunkBreaks
  <2>1. TypeOK'
    BY ZenonT(120), Counters, <1>16 DEF IInv, TypeOK, OptionalModel, Holding, Leased, ChunkBreaks, Recover, EndLease, Dropped,
      runnerVars, speechVars, uiVars, diskVars, historyVars
  <2>2. OneOwner' /\ NoStaleFiles' /\ LoadedIsAvailable'
    BY <1>16 DEF IInv, TypeOK, OptionalModel, OneOwner, NoStaleFiles, LoadedIsAvailable, Holding, Leased,
      ChunkBreaks, Recover, EndLease, Dropped, runnerVars, speechVars, uiVars, diskVars, historyVars
  <2>3. Holding' /\ Refusals' /\ RestartBudget'
    BY <1>16 DEF IInv, TypeOK, OptionalModel, OneOwner, Holding, Leased, Refusals, RestartBudget,
      ChunkBreaks, Recover, EndLease, Dropped, runnerVars, speechVars, uiVars, diskVars, historyVars
  <2>4. QED BY <2>1, <2>2, <2>3 DEF IInv
<1>17. CASE ChunkRefused
  <2>1. TypeOK'
    BY Counters, <1>17 DEF IInv, TypeOK, OptionalModel, ChunkRefused, EndLease,
      runnerVars, speechVars, uiVars, diskVars, historyVars
  <2>2. OneOwner' /\ NoStaleFiles' /\ LoadedIsAvailable'
    BY <1>17 DEF IInv, TypeOK, OptionalModel, OneOwner, NoStaleFiles, LoadedIsAvailable, Holding, Leased,
      ChunkRefused, EndLease, runnerVars, speechVars, uiVars, diskVars, historyVars
  <2>3. Holding' /\ Refusals' /\ RestartBudget'
    BY <1>17 DEF IInv, TypeOK, OptionalModel, OneOwner, Holding, Leased, Refusals, RestartBudget,
      ChunkRefused, EndLease, runnerVars, speechVars, uiVars, diskVars, historyVars
  <2>4. QED BY <2>1, <2>2, <2>3 DEF IInv
<1>18. CASE ChunkDone
  <2>1. TypeOK'
    BY Counters, <1>18 DEF IInv, TypeOK, OptionalModel, Holding, Leased, ChunkDone,
      runnerVars, speechVars, uiVars, diskVars, historyVars
  <2>2. OneOwner' /\ NoStaleFiles' /\ LoadedIsAvailable'
    BY <1>18 DEF IInv, TypeOK, OptionalModel, OneOwner, NoStaleFiles, LoadedIsAvailable, Holding, Leased,
      ChunkDone, runnerVars, speechVars, uiVars, diskVars, historyVars
  <2>3. Holding' /\ Refusals' /\ RestartBudget'
    BY <1>18 DEF IInv, TypeOK, OptionalModel, OneOwner, Holding, Leased, Refusals, RestartBudget,
      ChunkDone, runnerVars, speechVars, uiVars, diskVars, historyVars
  <2>4. QED BY <2>1, <2>2, <2>3 DEF IInv
<1>19. CASE \E m \in Models : UiLoad(m)
  <2>1. TypeOK'
    BY Counters, <1>19 DEF IInv, TypeOK, OptionalModel, UiLoad, Replaced,
      runnerVars, speechVars, uiVars, diskVars, historyVars
  <2>2. OneOwner' /\ NoStaleFiles' /\ LoadedIsAvailable'
    BY <1>19 DEF IInv, TypeOK, OptionalModel, OneOwner, NoStaleFiles, LoadedIsAvailable, Holding, Leased,
      UiLoad, Replaced, runnerVars, speechVars, uiVars, diskVars, historyVars
  <2>3. Holding' /\ Refusals' /\ RestartBudget'
    BY <1>19 DEF IInv, TypeOK, OptionalModel, OneOwner, Holding, Leased, Refusals, RestartBudget,
      UiLoad, Replaced, runnerVars, speechVars, uiVars, diskVars, historyVars
  <2>4. QED BY <2>1, <2>2, <2>3 DEF IInv
<1>20. CASE UiLoaded
  <2>1. TypeOK'
    BY Counters, <1>20 DEF IInv, TypeOK, OptionalModel, Holding, Leased, UiLoaded, UiDone, Started,
      runnerVars, speechVars, uiVars, diskVars, historyVars
  <2>2. OneOwner' /\ NoStaleFiles' /\ LoadedIsAvailable'
    BY <1>20 DEF IInv, TypeOK, OptionalModel, OneOwner, NoStaleFiles, LoadedIsAvailable, Holding, Leased,
      UiLoaded, UiDone, Started, runnerVars, speechVars, uiVars, diskVars, historyVars
  <2>3. Holding' /\ Refusals' /\ RestartBudget'
    BY <1>20 DEF IInv, TypeOK, OptionalModel, OneOwner, Holding, Leased, Refusals, RestartBudget,
      UiLoaded, UiDone, Started, runnerVars, speechVars, uiVars, diskVars, historyVars
  <2>4. QED BY <2>1, <2>2, <2>3 DEF IInv
<1>21. CASE UiRejected
  <2>1. TypeOK'
    BY ZenonT(150), Counters, <1>21 DEF IInv, TypeOK, OptionalModel, Holding, Leased, UiRejected, UiDone,
      runnerVars, speechVars, uiVars, diskVars, historyVars
  <2>2. OneOwner' /\ NoStaleFiles' /\ LoadedIsAvailable'
    BY <1>21 DEF IInv, TypeOK, OptionalModel, OneOwner, NoStaleFiles, LoadedIsAvailable, Holding, Leased,
      UiRejected, UiDone, runnerVars, speechVars, uiVars, diskVars, historyVars
  <2>3. Holding' /\ Refusals' /\ RestartBudget'
    BY <1>21 DEF IInv, TypeOK, OptionalModel, OneOwner, Holding, Leased, Refusals, RestartBudget,
      UiRejected, UiDone, runnerVars, speechVars, uiVars, diskVars, historyVars
  <2>4. QED BY <2>1, <2>2, <2>3 DEF IInv
<1>22. CASE UiBreaks
  <2>1. TypeOK'
    BY ZenonT(150), Counters, <1>22 DEF IInv, TypeOK, OptionalModel, Holding, Leased, UiBreaks, UiDone, Unloaded, Dropped,
      runnerVars, speechVars, uiVars, diskVars, historyVars
  <2>2. OneOwner' /\ NoStaleFiles' /\ LoadedIsAvailable'
    BY <1>22 DEF IInv, TypeOK, OptionalModel, OneOwner, NoStaleFiles, LoadedIsAvailable, Holding, Leased,
      UiBreaks, UiDone, Unloaded, Dropped, runnerVars, speechVars, uiVars, diskVars, historyVars
  <2>3. Holding' /\ Refusals' /\ RestartBudget'
    BY <1>22 DEF IInv, TypeOK, OptionalModel, OneOwner, Holding, Leased, Refusals, RestartBudget,
      UiBreaks, UiDone, Unloaded, Dropped, runnerVars, speechVars, uiVars, diskVars, historyVars
  <2>4. QED BY <2>1, <2>2, <2>3 DEF IInv
<1>23. CASE Unload
  <2>1. TypeOK'
    BY ZenonT(150), Counters, <1>23 DEF IInv, TypeOK, OptionalModel, Unload, Unloaded,
      runnerVars, speechVars, uiVars, diskVars, historyVars
  <2>2. OneOwner' /\ NoStaleFiles' /\ LoadedIsAvailable'
    BY <1>23 DEF IInv, TypeOK, OptionalModel, OneOwner, NoStaleFiles, LoadedIsAvailable, Holding, Leased,
      Unload, Unloaded, runnerVars, speechVars, uiVars, diskVars, historyVars
  <2>3. Holding' /\ Refusals' /\ RestartBudget'
    BY <1>23 DEF IInv, TypeOK, OptionalModel, OneOwner, Holding, Leased, Refusals, RestartBudget,
      Unload, Unloaded, runnerVars, speechVars, uiVars, diskVars, historyVars
  <2>4. QED BY <2>1, <2>2, <2>3 DEF IInv
<1>24. CASE \E m \in Models : ReplacePackage(m)
  <2>1. TypeOK'
    <3>1. PICK m \in Models : ReplacePackage(m)
      BY <1>24
    <3>2. CASE resident = m
      <4>1. Unloaded
        BY <3>1, <3>2 DEF ReplacePackage
      <4>2. QED
        BY ZenonT(150), Counters, <3>1, <4>1
        DEF IInv, TypeOK, OptionalModel, ReplacePackage, Unloaded, speechVars, uiVars, historyVars
    <3>3. CASE resident # m
      <4>1. UNCHANGED runnerVars
        BY <3>1, <3>3 DEF ReplacePackage
      <4>2. QED
        <5>1. /\ owner' = "task" /\ switching' = m
              /\ UNCHANGED <<resident, live, spent, opened, status, failures, speech, job,
                             wanted, fallback, retried, chunks, cancelled, result, ui,
                             uiRetried, loads, disk, restarts, refused>>
          BY <3>1, <4>1 DEF ReplacePackage, runnerVars, speechVars, uiVars, historyVars
        <5>2. QED BY <5>1 DEF IInv, TypeOK, OptionalModel
    <3>4. QED BY <3>2, <3>3
  <2>2. OneOwner' /\ NoStaleFiles' /\ LoadedIsAvailable'
    BY <1>24 DEF IInv, TypeOK, OptionalModel, OneOwner, NoStaleFiles, LoadedIsAvailable, Holding, Leased,
      ReplacePackage, Unloaded, runnerVars, speechVars, uiVars, diskVars, historyVars
  <2>3. Holding' /\ Refusals' /\ RestartBudget'
    BY <1>24 DEF IInv, TypeOK, OptionalModel, OneOwner, Holding, Leased, Refusals, RestartBudget,
      ReplacePackage, Unloaded, runnerVars, speechVars, uiVars, diskVars, historyVars
  <2>4. QED BY <2>1, <2>2, <2>3 DEF IInv
<1>25. CASE PackageSwitched
  <2>1. TypeOK'
    BY Counters, <1>25 DEF IInv, TypeOK, OptionalModel, Holding, Leased, PackageSwitched,
      runnerVars, speechVars, uiVars, diskVars, historyVars
  <2>2. OneOwner' /\ NoStaleFiles' /\ LoadedIsAvailable'
    BY <1>25 DEF IInv, TypeOK, OptionalModel, OneOwner, NoStaleFiles, LoadedIsAvailable, Holding, Leased,
      PackageSwitched, runnerVars, speechVars, uiVars, diskVars, historyVars
  <2>3. Holding' /\ Refusals' /\ RestartBudget'
    BY <1>25 DEF IInv, TypeOK, OptionalModel, OneOwner, Holding, Leased, Refusals, RestartBudget,
      PackageSwitched, runnerVars, speechVars, uiVars, diskVars, historyVars
  <2>4. QED BY <2>1, <2>2, <2>3 DEF IInv
<1>26. CASE UNCHANGED vars
  BY <1>26 DEF IInv, TypeOK, OneOwner, NoStaleFiles, LoadedIsAvailable, Holding,
    Refusals, RestartBudget, vars, runnerVars, speechVars, uiVars, diskVars, historyVars
<1>27. QED
  BY <1>1, <1>2, <1>3, <1>4, <1>5, <1>6, <1>7, <1>8, <1>9, <1>10, <1>11, <1>12, <1>13, <1>14, <1>15, <1>16, <1>17, <1>18, <1>19, <1>20, <1>21, <1>22, <1>23, <1>24, <1>25, <1>26
  DEF Next, SpeechStep, UiStep

-----------------------------------------------------------------------------
(* The theorems.                                                           *)

THEOREM Invariance == Spec => []IInv
<1>1. Init => IInv
  BY IInvInit
<1>2. IInv /\ [Next]_vars => IInv'
  BY IInvStep
<1>3. QED BY <1>1, <1>2, PTL DEF Spec

\* Every variable keeps its type.
THEOREM TypeCorrect == Spec => []TypeOK
<1>1. IInv => TypeOK
  BY DEF IInv
<1>2. QED BY <1>1, Invariance, PTL

\* The mutex is never held twice, and its holder knows it.
THEOREM OwnersAreExclusive == Spec => []OneOwner
<1>1. IInv => OneOwner
  BY DEF IInv
<1>2. QED BY <1>1, Invariance, PTL

\* The model shown as loaded is the loaded one, and is not shown as unavailable.
THEOREM ShownIsLoaded == Spec => []ShownIsWhatIsLoaded
<1>1. IInv => ShownIsWhatIsLoaded
  BY DEF IInv, Holding, StatusIsHonest, ShownIsWhatIsLoaded
<1>2. QED BY <1>1, Invariance, PTL

\* No runner is loaded from files that are being switched or were replaced.
THEOREM RunnersMatchFiles == Spec => []NoStaleFiles
<1>1. IInv => NoStaleFiles
  BY DEF IInv
<1>2. QED BY <1>1, Invariance, PTL

\* A dying model is restarted at most once for each chunk, its start included,
\* and one that refused to load is not started again for the same read.
THEOREM RestartsAreBounded == Spec => []RestartsAreRationed
<1>1. IInv => OneRestartPerChunk
  BY DEF IInv, RestartBudget, OneRestartPerChunk
<1>2. IInv => RejectedIsNotRetried
  BY DEF IInv, Holding, Refusals, Leased, RejectedIsNotRetried
<1>3. QED BY <1>1, <1>2, Invariance, PTL DEF RestartsAreRationed

=============================================================================
