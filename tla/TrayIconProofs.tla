----------------------------- MODULE TrayIconProofs -----------------------------
(***************************************************************************)
(* Proofs about TrayIcon, for any chords, any number of reads and any      *)
(* depth of nested message loops.                                          *)
(*                                                                         *)
(* Every handler may run while an outer one still waits in its own loop,   *)
(* so nothing is known about the order of completions, deadlines, probes   *)
(* and boxes.  What the properties rest on is that each capture exists     *)
(* once (OneToken), that only the latest one may still answer, and only    *)
(* while its deadline runs (Deadline), and that the stack of loops holds   *)
(* one Settings at most (StackOK).                                         *)
(***************************************************************************)
EXTENDS TrayIcon, SequenceTheorems, FiniteSetTheorems, TLAPS

-----------------------------------------------------------------------------
(* The inductive invariant: captures.                                      *)

Reads == [from : Origins, gen : 0 .. MaxRequests, answers : Seq(Answers \X Origins)]
Tokens == [gen : 1 .. MaxRequests, from : Origins, at : {"capturing", "posting"}]
Completions == [gen : 1 .. MaxRequests, from : Origins]

CaptureTypes ==
  /\ asked \in Seq(Reads) /\ Len(asked) <= MaxRequests
  /\ generation \in Nat /\ generation <= Len(asked)
  /\ saved \in 0 .. generation
  /\ timedOut \in BOOLEAN /\ fromNow \in Origins /\ timer \in BOOLEAN /\ busy \in BOOLEAN
  /\ workers \subseteq Tokens
  /\ posted \in Seq(Completions)

\* A generation is that of one request.
OneRequest ==
  /\ \A i \in Requests : asked[i].gen <= generation
  /\ \A i, j \in Requests : asked[i].gen = asked[j].gen /\ asked[i].gen # 0 => i = j
  /\ \A g \in 1 .. generation : \E i \in Requests : asked[i].gen = g

\* "token" is the worker or the completion of a capture that a read asked for.
Belongs(token) ==
  /\ token.gen <= generation
  /\ \A i \in Requests : asked[i].gen = token.gen => asked[i].from = token.from

\* A capture is at most once a worker or a completion.
OneToken ==
  /\ \A w \in workers : Belongs(w)
  /\ \A k \in 1 .. Len(posted) : Belongs(posted[k])
  /\ \A v, w \in workers : v.gen = w.gen => v = w
  /\ \A j, k \in 1 .. Len(posted) : posted[j].gen = posted[k].gen => j = k
  /\ \A w \in workers : \A k \in 1 .. Len(posted) : w.gen # posted[k].gen

\* The latest capture may answer as long as its deadline runs, and has not yet.
Deadline ==
  /\ timer => alive /\ generation > 0 /\ ~timedOut
  /\ \A i \in Requests :
       asked[i].gen = generation /\ generation # 0 =>
         asked[i].from = fromNow /\ (timer => asked[i].answers = <<>>)
  /\ alive /\ ~timedOut =>
       /\ \A w \in workers : w.gen = generation => timer
       /\ \A k \in 1 .. Len(posted) : posted[k].gen = generation => timer

SavedTarget ==
  saved # 0 => \A i \in Requests :
    asked[i].gen = saved =>
      /\ asked[i].from = "dialog"
      /\ \E k \in 1 .. Len(asked[i].answers) : asked[i].answers[k][1] \in {"spoken", "failed"}

AnsweredThere ==
  \A i \in Requests : \A k \in 1 .. Len(asked[i].answers) :
    asked[i].answers[k][2] = asked[i].from

CaptureInv ==
  /\ CaptureTypes
  /\ OneRequest
  /\ OneToken
  /\ Deadline
  /\ AnsweredOnce
  /\ AnsweredThere
  /\ SavedTarget

-----------------------------------------------------------------------------
(* The inductive invariant: the shortcut and the nested loops.             *)

Frames == {[loop |-> "settings"]} \cup [loop : {"box"}, edit : SUBSET Chords]

SettingsIn(stack) == {k \in 1 .. Len(stack) : stack[k].loop = "settings"}

StackOK(stack, isOpen) ==
  /\ stack \in Seq(Frames)
  /\ IF isOpen THEN \E k \in 1 .. Len(stack) : SettingsIn(stack) = {k}
               ELSE SettingsIn(stack) = {}

WindowInv ==
  /\ chord \in Chords \cup {None, Bad}
  /\ registered \in BOOLEAN /\ suspended \in BOOLEAN
  /\ owner \in [Chords -> {"free", "host", "other"}]
  /\ settingsOpen \in BOOLEAN /\ alive \in BOOLEAN
  /\ quit \in {"none", "posted", "returned"} /\ (alive => quit = "none")
  /\ StackOK(ui, settingsOpen) /\ Len(ui) <= MaxDepth
  /\ ShownIsHeld

IInv == CaptureInv /\ WindowInv

-----------------------------------------------------------------------------
(* The stack of loops.                                                     *)

LEMMA BoxFrame == ASSUME NEW e \in SUBSET Chords PROVE [loop |-> "box", edit |-> e] \in Frames
BY DEF Frames

LEMMA Pushed ==
  ASSUME NEW f \in Frames, NEW stack \in Seq(Frames)
  PROVE  /\ <<f>> \o stack \in Seq(Frames)
         /\ Len(<<f>> \o stack) = Len(stack) + 1
         /\ (<<f>> \o stack)[1] = f
         /\ \A k \in 1 .. Len(stack) : (<<f>> \o stack)[k + 1] = stack[k]
         /\ \A k \in 2 .. Len(stack) + 1 : (<<f>> \o stack)[k] = stack[k - 1]
<1>1. <<f>> \in Seq(Frames) /\ Len(<<f>>) = 1 /\ <<f>>[1] = f
  OBVIOUS
<1>2. Len(stack) \in Nat
  BY LenProperties
<1> HIDE DEF Frames
<1>3. QED BY <1>1, <1>2, ConcatProperties

LEMMA Popped ==
  ASSUME NEW stack \in Seq(Frames), stack # <<>>
  PROVE  /\ Tail(stack) \in Seq(Frames) /\ Head(stack) = stack[1] /\ 1 \in 1 .. Len(stack)
         /\ Len(Tail(stack)) = Len(stack) - 1 /\ Len(stack) \in Nat \ {0}
         /\ \A k \in 1 .. Len(Tail(stack)) : Tail(stack)[k] = stack[k + 1]
<1>1. Len(stack) \in Nat \ {0}
  BY EmptySeq
<1>2. Head(stack) = stack[1]
  BY DEF Head
<1>3. QED BY <1>1, <1>2, HeadTailProperties

\* A box above the other loops opens and closes no Settings.
LEMMA PushBox ==
  ASSUME NEW stack, NEW isOpen, StackOK(stack, isOpen), NEW e \in SUBSET Chords
  PROVE  StackOK(<<[loop |-> "box", edit |-> e]>> \o stack, isOpen)
<1> DEFINE f == [loop |-> "box", edit |-> e]
           new == <<f>> \o stack
<1>1. f \in Frames /\ stack \in Seq(Frames) /\ Len(stack) \in Nat /\ f.loop = "box"
  BY BoxFrame, LenProperties DEF StackOK
<1> HIDE DEF f
<1>2. /\ new \in Seq(Frames) /\ Len(new) = Len(stack) + 1 /\ new[1] = f
      /\ \A k \in 1 .. Len(stack) : new[k + 1] = stack[k]
      /\ \A k \in 2 .. Len(stack) + 1 : new[k] = stack[k - 1]
  BY <1>1, Pushed
<1> HIDE DEF new
<1>3. SettingsIn(new) = {k + 1 : k \in SettingsIn(stack)}
  <2>1. ASSUME NEW k \in SettingsIn(new) PROVE k \in {j + 1 : j \in SettingsIn(stack)}
    <3>1. k \in 1 .. Len(stack) + 1 /\ new[k].loop = "settings" /\ k # 1
      BY <1>1, <1>2, <2>1 DEF SettingsIn
    <3>2. k - 1 \in 1 .. Len(stack) /\ new[k] = stack[k - 1] /\ k = (k - 1) + 1
      BY <1>1, <1>2, <3>1
    <3>3. k - 1 \in SettingsIn(stack)
      BY <3>1, <3>2 DEF SettingsIn
    <3>4. QED BY <3>2, <3>3
  <2>2. ASSUME NEW j \in SettingsIn(stack) PROVE j + 1 \in SettingsIn(new)
    <3>1. j \in 1 .. Len(stack) /\ stack[j].loop = "settings"
      BY DEF SettingsIn
    <3>2. j + 1 \in 1 .. Len(new) /\ new[j + 1] = stack[j]
      BY <1>1, <1>2, <3>1
    <3>3. QED BY <3>1, <3>2 DEF SettingsIn
  <2>3. QED BY <2>1, <2>2
<1>4. CASE ~isOpen
  <2>1. SettingsIn(new) = {}
    BY <1>3, <1>4 DEF StackOK
  <2>2. QED BY <1>2, <1>4, <2>1 DEF StackOK, new, f
<1>5. CASE isOpen
  <2>1. PICK k \in 1 .. Len(stack) : SettingsIn(stack) = {k}
    BY <1>5 DEF StackOK
  <2>2. SettingsIn(new) = {k + 1} /\ k + 1 \in 1 .. Len(new)
    BY <1>1, <1>2, <1>3, <2>1
  <2>3. QED BY <1>2, <1>5, <2>2 DEF StackOK, new, f
<1>6. QED BY <1>4, <1>5

LEMMA PushSettings ==
  ASSUME NEW stack, StackOK(stack, FALSE)
  PROVE  /\ StackOK(<<[loop |-> "settings"]>> \o stack, TRUE)
         /\ Len(<<[loop |-> "settings"]>> \o stack) = Len(stack) + 1
<1> DEFINE f == [loop |-> "settings"]
           new == <<f>> \o stack
<1>1. f \in Frames /\ stack \in Seq(Frames) /\ Len(stack) \in Nat /\ f.loop = "settings"
  BY LenProperties DEF StackOK, Frames
<1> HIDE DEF f
<1>2. /\ new \in Seq(Frames) /\ Len(new) = Len(stack) + 1 /\ new[1] = f
      /\ \A k \in 2 .. Len(stack) + 1 : new[k] = stack[k - 1]
  BY <1>1, Pushed
<1> HIDE DEF new
<1>3. SettingsIn(new) = {1}
  <2>1. 1 \in SettingsIn(new)
    BY <1>1, <1>2 DEF SettingsIn
  <2>2. ASSUME NEW k \in SettingsIn(new), k # 1 PROVE FALSE
    <3>1. k \in 2 .. Len(stack) + 1 /\ new[k].loop = "settings"
      BY <1>1, <1>2, <2>2 DEF SettingsIn
    <3>2. k - 1 \in 1 .. Len(stack) /\ stack[k - 1].loop = "settings"
      BY <1>1, <1>2, <3>1
    <3>3. k - 1 \in SettingsIn(stack)
      BY <3>2 DEF SettingsIn
    <3>4. QED BY <3>3 DEF StackOK
  <2>3. QED BY <2>1, <2>2
<1>4. 1 \in 1 .. Len(new)
  BY <1>1, <1>2
<1>5. QED BY <1>2, <1>3, <1>4 DEF StackOK, new, f

\* When the innermost loop returns the others are still there, and Settings is
\* open exactly if it was not the one that returned.
LEMMA PopFrame ==
  ASSUME NEW stack, NEW isOpen \in BOOLEAN, StackOK(stack, isOpen), stack # <<>>
  PROVE  /\ Head(stack).loop = "box" => StackOK(Tail(stack), isOpen)
         /\ Head(stack).loop = "settings" => isOpen /\ StackOK(Tail(stack), FALSE)
         /\ Len(Tail(stack)) < Len(stack) /\ Head(stack) \in Frames
<1> DEFINE rest == Tail(stack)
<1>1. /\ stack \in Seq(Frames) /\ rest \in Seq(Frames) /\ Head(stack) = stack[1]
      /\ Len(rest) = Len(stack) - 1 /\ Len(stack) \in Nat \ {0} /\ 1 \in 1 .. Len(stack)
      /\ \A k \in 1 .. Len(rest) : rest[k] = stack[k + 1]
  BY Popped DEF StackOK
<1> HIDE DEF rest
<1>2. \A k \in SettingsIn(rest) : k + 1 \in SettingsIn(stack)
  <2>1. SUFFICES ASSUME NEW k \in SettingsIn(rest) PROVE k + 1 \in SettingsIn(stack)
    OBVIOUS
  <2>2. k \in 1 .. Len(rest) /\ rest[k].loop = "settings"
    BY DEF SettingsIn
  <2>3. k + 1 \in 1 .. Len(stack) /\ stack[k + 1].loop = "settings"
    BY <1>1, <2>2
  <2>4. QED BY <2>3 DEF SettingsIn
<1>3. \A k \in SettingsIn(stack) : k # 1 => k - 1 \in SettingsIn(rest)
  <2>1. SUFFICES ASSUME NEW k \in SettingsIn(stack), k # 1 PROVE k - 1 \in SettingsIn(rest)
    OBVIOUS
  <2>2. k \in 2 .. Len(stack) /\ stack[k].loop = "settings"
    BY <1>1, <2>1 DEF SettingsIn
  <2>3. k - 1 \in 1 .. Len(rest) /\ (k - 1) + 1 = k
    BY <1>1, <2>2
  <2>4. rest[k - 1].loop = "settings"
    BY <1>1, <2>2, <2>3
  <2>5. QED BY <2>3, <2>4 DEF SettingsIn
<1>4. SettingsIn(rest) \subseteq 1 .. Len(rest) /\ SettingsIn(stack) \subseteq 1 .. Len(stack)
  BY DEF SettingsIn
<1>5. Head(stack).loop = "settings" => isOpen /\ StackOK(rest, FALSE)
  <2>1. SUFFICES ASSUME stack[1].loop = "settings" PROVE isOpen /\ SettingsIn(rest) = {}
    BY <1>1 DEF StackOK
  <2>2. 1 \in SettingsIn(stack)
    BY <1>1, <2>1 DEF SettingsIn
  <2>3. isOpen /\ SettingsIn(stack) = {1}
    BY <2>2 DEF StackOK
  <2>4. ASSUME NEW k \in SettingsIn(rest) PROVE FALSE
    BY <1>1, <1>2, <1>4, <2>3
  <2>5. QED BY <2>3, <2>4
<1>6. Head(stack).loop = "box" => StackOK(rest, isOpen)
  <2>1. SUFFICES ASSUME stack[1].loop = "box" PROVE StackOK(rest, isOpen)
    BY <1>1
  <2>2. 1 \notin SettingsIn(stack)
    BY <2>1 DEF SettingsIn
  <2>3. CASE ~isOpen
    BY <1>1, <1>2, <2>3 DEF StackOK
  <2>4. CASE isOpen
    <3>1. PICK k \in 1 .. Len(stack) : SettingsIn(stack) = {k}
      BY <2>4 DEF StackOK
    <3>2. k # 1 /\ k - 1 \in SettingsIn(rest)
      BY <1>3, <2>2, <3>1
    <3>3. ASSUME NEW j \in SettingsIn(rest) PROVE j = k - 1
      BY <1>1, <1>2, <1>4, <3>1
    <3>4. SettingsIn(rest) = {k - 1} /\ k - 1 \in 1 .. Len(rest)
      BY <1>4, <3>2, <3>3
    <3>5. QED BY <1>1, <2>4, <3>4 DEF StackOK
  <2>5. QED BY <2>3, <2>4
<1>7. Head(stack) \in Frames
  BY <1>1, ElementOfSeq
<1>8. Len(rest) < Len(stack)
  BY <1>1
<1>9. QED BY <1>5, <1>6, <1>7, <1>8 DEF rest

-----------------------------------------------------------------------------
(* The shortcut.                                                           *)

Owners == [Chords -> {"free", "host", "other"}]

\* What a release leaves: nothing that was not this window's is touched.
LEMMA ReleaseTypes ==
  ASSUME owner \in Owners, NEW own \in Released
  PROVE  own \in Owners /\ \A c \in Chords : own[c] = "host" => owner[c] = "host"
BY DEF Owners, Released, Unregistered

\* The registration after a release, with its box when it fails.
LEMMA RestoreKeeps ==
  ASSUME NEW off \in BOOLEAN, NEW own \in Owners, NEW new \in Chords \cup {None, Bad},
         NEW edit \in SUBSET Chords, NEW stack, NEW isOpen, StackOK(stack, isOpen),
         Len(stack) <= MaxDepth, Restore(FALSE, off, own, new, edit, stack)
  PROVE  /\ registered' \in BOOLEAN /\ owner' \in Owners
         /\ StackOK(ui', isOpen) /\ Len(ui') <= MaxDepth
         /\ chord' \in Chords \cup {None, Bad}
         /\ edit = {} => chord' = new /\ (registered' => new \in Chords /\ owner'[new] = "host")
         /\ off => owner' = own
<1> DEFINE box == Wanted(FALSE, off) /\ ShowsBox(own, new)
           got == Wanted(FALSE, off) /\ Obtains(own, new)
<1>1. /\ registered' = (FALSE \/ got)
      /\ owner' = IF got THEN [own EXCEPT ![new] = "host"] ELSE own
      /\ ui' = IF box THEN <<[loop |-> "box", edit |-> edit]>> \o stack ELSE stack
      /\ Len(ui') <= MaxDepth
      /\ chord' = IF edit # {} /\ ~box THEN CHOOSE c \in edit : TRUE ELSE new
  BY DEF Restore
<1>2. /\ got \in BOOLEAN /\ (got => new \in Chords) /\ (off => ~got)
  BY DEF Obtains, Wanted
<1> HIDE DEF box, got
<1>3. registered' \in BOOLEAN /\ (registered' => got)
  BY <1>1, <1>2
<1>4. owner' \in Owners /\ (got => owner'[new] = "host") /\ (off => owner' = own)
  BY <1>1, <1>2 DEF Owners
<1>5. StackOK(ui', isOpen)
  BY <1>1, PushBox
<1>6. chord' \in Chords \cup {None, Bad} /\ (edit = {} => chord' = new)
  BY <1>1
<1>7. QED BY <1>1, <1>2, <1>3, <1>4, <1>5, <1>6

\* A box gives the registration up, and with it the claim to be shown as on.
LEMMA BoxKeeps ==
  ASSUME WindowInv, ui # <<>>, Head(ui).loop = "box", BoxReturns
  PROVE  /\ registered' = FALSE /\ StackOK(ui', settingsOpen) /\ Len(ui') <= MaxDepth
         /\ chord' \in Chords \cup {None, Bad}
<1>1. /\ StackOK(Tail(ui), settingsOpen) /\ Len(Tail(ui)) < Len(ui) /\ Head(ui) \in Frames
      /\ Len(Tail(ui)) \in Nat /\ Len(ui) \in Nat /\ Len(ui) <= MaxDepth
  <2>1. /\ StackOK(Tail(ui), settingsOpen) /\ Len(Tail(ui)) < Len(ui) /\ Head(ui) \in Frames
    BY PopFrame DEF WindowInv
  <2>2. Tail(ui) \in Seq(Frames) /\ ui \in Seq(Frames)
    BY <2>1 DEF StackOK, WindowInv
  <2>3. QED BY <2>1, <2>2, LenProperties DEF WindowInv
<1>2. Head(ui).edit \subseteq Chords
  BY <1>1 DEF Frames
<1>3. chord' \in Chords \cup {None, Bad}
  BY <1>2 DEF BoxReturns, WindowInv
<1>4. Len(Tail(ui)) <= MaxDepth
  BY <1>1, TrayAssumption
<1>5. QED BY <1>1, <1>3, <1>4 DEF BoxReturns

\* What happens to captures does not move the shortcut or the loops.
LEMMA WindowFrame ==
  ASSUME WindowInv, UNCHANGED <<hotkeyVars, loopVars, chord>>
  PROVE  WindowInv'
BY DEF WindowInv, hotkeyVars, loopVars, StackOK, SettingsIn, ShownIsHeld

LEMMA WindowStep ==
  ASSUME WindowInv,
         \/ Toggle \/ ReloadConfig \/ \E c \in Chords : OtherApplication(c)
         \/ OpenSettings \/ CheckHotkey \/ ClearHotkey \/ CloseSettings \/ DismissBox \/ Quit
         \/ Unwind
  PROVE  WindowInv'
<1> USE TrayAssumption
<1> DEFINE Keys == Chords \cup {None, Bad}
<1>1. /\ chord \in Keys /\ owner \in Owners /\ suspended \in BOOLEAN /\ StackOK(ui, settingsOpen)
      /\ Len(ui) <= MaxDepth /\ settingsOpen \in BOOLEAN /\ quit \in {"none", "posted", "returned"}
      /\ registered \in BOOLEAN /\ alive \in BOOLEAN /\ (alive => quit = "none")
  BY DEF WindowInv, Owners
<1>2. ASSUME chord' \in Keys, owner' \in Owners, registered' \in BOOLEAN, suspended' \in BOOLEAN,
             StackOK(ui', settingsOpen'), Len(ui') <= MaxDepth, settingsOpen' \in BOOLEAN,
             alive' \in BOOLEAN, quit' \in {"none", "posted", "returned"},
             alive' => quit' = "none", ShownIsHeld'
      PROVE  WindowInv'
  BY <1>2 DEF WindowInv, Owners, StackOK, SettingsIn
<1>3. CASE Toggle
  <2>1. /\ alive /\ ~settingsOpen /\ UNCHANGED <<settingsOpen, alive, quit>>
    BY <1>3 DEF Toggle
  <2>2. CASE registered
    <3>1. /\ owner' \in Released /\ registered' = FALSE /\ suspended' = TRUE /\ UNCHANGED <<ui, chord>>
      BY <1>3, <2>2 DEF Toggle
    <3>2. owner' \in Owners
      BY <1>1, <3>1, ReleaseTypes
    <3>3. ShownIsHeld'
      BY <3>1 DEF ShownIsHeld
    <3>4. QED BY <1>1, <1>2, <2>1, <3>1, <3>2, <3>3
  <2>3. CASE ~registered
    <3>1. suspended' = FALSE /\ Restore(FALSE, FALSE, owner, chord, {}, ui)
      BY <1>3, <2>3 DEF Toggle
    <3>2. /\ registered' \in BOOLEAN /\ owner' \in Owners /\ StackOK(ui', settingsOpen)
          /\ Len(ui') <= MaxDepth /\ chord' = chord
          /\ (registered' => chord \in Chords /\ owner'[chord] = "host")
      BY <1>1, <3>1, RestoreKeeps
    <3>3. ShownIsHeld'
      BY <3>2 DEF ShownIsHeld
    <3>4. QED BY <1>1, <1>2, <2>1, <3>1, <3>2, <3>3
  <2>4. QED BY <2>2, <2>3
<1>4. CASE ReloadConfig
  <2>1. PICK new \in Keys, own \in Released : Restore(FALSE, suspended, own, new, {}, ui)
    BY <1>4 DEF ReloadConfig, Rebind
  <2>2. UNCHANGED <<suspended, settingsOpen, alive, quit>>
    BY <1>4 DEF ReloadConfig
  <2>3. own \in Owners
    BY <1>1, ReleaseTypes
  <2>4. /\ registered' \in BOOLEAN /\ owner' \in Owners /\ StackOK(ui', settingsOpen)
        /\ Len(ui') <= MaxDepth /\ chord' = new /\ chord' \in Keys
        /\ (registered' => new \in Chords /\ owner'[new] = "host")
    BY <1>1, <2>1, <2>3, RestoreKeeps
  <2>5. ShownIsHeld'
    BY <2>4 DEF ShownIsHeld
  <2>6. QED BY <1>1, <1>2, <2>2, <2>4, <2>5
<1>5. CASE \E c \in Chords : OtherApplication(c)
  <2>1. PICK c \in Chords : OtherApplication(c)
    BY <1>5
  <2>2. UNCHANGED <<ui, settingsOpen, alive, quit, chord, registered, suspended>>
    BY <2>1 DEF OtherApplication, loopVars
  <2>3. owner' \in Owners /\ \A d \in Chords : owner[d] = "host" => owner'[d] = "host"
    BY <1>1, <2>1 DEF OtherApplication, Owners
  <2>4. ShownIsHeld'
    BY <2>2, <2>3 DEF ShownIsHeld, WindowInv
  <2>5. QED BY <1>1, <1>2, <2>2, <2>3, <2>4
<1>6. CASE OpenSettings
  <2>1. /\ ~settingsOpen /\ Len(ui) < MaxDepth /\ settingsOpen' = TRUE
        /\ ui' = <<[loop |-> "settings"]>> \o ui
        /\ UNCHANGED <<registered, suspended, owner, chord, alive, quit>>
    BY <1>6 DEF OpenSettings, hotkeyVars
  <2>2. StackOK(ui', TRUE) /\ Len(ui') = Len(ui) + 1
    BY <1>1, <2>1, PushSettings
  <2>3. Len(ui) \in Nat
    BY <1>1, LenProperties DEF StackOK
  <2>4. Len(ui') <= MaxDepth
    BY <2>1, <2>2, <2>3
  <2>5. ShownIsHeld'
    BY <2>1 DEF ShownIsHeld
  <2>6. QED BY <1>1, <1>2, <2>1, <2>2, <2>4, <2>5
<1>7. CASE CheckHotkey
  <2>1. PICK new \in Chords, own \in Released :
          Restore(FALSE, suspended, own, chord, IF own[new] = "free" THEN {new} ELSE {}, ui)
    BY <1>7 DEF CheckHotkey
  <2>2. settingsOpen /\ UNCHANGED <<suspended, settingsOpen, alive, quit>>
    BY <1>7 DEF CheckHotkey
  <2>3. own \in Owners /\ (IF own[new] = "free" THEN {new} ELSE {}) \in SUBSET Chords
    BY <1>1, ReleaseTypes
  <2>4. /\ registered' \in BOOLEAN /\ owner' \in Owners /\ StackOK(ui', settingsOpen)
        /\ Len(ui') <= MaxDepth /\ chord' \in Keys
    BY <1>1, <2>1, <2>3, RestoreKeeps
  <2>5. ShownIsHeld'
    BY <2>2 DEF ShownIsHeld
  <2>6. QED BY <1>1, <1>2, <2>2, <2>4, <2>5
<1>8. CASE ClearHotkey
  <2>1. /\ settingsOpen /\ chord' = None
        /\ UNCHANGED <<registered, suspended, owner, ui, settingsOpen, alive, quit>>
    BY <1>8 DEF ClearHotkey, hotkeyVars, loopVars
  <2>2. ShownIsHeld'
    BY <2>1 DEF ShownIsHeld
  <2>3. QED BY <1>1, <1>2, <2>1, <2>2
<1>9. CASE CloseSettings
  <2>1. /\ ui # <<>> /\ Head(ui).loop = "settings" /\ settingsOpen' = FALSE
        /\ UNCHANGED <<suspended, alive, quit>>
    BY <1>9 DEF CloseSettings
  <2>2. PICK own \in Released : Restore(FALSE, suspended, own, chord, {}, Tail(ui))
    BY <1>9 DEF CloseSettings, Rebind
  <2>3. StackOK(Tail(ui), FALSE) /\ Len(Tail(ui)) < Len(ui)
    BY <1>1, <2>1, PopFrame
  <2>4. Len(Tail(ui)) <= MaxDepth
    <3>1. Len(ui) \in Nat /\ Len(Tail(ui)) \in Nat
      BY <1>1, <2>3, LenProperties DEF StackOK
    <3>2. QED BY <1>1, <2>3, <3>1
  <2>5. own \in Owners
    BY <1>1, ReleaseTypes
  <2>6. /\ registered' \in BOOLEAN /\ owner' \in Owners /\ StackOK(ui', FALSE)
        /\ Len(ui') <= MaxDepth /\ chord' = chord
        /\ (registered' => chord \in Chords /\ owner'[chord] = "host")
    BY <1>1, <2>2, <2>3, <2>4, <2>5, RestoreKeeps
  <2>7. ShownIsHeld'
    BY <2>6 DEF ShownIsHeld
  <2>8. QED BY <1>1, <1>2, <2>1, <2>6, <2>7
<1>10. CASE DismissBox
  <2>1. /\ ui # <<>> /\ Head(ui).loop = "box" /\ BoxReturns
        /\ UNCHANGED <<suspended, owner, settingsOpen, alive, quit>>
    BY <1>10 DEF DismissBox
  <2>2. /\ registered' = FALSE /\ StackOK(ui', settingsOpen) /\ Len(ui') <= MaxDepth /\ chord' \in Keys
    BY <2>1, BoxKeeps
  <2>3. ShownIsHeld'
    BY <2>2 DEF ShownIsHeld
  <2>4. QED BY <1>1, <1>2, <2>1, <2>2, <2>3
<1>11. CASE Quit
  <2>1. /\ alive' = FALSE /\ quit' = "posted" /\ registered' = FALSE
        /\ owner' = [c \in Chords |-> IF owner[c] = "host" THEN "free" ELSE owner[c]]
        /\ UNCHANGED <<suspended, chord, ui, settingsOpen>>
    BY <1>11 DEF Quit
  <2>2. owner' \in Owners
    BY <1>1, <2>1 DEF Owners
  <2>3. ShownIsHeld'
    BY <2>1 DEF ShownIsHeld
  <2>4. QED BY <1>1, <1>2, <2>1, <2>2, <2>3
<1>12. CASE Unwind
  <2>1. quit = "posted" /\ ~alive /\ UNCHANGED <<suspended, owner, alive>>
    BY <1>1, <1>12 DEF Unwind
  <2>2. ShownIsHeld'
    BY <2>1 DEF ShownIsHeld
  <2>3. CASE quit' = "returned" /\ UNCHANGED <<ui, registered, settingsOpen, chord>>
    BY <1>1, <1>2, <2>1, <2>2, <2>3
  <2>4. CASE ui # <<>> /\ Head(ui).loop = "box" /\ BoxReturns /\ UNCHANGED <<quit, settingsOpen>>
    <3>1. /\ registered' = FALSE /\ StackOK(ui', settingsOpen) /\ Len(ui') <= MaxDepth /\ chord' \in Keys
      BY <2>4, BoxKeeps
    <3>2. QED BY <1>1, <1>2, <2>1, <2>2, <2>4, <3>1
  <2>5. CASE /\ ui # <<>> /\ Head(ui).loop = "settings" /\ ui' = Tail(ui) /\ settingsOpen' = FALSE
             /\ quit' = QuitAfterSettings /\ UNCHANGED <<registered, chord>>
    <3>1. StackOK(Tail(ui), FALSE) /\ Len(Tail(ui)) < Len(ui)
      BY <1>1, <2>5, PopFrame
    <3>2. Len(ui) \in Nat /\ Len(Tail(ui)) \in Nat
      BY <1>1, <3>1, LenProperties DEF StackOK
    <3>3. Len(ui') <= MaxDepth
      BY <1>1, <2>5, <3>1, <3>2
    <3>4. QED BY <1>1, <1>2, <2>1, <2>2, <2>5, <3>1, <3>3 DEF QuitAfterSettings
  <2>6. QED BY <1>12, <2>3, <2>4, <2>5 DEF Unwind
<1>13. QED
  BY <1>3, <1>4, <1>5, <1>6, <1>7, <1>8, <1>9, <1>10, <1>11, <1>12

-----------------------------------------------------------------------------
(* Captures.                                                               *)

LEMMA RequestFound ==
  ASSUME OneRequest, NEW g \in 1 .. generation
  PROVE  RequestOf(g) \in Requests /\ asked[RequestOf(g)].gen = g
BY DEF OneRequest, RequestOf

\* One more read: the earlier ones stay as they are.
LEMMA AskedOneMore ==
  ASSUME CaptureTypes, NEW new \in Reads, asked' = Append(asked, new), Len(asked) < MaxRequests
  PROVE  /\ asked' \in Seq(Reads) /\ Len(asked') = Len(asked) + 1 /\ Len(asked') <= MaxRequests
         /\ Len(asked) \in Nat
         /\ \A i \in 1 .. Len(asked) : asked'[i] = asked[i]
         /\ asked'[Len(asked) + 1] = new
         /\ 1 .. Len(asked') = (1 .. Len(asked)) \cup {Len(asked) + 1}
<1>1. asked \in Seq(Reads) /\ Len(asked) \in Nat
  BY LenProperties DEF CaptureTypes
<1> HIDE DEF Reads
<1>2. asked' \in Seq(Reads) /\ Len(asked') = Len(asked) + 1
  BY <1>1
<1>3. (\A i \in 1 .. Len(asked) : asked'[i] = asked[i]) /\ asked'[Len(asked) + 1] = new
  BY <1>1
<1>4. Len(asked') <= MaxRequests
  BY <1>1, <1>2, TrayAssumption
<1>5. 1 .. Len(asked') = (1 .. Len(asked)) \cup {Len(asked) + 1}
  BY <1>1, <1>2
<1>6. QED BY <1>1, <1>2, <1>3, <1>4, <1>5

\* One more answer to a read that has none.
LEMMA AnsweredFirst ==
  ASSUME CaptureTypes, NEW r \in Requests, NEW what \in Answers, NEW to \in Origins,
         Answer(r, what, to), asked[r].answers = <<>>
  PROVE  /\ asked' \in Seq(Reads) /\ Len(asked') = Len(asked)
         /\ \A i \in Requests : /\ asked'[i].gen = asked[i].gen /\ asked'[i].from = asked[i].from
                                /\ i # r => asked'[i] = asked[i]
         /\ Len(asked'[r].answers) = 1 /\ asked'[r].answers[1] = <<what, to>>
<1>1. asked \in Seq(Reads) /\ asked[r] \in Reads
  BY ElementOfSeq DEF CaptureTypes, Requests
<1> DEFINE one == Append(asked[r].answers, <<what, to>>)
           new == [asked[r] EXCEPT !.answers = one]
<1>2. one \in Seq(Answers \X Origins) /\ Len(one) = 1 /\ one[1] = <<what, to>>
  OBVIOUS
<1> HIDE DEF one
<1>3. new \in Reads /\ new.gen = asked[r].gen /\ new.from = asked[r].from /\ new.answers = one
  BY <1>1, <1>2 DEF Reads
<1>4. asked' = [asked EXCEPT ![r] = new]
  BY DEF Answer, one
<1> HIDE DEF new
<1>5. /\ asked' \in Seq(Reads) /\ Len(asked') = Len(asked)
      /\ \A i \in 1 .. Len(asked) : asked'[i] = IF i = r THEN new ELSE asked[i]
  BY <1>1, <1>3, <1>4, ExceptSeq DEF Requests
<1>6. QED BY <1>2, <1>3, <1>5 DEF Requests

LEMMA CaptureFrame ==
  ASSUME CaptureInv, UNCHANGED captureVars, UNCHANGED alive
  PROVE  CaptureInv'
BY DEF captureVars, CaptureInv, CaptureTypes, OneRequest, OneToken, Belongs, Deadline, AnsweredOnce,
  AnsweredThere, SavedTarget, Requests

\* A read that is answered at once, or refused because a worker is stuck, leaves
\* the capture under way alone.
LEMMA AnsweredAtOnce ==
  ASSUME CaptureInv, UNCHANGED alive, Len(asked) < MaxRequests, NEW from \in Origins,
         SpeakClipboard(from) \/ Refuse(from)
  PROVE  CaptureInv'
<1> USE DEF CaptureInv
<1>1. PICK what \in {"clipboard", "busy"} :
        asked' = Append(asked, [from |-> from, gen |-> 0, answers |-> <<<<what, from>>>>])
  BY DEF SpeakClipboard, Refuse
<1>2. UNCHANGED <<generation, timedOut, fromNow, timer, saved, busy, workers, posted, alive>>
  BY DEF SpeakClipboard, Refuse
<1> DEFINE one == <<<<what, from>>>>
           new == [from |-> from, gen |-> 0, answers |-> one]
<1>3. one \in Seq(Answers \X Origins) /\ Len(one) = 1 /\ one[1] = <<what, from>>
  BY DEF Answers
<1> HIDE DEF one
<1>4. new \in Reads /\ new.gen = 0 /\ new.from = from /\ new.answers = one
  BY <1>3, TrayAssumption DEF Reads
<1>5. asked' = Append(asked, new)
  BY <1>1 DEF one
<1> HIDE DEF new
<1>6. /\ asked' \in Seq(Reads) /\ Len(asked') = Len(asked) + 1 /\ Len(asked') <= MaxRequests
      /\ Len(asked) \in Nat
      /\ \A i \in 1 .. Len(asked) : asked'[i] = asked[i]
      /\ asked'[Len(asked) + 1] = new
      /\ 1 .. Len(asked') = (1 .. Len(asked)) \cup {Len(asked) + 1}
  BY <1>4, <1>5, AskedOneMore
<1>7. CaptureTypes'
  BY <1>2, <1>6 DEF CaptureTypes
<1>8. generation \in Nat /\ saved \in Nat
  BY DEF CaptureTypes
<1>9. OneRequest'
  <2>1. \A i \in 1 .. Len(asked') : i \in 1 .. Len(asked) \/ asked'[i].gen = 0
    BY <1>4, <1>6
  <2>2. \A i \in 1 .. Len(asked') : asked'[i].gen <= generation
    BY <1>6, <1>8, <2>1 DEF OneRequest, Requests
  <2>3. \A i, j \in 1 .. Len(asked') : asked'[i].gen = asked'[j].gen /\ asked'[i].gen # 0 => i = j
    BY <1>6, <2>1 DEF OneRequest, Requests
  <2>4. \A g \in 1 .. generation : \E i \in 1 .. Len(asked') : asked'[i].gen = g
    BY <1>6 DEF OneRequest, Requests
  <2>5. QED BY <1>2, <2>2, <2>3, <2>4 DEF OneRequest, Requests
<1>10. \A t : t.gen # 0 => (Belongs(t) => Belongs(t)')
  BY <1>2, <1>4, <1>6 DEF Belongs, Requests
<1>11. OneToken'
  <2>1. \A w \in workers : w.gen # 0
    BY DEF CaptureTypes, Tokens
  <2>2. \A k \in 1 .. Len(posted) : posted[k].gen # 0
    <3>1. SUFFICES ASSUME NEW k \in 1 .. Len(posted) PROVE posted[k].gen # 0
      OBVIOUS
    <3>2. posted[k] \in Completions
      BY ElementOfSeq DEF CaptureTypes
    <3>3. QED BY <3>2 DEF Completions
  <2>3. QED BY <1>2, <1>10, <2>1, <2>2 DEF OneToken, Belongs
<1>12. Deadline'
  BY <1>2, <1>4, <1>6, <1>8 DEF Deadline, Requests
<1>13. AnsweredOnce' /\ AnsweredThere'
  <2>1. \A i \in 1 .. Len(asked') :
          /\ Len(asked'[i].answers) <= 1
          /\ \A k \in 1 .. Len(asked'[i].answers) : asked'[i].answers[k][2] = asked'[i].from
    <3>1. SUFFICES ASSUME NEW i \in 1 .. Len(asked')
                   PROVE  /\ Len(asked'[i].answers) <= 1
                          /\ \A k \in 1 .. Len(asked'[i].answers) :
                               asked'[i].answers[k][2] = asked'[i].from
      OBVIOUS
    <3>2. CASE i \in 1 .. Len(asked)
      BY <1>6, <3>2 DEF AnsweredOnce, AnsweredThere, Requests
    <3>3. CASE i = Len(asked) + 1
      <4>1. asked'[i].answers = one /\ asked'[i].from = from
        BY <1>4, <1>6, <3>3
      <4>2. \A k \in 1 .. 1 : one[k][2] = from
        BY <1>3
      <4>3. QED BY <1>3, <4>1, <4>2
    <3>4. QED BY <1>6, <3>2, <3>3
  <2>2. QED BY <2>1 DEF AnsweredOnce, AnsweredThere, Requests
<1>14. SavedTarget'
  BY <1>2, <1>4, <1>6, <1>8 DEF SavedTarget, Requests
<1>15. QED BY <1>7, <1>9, <1>11, <1>12, <1>13, <1>14

LEMMA BeginKeeps ==
  ASSUME CaptureInv, alive, UNCHANGED alive, Len(asked) < MaxRequests, NEW from \in Origins, Begin(from)
  PROVE  CaptureInv'
<1> USE DEF CaptureInv
<1> DEFINE g == generation + 1
           w0 == [gen |-> g, from |-> from, at |-> "capturing"]
           new == [from |-> from, gen |-> g, answers |-> <<>>]
<1>1. /\ asked' = Append(asked, new) /\ generation' = g /\ timedOut' = FALSE /\ fromNow' = from
      /\ timer' = TRUE /\ busy' = TRUE /\ workers' = workers \cup {w0} /\ UNCHANGED <<saved, posted>>
  BY DEF Begin
<1>2. generation \in Nat /\ generation <= Len(asked) /\ Len(asked) \in Nat /\ saved \in Nat
  BY LenProperties DEF CaptureTypes
<1>3. g \in 1 .. MaxRequests /\ g \in Nat /\ g > generation
  BY <1>2, TrayAssumption
<1>4. w0 \in Tokens /\ w0.gen = g /\ w0.from = from
  BY <1>3 DEF Tokens
<1>5. new \in Reads /\ new.gen = g /\ new.from = from /\ new.answers = <<>>
  BY <1>3 DEF Reads
<1> HIDE DEF w0, new
<1>6. /\ asked' \in Seq(Reads) /\ Len(asked') = Len(asked) + 1 /\ Len(asked') <= MaxRequests
      /\ \A i \in 1 .. Len(asked) : asked'[i] = asked[i]
      /\ asked'[Len(asked) + 1] = new
      /\ 1 .. Len(asked') = (1 .. Len(asked)) \cup {Len(asked) + 1}
  BY <1>1, <1>5, AskedOneMore
<1>7. CaptureTypes'
  <2>1. generation' \in Nat /\ generation' <= Len(asked') /\ saved' \in 0 .. generation'
    BY <1>1, <1>2, <1>6 DEF CaptureTypes
  <2>2. workers' \subseteq Tokens
    BY <1>1, <1>4 DEF CaptureTypes
  <2>3. QED BY <1>1, <1>6, <2>1, <2>2 DEF CaptureTypes
<1>8. \A i \in 1 .. Len(asked') :
        \/ i \in 1 .. Len(asked) /\ asked'[i] = asked[i] /\ asked[i].gen <= generation
             /\ asked[i].gen # g /\ asked[i].gen \in Nat
        \/ i = Len(asked) + 1 /\ asked'[i] = new
  <2>1. \A i \in 1 .. Len(asked) : asked[i] \in Reads
    BY ElementOfSeq DEF CaptureTypes
  <2>2. \A i \in 1 .. Len(asked) : asked[i].gen \in Nat
    BY <2>1 DEF Reads
  <2>3. \A i \in 1 .. Len(asked) : asked[i].gen <= generation
    BY DEF OneRequest, Requests
  <2>4. QED BY <1>2, <1>3, <1>6, <2>2, <2>3
<1>9. OneRequest'
  <2>1. \A i \in 1 .. Len(asked') : asked'[i].gen <= g
    BY <1>2, <1>3, <1>5, <1>8
  <2>2. \A i, j \in 1 .. Len(asked') : asked'[i].gen = asked'[j].gen /\ asked'[i].gen # 0 => i = j
    BY <1>5, <1>8 DEF OneRequest, Requests
  <2>3. \A h \in 1 .. g : \E i \in 1 .. Len(asked') : asked'[i].gen = h
    <3>1. SUFFICES ASSUME NEW h \in 1 .. g PROVE \E i \in 1 .. Len(asked') : asked'[i].gen = h
      OBVIOUS
    <3>2. CASE h = g
      BY <1>5, <1>6, <3>2
    <3>3. CASE h # g
      <4>1. h \in 1 .. generation
        BY <1>2, <3>3
      <4>2. PICK i \in 1 .. Len(asked) : asked[i].gen = h
        BY <4>1 DEF OneRequest, Requests
      <4>3. QED BY <1>6, <4>2
    <3>4. QED BY <3>2, <3>3
  <2>4. QED BY <1>1, <2>1, <2>2, <2>3 DEF OneRequest, Requests
<1> DEFINE Fits(t) == /\ t.gen <= g
                      /\ \A i \in 1 .. Len(asked') : asked'[i].gen = t.gen => asked'[i].from = t.from
<1>10. ASSUME NEW t, t.gen \in Nat, Belongs(t)
       PROVE  Fits(t) /\ t.gen # g
  BY <1>1, <1>2, <1>3, <1>5, <1>8, <1>10 DEF Belongs, Requests
<1>11. (\A w \in workers : w.gen \in Nat) /\ (\A k \in 1 .. Len(posted) : posted[k].gen \in Nat)
  <2>1. \A k \in 1 .. Len(posted) : posted[k] \in Completions
    BY ElementOfSeq DEF CaptureTypes
  <2>2. QED BY <2>1 DEF CaptureTypes, Tokens, Completions
<1>12. Fits(w0)
  BY <1>1, <1>3, <1>4, <1>5, <1>8
<1>13. OneToken'
  <2>1. \A w \in workers : Fits(w) /\ w.gen # g
    BY <1>10, <1>11 DEF OneToken
  <2>2. \A k \in 1 .. Len(posted) : Fits(posted[k]) /\ posted[k].gen # g
    BY <1>10, <1>11 DEF OneToken
  <2>3. \A w \in workers' : Fits(w)
    BY <1>1, <1>12, <2>1
  <2>4. \A v, w \in workers' : v.gen = w.gen => v = w
    BY <1>1, <1>4, <2>1 DEF OneToken
  <2>5. \A w \in workers' : \A k \in 1 .. Len(posted) : w.gen # posted[k].gen
    BY <1>1, <1>4, <2>2 DEF OneToken
  <2>6. QED BY <1>1, <2>2, <2>3, <2>4, <2>5 DEF OneToken, Belongs, Requests
<1>14. Deadline'
  BY <1>1, <1>2, <1>3, <1>5, <1>8 DEF Deadline, Requests
<1>15. AnsweredOnce' /\ AnsweredThere'
  <2>1. \A i \in 1 .. Len(asked') :
          asked'[i].answers = <<>> \/ (i \in 1 .. Len(asked) /\ asked'[i] = asked[i])
    <3>1. SUFFICES ASSUME NEW i \in 1 .. Len(asked')
                   PROVE  asked'[i].answers = <<>> \/ (i \in 1 .. Len(asked) /\ asked'[i] = asked[i])
      OBVIOUS
    <3>2. CASE i \in 1 .. Len(asked)
      BY <1>6, <3>2
    <3>3. CASE i = Len(asked) + 1
      <4>1. asked'[i] = new
        BY <1>6, <3>3
      <4>2. QED BY <1>5, <4>1
    <3>4. QED BY <1>6, <3>2, <3>3
  <2>2. \A i \in 1 .. Len(asked') :
          /\ Len(asked'[i].answers) <= 1
          /\ \A k \in 1 .. Len(asked'[i].answers) : asked'[i].answers[k][2] = asked'[i].from
    <3>1. SUFFICES ASSUME NEW i \in 1 .. Len(asked')
                   PROVE  /\ Len(asked'[i].answers) <= 1
                          /\ \A k \in 1 .. Len(asked'[i].answers) :
                               asked'[i].answers[k][2] = asked'[i].from
      OBVIOUS
    <3>2. CASE asked'[i].answers = <<>>
      BY <3>2
    <3>3. CASE i \in 1 .. Len(asked) /\ asked'[i] = asked[i]
      BY <3>3 DEF AnsweredOnce, AnsweredThere, Requests
    <3>4. QED BY <2>1, <3>2, <3>3
  <2>3. QED BY <2>2 DEF AnsweredOnce, AnsweredThere, Requests
<1>16. SavedTarget'
  <2>1. saved # g
    BY <1>2, <1>3 DEF CaptureTypes
  <2>2. QED BY <1>1, <1>5, <1>8, <2>1 DEF SavedTarget, Requests
<1>17. QED BY <1>7, <1>9, <1>13, <1>14, <1>15, <1>16

LEMMA CapturedKeeps ==
  ASSUME CaptureInv, NEW w \in workers, Captured(w)
  PROVE  CaptureInv'
<1> USE DEF CaptureInv
<1> DEFINE v0 == [w EXCEPT !.at = "posting"]
<1>1. /\ workers' = (workers \ {w}) \cup {v0} /\ busy' = FALSE
      /\ UNCHANGED <<asked, generation, timedOut, fromNow, timer, saved, posted, alive>>
  BY DEF Captured, loopVars
<1>2. w \in Tokens
  BY DEF CaptureTypes
<1>3. v0 \in Tokens /\ v0.gen = w.gen /\ v0.from = w.from
  BY <1>2 DEF Tokens
<1> HIDE DEF v0
<1>4. CaptureTypes' /\ OneRequest'
  BY <1>1, <1>3 DEF CaptureTypes, OneRequest, Requests
<1>5. OneToken' /\ Deadline'
  BY <1>1, <1>3 DEF OneToken, Deadline, Belongs, Requests
<1>6. AnsweredOnce' /\ AnsweredThere' /\ SavedTarget'
  BY <1>1 DEF AnsweredOnce, AnsweredThere, SavedTarget, Requests
<1>7. QED BY <1>4, <1>5, <1>6

LEMMA PostKeeps ==
  ASSUME CaptureInv, NEW w \in workers, Post(w)
  PROVE  CaptureInv'
<1> USE DEF CaptureInv
<1> DEFINE c0 == [gen |-> w.gen, from |-> w.from]
<1>1. /\ workers' = workers \ {w}
      /\ posted' = IF alive THEN Append(posted, c0) ELSE posted
      /\ UNCHANGED <<asked, generation, timedOut, fromNow, timer, saved, busy, alive>>
  BY DEF Post, loopVars
<1>2. w \in Tokens /\ posted \in Seq(Completions) /\ Len(posted) \in Nat
  BY LenProperties DEF CaptureTypes
<1>3. c0 \in Completions /\ c0.gen = w.gen /\ c0.from = w.from
  BY <1>2 DEF Tokens, Completions
<1> HIDE DEF c0
<1>4. /\ posted' \in Seq(Completions)
      /\ \A k \in 1 .. Len(posted') : \/ k \in 1 .. Len(posted) /\ posted'[k] = posted[k]
                                      \/ k = Len(posted) + 1 /\ posted'[k] = c0
  <2>1. CASE ~alive
    BY <1>1, <1>2, <2>1
  <2>2. CASE alive
    <3>1. posted' = Append(posted, c0)
      BY <1>1, <2>2
    <3> HIDE DEF Completions
    <3>2. /\ posted' \in Seq(Completions) /\ Len(posted') = Len(posted) + 1
          /\ \A k \in 1 .. Len(posted) : posted'[k] = posted[k]
          /\ posted'[Len(posted) + 1] = c0
      BY <1>2, <1>3, <3>1
    <3>3. QED BY <1>2, <3>2
  <2>3. QED BY <2>1, <2>2
<1>5. CaptureTypes' /\ OneRequest'
  BY <1>1, <1>4 DEF CaptureTypes, OneRequest, Requests
<1>6. OneToken'
  <2>1. \A v \in workers' : v \in workers /\ v # w
    BY <1>1
  <2>2. (\A v \in workers' : Belongs(v)) /\ \A k \in 1 .. Len(posted') : Belongs(posted'[k])
    BY <1>3, <1>4, <2>1 DEF OneToken, Belongs
  <2>3. \A j, k \in 1 .. Len(posted') : posted'[j].gen = posted'[k].gen => j = k
    BY <1>3, <1>4 DEF OneToken
  <2>4. \A v \in workers' : \A k \in 1 .. Len(posted') : v.gen # posted'[k].gen
    BY <1>3, <1>4, <2>1 DEF OneToken
  <2>5. QED BY <1>1, <2>1, <2>2, <2>3, <2>4 DEF OneToken, Belongs, Requests
<1>7. Deadline'
  BY <1>1, <1>3, <1>4 DEF Deadline, Requests
<1>8. AnsweredOnce' /\ AnsweredThere' /\ SavedTarget'
  BY <1>1 DEF AnsweredOnce, AnsweredThere, SavedTarget, Requests
<1>9. QED BY <1>5, <1>6, <1>7, <1>8

\* What one answer does to the reads, whoever gives it.
LEMMA AnswerKeeps ==
  ASSUME CaptureInv, NEW r \in Requests, NEW what \in Answers, Answer(r, what, asked[r].from),
         asked[r].answers = <<>>, UNCHANGED generation
  PROVE  /\ asked' \in Seq(Reads) /\ Len(asked') = Len(asked)
         /\ \A i \in Requests : /\ asked'[i].gen = asked[i].gen /\ asked'[i].from = asked[i].from
                                /\ i # r => asked'[i] = asked[i]
         /\ Len(asked'[r].answers) = 1 /\ asked'[r].answers[1] = <<what, asked[r].from>>
         /\ OneRequest' /\ AnsweredOnce' /\ AnsweredThere'
<1> USE DEF CaptureInv
<1>1. asked[r].from \in Origins
  <2>1. asked[r] \in Reads
    BY ElementOfSeq DEF CaptureTypes, Requests
  <2>2. QED BY <2>1 DEF Reads
<1>2. /\ asked' \in Seq(Reads) /\ Len(asked') = Len(asked)
      /\ \A i \in Requests : /\ asked'[i].gen = asked[i].gen /\ asked'[i].from = asked[i].from
                             /\ i # r => asked'[i] = asked[i]
      /\ Len(asked'[r].answers) = 1 /\ asked'[r].answers[1] = <<what, asked[r].from>>
  BY <1>1, AnsweredFirst
<1>3. OneRequest'
  BY <1>2 DEF OneRequest, Requests
<1>4. \A i \in 1 .. Len(asked') :
        /\ Len(asked'[i].answers) <= 1
        /\ \A k \in 1 .. Len(asked'[i].answers) : asked'[i].answers[k][2] = asked'[i].from
  <2>1. SUFFICES ASSUME NEW i \in 1 .. Len(asked')
                 PROVE  /\ Len(asked'[i].answers) <= 1
                        /\ \A k \in 1 .. Len(asked'[i].answers) :
                             asked'[i].answers[k][2] = asked'[i].from
    OBVIOUS
  <2>2. CASE i = r
    <3>1. Len(asked'[r].answers) = 1 /\ asked'[r].answers[1][2] = asked'[r].from
      BY <1>2
    <3>2. \A k \in 1 .. 1 : k = 1
      OBVIOUS
    <3>3. QED BY <2>2, <3>1, <3>2
  <2>3. CASE i # r
    BY <1>2, <2>3 DEF AnsweredOnce, AnsweredThere, Requests
  <2>4. QED BY <2>2, <2>3
<1>5. AnsweredOnce' /\ AnsweredThere'
  BY <1>4 DEF AnsweredOnce, AnsweredThere, Requests
<1>6. QED BY <1>2, <1>3, <1>5

LEMMA CompleteKeeps ==
  ASSUME CaptureInv, Complete
  PROVE  CaptureInv'
<1> USE DEF CaptureInv
<1> DEFINE c0 == Head(posted)
<1>1. /\ alive /\ posted # <<>> /\ posted' = Tail(posted)
      /\ UNCHANGED <<generation, timedOut, fromNow, busy, workers, alive>>
  BY DEF Complete, loopVars
<1>2. posted \in Seq(Completions) /\ Len(posted) \in Nat /\ generation \in Nat
  BY LenProperties DEF CaptureTypes
<1>3. /\ c0 = posted[1] /\ 1 \in 1 .. Len(posted) /\ c0 \in Completions
      /\ posted' \in Seq(Completions) /\ Len(posted') = Len(posted) - 1
      /\ \A k \in 1 .. Len(posted') : k + 1 \in 2 .. Len(posted) /\ posted'[k] = posted[k + 1]
  <2>1. Len(posted) \in Nat \ {0}
    BY <1>1, <1>2, EmptySeq
  <2>2. c0 = posted[1]
    BY DEF Head
  <2>3. /\ c0 \in Completions /\ posted' \in Seq(Completions) /\ Len(posted') = Len(posted) - 1
        /\ \A k \in 1 .. Len(posted') : posted'[k] = posted[k + 1]
    BY <1>1, <1>2, HeadTailProperties
  <2>4. QED BY <2>1, <2>2, <2>3
<1> HIDE DEF c0
<1>4. /\ \A k \in 1 .. Len(posted') : posted'[k].gen # c0.gen
      /\ \A j, k \in 1 .. Len(posted') : posted'[j].gen = posted'[k].gen => j = k
  <2>1. \A j, k \in 1 .. Len(posted) : posted[j].gen = posted[k].gen => j = k
    BY DEF OneToken
  <2>2. ASSUME NEW k \in 1 .. Len(posted') PROVE posted'[k].gen # c0.gen
    <3>1. k + 1 \in 1 .. Len(posted) /\ k + 1 # 1 /\ posted'[k] = posted[k + 1]
      BY <1>2, <1>3
    <3>2. QED BY <1>3, <2>1, <3>1
  <2>3. ASSUME NEW j \in 1 .. Len(posted'), NEW k \in 1 .. Len(posted'), posted'[j].gen = posted'[k].gen
        PROVE  j = k
    <3>1. /\ j + 1 \in 1 .. Len(posted) /\ posted'[j] = posted[j + 1]
          /\ k + 1 \in 1 .. Len(posted) /\ posted'[k] = posted[k + 1]
      BY <1>2, <1>3
    <3>2. j + 1 = k + 1
      BY <2>1, <2>3, <3>1
    <3>3. QED BY <3>2
  <2>4. QED BY <2>2, <2>3
<1>5. CASE Stale(c0)
  <2>1. UNCHANGED <<asked, timer, saved>>
    BY <1>5 DEF Complete, c0
  <2>2. CaptureTypes' /\ OneRequest'
    BY <1>1, <1>3, <2>1 DEF CaptureTypes, OneRequest, Requests
  <2>3. OneToken'
    BY <1>1, <1>2, <1>3, <1>4, <2>1 DEF OneToken, Belongs, Requests
  <2>4. Deadline'
    BY <1>1, <1>2, <1>3, <2>1 DEF Deadline, Requests
  <2>5. AnsweredOnce' /\ AnsweredThere' /\ SavedTarget'
    BY <2>1 DEF AnsweredOnce, AnsweredThere, SavedTarget, Requests
  <2>6. QED BY <2>2, <2>3, <2>4, <2>5
<1>6. CASE ~Stale(c0)
  <2>1. c0.gen = generation /\ ~timedOut
    BY <1>6 DEF Stale
  <2> DEFINE r == RequestOf(c0.gen)
  <2>2. PICK identified \in BOOLEAN, what \in {"spoken", "failed"} :
          /\ timer' = FALSE /\ saved' = SavedAfter(c0, identified) /\ Answer(r, what, c0.from)
    BY <1>6 DEF Complete, c0
  <2>3. generation \in 1 .. generation
    BY <1>2, <1>3, <2>1 DEF Completions
  <2>4. r \in Requests /\ asked[r].gen = generation
    BY <2>1, <2>3, RequestFound
  <2> HIDE DEF r
  <2>5. timer
    BY <1>1, <1>3, <2>1 DEF Deadline
  <2>6. asked[r].from = c0.from /\ asked[r].answers = <<>>
    BY <1>3, <2>1, <2>3, <2>4, <2>5 DEF OneToken, Belongs, Deadline, Requests
  <2>7. /\ asked' \in Seq(Reads) /\ Len(asked') = Len(asked)
        /\ \A i \in Requests : /\ asked'[i].gen = asked[i].gen /\ asked'[i].from = asked[i].from
                               /\ i # r => asked'[i] = asked[i]
        /\ Len(asked'[r].answers) = 1 /\ asked'[r].answers[1] = <<what, c0.from>>
        /\ OneRequest' /\ AnsweredOnce' /\ AnsweredThere'
    BY <1>1, <2>2, <2>4, <2>6, AnswerKeeps DEF Answers
  <2>8. saved' \in {saved, generation} /\ (saved' # saved => c0.from = "dialog")
    BY <2>1, <2>2 DEF SavedAfter
  <2>9. CaptureTypes'
    <3>1. saved' \in 0 .. generation' /\ generation' \in Nat /\ generation' <= Len(asked')
      BY <1>1, <1>2, <2>7, <2>8 DEF CaptureTypes
    <3>2. timer' \in BOOLEAN /\ Len(asked') <= MaxRequests
      BY <2>2, <2>7 DEF CaptureTypes
    <3>3. QED BY <1>1, <1>3, <2>7, <3>1, <3>2 DEF CaptureTypes
  <2>10. OneToken'
    <3>1. \A t : Belongs(t) => /\ t.gen <= generation
                              /\ \A i \in 1 .. Len(asked') : asked'[i].gen = t.gen => asked'[i].from = t.from
      BY <2>7 DEF Belongs, Requests
    <3>2. QED BY <1>1, <1>2, <1>3, <1>4, <3>1 DEF OneToken, Belongs, Requests
  <2>11. Deadline'
    <3>1. \A w \in workers : w.gen # generation
      BY <1>3, <2>1 DEF OneToken
    <3>2. \A k \in 1 .. Len(posted') : posted'[k].gen # generation
      BY <1>4, <2>1
    <3>3. QED BY <1>1, <2>2, <2>7, <3>1, <3>2 DEF Deadline, Requests
  <2>12. SavedTarget'
    <3>1. SUFFICES ASSUME saved' # 0, NEW i \in Requests, asked'[i].gen = saved'
                   PROVE  /\ asked'[i].from = "dialog"
                          /\ \E k \in 1 .. Len(asked'[i].answers) :
                               asked'[i].answers[k][1] \in {"spoken", "failed"}
      BY <2>7 DEF SavedTarget, Requests
    <3>2. asked[i].gen = saved'
      BY <2>7, <3>1
    <3>3. CASE i = r
      <4>1. /\ 1 \in 1 .. Len(asked'[r].answers)
            /\ asked'[r].answers[1][1] \in {"spoken", "failed"}
        BY <2>2, <2>7
      <4>2. asked[r].from = "dialog"
        <5>1. CASE saved' = saved
          BY <3>1, <3>2, <3>3, <5>1 DEF SavedTarget
        <5>2. CASE saved' # saved
          BY <2>6, <2>8, <5>2
        <5>3. QED BY <5>1, <5>2
      <4>3. QED BY <2>4, <2>7, <3>3, <4>1, <4>2
    <3>4. CASE i # r
      <4>1. saved' # generation
        BY <2>3, <2>4, <3>2, <3>4 DEF OneRequest, Requests
      <4>2. saved' = saved /\ asked'[i] = asked[i]
        BY <2>7, <2>8, <3>4, <4>1
      <4>3. QED BY <3>1, <3>2, <4>2 DEF SavedTarget
    <3>5. QED BY <3>3, <3>4
  <2>13. QED BY <2>7, <2>9, <2>10, <2>11, <2>12
<1>7. QED BY <1>5, <1>6

LEMMA ExpireKeeps ==
  ASSUME CaptureInv, Expire
  PROVE  CaptureInv'
<1> USE DEF CaptureInv
<1> DEFINE r == RequestOf(generation)
<1>1. /\ alive /\ timer /\ timer' = FALSE /\ timedOut' = TRUE /\ Answer(r, "timeout", fromNow)
      /\ UNCHANGED <<generation, fromNow, saved, busy, workers, posted, alive>>
  BY DEF Expire, loopVars
<1>2. generation \in 1 .. generation
  BY <1>1 DEF Deadline, CaptureTypes
<1>3. r \in Requests /\ asked[r].gen = generation
  BY <1>2, RequestFound
<1> HIDE DEF r
<1>4. asked[r].from = fromNow /\ asked[r].answers = <<>>
  BY <1>1, <1>2, <1>3 DEF Deadline
<1>5. /\ asked' \in Seq(Reads) /\ Len(asked') = Len(asked)
      /\ \A i \in Requests : /\ asked'[i].gen = asked[i].gen /\ asked'[i].from = asked[i].from
                             /\ i # r => asked'[i] = asked[i]
      /\ OneRequest' /\ AnsweredOnce' /\ AnsweredThere'
  BY <1>1, <1>3, <1>4, AnswerKeeps DEF Answers
<1>6. CaptureTypes'
  BY <1>1, <1>5 DEF CaptureTypes
<1>7. OneToken'
  BY <1>1, <1>5 DEF OneToken, Belongs, Requests
<1>8. Deadline'
  BY <1>1, <1>5 DEF Deadline, Requests
<1>9. SavedTarget'
  <2>1. SUFFICES ASSUME saved # 0, NEW i \in Requests, asked[i].gen = saved
                 PROVE  /\ asked'[i].from = "dialog"
                        /\ \E k \in 1 .. Len(asked'[i].answers) :
                             asked'[i].answers[k][1] \in {"spoken", "failed"}
    BY <1>1, <1>5 DEF SavedTarget, Requests
  <2>2. \E k \in 1 .. Len(asked[i].answers) : asked[i].answers[k][1] \in {"spoken", "failed"}
    BY <2>1 DEF SavedTarget
  <2>3. i # r
    BY <1>4, <2>2
  <2>4. QED BY <1>5, <2>1, <2>3 DEF SavedTarget
<1>10. QED BY <1>5, <1>6, <1>7, <1>8, <1>9

LEMMA QuitKeeps ==
  ASSUME CaptureInv, Quit
  PROVE  CaptureInv'
<1> USE DEF CaptureInv
<1>1. /\ ~alive' /\ timer' = FALSE /\ posted' = <<>>
      /\ UNCHANGED <<asked, generation, timedOut, fromNow, saved, busy, workers>>
  BY DEF Quit
<1>2. posted' \in Seq(Completions) /\ Len(posted') = 0
  BY <1>1
<1>3. CaptureTypes' /\ OneRequest'
  BY <1>1, <1>2 DEF CaptureTypes, OneRequest, Requests
<1>4. OneToken' /\ Deadline'
  BY <1>1, <1>2 DEF OneToken, Deadline, Belongs, Requests
<1>5. AnsweredOnce' /\ AnsweredThere' /\ SavedTarget'
  BY <1>1 DEF AnsweredOnce, AnsweredThere, SavedTarget, Requests
<1>6. QED BY <1>3, <1>4, <1>5


-----------------------------------------------------------------------------
(* The invariant holds.                                                    *)

LEMMA IInvInit == ASSUME Init PROVE IInv
<1> USE TrayAssumption
<1>1. CaptureTypes
  <2>1. asked \in Seq(Reads) /\ Len(asked) = 0 /\ posted \in Seq(Completions)
    BY DEF Init
  <2>2. generation = 0 /\ saved = 0 /\ workers = {}
    BY DEF Init
  <2>3. timedOut \in BOOLEAN /\ fromNow \in Origins /\ timer \in BOOLEAN /\ busy \in BOOLEAN
    BY DEF Init, Origins
  <2>4. QED BY <2>1, <2>2, <2>3 DEF CaptureTypes
<1>2. OneRequest /\ OneToken /\ Deadline
  BY DEF Init, OneRequest, OneToken, Deadline, Requests
<1>3. AnsweredOnce /\ AnsweredThere /\ SavedTarget
  BY DEF Init, AnsweredOnce, AnsweredThere, SavedTarget, Requests
<1>4. PICK others \in SUBSET Chords :
        LET own == [c \in Chords |-> IF c \in others THEN "other" ELSE "free"]
        IN /\ registered = Obtains(own, chord)
           /\ owner = IF registered THEN [own EXCEPT ![chord] = "host"] ELSE own
           /\ ui = IF ShowsBox(own, chord) THEN <<[loop |-> "box", edit |-> {}]>> ELSE <<>>
  BY DEF Init
<1> DEFINE own == [c \in Chords |-> IF c \in others THEN "other" ELSE "free"]
<1>5. registered \in BOOLEAN /\ (registered => chord \in Chords) /\ own \in Owners
  BY <1>4 DEF Obtains, Owners
<1>6. owner \in Owners /\ (registered => owner[chord] = "host")
  BY <1>4, <1>5 DEF Owners
<1>7. ui = <<[loop |-> "box", edit |-> {}]>> \/ ui = <<>>
  BY <1>4
<1>8. StackOK(ui, FALSE) /\ Len(ui) <= MaxDepth
  <2>1. [loop |-> "box", edit |-> {}] \in Frames
    BY BoxFrame
  <2>2. CASE ui = <<>>
    BY <2>2 DEF StackOK, SettingsIn
  <2>3. CASE ui = <<[loop |-> "box", edit |-> {}]>>
    <3>1. ui \in Seq(Frames) /\ Len(ui) = 1
      BY <2>1, <2>3
    <3>2. ui[1].loop = "box"
      BY <2>3
    <3>3. SettingsIn(ui) = {}
      BY <3>1, <3>2 DEF SettingsIn
    <3>4. QED BY <3>1, <3>3 DEF StackOK
  <2>4. QED BY <1>7, <2>2, <2>3
<1>9. WindowInv
  BY <1>5, <1>6, <1>8 DEF Init, WindowInv, Owners, ShownIsHeld
<1>10. QED BY <1>1, <1>2, <1>3, <1>9 DEF IInv, CaptureInv

\* A read of the selection or of the clipboard.
LEMMA RequestKeeps ==
  ASSUME IInv, NEW from \in Origins, Request(from) \/ ReadClipboard(from)
  PROVE  IInv'
<1> USE DEF IInv
<1>1. /\ alive /\ Len(asked) < MaxRequests
      /\ SpeakClipboard(from) \/ Refuse(from) \/ Begin(from)
      /\ UNCHANGED <<hotkeyVars, loopVars, chord>>
  BY DEF Request, ReadClipboard, StartCapture
<1>2. UNCHANGED alive
  BY <1>1 DEF loopVars
<1>3. CaptureInv'
  BY <1>1, <1>2, AnsweredAtOnce, BeginKeeps
<1>4. WindowInv'
  BY <1>1, WindowFrame
<1>5. QED BY <1>3, <1>4

LEMMA IInvStep == ASSUME IInv, [Next]_vars PROVE IInv'
<1> USE DEF IInv
<1>1. CASE Hotkey
  <2>1. WindowInv'
    BY <1>1, WindowStep DEF Hotkey
  <2>2. UNCHANGED captureVars /\ UNCHANGED alive
    BY <1>1 DEF Hotkey, Toggle, ReloadConfig, OtherApplication, loopVars
  <2>3. QED BY <2>1, <2>2, CaptureFrame
<1>2. CASE Capture
  <2>1. CASE PressShortcut \/ ReadSelection \/ \E from \in Origins : ReadClipboard(from)
    BY <2>1, RequestKeeps DEF PressShortcut, ReadSelection, Origins
  <2>2. ASSUME NEW w \in workers, Captured(w) \/ Post(w)
        PROVE  IInv'
    <3>1. UNCHANGED <<hotkeyVars, loopVars, chord>>
      BY <2>2 DEF Captured, Post
    <3>2. CaptureInv'
      BY <2>2, CapturedKeeps, PostKeeps
    <3>3. QED BY <3>1, <3>2, WindowFrame
  <2>3. QED BY <1>2, <2>1, <2>2 DEF Capture
<1>3. CASE OpenSettings \/ CheckHotkey \/ ClearHotkey \/ CloseSettings \/ DismissBox \/ Unwind
  <2>1. WindowInv'
    BY <1>3, WindowStep
  <2>2. UNCHANGED captureVars /\ UNCHANGED alive
    BY <1>3 DEF OpenSettings, CheckHotkey, ClearHotkey, CloseSettings, DismissBox, Unwind, loopVars
  <2>3. QED BY <2>1, <2>2, CaptureFrame
<1>4. CASE Quit
  BY <1>4, QuitKeeps, WindowStep
<1>5. CASE Complete \/ Expire
  <2>1. UNCHANGED <<hotkeyVars, loopVars, chord>>
    BY <1>5 DEF Complete, Expire
  <2>2. QED BY <1>5, <2>1, CompleteKeeps, ExpireKeeps, WindowFrame
<1>6. CASE UNCHANGED vars
  <2>1. UNCHANGED <<captureVars, hotkeyVars, loopVars, chord>> /\ UNCHANGED alive
    BY <1>6 DEF vars, loopVars
  <2>2. QED BY <2>1, CaptureFrame, WindowFrame
<1>7. QED BY <1>1, <1>2, <1>3, <1>4, <1>5, <1>6 DEF Next, Window

LEMMA Invariance == Spec => []IInv
BY IInvInit, IInvStep, PTL DEF Spec

-----------------------------------------------------------------------------
(* The theorems.                                                           *)

LEMMA TypesFollow == ASSUME IInv PROVE TypeOK
<1> USE DEF IInv
<1>1. /\ Len(asked) <= MaxRequests /\ generation \in Nat /\ generation <= Len(asked)
      /\ Len(asked) \in Nat /\ saved \in 0 .. generation
      /\ timedOut \in BOOLEAN /\ fromNow \in Origins /\ timer \in BOOLEAN /\ busy \in BOOLEAN
  BY LenProperties DEF CaptureInv, CaptureTypes
<1>2. generation \in 0 .. MaxRequests
  BY <1>1, TrayAssumption
<1>3. \A i \in Requests :
        asked[i] \in [from : Origins, gen : 0 .. MaxRequests, answers : Seq(Answers \X Origins)]
  BY ElementOfSeq DEF CaptureInv, CaptureTypes, Requests, Reads
<1>4. \A w \in workers : w.gen \in 1 .. generation /\ w.at \in {"capturing", "posting"}
  BY <1>1 DEF CaptureInv, CaptureTypes, OneToken, Belongs, Tokens
<1>5. \A k \in DOMAIN posted : posted[k].gen \in 1 .. generation
  <2>1. DOMAIN posted = 1 .. Len(posted) /\ \A k \in 1 .. Len(posted) : posted[k] \in Completions
    BY LenProperties, ElementOfSeq DEF CaptureInv, CaptureTypes
  <2>2. QED BY <1>1, <2>1 DEF CaptureInv, OneToken, Belongs, Completions
<1>6. Cardinality({k \in DOMAIN ui : ui[k].loop = "settings"}) = (IF settingsOpen THEN 1 ELSE 0)
  <2>1. {k \in DOMAIN ui : ui[k].loop = "settings"} = SettingsIn(ui)
    <3>1. DOMAIN ui = 1 .. Len(ui)
      BY LenProperties DEF WindowInv, StackOK
    <3>2. QED BY <3>1 DEF SettingsIn
  <2>2. CASE settingsOpen
    <3>1. PICK k \in 1 .. Len(ui) : SettingsIn(ui) = {k}
      BY <2>2 DEF WindowInv, StackOK
    <3>2. QED BY <2>1, <2>2, <3>1, FS_Singleton
  <2>3. CASE ~settingsOpen
    <3>1. SettingsIn(ui) = {}
      BY <2>3 DEF WindowInv, StackOK
    <3>2. QED BY <2>1, <2>3, <3>1, FS_EmptySet
  <2>4. QED BY <2>2, <2>3
<1>7. QED BY <1>1, <1>2, <1>3, <1>4, <1>5, <1>6 DEF TypeOK, WindowInv

\* Whatever the order of completions, deadlines and nested loops, every variable
\* keeps its type, a capture worker and a completion belong to a generation
\* that was given out, and Settings is nested once exactly while settings_open
\* says so.  (tray_icon.cpp, window_proc.)
THEOREM TypeCorrect == Spec => []TypeOK
BY Invariance, TypesFollow, PTL

\* A read gets one answer at most, in the window it was asked from; a capture
\* that came too late answers nothing, and the target Now Playing reads again
\* is that of a shortcut press whose own capture came in time.  (on_selection_
\* captured, on_capture_timeout, saved_target.)
THEOREM CapturesAnswer == Spec => []CapturesAnswerTheirReads
<1>1. ASSUME IInv PROVE CapturesAnswerTheirReads
  <2>1. AnsweredWhereAsked
    <3>1. ASSUME NEW i \in Requests PROVE DOMAIN asked[i].answers = 1 .. Len(asked[i].answers)
      <4>1. asked[i] \in Reads
        BY <1>1, ElementOfSeq DEF IInv, CaptureInv, CaptureTypes, Requests
      <4>2. QED BY <4>1, LenProperties DEF Reads
    <3>2. QED BY <1>1, <3>1 DEF IInv, CaptureInv, AnsweredThere, AnsweredWhereAsked
  <2>2. SavedTargetWasCaptured
    <3>1. SUFFICES ASSUME saved # 0
                   PROVE  LET request == asked[RequestOf(saved)]
                          IN /\ request.from = "dialog"
                             /\ \E k \in DOMAIN request.answers :
                                  request.answers[k][1] \in {"spoken", "failed"}
      BY DEF SavedTargetWasCaptured
    <3> DEFINE i == RequestOf(saved)
    <3>2. saved \in 1 .. generation
      BY <1>1, <3>1 DEF IInv, CaptureInv, CaptureTypes
    <3>3. i \in Requests /\ asked[i].gen = saved
      BY <1>1, <3>2, RequestFound DEF IInv, CaptureInv
    <3> HIDE DEF i
    <3>4. /\ asked[i].from = "dialog"
          /\ \E k \in 1 .. Len(asked[i].answers) : asked[i].answers[k][1] \in {"spoken", "failed"}
      BY <1>1, <3>1, <3>3 DEF IInv, CaptureInv, SavedTarget
    <3>5. asked[i] \in Reads
      BY <1>1, <3>3, ElementOfSeq DEF IInv, CaptureInv, CaptureTypes, Requests
    <3>6. DOMAIN asked[i].answers = 1 .. Len(asked[i].answers)
      BY <3>5, LenProperties DEF Reads
    <3>7. QED BY <3>4, <3>6 DEF i
  <2>3. QED BY <1>1, <2>1, <2>2, TypesFollow DEF IInv, CaptureInv, CapturesAnswerTheirReads
<1>2. QED BY <1>1, Invariance, PTL

\* A shortcut shown as on while Settings is closed is the configured one and
\* held by this window; and while the user has it turned off, no reload, probe
\* or closing of Settings takes a chord, whatever loops are nested.
\* (register_read_selection_hotkey, SelectionHotkeyState.)
THEOREM ShortcutStaysHonest == Spec => ShortcutIsHonest
<1> DEFINE StaysOff == suspended /\ suspended' => \A c \in Chords : owner'[c] = "host" => owner[c] = "host"
<1>1. ASSUME IInv PROVE ShownIsHeld
  BY <1>1 DEF IInv, WindowInv
<1>2. ASSUME IInv, Next PROVE StaysOff
  <2>1. SUFFICES ASSUME suspended, suspended'
                 PROVE  \A c \in Chords : owner'[c] = "host" => owner[c] = "host"
    OBVIOUS
  <2>2. /\ owner \in Owners /\ chord \in Chords \cup {None, Bad} /\ StackOK(ui, settingsOpen)
        /\ Len(ui) <= MaxDepth /\ settingsOpen \in BOOLEAN /\ suspended \in BOOLEAN
    BY <1>2 DEF IInv, WindowInv, Owners
  <2>3. ASSUME NEW own \in Released, NEW new \in Chords \cup {None, Bad}, NEW edit \in SUBSET Chords,
               NEW stack, NEW isOpen, StackOK(stack, isOpen), Len(stack) <= MaxDepth,
               Restore(FALSE, suspended, own, new, edit, stack)
        PROVE  \A c \in Chords : owner'[c] = "host" => owner[c] = "host"
    <3>1. own \in Owners
      BY <2>2, ReleaseTypes
    <3>2. owner' = own
      BY <2>1, <2>2, <2>3, <3>1, RestoreKeeps
    <3>3. QED BY <2>2, <3>2, ReleaseTypes
  <2>4. CASE Toggle
    BY <2>1, <2>2, <2>4, ReleaseTypes DEF Toggle
  <2>5. CASE ReloadConfig
    <3>1. PICK new \in Chords \cup {None, Bad}, own \in Released :
            Restore(FALSE, suspended, own, new, {}, ui)
      BY <2>5 DEF ReloadConfig, Rebind
    <3>2. QED BY <2>2, <2>3, <3>1
  <2>6. CASE \E d \in Chords : OtherApplication(d)
    BY <2>2, <2>6 DEF OtherApplication, Owners
  <2>7. CASE CheckHotkey
    <3>1. PICK new \in Chords, own \in Released :
            Restore(FALSE, suspended, own, chord, IF own[new] = "free" THEN {new} ELSE {}, ui)
      BY <2>7 DEF CheckHotkey
    <3>2. (IF own[new] = "free" THEN {new} ELSE {}) \in SUBSET Chords
      OBVIOUS
    <3>3. QED BY <2>2, <2>3, <3>1, <3>2
  <2>8. CASE CloseSettings
    <3>1. PICK own \in Released : Restore(FALSE, suspended, own, chord, {}, Tail(ui))
      BY <2>8 DEF CloseSettings, Rebind
    <3>2. ui # <<>> /\ Head(ui).loop = "settings"
      BY <2>8 DEF CloseSettings
    <3>3. StackOK(Tail(ui), FALSE) /\ Len(Tail(ui)) < Len(ui)
      BY <2>2, <3>2, PopFrame
    <3>4. Len(ui) \in Nat /\ Len(Tail(ui)) \in Nat
      BY <2>2, <3>3, LenProperties DEF StackOK
    <3>5. Len(Tail(ui)) <= MaxDepth
      BY <2>2, <3>3, <3>4, TrayAssumption
    <3>6. QED BY <2>2, <2>3, <3>1, <3>3, <3>5
  <2>9. CASE Quit
    BY <2>2, <2>9 DEF Quit, Owners
  <2>10. CASE OpenSettings \/ ClearHotkey \/ DismissBox \/ Capture \/ Complete \/ Expire \/ Unwind
    <3>1. UNCHANGED owner
      BY <2>10 DEF OpenSettings, ClearHotkey, DismissBox, Capture, Complete, Expire, Unwind,
        PressShortcut, ReadSelection, ReadClipboard, Request, Captured, Post, hotkeyVars
    <3>2. QED BY <3>1
  <2>11. QED
    BY <1>2, <2>4, <2>5, <2>6, <2>7, <2>8, <2>9, <2>10 DEF Next, Hotkey, Window
<1>3. ASSUME IInv, [Next]_vars PROVE [StaysOff]_vars
  BY <1>2, <1>3
<1>4. QED BY <1>1, <1>3, Invariance, PTL DEF Spec, ShortcutIsHonest, OffStaysOff

=============================================================================
