------------------------------ MODULE TrayIcon ------------------------------
(***************************************************************************)
(* The tray's window procedure: selection captures with their deadline,    *)
(* the global shortcut, Settings as a nested message loop, Quit.           *)
(*                                                                         *)
(* Everything here but the capture worker runs on the UI thread, yet that  *)
(* thread re-enters itself: Settings and every message box run a message   *)
(* loop of their own inside the handler that opened them, so any action    *)
(* below may happen while an outer handler is still waiting.  "ui" is the  *)
(* stack of those loops, innermost first.  A box that only reports         *)
(* something has nothing left to do when it closes, so it needs no frame;  *)
(* the box of a failed registration does: the flag it returns is assigned  *)
(* when the user dismisses it.                                             *)
(***************************************************************************)
EXTENDS Naturals, Sequences, FiniteSets

CONSTANTS
  Chords,       \* shortcuts that parse
  None,         \* hotkeys.readSelection is empty
  Bad,          \* hotkeys.readSelection does not parse
  MaxRequests,  \* bound: reads the user asks for
  MaxDepth      \* bound: loops nested in the tray's own

ASSUME TrayAssumption ==
  /\ None \notin Chords
  /\ Bad \notin Chords \cup {None}
  /\ MaxRequests \in Nat \ {0}
  /\ MaxDepth \in Nat \ {0}

VARIABLES
  asked,        \* every read asked for, with the answers it got
  generation,   \* capture_generation
  timedOut,     \* capture_timed_out
  fromNow,      \* capture_from_now_playing
  timer,        \* the capture timer is set
  saved,        \* saved_target: the generation that captured it, 0 for none
  busy,         \* selection_capture_worker_active
  workers,      \* capture threads
  posted,       \* completions in the window's message queue
  chord,        \* hotkeys.readSelection of the tray-owned document
  registered, suspended,  \* SelectionHotkeyState
  owner,        \* Windows: who holds each chord
  ui,           \* nested message loops, innermost first
  settingsOpen, \* settings_open
  alive,        \* the tray window exists
  quit          \* WM_QUIT: "none", "posted", or "returned" from run_tray_icon

captureVars == <<asked, generation, timedOut, fromNow, timer, saved, busy, workers, posted>>
hotkeyVars == <<registered, suspended, owner>>
loopVars == <<ui, settingsOpen, alive, quit>>
vars == <<captureVars, hotkeyVars, loopVars, chord>>

Origins == {"dialog", "nowPlaying"}  \* where a failure is shown
Answers == {"spoken", "failed", "timeout", "busy", "clipboard"}
Requests == 1..Len(asked)

TypeOK ==
  /\ Len(asked) <= MaxRequests
  /\ \A i \in Requests :
       asked[i] \in [from : Origins, gen : 0..MaxRequests, answers : Seq(Answers \X Origins)]
  /\ generation \in 0..MaxRequests
  /\ saved \in 0..generation
  /\ timedOut \in BOOLEAN /\ fromNow \in Origins /\ timer \in BOOLEAN /\ busy \in BOOLEAN
  /\ \A w \in workers : w.gen \in 1..generation /\ w.at \in {"capturing", "posting"}
  /\ \A k \in DOMAIN posted : posted[k].gen \in 1..generation
  /\ chord \in Chords \cup {None, Bad}
  /\ registered \in BOOLEAN /\ suspended \in BOOLEAN
  /\ owner \in [Chords -> {"free", "host", "other"}]
  /\ Len(ui) <= MaxDepth
  /\ Cardinality({k \in DOMAIN ui : ui[k].loop = "settings"}) = (IF settingsOpen THEN 1 ELSE 0)
  /\ settingsOpen \in BOOLEAN /\ alive \in BOOLEAN
  /\ quit \in {"none", "posted", "returned"}

-----------------------------------------------------------------------------
(* Captures                                                                *)

\* report_capture_failure and speak_text: request i gets one more answer,
\* shown at "to".
Answer(i, what, to) ==
  asked' = [asked EXCEPT ![i].answers = Append(@, <<what, to>>)]

RequestOf(g) == CHOOSE i \in Requests : asked[i].gen = g

\* speak_clipboard: spoken or refused at once, without a worker.
SpeakClipboard(from) ==
  /\ asked' = Append(asked, [from |-> from, gen |-> 0, answers |-> <<<<"clipboard", from>>>>])
  /\ UNCHANGED <<generation, timedOut, fromNow, timer, saved, busy, workers, posted>>

\* One capture at a time: a worker stuck in the target application refuses the
\* next request.
Refuse(from) ==
  /\ busy
  /\ asked' = Append(asked, [from |-> from, gen |-> 0, answers |-> <<<<"busy", from>>>>])
  /\ UNCHANGED <<generation, timedOut, fromNow, timer, saved, busy, workers, posted>>

Begin(from) ==
  /\ ~busy
  /\ busy' = TRUE
  /\ generation' = generation + 1
  /\ timedOut' = FALSE
  /\ fromNow' = from
  /\ timer' = TRUE
  /\ workers' = workers \cup {[gen |-> generation + 1, from |-> from, at |-> "capturing"]}
  /\ asked' = Append(asked, [from |-> from, gen |-> generation + 1, answers |-> <<>>])
  /\ UNCHANGED <<saved, posted>>

\* Mutant: no deadline is set.
StartCaptureUntimed(from) ==
  \/ Refuse(from)
  \/ /\ ~busy
     /\ busy' = TRUE
     /\ generation' = generation + 1
     /\ timedOut' = FALSE
     /\ fromNow' = from
     /\ workers' = workers \cup {[gen |-> generation + 1, from |-> from, at |-> "capturing"]}
     /\ asked' = Append(asked, [from |-> from, gen |-> generation + 1, answers |-> <<>>])
     /\ UNCHANGED <<timer, saved, posted>>

StartCapture(from) == Refuse(from) \/ Begin(from)

\* request_selection_capture and request_saved_selection_capture, under the
\* policy clipboardOnly (which any edit of the document may set) or another.
Request(from) ==
  /\ alive
  /\ Len(asked) < MaxRequests
  /\ SpeakClipboard(from) \/ StartCapture(from)
  /\ UNCHANGED <<hotkeyVars, loopVars, chord>>

\* WM_HOTKEY: delivered while Windows has a chord of this window, obeyed while
\* the tray thinks so too.
PressShortcut ==
  /\ \E c \in Chords : owner[c] = "host"
  /\ registered
  /\ Request("dialog")

ReadSelection == Request("nowPlaying")

\* Read clipboard and Queue clipboard of the menu, Read clipboard of Now
\* Playing: the capture policy does not matter.
ReadClipboard(from) ==
  /\ alive
  /\ Len(asked) < MaxRequests
  /\ SpeakClipboard(from)
  /\ UNCHANGED <<hotkeyVars, loopVars, chord>>

\* The worker has its result.  It gives up the slot before it posts, so the
\* next worker may start, and finish, ahead of this completion.
Captured(w) ==
  /\ w \in workers
  /\ w.at = "capturing"
  /\ busy' = FALSE
  /\ workers' = (workers \ {w}) \cup {[w EXCEPT !.at = "posting"]}
  /\ UNCHANGED <<asked, generation, timedOut, fromNow, timer, saved, posted>>
  /\ UNCHANGED <<hotkeyVars, loopVars, chord>>

\* PostMessage fails once the window is gone, and the worker drops the result.
Post(w) ==
  /\ w \in workers
  /\ w.at = "posting"
  /\ workers' = workers \ {w}
  /\ posted' = IF alive THEN Append(posted, [gen |-> w.gen, from |-> w.from]) ELSE posted
  /\ UNCHANGED <<asked, generation, timedOut, fromNow, timer, saved, busy>>
  /\ UNCHANGED <<hotkeyVars, loopVars, chord>>

\* Mutant: a late result counts unless a newer capture has begun.
StaleByGeneration(completion) == completion.gen # generation

\* A completion nobody waits for any more.
Stale(completion) == completion.gen # generation \/ timedOut

\* A capture from Now Playing reads the saved target and never replaces it;
\* one by the shortcut does as soon as the focused control was identified,
\* even when nothing could be read from it.
SavedAfter(completion, identified) ==
  IF completion.from = "dialog" /\ identified THEN completion.gen ELSE saved

Complete ==
  /\ alive
  /\ posted # <<>>
  /\ posted' = Tail(posted)
  /\ LET completion == Head(posted) IN
       IF Stale(completion)
       THEN UNCHANGED <<asked, timer, saved>>
       ELSE /\ timer' = FALSE
            /\ \E identified \in BOOLEAN : saved' = SavedAfter(completion, identified)
            /\ \E what \in {"spoken", "failed"} :
                 Answer(RequestOf(completion.gen), what, completion.from)
  /\ UNCHANGED <<generation, timedOut, fromNow, busy, workers>>
  /\ UNCHANGED <<hotkeyVars, loopVars, chord>>

\* WM_TIMER: the deadline of the capture under way has passed.
Expire ==
  /\ alive
  /\ timer
  /\ timer' = FALSE
  /\ timedOut' = TRUE
  /\ Answer(RequestOf(generation), "timeout", fromNow)
  /\ UNCHANGED <<generation, fromNow, saved, busy, workers, posted>>
  /\ UNCHANGED <<hotkeyVars, loopVars, chord>>

-----------------------------------------------------------------------------
(* The shortcut                                                            *)

\* UnregisterHotKey takes the identifier.  A second chord under the same
\* identifier is kept beside the first, and which of them goes is Windows'.
Unregistered(own) ==
  {after \in [Chords -> {"free", "host", "other"}] :
     /\ \A c \in Chords : after[c] = own[c] \/ (own[c] = "host" /\ after[c] = "free")
     /\ (\E c \in Chords : own[c] = "host") => after # own}

\* SelectionHotkeyState::release: who may hold the chords afterwards.
Released == IF registered THEN Unregistered(owner) ELSE {owner}

\* register_read_selection_hotkey asks Windows for the configured chord, and
\* shows a box when the chord does not parse or another window has it.
Obtains(own, c) == c \in Chords /\ own[c] = "free"
ShowsBox(own, c) == c # None /\ ~Obtains(own, c)

\* Mutant: the user's suspension does not survive Settings.
WantedAlways(reg, off) == ~reg

Wanted(reg, off) == ~off /\ ~reg

\* SelectionHotkeyState::restore with flags reg and off, for the document's
\* chord "new", above the loops "stack".  "edit" holds the chord a Settings
\* probe saves when the registration has returned.
Restore(reg, off, own, new, edit, stack) ==
  LET box == Wanted(reg, off) /\ ShowsBox(own, new)
      got == Wanted(reg, off) /\ Obtains(own, new)
  IN /\ registered' = (reg \/ got)
     /\ owner' = IF got THEN [own EXCEPT ![new] = "host"] ELSE own
     /\ ui' = IF box THEN <<[loop |-> "box", edit |-> edit]>> \o stack ELSE stack
     /\ Len(ui') <= MaxDepth
     /\ chord' = IF edit # {} /\ ~box THEN CHOOSE c \in edit : TRUE ELSE new

\* release then restore with the document as it is now.
Rebind(new, stack) ==
  \E own \in Released : Restore(FALSE, suspended, own, new, {}, stack)

Toggle ==
  /\ alive
  /\ ~settingsOpen
  /\ IF registered
     THEN /\ owner' \in Released
          /\ registered' = FALSE
          /\ suspended' = TRUE
          /\ UNCHANGED <<ui, chord>>
     ELSE /\ suspended' = FALSE
          /\ Restore(FALSE, FALSE, owner, chord, {}, ui)
  /\ UNCHANGED <<captureVars, settingsOpen, alive, quit>>

\* Another application takes or gives up a chord.
OtherApplication(c) ==
  /\ \/ owner[c] = "free" /\ owner' = [owner EXCEPT ![c] = "other"]
     \/ owner[c] = "other" /\ owner' = [owner EXCEPT ![c] = "free"]
  /\ UNCHANGED <<captureVars, loopVars, chord, registered, suspended>>

\* reload_external_config applied an edit of the hotkey made outside the Host.
ReloadConfig ==
  /\ alive
  /\ ~settingsOpen
  /\ \E new \in (Chords \cup {None, Bad}) \ {chord} : Rebind(new, ui)
  /\ UNCHANGED <<captureVars, suspended, settingsOpen, alive, quit>>

-----------------------------------------------------------------------------
(* Settings, boxes and Quit                                                *)

OpenSettings ==
  /\ alive
  /\ ~settingsOpen
  /\ Len(ui) < MaxDepth
  /\ settingsOpen' = TRUE
  /\ ui' = <<[loop |-> "settings"]>> \o ui
  /\ UNCHANGED <<captureVars, hotkeyVars, chord, alive, quit>>

\* on_check_hotkey_clicked: the tray's own chord is let go while the new one
\* is tried, and taken back before the answer is used.
CheckHotkey ==
  /\ alive
  /\ settingsOpen
  /\ \E new \in Chords, own \in Released :
       Restore(FALSE, suspended, own, chord, IF own[new] = "free" THEN {new} ELSE {}, ui)
  /\ UNCHANGED <<captureVars, suspended, settingsOpen, alive, quit>>

\* The same handler with the field emptied.
ClearHotkey ==
  /\ alive
  /\ settingsOpen
  /\ chord' = None
  /\ UNCHANGED <<captureVars, hotkeyVars, loopVars>>

\* run_settings_window returned to the menu handler.
CloseSettings ==
  /\ alive
  /\ ui # <<>>
  /\ Head(ui).loop = "settings"
  /\ settingsOpen' = FALSE
  /\ Rebind(chord, Tail(ui))
  /\ UNCHANGED <<captureVars, suspended, alive, quit>>

\* The registration the innermost box belongs to returns FALSE into
\* restore(), whatever was registered while the box was open.
BoxReturns ==
  /\ registered' = FALSE
  /\ ui' = Tail(ui)
  /\ chord' = IF Head(ui).edit # {} THEN CHOOSE c \in Head(ui).edit : TRUE ELSE chord

DismissBox ==
  /\ alive
  /\ ui # <<>>
  /\ Head(ui).loop = "box"
  /\ BoxReturns
  /\ UNCHANGED <<captureVars, suspended, owner, settingsOpen, alive, quit>>

\* WM_DESTROY.  Windows drops what the window still held and its messages.
Quit ==
  /\ alive
  /\ alive' = FALSE
  /\ quit' = "posted"
  /\ registered' = FALSE
  /\ owner' = [c \in Chords |-> IF owner[c] = "host" THEN "free" ELSE owner[c]]
  /\ timer' = FALSE
  /\ posted' = <<>>
  /\ UNCHANGED <<asked, generation, timedOut, fromNow, saved, busy, workers>>
  /\ UNCHANGED <<suspended, chord, ui, settingsOpen>>

\* Mutant: the message is not passed on.
QuitSwallowed == "none"

\* Settings' loop read WM_QUIT: it passes the message on to the loop below.
QuitAfterSettings == "posted"

\* WM_QUIT ends the innermost loop; a message box passes it on by itself.
Unwind ==
  /\ quit = "posted"
  /\ \/ /\ ui = <<>>
        /\ quit' = "returned"
        /\ UNCHANGED <<ui, registered, settingsOpen, chord>>
     \/ /\ ui # <<>>
        /\ Head(ui).loop = "box"
        /\ BoxReturns
        /\ UNCHANGED <<quit, settingsOpen>>
     \/ /\ ui # <<>>
        /\ Head(ui).loop = "settings"
        /\ ui' = Tail(ui)
        /\ settingsOpen' = FALSE
        /\ quit' = QuitAfterSettings
        /\ UNCHANGED <<registered, chord>>
  /\ UNCHANGED <<captureVars, suspended, owner, alive>>

-----------------------------------------------------------------------------
\* run_tray_icon registers the shortcut before its own loop, and a failure
\* shows the box at once.
Init ==
  /\ asked = <<>> /\ generation = 0 /\ timedOut = FALSE /\ fromNow = "dialog"
  /\ timer = FALSE /\ saved = 0 /\ busy = FALSE /\ workers = {} /\ posted = <<>>
  /\ chord \in Chords \cup {None, Bad}
  /\ suspended = FALSE
  /\ \E others \in SUBSET Chords :
       LET own == [c \in Chords |-> IF c \in others THEN "other" ELSE "free"]
       IN /\ registered = Obtains(own, chord)
          /\ owner = IF registered THEN [own EXCEPT ![chord] = "host"] ELSE own
          /\ ui = IF ShowsBox(own, chord)
                  THEN <<[loop |-> "box", edit |-> {}]>> ELSE <<>>
  /\ settingsOpen = FALSE /\ alive = TRUE /\ quit = "none"

Hotkey == Toggle \/ ReloadConfig \/ \E c \in Chords : OtherApplication(c)
Capture ==
  \/ PressShortcut
  \/ ReadSelection
  \/ \E from \in Origins : ReadClipboard(from)
  \/ \E w \in workers : Captured(w) \/ Post(w)
Window ==
  \/ OpenSettings \/ CheckHotkey \/ ClearHotkey \/ CloseSettings
  \/ DismissBox \/ Quit

Next == Hotkey \/ Capture \/ Window \/ Complete \/ Expire \/ Unwind

Spec == Init /\ [][Next]_vars

\* The UI thread dispatches what is queued and its timers, in whichever loop
\* it is; a worker that has its result posts it.  A capture may hang for ever,
\* and nobody need dismiss a box.
FairSpec ==
  /\ Spec
  /\ WF_vars(Complete)
  /\ WF_vars(Expire)
  /\ WF_vars(Unwind)
  /\ WF_vars(\E w \in workers : Post(w))

-----------------------------------------------------------------------------
(* Properties                                                              *)

\* A read gets one answer: a selection reported as timed out or failed is
\* never spoken later, and one that was spoken is never reported as late.
AnsweredOnce == \A i \in Requests : Len(asked[i].answers) <= 1

\* The answer is shown where the read was asked for: a failure of Now
\* Playing's button never opens a dialog, whichever of the completion and the
\* deadline comes first.
AnsweredWhereAsked ==
  \A i \in Requests : \A k \in DOMAIN asked[i].answers :
    asked[i].answers[k][2] = asked[i].from

\* Now Playing reads the target of a shortcut press that was answered by its
\* own capture: never one that came too late, never the Host's own window.
SavedTargetWasCaptured ==
  saved # 0 =>
    LET request == asked[RequestOf(saved)]
    IN /\ request.from = "dialog"
       /\ \E k \in DOMAIN request.answers : request.answers[k][1] \in {"spoken", "failed"}

\* A capture answers the read it was started for and nothing else.
CapturesAnswerTheirReads ==
  TypeOK /\ AnsweredOnce /\ AnsweredWhereAsked /\ SavedTargetWasCaptured

\* While Settings is closed, a shortcut shown as on is the configured one and
\* Windows has it for this window, whatever loops are nested and whatever was
\* probed, reloaded or toggled inside them.
ShownIsHeld ==
  (alive /\ ~settingsOpen /\ registered) =>
    chord \in Chords /\ owner[chord] = "host"

\* A shortcut the user turned off stays off through Settings, probes and
\* reloads: the Host takes no chord until the user turns it on again.
OffStaysOff ==
  [][suspended /\ suspended' =>
       \A c \in Chords : owner'[c] = "host" => owner[c] = "host"]_vars

\* What the window shows of the shortcut, and what the user asked for, is what
\* Windows does.  (register_read_selection_hotkey, SelectionHotkeyState.)
ShortcutIsHonest == []ShownIsHeld /\ OffStaysOff

\* Every read is answered, even when the application it reads from hangs and
\* when nobody dismisses a box, unless a newer capture replaced it.
EveryReadAnswered ==
  \A i \in 1..MaxRequests :
    i \in Requests ~> \/ i \in Requests /\ asked[i].answers # <<>>
                      \/ i \in Requests /\ generation > asked[i].gen
                      \/ ~alive

\* Quit ends the Host from inside any nesting of Settings and boxes.
QuitReturns == ~alive ~> quit = "returned"

=============================================================================
