------------------------------ MODULE MCParts ------------------------------
(***************************************************************************)
(* The Host's algorithms and the state machines that stand alone, each on   *)
(* every small input of its own: a behaviour chooses the part it exercises, *)
(* and the others stay as they began.                                      *)
(***************************************************************************)
EXTENDS SpokenText, TimeStretch, ModelRegistry, SpeechSelection, PlaybackStream, AudioHistory, PackageDelivery

VARIABLE part

algorithmVars == <<textVars, stretchVars, registryVars, selectionVars>>
machineVars == <<streamVars, historyVars, deliveryVars>>
vars == <<part, algorithmVars, machineVars>>

MCMaxText == [markdown |-> 4, inline |-> 4, html |-> 4, sentences |-> 6, phonemes |-> 7]

MCRatios == {[num |-> n[1], den |-> n[2]] : n \in {<<1, 2>>, <<3, 4>>, <<1, 1>>, <<3, 2>>, <<2, 1>>}}

\* Two configured directories, the application's models/, and one .previous/.
MCUser == {1, 2}
MCApp == {3}
MCKept == {4}
MCDirectory == 1 :> "first" @@ 2 :> "second" @@ 4 :> "first"
MCCurrent == "x" :> "new"
X(rev) == Package("x", rev, FALSE)
MCContents ==
  1 :> {Absent, Junk, X("old"), X("new"), Package("x", "old", TRUE), Package("x", "new", TRUE)} @@
  2 :> {Absent, X("old"), X("new"), Package("x", "new", TRUE), Package("y", "none", FALSE)} @@
  3 :> {Absent, X("new"), Package("x", "new", TRUE)} @@
  4 :> {Absent, X("old"), Package("y", "old", FALSE)}

MCRequests ==
  {[by |-> "runner", name |-> "none"], [by |-> "model", name |-> "p"],
   [by |-> "language", name |-> "ru"], [by |-> "language", name |-> "hy"],
   [by |-> "text", name |-> "none"]}
MCLetters == {[en |-> l[1], ru |-> l[2], hy |-> l[3]] :
                l \in {<<0, 0, 0>>, <<1, 1, 0>>, <<0, 1, 1>>, <<1, 2, 1>>, <<1, 1, 2>>}}
MCDefaults == UNION {[S -> {"p", "q", "ghost"}] : S \in SUBSET {"en", "ru"}}
MCFallbacks == [p : {"p", "q", "none", "unknown"}, q : {"p", "none"}]

\* Two sentences that fit one buffer together, and one of another rate that fills it;
\* each rate fits one endpoint, and is rounded on the other.
MCClips == <<[rate |-> 2, frames |-> 1], [rate |-> 2, frames |-> 1], [rate |-> 3, frames |-> 3]>>
MCEndpoints == <<2, 3>>

\* A revision with longer weights and without voices, and a package to import.
MCPinned == <<[weights |-> <<1, 1>>, voices |-> <<5>>], [weights |-> <<2, 2, 2>>]>>
MCUnpacked == [weights |-> <<3, 3>>, voices |-> <<4>>]

Unasked == [by |-> "text", name |-> "none", letters |-> [en |-> 0, ru |-> 0, hy |-> 0],
            defaults |-> <<>>, fallbacks |-> <<>>]

Parts == {"text", "stretch", "registry", "selection", "stream", "history", "delivery"}

Init ==
  /\ part \in Parts
  /\ IF part = "text" THEN TextInit ELSE kind = "inline" /\ text = <<>>
  /\ StretchInit /\ (part # "stretch" => ratio = [num |-> 1, den |-> 1])
  /\ RegistryInit /\ (part # "registry" => portable)
  /\ IF part = "selection" THEN SelectionInit
     ELSE /\ asked = Unasked /\ installed = {} /\ loadable = {}
          /\ stage = "asked" /\ choice = Refused /\ loads = <<>>
  /\ StreamInit /\ (part # "stream" => follows)
  /\ HistoryInit
  /\ DeliveryInit /\ (part # "delivery" => catalogue = 1)

Text ==
  /\ part = "text" /\ Grow
  /\ UNCHANGED <<part, stretchVars, registryVars, selectionVars, machineVars>>
Stretch ==
  /\ part = "stretch" /\ StretchNext
  /\ UNCHANGED <<part, textVars, registryVars, selectionVars, machineVars>>
Registry ==
  /\ part = "registry" /\ RegistryNext
  /\ UNCHANGED <<part, textVars, stretchVars, selectionVars, machineVars>>
Selection ==
  /\ part = "selection" /\ SelectionNext
  /\ UNCHANGED <<part, textVars, stretchVars, registryVars, machineVars>>
Stream ==
  /\ part = "stream" /\ StreamNext
  /\ UNCHANGED <<part, algorithmVars, historyVars, deliveryVars>>
History ==
  /\ part = "history" /\ HistoryNext
  /\ UNCHANGED <<part, algorithmVars, streamVars, deliveryVars>>
Delivery ==
  /\ part = "delivery" /\ DeliveryNext
  /\ UNCHANGED <<part, algorithmVars, streamVars, historyVars>>

Next == Text \/ Stretch \/ Registry \/ Selection \/ Stream \/ History \/ Delivery

Spec == Init /\ [][Next]_vars

\* The stretcher's output does not depend on how its input is split, and a
\* retained sentence is read back as it was generated.
AudioIsExact == StreamingIsExact /\ RetainedReadsBack
=============================================================================
