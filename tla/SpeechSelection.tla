--------------------------- MODULE SpeechSelection ---------------------------
(***************************************************************************)
(* How the Host decides which model speaks a text (profile_resolution.cpp,  *)
(* language_selection.cpp) and what it does when that model does not load   *)
(* (run_synthesis in main.cpp).  A model that is not installed fails while   *)
(* it is resolved; one whose files the runner rejects fails when it loads.   *)
(***************************************************************************)
EXTENDS Integers, Sequences, SequencesExt, FiniteSets

CONSTANTS
  Profiles,   \* profile names; each profile's model bears its name
  Requests,   \* what a request may name: [by, name]
  Letters,    \* how many letters of each script a text may have
  Defaults,   \* languageDefaults of the configurations checked
  Fallbacks   \* fallbackProfile of each profile, in the configurations checked

VARIABLES
  asked,      \* the configuration, the request and the text
  installed,  \* models that resolve
  loadable,   \* models whose files their runner accepts
  stage,      \* asked, resolved, spoken, failed, broken
  choice,     \* ProfileSelection
  loads       \* the models the Host tried to load, in order

selectionVars == <<asked, installed, loadable, stage, choice, loads>>

NoName == "none"
Stub == "stub runner"
Own == "own runner"

\* No profile is named like what stands for none or for a runner without one.
ASSUME SelectionAssumption ==
  /\ Profiles \intersect {NoName, "unknown", Stub, Own} = {}
  /\ \A d \in Defaults : \A l \in DOMAIN d : d[l] # NoName
  /\ Fallbacks \subseteq [Profiles -> Profiles \union {NoName, "unknown"}]
  /\ \A l \in Letters : IsFiniteSet(DOMAIN l) /\ \A s \in DOMAIN l : l[s] \in Nat

-----------------------------------------------------------------------------
\* detect_language_from_script

Dominant(letters) == {s \in DOMAIN letters : \A t \in DOMAIN letters : letters[s] >= letters[t]}
ScriptLanguage(letters) ==
  LET most == {s \in Dominant(letters) : letters[s] > 0}
  IN IF Cardinality(most) # 1 THEN NoName ELSE CHOOSE s \in most : TRUE

\* select_request_language
RequestLanguage ==
  LET script == ScriptLanguage(asked.letters)
  IN IF asked.by = "language" THEN asked.name
     ELSE IF script # NoName /\ script \in DOMAIN asked.defaults THEN script ELSE "en"

-----------------------------------------------------------------------------

Chosen(model, profile, fallback) == [model |-> model, profile |-> profile, fallback |-> fallback]
Refused == Chosen(NoName, NoName, NoName)

\* resolve_fallback: one step, and the result names no further fallback.
FallbackOf(profile) ==
  LET next == asked.fallbacks[profile]
  IN IF next \in Profiles \ {profile} /\ next \in installed
     THEN Chosen(next, profile, NoName) ELSE Refused

ProfileChoice(profile) ==
  IF profile \notin Profiles THEN Refused
  ELSE IF profile \in installed THEN Chosen(profile, profile, asked.fallbacks[profile])
  ELSE IF asked.fallbacks[profile] = NoName THEN Refused
  ELSE FallbackOf(profile)

\* resolve_selection
Resolved ==
  CASE asked.by = "runner" -> Chosen(Own, NoName, NoName)
    [] asked.by = "model" -> IF asked.name \in installed THEN Chosen(asked.name, NoName, NoName) ELSE Refused
    [] OTHER ->
         IF RequestLanguage \in DOMAIN asked.defaults
         THEN ProfileChoice(asked.defaults[RequestLanguage])
         ELSE IF asked.by = "language" THEN Refused ELSE Chosen(Stub, NoName, NoName)

Choose(next) ==
  /\ choice' = next
  /\ stage' = IF next = Refused THEN "failed" ELSE "resolved"

Resolve ==
  /\ stage = "asked"
  /\ Choose(Resolved)
  /\ UNCHANGED <<asked, installed, loadable, loads>>

Loads(model) == model \in loadable \/ model = Own \/ model = Stub

Trying == stage = "resolved" /\ loads' = Append(loads, choice.model)

\* RecoveringRunner::prepare() returns and the pipeline runs.
Speak ==
  /\ Trying /\ Loads(choice.model)
  /\ stage' = "spoken"
  /\ UNCHANGED <<asked, installed, loadable, choice>>

\* Mutant: a rejected load ends the request.
RejectedGivesUp == Choose(Refused)

\* RunnerLoadRejected: the fallback serves the whole request.
Rejected == IF choice.fallback = NoName THEN Choose(Refused) ELSE Choose(FallbackOf(choice.profile))

Reject ==
  /\ Trying /\ ~Loads(choice.model)
  /\ Rejected
  /\ UNCHANGED <<asked, installed, loadable>>

\* Any other error of prepare() ends the request.
Break ==
  /\ Trying
  /\ stage' = "broken"
  /\ UNCHANGED <<asked, installed, loadable, choice>>

\* A package is deleted or its files go bad while a load is under way.
PackageLost ==
  /\ stage = "resolved"
  /\ \E m \in installed : installed' = installed \ {m} /\ loadable' = loadable \ {m}
  /\ UNCHANGED <<asked, stage, choice, loads>>

SelectionInit ==
  /\ asked \in {[by |-> r.by, name |-> r.name, letters |-> l, defaults |-> d, fallbacks |-> f] :
                  r \in Requests, l \in Letters, d \in Defaults, f \in Fallbacks}
  /\ installed \in SUBSET Profiles /\ loadable \in SUBSET installed
  /\ stage = "asked" /\ choice = Refused /\ loads = <<>>

SelectionNext == Resolve \/ Speak \/ Reject \/ Break \/ PackageLost

-----------------------------------------------------------------------------

\* One request loads at most two models, never the same one twice, however the
\* configured fallbacks point at each other.  (The for(;;) of run_synthesis.)
FallbacksEnd == Len(loads) <= 2 /\ IsInjective(loads)

\* What is spoken is what was asked for, in its language: an explicit language
\* or model is never replaced by another, a script decides only when most
\* letters are its own, and a fallback belongs to the profile of the language.
SpokenAsAsked ==
  stage = "spoken" =>
    LET m == choice.model
        served(language) ==
          /\ language \in DOMAIN asked.defaults
          /\ \/ m = asked.defaults[language]
             \/ /\ asked.defaults[language] \in Profiles
                /\ m = asked.fallbacks[asked.defaults[language]]
        majority(s) == \A t \in DOMAIN asked.letters \ {s} : asked.letters[s] > asked.letters[t]
    IN CASE asked.by = "runner" -> m = Own
         [] asked.by = "model" -> m = asked.name
         [] asked.by = "language" -> served(asked.name)
         [] OTHER -> IF m = Stub THEN "en" \notin DOMAIN asked.defaults
                     ELSE served("en") \/ \E s \in DOMAIN asked.letters : majority(s) /\ served(s)

\* A request fails only when neither its profile nor the fallback can serve it
\* any more: a model rejected by its runner is replaced as one not installed is.
FailureIsReal ==
  stage = "failed" /\ asked.by \in {"language", "text"} =>
    LET profile == asked.defaults[RequestLanguage]
        usable(m) == m \in installed /\ m \in loadable
    IN (RequestLanguage \in DOMAIN asked.defaults /\ profile \in Profiles) =>
         /\ ~usable(profile) \/ profile \in ToSet(loads)
         /\ ~(asked.fallbacks[profile] \in Profiles /\ usable(asked.fallbacks[profile]))

\* A request is spoken as it asks if any way to do so is left, and otherwise
\* fails after a bounded number of loads.
SelectionIsFaithful == FallbacksEnd /\ SpokenAsAsked /\ FailureIsReal

=============================================================================
