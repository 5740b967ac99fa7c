--------------------------- MODULE RunnerContract ---------------------------
(***************************************************************************)
(* What the Host may rely on when it asks its runner for something: every  *)
(* call ends, in one of a few ways, and the way it ends says whether a      *)
(* loaded runner is still there.  ModelSession is written against these    *)
(* endings; RunnerSession shows that pipes, threads and deadlines produce  *)
(* them.                                                                   *)
(***************************************************************************)

VARIABLES
  ready,   \* no call is under way and a runner with a loaded model waits
  call,    \* the call under way, or "none"
  outcome  \* how the last call ended

vars == <<ready, call, outcome>>

\* The endings of each call, and whether they leave the runner loaded.
Keeps == [prepare    |-> {"ok"},
          synthesize |-> {"ok", "rejected"},
          unload     |-> {}]
Loses == [prepare    |-> {"refused", "broken", "cancelled"},
          synthesize |-> {"refused", "broken", "cancelled"},
          unload     |-> {"ok"}]

Init == ready = FALSE /\ call = "none" /\ outcome = "none"

Begin(c) ==
  /\ call = "none"
  /\ c = "prepare" => ~ready
  /\ c = "unload" => ready
  /\ call' = c /\ ready' = FALSE /\ outcome' = "none"

End ==
  /\ call # "none"
  /\ \/ outcome' \in Keeps[call] /\ ready' = TRUE
     \/ outcome' \in Loses[call] /\ ready' = FALSE
  /\ call' = "none"

Next == (\E c \in DOMAIN Keeps : Begin(c)) \/ End

\* Every call ends.
Spec == Init /\ [][Next]_vars /\ WF_vars(End)

=============================================================================
