--------------------------- MODULE SpeechService ---------------------------
(***************************************************************************)
(* What the speech queue promises its callers, with no threads, tokens or  *)
(* locks: one utterance at a time, in the order of submission; a new read  *)
(* replaces the others unless it is queued; a stop silences everything at  *)
(* once (src/docs/design/architecture.md, "Speech pipeline").              *)
(***************************************************************************)
EXTENDS Naturals, Sequences

CONSTANTS
  MaxRequests,  \* bound on accepted requests; they are numbered in order
  None          \* nothing is being spoken

VARIABLES
  accepted,     \* how many requests were accepted
  waiting,      \* the accepted requests not yet started, in order
  speaking,     \* the one request that may be heard, or None
  sounded       \* the requests of which something was heard

serviceVars == <<accepted, waiting, speaking, sounded>>

Init ==
  /\ accepted = 0
  /\ waiting = <<>>
  /\ speaking = None
  /\ sounded = {}

\* Accept a read that replaces the one being spoken and those waiting.
Interrupt ==
  /\ accepted < MaxRequests
  /\ accepted' = accepted + 1
  /\ waiting' = <<accepted + 1>>
  /\ speaking' = None
  /\ UNCHANGED sounded

Enqueue ==
  /\ accepted < MaxRequests
  /\ accepted' = accepted + 1
  /\ waiting' = Append(waiting, accepted + 1)
  /\ UNCHANGED <<speaking, sounded>>

Silence ==
  /\ waiting' = <<>>
  /\ speaking' = None
  /\ UNCHANGED <<accepted, sounded>>

Start ==
  /\ speaking = None
  /\ waiting # <<>>
  /\ speaking' = Head(waiting)
  /\ waiting' = Tail(waiting)
  /\ UNCHANGED <<accepted, sounded>>

Sound ==
  /\ speaking # None
  /\ sounded' = sounded \union {speaking}
  /\ UNCHANGED <<accepted, waiting, speaking>>

\* The utterance was played to its end, or failed.
End ==
  /\ speaking # None
  /\ speaking' = None
  /\ UNCHANGED <<accepted, waiting, sounded>>

Next == Interrupt \/ Enqueue \/ Silence \/ Start \/ Sound \/ End

Spec == Init /\ [][Next]_serviceVars

=============================================================================
