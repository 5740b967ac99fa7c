----------------------------- MODULE AudioHistory -----------------------------
(***************************************************************************)
(* What an utterance has generated, kept for seeking                        *)
(* (src/src/audio_history.cpp): a file in the temporary directory that is   *)
(* only appended to, and a copy of its beginning in memory.                 *)
(* Sample n of the utterance is written as n.                               *)
(***************************************************************************)
EXTENDS Integers, Sequences

CONSTANTS SpoolLimit, CacheLimit, ClipLengths

ASSUME HistoryBounds == SpoolLimit \in Nat /\ CacheLimit \in Nat /\ ClipLengths \subseteq Nat

VARIABLES
  spool,    \* the file
  cache,    \* cache_
  size,     \* size_
  retained, \* retained_chunks: where each sentence is, and (history) its samples
  samples,  \* history: samples generated
  aborted   \* an append has thrown, and the pipeline unwinds

historyVars == <<spool, cache, size, retained, samples, aborted>>

NextSamples(n) == [k \in 1 .. n |-> samples + k]
Prefix(s, n) == SubSeq(s, 1, IF n < Len(s) THEN n ELSE Len(s))

HistoryInit ==
  /\ spool = <<>> /\ cache = <<>> /\ size = 0
  /\ retained = <<>> /\ samples = 0 /\ aborted = FALSE

AppendClip ==
  /\ ~aborted
  /\ \E n \in ClipLengths :
       LET pcm == NextSamples(n)
       IN /\ n <= SpoolLimit - size
          /\ spool' = spool \o pcm
          /\ cache' = cache \o Prefix(pcm, CacheLimit - Len(cache))
          /\ size' = size + n
          /\ retained' = Append(retained, [offset |-> size, pcm |-> pcm])
          /\ samples' = samples + n
  /\ UNCHANGED aborted

\* The limit is reached, or the disk is full and takes some of it.
AppendFails ==
  /\ ~aborted /\ aborted' = TRUE
  /\ \E n \in ClipLengths : \E k \in 0 .. n :
       /\ n > SpoolLimit - size => k = 0
       /\ spool' = spool \o NextSamples(k) /\ samples' = samples + n
  /\ UNCHANGED <<cache, size, retained>>

\* A speed change drops sentences, but not their samples.
DropClips ==
  /\ ~aborted /\ retained # <<>>
  /\ retained' = SubSeq(retained, 1, Len(retained) - 1)
  /\ UNCHANGED <<spool, cache, size, samples, aborted>>

\* read(): what is cached, and the rest from the file.
ReadRange(offset, n) ==
  LET cached == Prefix(SubSeq(cache, offset + 1, Len(cache)), n)
  IN cached \o SubSeq(spool, offset + Len(cached) + 1, offset + n)

HistoryNext == AppendClip \/ AppendFails \/ DropClips

-----------------------------------------------------------------------------

\* A retained sentence is read back as it was generated, from memory, from the
\* file or across both, also beside what a failed append left behind.
RetainedReadsBack ==
  \A i \in DOMAIN retained :
    ReadRange(retained[i].offset, Len(retained[i].pcm)) = retained[i].pcm

=============================================================================
