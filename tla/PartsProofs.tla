----------------------------- MODULE PartsProofs -----------------------------
(***************************************************************************)
(* What the small machines of MCParts promise, proved for every value of   *)
(* their constants: the audio history keeps the blocks it says it keeps, a *)
(* request is read in the voice its selection names, a package is          *)
(* installed as it was pinned or imported, the list of models accounts for *)
(* every folder, and the playback stream is heard in order and, but for    *)
(* the rounding of its rates, whole.  Each has an inductive invariant of   *)
(* its own.                                                                *)
(***************************************************************************)
EXTENDS ModelRegistry, SpeechSelection, AudioHistory, PackageDelivery, PlaybackStream,
        SequenceTheorems, FiniteSetTheorems, NaturalsInduction, WellFoundedInduction, TLAPS

-----------------------------------------------------------------------------
(* What an utterance has generated, kept for seeking.                      *)

Clip == [offset : Nat, pcm : Seq(Nat)]

\* Everything up to size_ is in the file as it was generated, the cache holds
\* the beginning of it, and a sentence lies within.  A failed append leaves
\* samples in the file beyond size_, and nothing is appended after it.
HistoryTypes ==
  /\ size \in Nat /\ samples \in Nat /\ aborted \in BOOLEAN
  /\ spool \in Seq(Nat) /\ cache \in Seq(Nat) /\ retained \in Seq(Clip)

SpoolHolds == size <= Len(spool) /\ \A k \in 1 .. size : spool[k] = k

CacheHolds ==
  /\ Len(cache) <= size
  /\ Len(cache) <= CacheLimit
  /\ Len(cache) = size \/ Len(cache) = CacheLimit
  /\ \A k \in 1 .. Len(cache) : cache[k] = k

ClipsHold ==
  \A i \in 1 .. Len(retained) :
    /\ retained[i].offset + Len(retained[i].pcm) <= size
    /\ \A k \in 1 .. Len(retained[i].pcm) : retained[i].pcm[k] = retained[i].offset + k

Unfailed == ~aborted => samples = size /\ Len(spool) = size

HistoryInv == HistoryTypes /\ SpoolHolds /\ CacheHolds /\ ClipsHold /\ Unfailed

LEMMA NextSamplesAre ==
  ASSUME samples \in Nat, NEW n \in Nat
  PROVE  /\ NextSamples(n) \in Seq(Nat) /\ Len(NextSamples(n)) = n
         /\ \A k \in 1 .. n : NextSamples(n)[k] = samples + k
BY DEF NextSamples

\* The beginning of a sequence, as much of it as there is.
LEMMA PrefixIs ==
  ASSUME NEW s \in Seq(Nat), NEW n \in Nat
  PROVE  /\ Prefix(s, n) \in Seq(Nat)
         /\ Len(Prefix(s, n)) = IF n < Len(s) THEN n ELSE Len(s)
         /\ \A k \in 1 .. Len(Prefix(s, n)) : Prefix(s, n)[k] = s[k]
<1> DEFINE m == IF n < Len(s) THEN n ELSE Len(s)
<1>1. Len(s) \in Nat /\ m \in Nat /\ m <= Len(s)
  BY LenProperties
<1>2. \A i \in 1 .. m : s[i] \in Nat
  BY <1>1, ElementOfSeq
<1>3. Prefix(s, n) = SubSeq(s, 1, m)
  BY DEF Prefix
<1> HIDE DEF m
<1>4. /\ SubSeq(s, 1, m) \in Seq(Nat)
      /\ Len(SubSeq(s, 1, m)) = (IF 1 <= m THEN m - 1 + 1 ELSE 0)
      /\ \A i \in 1 .. m - 1 + 1 : SubSeq(s, 1, m)[i] = s[1 + i - 1]
  BY <1>1, <1>2, SubSeqProperties
<1>5. Len(SubSeq(s, 1, m)) = m /\ \A i \in 1 .. m : SubSeq(s, 1, m)[i] = s[i]
  BY <1>1, <1>4
<1>6. QED BY <1>3, <1>4, <1>5 DEF m

LEMMA HistoryBegins == ASSUME HistoryInit PROVE HistoryInv
<1>1. HistoryTypes
  <2>1. spool \in Seq(Nat) /\ cache \in Seq(Nat) /\ retained \in Seq(Clip)
    BY DEF HistoryInit
  <2>2. size \in Nat /\ samples \in Nat /\ aborted \in BOOLEAN
    BY DEF HistoryInit
  <2>3. QED BY <2>1, <2>2 DEF HistoryTypes
<1>2. SpoolHolds /\ CacheHolds /\ ClipsHold /\ Unfailed
  BY HistoryBounds DEF HistoryInit, SpoolHolds, CacheHolds, ClipsHold, Unfailed
<1>3. QED BY <1>1, <1>2 DEF HistoryInv

LEMMA AppendKeeps == ASSUME HistoryInv, AppendClip PROVE HistoryInv'
<1> USE DEF HistoryInv
<1>1. PICK n \in ClipLengths :
        /\ n <= SpoolLimit - size
        /\ spool' = spool \o NextSamples(n)
        /\ cache' = cache \o Prefix(NextSamples(n), CacheLimit - Len(cache))
        /\ size' = size + n
        /\ retained' = Append(retained, [offset |-> size, pcm |-> NextSamples(n)])
        /\ samples' = samples + n
  BY DEF AppendClip
<1>2. ~aborted /\ aborted' = aborted /\ samples = size /\ Len(spool) = size
  BY DEF AppendClip, Unfailed
<1> DEFINE pcm == NextSamples(n)
           more == Prefix(pcm, CacheLimit - Len(cache))
           clip == [offset |-> size, pcm |-> pcm]
<1>3. /\ size \in Nat /\ n \in Nat /\ Len(spool) \in Nat /\ Len(cache) \in Nat /\ Len(retained) \in Nat
      /\ CacheLimit \in Nat /\ CacheLimit - Len(cache) \in Nat
  BY HistoryBounds, LenProperties DEF HistoryTypes, CacheHolds
<1>15. /\ spool' = spool \o pcm /\ cache' = cache \o more /\ retained' = Append(retained, clip)
       /\ size' = size + n /\ samples' = samples + n
  BY <1>1
<1>4. pcm \in Seq(Nat) /\ Len(pcm) = n /\ \A k \in 1 .. n : pcm[k] = size + k
  BY <1>2, <1>3, NextSamplesAre DEF HistoryTypes
<1> HIDE DEF pcm
<1>5. /\ more \in Seq(Nat)
      /\ Len(more) = (IF CacheLimit - Len(cache) < n THEN CacheLimit - Len(cache) ELSE n)
      /\ \A k \in 1 .. Len(more) : more[k] = size + k
  <2>1. /\ more \in Seq(Nat)
        /\ Len(more) = IF CacheLimit - Len(cache) < Len(pcm) THEN CacheLimit - Len(cache) ELSE Len(pcm)
        /\ \A k \in 1 .. Len(more) : more[k] = pcm[k]
    BY <1>3, <1>4, PrefixIs
  <2> HIDE DEF more
  <2>2. Len(more) \in Nat /\ Len(more) <= n
    BY <1>3, <1>4, <2>1
  <2>3. QED BY <1>3, <1>4, <2>1, <2>2
<1> HIDE DEF more
<1>6. clip \in Clip /\ clip.offset = size /\ clip.pcm = pcm
  BY <1>3, <1>4 DEF Clip
<1> HIDE DEF clip
<1>7. /\ spool' \in Seq(Nat) /\ Len(spool') = size + n
      /\ \A i \in 1 .. size + n : spool'[i] = IF i <= size THEN spool[i] ELSE pcm[i - size]
  BY <1>2, <1>4, <1>15, ConcatProperties DEF HistoryTypes
<1>8. /\ cache' \in Seq(Nat) /\ Len(cache') = Len(cache) + Len(more)
      /\ \A i \in 1 .. Len(cache) + Len(more) :
           cache'[i] = IF i <= Len(cache) THEN cache[i] ELSE more[i - Len(cache)]
  BY <1>5, <1>15, ConcatProperties DEF HistoryTypes
<1>9. /\ retained' \in Seq(Clip) /\ Len(retained') = Len(retained) + 1
      /\ \A i \in 1 .. Len(retained) : retained'[i] = retained[i]
      /\ retained'[Len(retained) + 1] = clip
  BY <1>6, <1>15, AppendProperties DEF HistoryTypes
<1>10. HistoryTypes' /\ Unfailed'
  BY <1>15, <1>2, <1>3, <1>7, <1>8, <1>9 DEF HistoryTypes, Unfailed
<1>11. SpoolHolds'
  <2>1. ASSUME NEW k \in 1 .. size + n PROVE spool'[k] = k
    <3>1. CASE k <= size
      BY <1>3, <1>7, <3>1 DEF SpoolHolds
    <3>2. CASE k > size
      <4>1. k - size \in 1 .. n /\ spool'[k] = pcm[k - size]
        BY <1>3, <1>7, <3>2
      <4>2. QED BY <1>3, <1>4, <4>1
    <3>3. QED BY <1>3, <3>1, <3>2
  <2>2. QED BY <1>3, <1>7, <1>15, <2>1 DEF SpoolHolds
<1>12. CacheHolds'
  <2>1. Len(more) \in Nat /\ Len(more) <= n /\ Len(cache) + Len(more) <= CacheLimit
    BY <1>3, <1>5
  <2>2. CASE Len(cache) = size
    <3>1. ASSUME NEW k \in 1 .. Len(cache') PROVE cache'[k] = k
      <4>1. CASE k <= Len(cache)
        <5>1. k \in 1 .. Len(cache) /\ cache'[k] = cache[k]
          BY <1>3, <1>8, <2>1, <4>1
        <5>2. QED BY <5>1 DEF CacheHolds
      <4>2. CASE k > Len(cache)
        <5>1. k - Len(cache) \in 1 .. Len(more) /\ cache'[k] = more[k - Len(cache)]
          BY <1>3, <1>8, <2>1, <4>2
        <5>2. QED BY <1>3, <1>5, <2>1, <2>2, <5>1
      <4>3. QED BY <1>3, <4>1, <4>2
    <3>2. Len(cache') = size + n \/ Len(cache') = CacheLimit
      BY <1>3, <1>5, <1>8, <2>2
    <3>3. QED BY <1>3, <1>8, <1>15, <2>1, <2>2, <3>1, <3>2 DEF CacheHolds
  <2>3. CASE Len(cache) # size
    <3>1. Len(cache) = CacheLimit /\ Len(more) = 0
      BY <1>3, <1>5, <2>3 DEF CacheHolds
    <3>2. Len(cache') = CacheLimit /\ \A k \in 1 .. Len(cache') : cache'[k] = cache[k]
      BY <1>3, <1>8, <3>1
    <3>3. QED BY <1>3, <1>15, <3>1, <3>2 DEF CacheHolds
  <2>4. QED BY <2>2, <2>3
<1>13. ClipsHold'
  <2>1. SUFFICES ASSUME NEW i \in 1 .. Len(retained')
                 PROVE  /\ retained'[i].offset + Len(retained'[i].pcm) <= size'
                        /\ \A k \in 1 .. Len(retained'[i].pcm) :
                             retained'[i].pcm[k] = retained'[i].offset + k
    BY DEF ClipsHold
  <2>2. CASE i \in 1 .. Len(retained)
    <3>1. retained[i] \in Clip /\ retained'[i] = retained[i]
      BY <1>9, <2>2, ElementOfSeq DEF HistoryTypes
    <3>2. retained[i].offset \in Nat /\ Len(retained[i].pcm) \in Nat
      BY <3>1, LenProperties DEF Clip
    <3>3. retained[i].offset + Len(retained[i].pcm) <= size
      BY <2>2 DEF ClipsHold
    <3>4. \A k \in 1 .. Len(retained[i].pcm) : retained[i].pcm[k] = retained[i].offset + k
      BY <2>2 DEF ClipsHold
    <3>5. size' \in Nat /\ size <= size'
      BY <1>3, <1>15
    <3>6. retained[i].offset + Len(retained[i].pcm) <= size'
      BY <1>3, <3>2, <3>3, <3>5
    <3>7. QED BY <3>1, <3>4, <3>6
  <2>3. CASE i = Len(retained) + 1
    <3>1. retained'[i].offset = size /\ retained'[i].pcm = pcm
      BY <1>6, <1>9, <2>3
    <3>2. QED BY <1>3, <1>4, <1>15, <3>1
  <2>4. QED BY <1>3, <1>9, <2>2, <2>3
<1>14. QED BY <1>10, <1>11, <1>12, <1>13

LEMMA AppendFailsKeeps == ASSUME HistoryInv, AppendFails PROVE HistoryInv'
<1> USE DEF HistoryInv
<1>0. PICK n \in ClipLengths :
        \E k \in 0 .. n : spool' = spool \o NextSamples(k) /\ samples' = samples + n
  BY DEF AppendFails
<1>1. PICK k \in 0 .. n : spool' = spool \o NextSamples(k) /\ samples' = samples + n
  BY <1>0
<1>2. aborted' = TRUE /\ UNCHANGED <<cache, size, retained>>
  BY DEF AppendFails
<1>3. n \in Nat /\ k \in Nat /\ size \in Nat /\ samples \in Nat /\ Len(spool) \in Nat
  BY <1>1, HistoryBounds, LenProperties DEF HistoryTypes
<1>4. NextSamples(k) \in Seq(Nat) /\ Len(NextSamples(k)) = k
  BY <1>3, NextSamplesAre
<1>5. /\ spool' \in Seq(Nat) /\ Len(spool') = Len(spool) + k
      /\ \A i \in 1 .. Len(spool) + k : i <= Len(spool) => spool'[i] = spool[i]
  BY <1>1, <1>4, ConcatProperties DEF HistoryTypes
<1>6. HistoryTypes' /\ CacheHolds' /\ ClipsHold' /\ Unfailed'
  BY <1>1, <1>2, <1>3, <1>5 DEF HistoryTypes, CacheHolds, ClipsHold, Unfailed
<1>7. SpoolHolds'
  <2>1. ASSUME NEW i \in 1 .. size PROVE spool'[i] = i
    <3>1. spool[i] = i /\ i <= Len(spool) /\ i \in 1 .. Len(spool) + k
      BY <1>3 DEF SpoolHolds
    <3>2. QED BY <1>5, <3>1
  <2>2. QED BY <1>2, <1>3, <1>5, <2>1 DEF SpoolHolds
<1>8. QED BY <1>6, <1>7

LEMMA DropKeeps == ASSUME HistoryInv, DropClips PROVE HistoryInv'
<1> USE DEF HistoryInv
<1>1. /\ retained # <<>> /\ retained' = SubSeq(retained, 1, Len(retained) - 1)
      /\ UNCHANGED <<spool, cache, size, samples, aborted>>
  BY DEF DropClips
<1>2. Len(retained) \in Nat \ {0} /\ \A i \in 1 .. Len(retained) : retained[i] \in Clip
  BY <1>1, EmptySeq, ElementOfSeq DEF HistoryTypes
<1> DEFINE m == Len(retained) - 1
<1>3. m \in Nat /\ m < Len(retained) /\ \A i \in 1 .. m : retained[i] \in Clip
  BY <1>2
<1>4. retained' = SubSeq(retained, 1, m)
  BY <1>1
<1> HIDE DEF m
<1>5. /\ SubSeq(retained, 1, m) \in Seq(Clip)
      /\ Len(SubSeq(retained, 1, m)) = (IF 1 <= m THEN m - 1 + 1 ELSE 0)
      /\ \A i \in 1 .. m - 1 + 1 : SubSeq(retained, 1, m)[i] = retained[1 + i - 1]
  BY <1>3, SubSeqProperties
<1>6. retained' \in Seq(Clip) /\ Len(retained') = m /\ \A i \in 1 .. m : retained'[i] = retained[i]
  BY <1>3, <1>4, <1>5
<1>7. HistoryTypes' /\ SpoolHolds' /\ CacheHolds' /\ Unfailed'
  BY <1>1, <1>6 DEF HistoryTypes, SpoolHolds, CacheHolds, Unfailed
<1>8. ClipsHold'
  <2>1. ASSUME NEW i \in 1 .. Len(retained')
        PROVE  i \in 1 .. Len(retained) /\ retained'[i] = retained[i]
    BY <1>2, <1>3, <1>6
  <2>2. QED BY <1>1, <2>1 DEF ClipsHold
<1>9. QED BY <1>7, <1>8

LEMMA HistoryInvariance == HistoryInit /\ [][HistoryNext]_historyVars => []HistoryInv
<1>1. ASSUME HistoryInv, [HistoryNext]_historyVars PROVE HistoryInv'
  <2>1. CASE UNCHANGED historyVars
    BY <1>1, <2>1 DEF historyVars, HistoryInv, HistoryTypes, SpoolHolds, CacheHolds, ClipsHold, Unfailed
  <2>2. QED BY <1>1, <2>1, AppendKeeps, AppendFailsKeeps, DropKeeps DEF HistoryNext
<1>2. QED BY <1>1, HistoryBegins, PTL

\* What read() returns of the first size_ samples, whether they are in memory,
\* in the file or in both.
LEMMA ReadRangeIs ==
  ASSUME HistoryInv, NEW offset \in Nat, NEW n \in Nat, offset + n <= size
  PROVE  /\ ReadRange(offset, n) \in Seq(Nat) /\ Len(ReadRange(offset, n)) = n
         /\ \A k \in 1 .. n : ReadRange(offset, n)[k] = offset + k
<1> USE DEF HistoryInv
<1>1. /\ size \in Nat /\ Len(spool) \in Nat /\ Len(cache) \in Nat /\ size <= Len(spool)
      /\ Len(cache) <= size
      /\ \A i \in 1 .. size : spool[i] = i
      /\ \A i \in 1 .. Len(cache) : cache[i] = i
  BY LenProperties DEF HistoryTypes, SpoolHolds, CacheHolds
<1> DEFINE tail == SubSeq(cache, offset + 1, Len(cache))
<1>2. /\ tail \in Seq(Nat)
      /\ Len(tail) = IF offset < Len(cache) THEN Len(cache) - offset ELSE 0
      /\ \A i \in 1 .. Len(tail) : tail[i] = offset + i
  <2>1. offset + 1 \in Int /\ Len(cache) \in Int /\ \A i \in offset + 1 .. Len(cache) : cache[i] \in Nat
    BY <1>1
  <2>2. /\ tail \in Seq(Nat)
        /\ Len(tail) = (IF offset + 1 <= Len(cache) THEN Len(cache) - (offset + 1) + 1 ELSE 0)
        /\ \A i \in 1 .. Len(cache) - (offset + 1) + 1 : tail[i] = cache[(offset + 1) + i - 1]
    BY <2>1, SubSeqProperties
  <2> HIDE DEF tail
  <2>3. ASSUME NEW i \in 1 .. Len(tail) PROVE tail[i] = offset + i
    <3>1. /\ i \in 1 .. Len(cache) - (offset + 1) + 1 /\ (offset + 1) + i - 1 = offset + i
          /\ offset + i \in 1 .. Len(cache)
      BY <1>1, <2>2
    <3>2. QED BY <1>1, <2>2, <3>1
  <2>4. QED BY <1>1, <2>2, <2>3
<1> HIDE DEF tail
<1> DEFINE cached == Prefix(tail, n)
           c == Len(cached)
<1>3. /\ cached \in Seq(Nat) /\ c = (IF n < Len(tail) THEN n ELSE Len(tail))
      /\ \A i \in 1 .. c : cached[i] = offset + i
  <2>1. /\ cached \in Seq(Nat) /\ c = (IF n < Len(tail) THEN n ELSE Len(tail))
        /\ \A i \in 1 .. c : cached[i] = tail[i]
    BY <1>2, PrefixIs
  <2>2. Len(tail) \in Nat
    BY <1>2, LenProperties
  <2> HIDE DEF cached
  <2>3. QED BY <1>2, <2>1, <2>2
<1> HIDE DEF cached
<1>4. Len(tail) \in Nat /\ c \in Nat /\ c <= n
  BY <1>2, <1>3, LenProperties
<1> DEFINE rest == SubSeq(spool, offset + c + 1, offset + n)
<1>5. /\ rest \in Seq(Nat) /\ Len(rest) = n - c
      /\ \A i \in 1 .. n - c : rest[i] = offset + c + i
  <2>1. /\ offset + c + 1 \in Int /\ offset + n \in Int
        /\ \A i \in offset + c + 1 .. offset + n : i \in 1 .. size /\ spool[i] \in Nat
    BY <1>1, <1>4
  <2>2. /\ rest \in Seq(Nat)
        /\ Len(rest) = (IF offset + c + 1 <= offset + n
                        THEN (offset + n) - (offset + c + 1) + 1 ELSE 0)
        /\ \A i \in 1 .. (offset + n) - (offset + c + 1) + 1 :
             rest[i] = spool[(offset + c + 1) + i - 1]
    BY <2>1, SubSeqProperties
  <2> HIDE DEF rest, c
  <2>3. Len(rest) = n - c /\ (offset + n) - (offset + c + 1) + 1 = n - c
    BY <1>4, <2>2
  <2>4. ASSUME NEW i \in 1 .. n - c PROVE rest[i] = offset + c + i
    <3>1. (offset + c + 1) + i - 1 = offset + c + i /\ offset + c + i \in 1 .. size
      BY <1>1, <1>4
    <3>2. QED BY <1>1, <2>2, <2>3, <3>1
  <2>5. QED BY <2>2, <2>3, <2>4
<1> HIDE DEF rest
<1>6. ReadRange(offset, n) = cached \o rest
  BY DEF ReadRange, cached, rest, tail, c
<1>7. /\ cached \o rest \in Seq(Nat) /\ Len(cached \o rest) = c + Len(rest)
      /\ \A i \in 1 .. c + Len(rest) :
           (cached \o rest)[i] = IF i <= c THEN cached[i] ELSE rest[i - c]
  BY <1>3, <1>5, ConcatProperties
<1> HIDE DEF c
<1>11. \A k \in 1 .. n : k \in 1 .. c + Len(rest)
  BY <1>4, <1>5
<1>8. Len(cached \o rest) = n
  BY <1>4, <1>5, <1>7
<1>9. ASSUME NEW k \in 1 .. n PROVE (cached \o rest)[k] = offset + k
  <2>1. CASE k <= c
    <3>1. (cached \o rest)[k] = cached[k] /\ k \in 1 .. c
      BY <1>4, <1>7, <1>11, <2>1
    <3>2. QED BY <1>3, <3>1
  <2>2. CASE k > c
    <3>1. (cached \o rest)[k] = rest[k - c] /\ k - c \in 1 .. n - c
      BY <1>4, <1>7, <1>11, <2>2
    <3>2. rest[k - c] = offset + c + (k - c)
      BY <1>5, <3>1
    <3>3. QED BY <1>4, <3>1, <3>2
  <2>3. k <= c \/ k > c
    BY <1>4
  <2>4. QED BY <2>1, <2>2, <2>3
<1>10. QED BY <1>6, <1>7, <1>8, <1>9

\* Whatever the limits of the file and the cache and however long the sentences
\* are, a retained sentence is read back as it was generated, also beside what a
\* failed append left in the file.  (AudioHistory::append, AudioHistory::read.)
THEOREM HistoryReadsBack == HistoryInit /\ [][HistoryNext]_historyVars => []RetainedReadsBack
<1>1. ASSUME HistoryInv PROVE RetainedReadsBack
  <2>1. SUFFICES ASSUME NEW i \in DOMAIN retained
                 PROVE  ReadRange(retained[i].offset, Len(retained[i].pcm)) = retained[i].pcm
    BY DEF RetainedReadsBack
  <2>2. i \in 1 .. Len(retained) /\ retained[i] \in Clip
    BY <1>1, LenProperties, ElementOfSeq DEF HistoryInv, HistoryTypes
  <2> DEFINE offset == retained[i].offset
             pcm == retained[i].pcm
  <2>3. offset \in Nat /\ pcm \in Seq(Nat) /\ Len(pcm) \in Nat
    BY <2>2, LenProperties DEF Clip
  <2>4. offset + Len(pcm) <= size /\ \A k \in 1 .. Len(pcm) : pcm[k] = offset + k
    BY <1>1, <2>2 DEF HistoryInv, ClipsHold
  <2> HIDE DEF offset, pcm
  <2>5. /\ ReadRange(offset, Len(pcm)) \in Seq(Nat) /\ Len(ReadRange(offset, Len(pcm))) = Len(pcm)
        /\ \A k \in 1 .. Len(pcm) : ReadRange(offset, Len(pcm))[k] = offset + k
    BY <1>1, <2>3, <2>4, ReadRangeIs
  <2>6. ReadRange(offset, Len(pcm)) = pcm
    BY <2>3, <2>4, <2>5, SeqEqual
  <2>7. QED BY <2>6 DEF offset, pcm
<1>2. QED BY <1>1, HistoryInvariance, PTL

-----------------------------------------------------------------------------
(* Which model speaks a text.                                              *)

\* The profile of the language a request is in, and its fallback.
Primary == asked.defaults[RequestLanguage]
Spare == asked.fallbacks[Primary]
ByProfile ==
  /\ asked.by \notin {"runner", "model"}
  /\ RequestLanguage \in DOMAIN asked.defaults
  /\ Primary \in Profiles

Usable(m) == m \in installed /\ m \in loadable

SelectionTypes ==
  /\ installed \subseteq Profiles
  /\ asked.letters \in Letters /\ asked.defaults \in Defaults /\ asked.fallbacks \in Fallbacks
  /\ stage \in {"asked", "resolved", "spoken", "failed", "broken"}

\* The model that stands for the request as it was made, and the fallback of
\* the language's profile, tried when that profile can no longer serve.
FirstChoice ==
  \/ asked.by = "runner" /\ choice = Chosen(Own, NoName, NoName)
  \/ asked.by = "model" /\ asked.name \in Profiles /\ choice = Chosen(asked.name, NoName, NoName)
  \/ /\ asked.by \notin {"runner", "model", "language"} /\ RequestLanguage \notin DOMAIN asked.defaults
     /\ choice = Chosen(Stub, NoName, NoName)
  \/ ByProfile /\ choice = Chosen(Primary, Primary, Spare)
SpareChoice ==
  ByProfile /\ Spare \in Profiles \ {Primary} /\ choice = Chosen(Spare, Primary, NoName) /\ ~Usable(Primary)

Tried ==
  CASE stage = "asked" -> loads = <<>>
    [] stage = "resolved" -> \/ loads = <<>> /\ (FirstChoice \/ SpareChoice)
                             \/ loads = <<Primary>> /\ SpareChoice
    [] OTHER -> /\ loads = <<>> \/ (\E m : loads = <<m>>) \/ (\E m, n : m # n /\ loads = <<m, n>>)
                /\ stage = "spoken" => FirstChoice \/ SpareChoice
                /\ stage = "failed" /\ ByProfile => ~Usable(Primary) /\ ~(Spare \in Profiles /\ Usable(Spare))

SelectionInv == SelectionTypes /\ Tried

LEMMA ProfilesAreNamed ==
  /\ NoName \notin Profiles /\ Stub \notin Profiles /\ Own \notin Profiles /\ "unknown" \notin Profiles
  /\ \A f \in Fallbacks : \A p \in Profiles : f[p] \in Profiles \union {NoName, "unknown"}
BY SelectionAssumption

LEMMA ChosenIs ==
  ASSUME NEW m, NEW p, NEW f
  PROVE  /\ Chosen(m, p, f).model = m /\ Chosen(m, p, f).profile = p /\ Chosen(m, p, f).fallback = f
         /\ Chosen(m, p, f) = Refused => m = NoName
BY DEF Chosen, Refused

LEMMA SelectionBegins == ASSUME SelectionInit PROVE SelectionInv
<1>1. PICK r \in Requests, l \in Letters, d \in Defaults, f \in Fallbacks :
        asked = [by |-> r.by, name |-> r.name, letters |-> l, defaults |-> d, fallbacks |-> f]
  BY DEF SelectionInit
<1>2. SelectionTypes
  BY <1>1 DEF SelectionInit, SelectionTypes
<1>3. QED BY <1>2 DEF SelectionInit, SelectionInv, Tried

\* The fallback of the language's profile is chosen as long as it is there.
LEMMA FallbackIs ==
  ASSUME SelectionTypes, ByProfile, ~Usable(Primary), NEW next, next = FallbackOf(Primary)
  PROVE  /\ next = Refused => ~(Spare \in Profiles /\ Usable(Spare))
         /\ next # Refused => Spare \in Profiles \ {Primary} /\ next = Chosen(Spare, Primary, NoName)
<1>1. FallbackOf(Primary) = IF Spare \in Profiles \ {Primary} /\ Spare \in installed
                            THEN Chosen(Spare, Primary, NoName) ELSE Refused
  BY DEF FallbackOf, Spare
<1>2. CASE Spare \in Profiles \ {Primary} /\ Spare \in installed
  BY <1>1, <1>2, ChosenIs, ProfilesAreNamed
<1>3. CASE ~(Spare \in Profiles \ {Primary} /\ Spare \in installed)
  BY <1>1, <1>3 DEF Usable
<1>4. QED BY <1>2, <1>3

\* What is asked for never changes, nor what follows from it alone.
LEMMA AskedStays ==
  ASSUME UNCHANGED asked
  PROVE  /\ RequestLanguage' = RequestLanguage /\ Primary' = Primary /\ Spare' = Spare
         /\ ByProfile' = ByProfile
<1>1. RequestLanguage' = RequestLanguage
  BY DEF RequestLanguage, ScriptLanguage, Dominant
<1>2. Primary' = Primary
  BY <1>1 DEF Primary
<1>3. QED BY <1>1, <1>2 DEF Spare, ByProfile

LEMMA ResolveKeeps == ASSUME SelectionInv, Resolve PROVE SelectionInv'
<1> USE DEF SelectionInv
<1>1. /\ stage = "asked" /\ loads = <<>> /\ choice' = Resolved
      /\ stage' = (IF Resolved = Refused THEN "failed" ELSE "resolved")
      /\ UNCHANGED <<asked, installed, loadable, loads>>
  BY DEF Resolve, Choose, Tried
<1>2. SelectionTypes'
  BY <1>1 DEF SelectionTypes
<1>3. /\ RequestLanguage' = RequestLanguage /\ Primary' = Primary /\ Spare' = Spare
      /\ ByProfile' = ByProfile
  BY <1>1, AskedStays
<1>4. /\ Resolved # Refused => (FirstChoice \/ SpareChoice)'
      /\ Resolved = Refused /\ ByProfile => ~Usable(Primary) /\ ~(Spare \in Profiles /\ Usable(Spare))
  <2>1. CASE asked.by = "runner"
    <3>1. Resolved = Chosen(Own, NoName, NoName) /\ ~ByProfile
      BY <2>1 DEF Resolved, ByProfile
    <3>2. QED BY <1>1, <2>1, <3>1, ChosenIs DEF FirstChoice, Own, NoName
  <2>2. CASE asked.by = "model"
    <3>1. /\ Resolved = (IF asked.name \in installed THEN Chosen(asked.name, NoName, NoName) ELSE Refused)
          /\ ~ByProfile
      BY <2>2 DEF Resolved, ByProfile
    <3>2. QED BY <1>1, <2>2, <3>1 DEF FirstChoice, SelectionTypes
  <2>3. CASE asked.by \notin {"runner", "model"}
    <3>1. Resolved = IF RequestLanguage \in DOMAIN asked.defaults THEN ProfileChoice(Primary)
                     ELSE IF asked.by = "language" THEN Refused ELSE Chosen(Stub, NoName, NoName)
      BY <2>3 DEF Resolved, Primary
    <3>2. CASE RequestLanguage \notin DOMAIN asked.defaults
      BY <1>1, <1>3, <2>3, <3>1, <3>2 DEF FirstChoice, ByProfile
    <3>3. CASE RequestLanguage \in DOMAIN asked.defaults /\ Primary \notin Profiles
      <4>1. Resolved = Refused /\ ~ByProfile
        BY <3>1, <3>3 DEF ProfileChoice, ByProfile
      <4>2. QED BY <4>1
    <3>4. CASE RequestLanguage \in DOMAIN asked.defaults /\ Primary \in Profiles
      <4>1. ByProfile
        BY <2>3, <3>4 DEF ByProfile
      <4>2. CASE Primary \in installed
        <5>1. Resolved = Chosen(Primary, Primary, Spare) /\ Resolved # Refused
          <6>1. Resolved = Chosen(Primary, Primary, Spare)
            BY <3>1, <3>4, <4>2 DEF ProfileChoice, Spare
          <6>2. QED BY <3>4, <6>1, ChosenIs, ProfilesAreNamed
        <5>2. QED BY <1>1, <1>3, <4>1, <5>1 DEF FirstChoice
      <4>3. CASE Primary \notin installed /\ Spare = NoName
        <5>1. Resolved = Refused
          BY <3>1, <3>4, <4>3 DEF ProfileChoice, Spare
        <5>2. QED BY <4>3, <5>1, ProfilesAreNamed DEF Usable
      <4>4. CASE Primary \notin installed /\ Spare # NoName
        <5>1. Resolved = FallbackOf(Primary) /\ ~Usable(Primary)
          BY <3>1, <3>4, <4>4 DEF ProfileChoice, Spare, Usable
        <5>2. /\ Resolved = Refused => ~(Spare \in Profiles /\ Usable(Spare))
              /\ Resolved # Refused => /\ Spare \in Profiles \ {Primary}
                                       /\ Resolved = Chosen(Spare, Primary, NoName)
          BY <4>1, <5>1, FallbackIs
        <5>3. (~Usable(Primary))'
          BY <1>1, <1>3, <5>1 DEF Usable
        <5>4. QED BY <1>1, <1>3, <4>1, <5>1, <5>2, <5>3 DEF SpareChoice
      <4>5. QED BY <4>2, <4>3, <4>4
    <3>5. QED BY <3>2, <3>3, <3>4
  <2>4. QED BY <2>1, <2>2, <2>3
<1>5. Tried'
  <2>1. CASE Resolved = Refused
    <3>1. ByProfile' => (~Usable(Primary))' /\ (~(Spare \in Profiles /\ Usable(Spare)))'
      BY <1>1, <1>3, <1>4, <2>1 DEF Usable
    <3>2. loads' = <<>> /\ stage' = "failed"
      BY <1>1, <2>1
    <3>3. QED BY <3>1, <3>2 DEF Tried
  <2>2. CASE Resolved # Refused
    BY <1>1, <1>4, <2>2 DEF Tried
  <2>3. QED BY <2>1, <2>2
<1>6. QED BY <1>2, <1>5

LEMMA PairOf == \A a, b : Append(<<a>>, b) = <<a, b>>
<1>1. SUFFICES ASSUME NEW a, NEW b PROVE Append(<<a>>, b) = <<a, b>>
  OBVIOUS
<1> DEFINE S == {a, b}
<1>2. <<a>> \in Seq(S) /\ b \in S /\ Len(<<a>>) = 1 /\ <<a>>[1] = a
  OBVIOUS
<1>3. <<a, b>> \in Seq(S) /\ Len(<<a, b>>) = 2 /\ <<a, b>>[1] = a /\ <<a, b>>[2] = b
  OBVIOUS
<1> HIDE DEF S
<1>4. /\ Append(<<a>>, b) \in Seq(S) /\ Len(Append(<<a>>, b)) = 2
      /\ Append(<<a>>, b)[1] = a /\ Append(<<a>>, b)[2] = b
  BY <1>2, AppendProperties
<1>5. \A i \in 1 .. 2 : i = 1 \/ i = 2
  OBVIOUS
<1>6. QED BY <1>3, <1>4, <1>5, SeqEqual

\* The loads of a request that is over, after the one that ended it.
LEMMA OneMoreLoad ==
  ASSUME SelectionInv, stage = "resolved", loads' = Append(loads, choice.model)
  PROVE  (\E m : loads' = <<m>>) \/ (\E m, n : m # n /\ loads' = <<m, n>>)
<1>1. CASE loads = <<>>
  BY <1>1
<1>2. CASE loads = <<Primary>> /\ SpareChoice
  <2>1. choice.model = Spare /\ Spare # Primary
    BY <1>2, ChosenIs DEF SpareChoice
  <2>2. loads' = <<Primary, Spare>>
    BY <1>2, <2>1, PairOf
  <2>3. QED BY <2>1, <2>2
<1>3. QED BY <1>1, <1>2 DEF SelectionInv, Tried

LEMMA EndKeeps == ASSUME SelectionInv, Speak \/ Break PROVE SelectionInv'
<1>1. /\ stage = "resolved" /\ loads' = Append(loads, choice.model) /\ stage' \in {"spoken", "broken"}
      /\ UNCHANGED <<asked, installed, loadable, choice>>
  BY DEF Speak, Break, Trying
<1>2. SelectionTypes'
  BY <1>1 DEF SelectionInv, SelectionTypes
<1>3. /\ RequestLanguage' = RequestLanguage /\ Primary' = Primary /\ Spare' = Spare
      /\ ByProfile' = ByProfile
  BY <1>1, AskedStays
<1>4. FirstChoice \/ SpareChoice
  BY <1>1 DEF SelectionInv, Tried
<1>5. (FirstChoice \/ SpareChoice)'
  BY <1>1, <1>3, <1>4 DEF FirstChoice, SpareChoice, Usable
<1>6. (\E m : loads' = <<m>>) \/ (\E m, n : m # n /\ loads' = <<m, n>>)
  BY <1>1, OneMoreLoad
<1>7. Tried'
  BY <1>1, <1>5, <1>6 DEF Tried
<1>8. QED BY <1>2, <1>7 DEF SelectionInv

LEMMA RejectKeeps == ASSUME SelectionInv, Reject PROVE SelectionInv'
<1>1. /\ stage = "resolved" /\ loads' = Append(loads, choice.model) /\ ~Loads(choice.model) /\ Rejected
      /\ UNCHANGED <<asked, installed, loadable>>
  BY DEF Reject, Trying
<1>2. SelectionTypes /\ (FirstChoice \/ SpareChoice)
  BY <1>1 DEF SelectionInv, Tried
<1>3. /\ RequestLanguage' = RequestLanguage /\ Primary' = Primary /\ Spare' = Spare
      /\ ByProfile' = ByProfile
  BY <1>1, AskedStays
<1>4. (\E m : loads' = <<m>>) \/ (\E m, n : m # n /\ loads' = <<m, n>>)
  BY <1>1, OneMoreLoad
<1>5. ~Usable(choice.model)
  BY <1>1 DEF Loads, Usable
<1>6. CASE choice.fallback = NoName
  <2>1. stage' = "failed"
    BY <1>1, <1>6 DEF Rejected, Choose
  <2>2. ByProfile => ~Usable(Primary) /\ ~(Spare \in Profiles /\ Usable(Spare))
    <3>1. SUFFICES ASSUME ByProfile PROVE ~Usable(Primary) /\ ~(Spare \in Profiles /\ Usable(Spare))
      OBVIOUS
    <3>2. CASE SpareChoice
      BY <1>5, <3>2, ChosenIs DEF SpareChoice
    <3>3. CASE FirstChoice
      <4>1. choice = Chosen(Primary, Primary, Spare)
        BY <3>1, <3>3 DEF FirstChoice, ByProfile
      <4>2. choice.model = Primary /\ choice.fallback = Spare
        BY <4>1, ChosenIs
      <4>3. QED BY <1>5, <1>6, <4>2, ProfilesAreNamed
    <3>4. QED BY <1>2, <3>2, <3>3
  <2>3. (ByProfile => ~Usable(Primary) /\ ~(Spare \in Profiles /\ Usable(Spare)))'
    BY <1>1, <1>3, <2>2 DEF Usable
  <2>4. Tried'
    BY <1>4, <2>1, <2>3 DEF Tried
  <2>5. SelectionTypes'
    BY <1>1, <1>2, <2>1 DEF SelectionTypes
  <2>6. QED BY <2>4, <2>5 DEF SelectionInv
<1>7. CASE choice.fallback # NoName
  <2>1. ByProfile /\ choice = Chosen(Primary, Primary, Spare)
    BY <1>2, <1>7, ChosenIs DEF FirstChoice, SpareChoice
  <2>2. choice.model = Primary /\ choice.profile = Primary
    BY <2>1, ChosenIs
  <2>3. ~Usable(Primary)
    BY <1>5, <2>2
  <2> DEFINE next == FallbackOf(Primary)
  <2>4. choice' = next /\ stage' = IF next = Refused THEN "failed" ELSE "resolved"
    BY <1>1, <1>7, <2>2 DEF Rejected, Choose
  <2>5. /\ next = Refused => ~(Spare \in Profiles /\ Usable(Spare))
        /\ next # Refused => Spare \in Profiles \ {Primary} /\ next = Chosen(Spare, Primary, NoName)
    BY <1>2, <2>1, <2>3, FallbackIs
  <2> HIDE DEF next
  <2>6. (~Usable(Primary))' /\ (Spare \in Profiles /\ Usable(Spare))' = (Spare \in Profiles /\ Usable(Spare))
    BY <1>1, <1>3, <2>3 DEF Usable
  <2>7. SelectionTypes'
    BY <1>1, <1>2, <2>4 DEF SelectionTypes
  <2>8. CASE next = Refused
    <3>1. stage' = "failed"
      BY <2>4, <2>8
    <3>2. (ByProfile => ~Usable(Primary) /\ ~(Spare \in Profiles /\ Usable(Spare)))'
      BY <2>5, <2>6, <2>8
    <3>3. Tried'
      BY <1>4, <3>1, <3>2 DEF Tried
    <3>4. QED BY <2>7, <3>3 DEF SelectionInv
  <2>9. CASE next # Refused
    <3>1. SpareChoice'
      BY <1>3, <2>1, <2>4, <2>5, <2>6, <2>9 DEF SpareChoice
    <3>2. loads' = <<Primary>>
      <4>1. loads = <<>>
        <5>1. ~SpareChoice
          BY <1>7, ChosenIs DEF SpareChoice
        <5>2. QED BY <1>1, <5>1 DEF SelectionInv, Tried
      <4>2. QED BY <1>1, <2>2, <4>1
    <3>3. Tried'
      BY <1>3, <2>4, <2>9, <3>1, <3>2 DEF Tried
    <3>4. QED BY <2>7, <3>3 DEF SelectionInv
  <2>10. QED BY <2>8, <2>9
<1>8. QED BY <1>6, <1>7

LEMMA LostKeeps == ASSUME SelectionInv, PackageLost PROVE SelectionInv'
<1>1. /\ stage = "resolved" /\ stage' = "resolved" /\ installed' \subseteq installed /\ loadable' \subseteq loadable
      /\ UNCHANGED <<asked, choice, loads>>
  BY DEF PackageLost
<1>2. /\ RequestLanguage' = RequestLanguage /\ Primary' = Primary /\ Spare' = Spare
      /\ ByProfile' = ByProfile
  BY <1>1, AskedStays
<1>3. FirstChoice' = FirstChoice /\ (SpareChoice => SpareChoice')
  BY <1>1, <1>2 DEF FirstChoice, SpareChoice, Usable
<1>4. Tried'
  BY <1>1, <1>2, <1>3 DEF SelectionInv, Tried
<1>5. SelectionTypes'
  BY <1>1 DEF SelectionInv, SelectionTypes
<1>6. QED BY <1>4, <1>5 DEF SelectionInv

LEMMA SelectionInvariance == SelectionInit /\ [][SelectionNext]_selectionVars => []SelectionInv
<1>1. ASSUME SelectionInv, [SelectionNext]_selectionVars PROVE SelectionInv'
  <2>1. CASE UNCHANGED selectionVars
    <3>1. UNCHANGED <<asked, installed, loadable, stage, choice, loads>>
      BY <2>1 DEF selectionVars
    <3>2. /\ RequestLanguage' = RequestLanguage /\ Primary' = Primary /\ Spare' = Spare
          /\ ByProfile' = ByProfile
      BY <3>1, AskedStays
    <3>3. FirstChoice' = FirstChoice /\ SpareChoice' = SpareChoice
      BY <3>1, <3>2 DEF FirstChoice, SpareChoice, Usable
    <3>4. Tried'
      BY <1>1, <3>1, <3>2, <3>3 DEF SelectionInv, Tried, Usable
    <3>5. SelectionTypes'
      BY <1>1, <3>1 DEF SelectionInv, SelectionTypes
    <3>6. QED BY <3>4, <3>5 DEF SelectionInv
  <2>2. QED
    BY <1>1, <2>1, ResolveKeeps, EndKeeps, RejectKeeps, LostKeeps DEF SelectionNext
<1>2. QED BY <1>1, SelectionBegins, PTL

\* The script that decides is the one most letters are of.
LEMMA ScriptIsMajority ==
  ASSUME NEW letters \in Letters, ScriptLanguage(letters) # NoName
  PROVE  /\ ScriptLanguage(letters) \in DOMAIN letters
         /\ \A t \in DOMAIN letters \ {ScriptLanguage(letters)} :
              letters[ScriptLanguage(letters)] > letters[t]
<1> DEFINE most == {s \in Dominant(letters) : letters[s] > 0}
<1>1. IsFiniteSet(DOMAIN letters) /\ \A s \in DOMAIN letters : letters[s] \in Nat
  BY SelectionAssumption
<1>2. most \subseteq DOMAIN letters
  BY DEF Dominant
<1>3. ScriptLanguage(letters) = IF Cardinality(most) # 1 THEN NoName ELSE CHOOSE s \in most : TRUE
  BY DEF ScriptLanguage
<1>4. IsFiniteSet(most) /\ Cardinality(most) = 1
  BY <1>1, <1>2, <1>3, FS_Subset
<1>5. PICK s : most = {s}
  BY <1>4, FS_Singleton
<1>6. ScriptLanguage(letters) = s
  BY <1>3, <1>4, <1>5
<1>7. s \in DOMAIN letters /\ letters[s] > 0 /\ \A t \in DOMAIN letters : letters[s] >= letters[t]
  BY <1>5 DEF Dominant
<1>8. ASSUME NEW t \in DOMAIN letters \ {s}, letters[t] = letters[s] PROVE FALSE
  <2>1. t \in Dominant(letters) /\ letters[t] > 0
    BY <1>7, <1>8 DEF Dominant
  <2>2. QED BY <1>5, <1>8, <2>1
<1>9. \A t \in DOMAIN letters \ {s} : letters[s] > letters[t]
  BY <1>1, <1>7, <1>8
<1>10. QED BY <1>6, <1>7, <1>9

\* For every set of profiles, defaults and fallbacks, however the fallbacks point
\* at each other and whatever is deleted meanwhile: a request loads two models at
\* most and neither twice, what speaks is what was asked for in its language, and
\* a request fails only when neither its profile nor the fallback can serve it.
\* (resolve_selection, resolve_fallback, the for(;;) of run_synthesis.)
THEOREM SelectionStaysFaithful == SelectionInit /\ [][SelectionNext]_selectionVars => []SelectionIsFaithful
<1>1. ASSUME SelectionInv PROVE FallbacksEnd
  <2>1. loads = <<>> \/ (\E m : loads = <<m>>) \/ (\E m, n : m # n /\ loads = <<m, n>>)
    BY <1>1 DEF SelectionInv, Tried
  <2>2. CASE loads = <<>>
    BY <2>2 DEF FallbacksEnd, IsInjective
  <2>3. CASE \E m : loads = <<m>>
    BY <2>3 DEF FallbacksEnd, IsInjective
  <2>4. CASE \E m, n : m # n /\ loads = <<m, n>>
    BY <2>4 DEF FallbacksEnd, IsInjective
  <2>5. QED BY <2>1, <2>2, <2>3, <2>4
<1>2. ASSUME SelectionInv PROVE SpokenAsAsked
  <2>1. SUFFICES ASSUME stage = "spoken" PROVE SpokenAsAsked
    BY DEF SpokenAsAsked
  <2> DEFINE m == choice.model
             served(language) ==
               /\ language \in DOMAIN asked.defaults
               /\ \/ m = asked.defaults[language]
                  \/ /\ asked.defaults[language] \in Profiles
                     /\ m = asked.fallbacks[asked.defaults[language]]
             majority(s) == \A t \in DOMAIN asked.letters \ {s} : asked.letters[s] > asked.letters[t]
  <2>2. FirstChoice \/ SpareChoice
    BY <1>2, <2>1 DEF SelectionInv, Tried
  <2>3. CASE asked.by = "runner"
    <3>1. m = Own
      BY <2>2, <2>3, ChosenIs DEF FirstChoice, SpareChoice, ByProfile
    <3>2. QED BY <2>3, <3>1 DEF SpokenAsAsked
  <2>4. CASE asked.by = "model"
    <3>1. m = asked.name
      BY <2>2, <2>4, ChosenIs DEF FirstChoice, SpareChoice, ByProfile
    <3>2. QED BY <2>4, <3>1 DEF SpokenAsAsked
  <2>5. ASSUME ByProfile PROVE served(RequestLanguage) /\ m \in Profiles
    <3>1. m = Primary \/ (m = Spare /\ Spare \in Profiles)
      <4>1. CASE SpareChoice
        BY <4>1, ChosenIs DEF SpareChoice
      <4>2. CASE FirstChoice
        BY <2>5, <4>2, ChosenIs DEF FirstChoice, ByProfile
      <4>3. QED BY <2>2, <4>1, <4>2
    <3>2. QED BY <2>5, <3>1 DEF ByProfile, Primary, Spare
  <2>6. CASE asked.by = "language"
    <3>1. ByProfile /\ RequestLanguage = asked.name
      BY <2>2, <2>6 DEF FirstChoice, SpareChoice, RequestLanguage
    <3>2. served(asked.name)
      BY <2>5, <3>1
    <3>3. QED BY <2>6, <3>2 DEF SpokenAsAsked
  <2>7. CASE asked.by \notin {"runner", "model", "language"}
    <3> DEFINE script == ScriptLanguage(asked.letters)
    <3>1. RequestLanguage = IF script # NoName /\ script \in DOMAIN asked.defaults THEN script ELSE "en"
      BY <2>7 DEF RequestLanguage
    <3>2. CASE ByProfile
      <4>1. served(RequestLanguage) /\ m # Stub
        BY <2>5, <3>2, ProfilesAreNamed
      <4>2. RequestLanguage # "en" => RequestLanguage \in DOMAIN asked.letters /\ majority(RequestLanguage)
        <5>1. asked.letters \in Letters
          BY <1>2 DEF SelectionInv, SelectionTypes
        <5>2. QED BY <3>1, <5>1, ScriptIsMajority
      <4>3. served("en") \/ \E s \in DOMAIN asked.letters : majority(s) /\ served(s)
        BY <4>1, <4>2
      <4>4. QED BY <2>7, <4>1, <4>3 DEF SpokenAsAsked
    <3>3. CASE ~ByProfile
      <4>1. m = Stub /\ RequestLanguage \notin DOMAIN asked.defaults
        BY <2>2, <2>7, <3>3, ChosenIs DEF FirstChoice, SpareChoice
      <4>2. "en" \notin DOMAIN asked.defaults
        BY <3>1, <4>1
      <4>3. QED BY <2>7, <4>1, <4>2 DEF SpokenAsAsked
    <3>4. QED BY <3>2, <3>3
  <2>8. QED BY <2>3, <2>4, <2>6, <2>7
<1>3. ASSUME SelectionInv PROVE FailureIsReal
  BY <1>3 DEF FailureIsReal, SelectionInv, Tried, ByProfile, Primary, Spare, Usable
<1>4. QED BY <1>1, <1>2, <1>3, SelectionInvariance, PTL DEF SelectionIsFaithful

-----------------------------------------------------------------------------
(* How a package comes into a model directory.                             *)

DownSteps == {"files", "fetch", "verify", "manifest", "move"}
Steps == DownSteps \union {"none", "failed", "clear", "copy", "place"}
AllFiles == UNION {DOMAIN Pinned[r] : r \in DOMAIN Pinned}
Attempts == [pc : Steps, left : SUBSET AllFiles, file : AllFiles \union {"none"}, resume : Nat]

DeliveryTypes ==
  /\ catalogue \in DOMAIN Pinned
  /\ \A f \in DOMAIN downloading : downloading[f] \in Seq(Nat)
  /\ attempt \in Attempts
  /\ faults \in Nat /\ history \in [stale : Nat, faults : Nat]

AsPinned(f) == f \in DOMAIN downloading /\ downloading[f] = Entry[f]
AtFile == attempt.pc \in {"fetch", "verify"}

\* What was staged in this attempt is on disk as pinned.
Staged ==
  attempt.pc \in DownSteps =>
    /\ attempt.left \subseteq DOMAIN Entry
    /\ AtFile => attempt.file \in DOMAIN Entry
    /\ attempt.pc \in {"manifest", "move"} => attempt.left = {}
    /\ \A f \in DOMAIN Entry \ attempt.left : AsPinned(f) \/ (AtFile /\ f = attempt.file)

\* A fetch resumes after what is there, and only a file that is too short.
Fetching ==
  attempt.pc = "fetch" =>
    /\ attempt.resume < Len(Entry[attempt.file])
    /\ attempt.resume =
         IF /\ attempt.file \in DOMAIN downloading
            /\ Len(downloading[attempt.file]) <= Len(Entry[attempt.file])
         THEN Len(downloading[attempt.file]) ELSE 0

Verifying ==
  attempt.pc = "verify" =>
    attempt.file \in DOMAIN downloading /\ Len(downloading[attempt.file]) = Len(Entry[attempt.file])

\* Without a fault an attempt adds no file that cannot be completed.
Cost == attempt.pc \in DownSteps /\ history.faults = 0 => Cardinality(StaleFiles) <= history.stale

Importing ==
  /\ attempt.pc = "copy" /\ history.faults = 0 => importing = NoFiles
  /\ attempt.pc = "place" =>
       \A f \in DOMAIN Unpacked : f \in DOMAIN importing /\ importing[f] = Unpacked[f]

DeliveryInv ==
  /\ DeliveryTypes
  /\ Staged /\ Fetching /\ Verifying /\ Cost /\ Importing
  /\ InstalledIsWhole /\ AttemptsHelp

\* The files and bytes of a catalogue entry.
LEMMA EntryIs ==
  ASSUME DeliveryTypes
  PROVE  /\ IsFiniteSet(DOMAIN Entry) /\ DOMAIN Entry \subseteq AllFiles
         /\ \A f \in DOMAIN Entry : Entry[f] \in Seq(Nat) /\ Len(Entry[f]) \in Nat /\ Len(Entry[f]) > 0
<1>1. catalogue \in DOMAIN Pinned /\ Entry = Pinned[catalogue]
  BY DEF DeliveryTypes, Entry
<1>2. \A f \in DOMAIN Entry : Entry[f] \in Seq(Nat) /\ Len(Entry[f]) > 0
  BY <1>1, DeliveryBounds
<1>3. IsFiniteSet(DOMAIN Entry) /\ DOMAIN Entry \subseteq AllFiles
  BY <1>1, DeliveryBounds DEF AllFiles
<1>4. QED BY <1>2, <1>3, LenProperties

LEMMA StaleIs ==
  ASSUME DeliveryTypes
  PROVE  IsFiniteSet(StaleFiles) /\ Cardinality(StaleFiles) \in Nat
<1>1. StaleFiles \subseteq DOMAIN Entry
  BY DEF StaleFiles
<1>2. QED BY <1>1, EntryIs, FS_Subset, FS_CardinalityType

\* Laying files over a folder.
LEMMA OverIs ==
  ASSUME NEW new, NEW old
  PROVE  /\ DOMAIN Over(new, old) = DOMAIN new \union DOMAIN old
         /\ \A f \in DOMAIN new : Over(new, old)[f] = new[f]
         /\ \A f \in DOMAIN old \ DOMAIN new : Over(new, old)[f] = old[f]
BY DEF Over

LEMMA LeftIs ==
  ASSUME NEW folder, NEW after \in Left(folder)
  PROVE  DOMAIN after \subseteq DOMAIN folder /\ \A f \in DOMAIN after : after[f] = folder[f]
BY DEF Left, Restrict

LEMMA Went ==
  ASSUME attempt \in Attempts, NEW pc \in Steps, Go(pc)
  PROVE  /\ attempt' \in Attempts /\ attempt'.pc = pc
         /\ attempt'.left = attempt.left /\ attempt'.file = attempt.file
         /\ attempt'.resume = attempt.resume
BY DEF Go, Attempts

LEMMA Faulted ==
  ASSUME DeliveryTypes, NEW wrong, FaultIf(wrong)
  PROVE  /\ faults' \in Nat /\ history' \in [stale : Nat, faults : Nat]
         /\ history'.stale = history.stale
         /\ history'.faults = 0 => history.faults = 0 /\ ~wrong
BY DEF DeliveryTypes, FaultIf, Fault, NoFault

\* An attempt that fails with a fault owes nothing.
LEMMA FailsKeep ==
  ASSUME DeliveryInv, DeliveryTypes', attempt'.pc = "failed", history'.faults # 0, UNCHANGED delivered
  PROVE  DeliveryInv'
BY DEF DeliveryInv, Staged, Fetching, Verifying, Cost, Importing, InstalledIsWhole, AttemptsHelp, DownSteps

\* One sequence completed with the rest of another.
LEMMA Completed ==
  ASSUME NEW s \in Seq(Nat), NEW t \in Seq(Nat), Len(s) <= Len(t), NEW b,
         b = s \o SubSeq(t, Len(s) + 1, Len(t))
  PROVE  /\ b \in Seq(Nat) /\ Len(b) = Len(t)
         /\ IsPrefix(s, t) => b = t
<1>1. Len(s) \in Nat /\ Len(t) \in Nat /\ \A i \in 1 .. Len(t) : t[i] \in Nat
  BY LenProperties, ElementOfSeq
<1> DEFINE r == SubSeq(t, Len(s) + 1, Len(t))
<1>2. /\ r \in Seq(Nat) /\ Len(r) = Len(t) - Len(s)
      /\ \A i \in 1 .. Len(r) : r[i] = t[Len(s) + i]
  <2>1. /\ Len(s) + 1 \in Int /\ Len(t) \in Int /\ \A i \in Len(s) + 1 .. Len(t) : t[i] \in Nat
    BY <1>1
  <2>2. /\ r \in Seq(Nat)
        /\ Len(r) = (IF Len(s) + 1 <= Len(t) THEN Len(t) - (Len(s) + 1) + 1 ELSE 0)
        /\ \A i \in 1 .. Len(t) - (Len(s) + 1) + 1 : r[i] = t[(Len(s) + 1) + i - 1]
    BY <2>1, SubSeqProperties
  <2> HIDE DEF r
  <2>3. Len(r) = Len(t) - Len(s)
    BY <1>1, <2>2
  <2>4. ASSUME NEW i \in 1 .. Len(r) PROVE r[i] = t[Len(s) + i]
    <3>1. i \in 1 .. Len(t) - (Len(s) + 1) + 1 /\ (Len(s) + 1) + i - 1 = Len(s) + i
      BY <1>1, <2>3
    <3>2. QED BY <2>2, <3>1
  <2>5. QED BY <2>2, <2>3, <2>4
<1> HIDE DEF r
<1>3. b = s \o r
  BY DEF r
<1>4. /\ b \in Seq(Nat) /\ Len(b) = Len(s) + Len(r)
      /\ \A i \in 1 .. Len(s) + Len(r) : b[i] = IF i <= Len(s) THEN s[i] ELSE r[i - Len(s)]
  <2>1. /\ s \o r \in Seq(Nat) /\ Len(s \o r) = Len(s) + Len(r)
        /\ \A i \in 1 .. Len(s) + Len(r) : (s \o r)[i] = IF i <= Len(s) THEN s[i] ELSE r[i - Len(s)]
    BY <1>2, ConcatProperties
  <2>2. QED BY <1>3, <2>1
<1>5. Len(b) = Len(t)
  BY <1>1, <1>2, <1>4
<1>6. ASSUME IsPrefix(s, t) PROVE b = t
  <2>1. \A i \in 1 .. Len(s) : s[i] = t[i]
    <3>1. SubSeq(s, 1, Len(s)) = SubSeq(t, 1, Len(s))
      BY <1>6 DEF IsPrefix
    <3>2. \A i \in 1 .. Len(s) : SubSeq(s, 1, Len(s))[i] = s[i]
      <4>1. \A i \in 1 .. Len(s) : s[i] \in Nat
        BY ElementOfSeq
      <4>2. \A i \in 1 .. Len(s) - 1 + 1 : SubSeq(s, 1, Len(s))[i] = s[1 + i - 1]
        BY <1>1, <4>1, SubSeqProperties
      <4>3. \A i \in 1 .. Len(s) : i \in 1 .. Len(s) - 1 + 1 /\ 1 + i - 1 = i
        BY <1>1
      <4>4. QED BY <4>2, <4>3
    <3>3. \A i \in 1 .. Len(s) : SubSeq(t, 1, Len(s))[i] = t[i]
      <4>1. \A i \in 1 .. Len(s) : t[i] \in Nat
        BY <1>1
      <4>2. \A i \in 1 .. Len(s) - 1 + 1 : SubSeq(t, 1, Len(s))[i] = t[1 + i - 1]
        BY <1>1, <4>1, SubSeqProperties
      <4>3. \A i \in 1 .. Len(s) : i \in 1 .. Len(s) - 1 + 1 /\ 1 + i - 1 = i
        BY <1>1
      <4>4. QED BY <4>2, <4>3
    <3>4. QED BY <3>1, <3>2, <3>3
  <2>2. ASSUME NEW i \in 1 .. Len(b) PROVE b[i] = t[i]
    <3>1. CASE i <= Len(s)
      BY <1>1, <1>2, <1>4, <2>1, <3>1
    <3>2. CASE i > Len(s)
      <4>1. i - Len(s) \in 1 .. Len(r) /\ Len(s) + (i - Len(s)) = i
        BY <1>1, <1>2, <1>4, <3>2
      <4>2. b[i] = r[i - Len(s)]
        BY <1>1, <1>2, <1>4, <3>2
      <4>3. QED BY <1>2, <4>1, <4>2
    <3>3. QED BY <1>1, <1>4, <3>1, <3>2
  <2>3. QED BY <1>4, <1>5, <2>2, SeqEqual
<1>7. QED BY <1>4, <1>5, <1>6

\* The beginning of a sequence: all of it is the sequence.
LEMMA FirstIs ==
  ASSUME NEW s \in Seq(Nat), NEW n \in 0 .. Len(s)
  PROVE  SubSeq(s, 1, n) \in Seq(Nat) /\ Len(SubSeq(s, 1, n)) = n /\ (n = Len(s) => SubSeq(s, 1, n) = s)
<1>1. Len(s) \in Nat /\ n \in Nat /\ \A i \in 1 .. n : s[i] \in Nat
  BY LenProperties, ElementOfSeq
<1> DEFINE p == SubSeq(s, 1, n)
<1>2. /\ p \in Seq(Nat) /\ Len(p) = (IF 1 <= n THEN n - 1 + 1 ELSE 0)
      /\ \A i \in 1 .. n - 1 + 1 : p[i] = s[1 + i - 1]
  BY <1>1, SubSeqProperties
<1> HIDE DEF p
<1>3. Len(p) = n /\ \A i \in 1 .. n : p[i] = s[i]
  <2>1. \A i \in 1 .. n : i \in 1 .. n - 1 + 1 /\ 1 + i - 1 = i
    BY <1>1
  <2>2. QED BY <1>1, <1>2, <2>1
<1>4. n = Len(s) => p = s
  BY <1>2, <1>3, SeqEqual
<1>5. QED BY <1>2, <1>3, <1>4 DEF p

LEMMA PrefixOfItself ==
  ASSUME NEW s \in Seq(Nat), NEW t \in Seq(Nat), Len(s) = Len(t)
  PROVE  IsPrefix(s, t) <=> s = t
<1>1. Len(s) \in Nat /\ Len(s) \in 0 .. Len(s) /\ Len(t) \in 0 .. Len(t)
  BY LenProperties
<1>2. SubSeq(s, 1, Len(s)) = s /\ SubSeq(t, 1, Len(t)) = t
  BY <1>1, FirstIs
<1>3. QED BY <1>1, <1>2 DEF IsPrefix

\* The stale files of the next state, when nothing they depend on changes.
LEMMA StaleSame ==
  ASSUME UNCHANGED <<catalogue, downloading>>
  PROVE  StaleFiles' = StaleFiles /\ Entry' = Entry
BY DEF StaleFiles, Entry

LEMMA StaleFewer ==
  ASSUME DeliveryTypes, StaleFiles' \subseteq StaleFiles
  PROVE  /\ Cardinality(StaleFiles') \in Nat
         /\ Cardinality(StaleFiles') <= Cardinality(StaleFiles)
         /\ StaleFiles' # StaleFiles => Cardinality(StaleFiles') < Cardinality(StaleFiles)
BY StaleIs, FS_Subset, FS_CardinalityType

LEMMA DeliveryStarts ==
  ASSUME DeliveryInit
  PROVE  DeliveryInv
<1>1. attempt.pc = "none" /\ DeliveryTypes
  BY DEF DeliveryInit, DeliveryTypes, Attempts, Steps, NoFiles
<1>2. InstalledIsWhole
  BY DEF DeliveryInit, InstalledIsWhole, NotDelivered, NoFiles
<1>3. QED BY <1>1, <1>2 DEF DeliveryInv, Staged, Fetching, Verifying, Cost, Importing, AttemptsHelp, DownSteps

LEMMA BeginKeeps ==
  ASSUME DeliveryInv, NEW pc \in {"files", "clear"}, Begin(pc)
  PROVE  DeliveryInv'
<1>1. DeliveryTypes
  BY DEF DeliveryInv
<1>2. /\ StaleFiles' = StaleFiles /\ Entry' = Entry /\ Cardinality(StaleFiles) \in Nat
      /\ DOMAIN Entry \subseteq AllFiles
  BY <1>1, StaleSame, StaleIs, EntryIs DEF Begin
<1>3. /\ attempt'.pc = pc /\ attempt'.left = DOMAIN Entry
      /\ history'.stale = Cardinality(StaleFiles)
  BY DEF Begin
<1>4. DeliveryTypes'
  <2>1. attempt' \in Attempts
    BY <1>2 DEF Begin, Attempts, Steps, DownSteps
  <2>2. QED BY <1>1, <1>2, <2>1 DEF Begin, DeliveryTypes
<1>5. Staged' /\ Fetching' /\ Verifying'
  BY <1>2, <1>3 DEF Staged, Fetching, Verifying, AtFile
<1>6. Cost' /\ Importing' /\ AttemptsHelp'
  BY <1>2, <1>3 DEF Cost, Importing, AttemptsHelp
<1>7. InstalledIsWhole'
  BY DEF DeliveryInv, InstalledIsWhole, Begin
<1>8. QED BY <1>4, <1>5, <1>6, <1>7 DEF DeliveryInv

\* A file that is too short is fetched from where it ends; one that is as long
\* as it should be goes to its check.
LEMMA StageFileKeeps ==
  ASSUME DeliveryInv, StageFile
  PROVE  DeliveryInv'
<1>1. DeliveryTypes /\ attempt.pc = "files" /\ attempt \in Attempts
  BY DEF DeliveryInv, DeliveryTypes, StageFile
<1>2. /\ StaleFiles' = StaleFiles /\ Entry' = Entry
      /\ DOMAIN Entry \subseteq AllFiles
      /\ \A f \in DOMAIN Entry : Len(Entry[f]) \in Nat /\ Len(Entry[f]) > 0
  BY <1>1, StaleSame, EntryIs DEF StageFile
<1>3. UNCHANGED <<catalogue, downloading, importing, delivered, faults, history>>
  BY DEF StageFile
<1> DEFINE Size(f) == IF f \in DOMAIN downloading THEN Len(downloading[f]) ELSE 0
           Resume(f) == IF Size(f) > Len(Entry[f]) THEN 0 ELSE Size(f)
<1>4. PICK f \in attempt.left :
        attempt' = [attempt EXCEPT !.left = @ \ {f}, !.file = f, !.resume = Resume(f),
                                   !.pc = IF Resume(f) < Len(Entry[f]) THEN "fetch" ELSE "verify"]
  BY DEF StageFile
<1>5. /\ attempt.left \subseteq DOMAIN Entry /\ f \in DOMAIN Entry
      /\ \A g \in DOMAIN Entry \ attempt.left : AsPinned(g)
  BY <1>1, <1>4 DEF DeliveryInv, Staged, AtFile, DownSteps
<1>6. Size(f) \in Nat /\ Len(Entry[f]) \in Nat /\ Len(Entry[f]) > 0
  BY <1>1, <1>2, <1>5, LenProperties DEF DeliveryTypes
<1>7. /\ attempt'.pc = (IF Resume(f) < Len(Entry[f]) THEN "fetch" ELSE "verify")
      /\ attempt'.left = attempt.left \ {f} /\ attempt'.file = f /\ attempt'.resume = Resume(f)
      /\ attempt' \in Attempts
  BY <1>1, <1>2, <1>4, <1>5, <1>6 DEF Attempts, Steps, DownSteps
<1>8. DeliveryTypes'
  BY <1>1, <1>3, <1>7 DEF DeliveryTypes
<1>9. Staged'
  <2>1. \A g \in DOMAIN Entry : AsPinned(g) => AsPinned(g)'
    BY <1>2, <1>3 DEF AsPinned
  <2>2. attempt'.pc \in {"fetch", "verify"}
    BY <1>7
  <2>3. QED BY <1>2, <1>5, <1>7, <2>1, <2>2 DEF Staged, AtFile
<1>10. Fetching' /\ Verifying'
  <2>1. ASSUME attempt'.pc = "fetch" PROVE Fetching'
    BY <1>2, <1>3, <1>6, <1>7, <2>1 DEF Fetching
  <2>2. ASSUME attempt'.pc = "verify" PROVE Verifying'
    BY <1>2, <1>3, <1>6, <1>7, <2>2 DEF Verifying
  <2>3. QED BY <2>1, <2>2 DEF Fetching, Verifying
<1>11. Cost' /\ Importing' /\ AttemptsHelp' /\ InstalledIsWhole'
  <2>1. attempt'.pc \in {"fetch", "verify"}
    BY <1>7
  <2>2. history.faults = 0 => Cardinality(StaleFiles) <= history.stale
    BY <1>1 DEF DeliveryInv, Cost, DownSteps
  <2>3. InstalledIsWhole'
    BY <1>3 DEF DeliveryInv, InstalledIsWhole
  <2>4. QED BY <1>2, <1>3, <2>1, <2>2, <2>3 DEF Cost, Importing, AttemptsHelp
<1>12. QED BY <1>8, <1>9, <1>10, <1>11 DEF DeliveryInv

LEMMA NoneLeft == ASSUME NEW k \in Nat, NEW n \in Int, n <= k, ~(n < k) PROVE n = k
OBVIOUS

\* What a fetch leaves of its file: with no fault, what was there completed.
LEMMA FetchedIs ==
  ASSUME DeliveryInv, attempt.pc = "fetch", NEW served \in Served, NEW ranged \in BOOLEAN,
         ranged => attempt.resume > 0 /\ attempt.resume < Len(served),
         NEW kept, kept = (IF ranged THEN downloading[attempt.file] ELSE <<>>),
         NEW sent, sent = SubSeq(served, Len(kept) + 1, Len(served)),
         NEW n \in 0 .. Len(sent), NEW bytes, bytes = kept \o SubSeq(sent, 1, n)
  PROVE  /\ bytes \in Seq(Nat)
         /\ ~(served # Entry[attempt.file] \/ n < Len(sent)) =>
              /\ Len(bytes) = Len(Entry[attempt.file])
              /\ attempt.file \notin StaleFiles => IsPrefix(bytes, Entry[attempt.file])
<1>1. DeliveryTypes /\ Fetching /\ attempt.file \in DOMAIN Entry
  BY DEF DeliveryInv, Staged, AtFile, DownSteps
<1>2. Entry[attempt.file] \in Seq(Nat) /\ Len(Entry[attempt.file]) \in Nat
  BY <1>1, EntryIs
<1>3. served \in Seq(Nat) /\ Len(served) \in Nat
  <2>1. served \in Seq(Nat)
    BY DeliveryBounds DEF Served
  <2>2. QED BY <2>1, LenProperties
<1>4. /\ kept \in Seq(Nat) /\ Len(kept) \in Nat /\ Len(kept) <= Len(served)
      /\ ranged => /\ attempt.file \in DOMAIN downloading /\ kept = downloading[attempt.file]
                   /\ Len(kept) <= Len(Entry[attempt.file])
  <2>1. CASE ranged
    <3>1. /\ attempt.file \in DOMAIN downloading
          /\ Len(downloading[attempt.file]) <= Len(Entry[attempt.file])
          /\ attempt.resume = Len(downloading[attempt.file])
      BY <1>1, <2>1 DEF Fetching
    <3>2. kept = downloading[attempt.file] /\ kept \in Seq(Nat)
      BY <1>1, <2>1, <3>1 DEF DeliveryTypes
    <3>3. QED BY <1>3, <2>1, <3>1, <3>2, LenProperties
  <2>2. CASE ~ranged
    <3>1. kept = <<>> /\ <<>> \in Seq(Nat) /\ Len(<<>>) = 0
      BY <2>2, EmptySeq
    <3>2. QED BY <1>3, <2>2, <3>1
  <2>3. QED BY <2>1, <2>2
<1>5. sent \in Seq(Nat) /\ Len(sent) \in Nat
  <2>1. /\ Len(kept) + 1 \in Int /\ Len(served) \in Int
        /\ \A i \in Len(kept) + 1 .. Len(served) : served[i] \in Nat
    BY <1>3, <1>4, ElementOfSeq
  <2>2. SubSeq(served, Len(kept) + 1, Len(served)) \in Seq(Nat)
    BY <2>1, SubSeqProperties
  <2>3. QED BY <2>2, LenProperties
<1>6. SubSeq(sent, 1, n) \in Seq(Nat) /\ (n = Len(sent) => SubSeq(sent, 1, n) = sent)
  BY <1>5, FirstIs
<1>7. bytes \in Seq(Nat)
  <2>1. kept \o SubSeq(sent, 1, n) \in Seq(Nat)
    BY <1>4, <1>6, ConcatProperties
  <2>2. QED BY <2>1
<1>8. ASSUME served = Entry[attempt.file], ~(n < Len(sent))
      PROVE  /\ Len(bytes) = Len(Entry[attempt.file])
             /\ attempt.file \notin StaleFiles => IsPrefix(bytes, Entry[attempt.file])
  <2>1. bytes = kept \o SubSeq(served, Len(kept) + 1, Len(served))
    <3>1. n = Len(sent)
      <4>1. n \in Int /\ n <= Len(sent)
        BY <1>5
      <4>2. ~(n < Len(sent))
        BY <1>8
      <4>3. QED BY <1>5, <4>1, <4>2, NoneLeft
    <3>2. QED BY <1>6, <3>1
  <2>2. Len(bytes) = Len(served) /\ (IsPrefix(kept, served) => bytes = served)
    BY <1>3, <1>4, <1>7, <2>1, Completed
  <2>3. attempt.file \notin StaleFiles => IsPrefix(kept, served)
    <3>1. CASE ranged
      BY <1>1, <1>4, <1>8, <3>1 DEF StaleFiles
    <3>2. CASE ~ranged
      <4>1. kept = <<>> /\ <<>> \in Seq(Nat) /\ Len(<<>>) = 0
        BY <3>2, EmptySeq
      <4>2. 0 \in 0 .. Len(served) /\ 0 \in 0 .. Len(<<>>)
        BY <1>3, <4>1
      <4>3. /\ SubSeq(served, 1, 0) \in Seq(Nat) /\ Len(SubSeq(served, 1, 0)) = 0
            /\ SubSeq(<<>>, 1, 0) \in Seq(Nat) /\ Len(SubSeq(<<>>, 1, 0)) = 0
        BY <1>3, <4>1, <4>2, FirstIs
      <4>4. SubSeq(served, 1, 0) = <<>> /\ SubSeq(<<>>, 1, 0) = <<>>
        BY <4>3, EmptySeq
      <4>5. QED BY <1>3, <4>1, <4>4 DEF IsPrefix
    <3>3. QED BY <3>1, <3>2
  <2>4. IsPrefix(served, served)
    BY <1>3, PrefixOfItself
  <2>5. QED BY <1>8, <2>2, <2>3, <2>4
<1>9. QED BY <1>7, <1>8
\* Fetching adds bytes of the attempt's own file and no other.
LEMMA FetchKeeps ==
  ASSUME DeliveryInv, Fetch
  PROVE  DeliveryInv'
<1>1. /\ DeliveryTypes /\ attempt \in Attempts /\ attempt.pc = "fetch"
      /\ attempt.file \in DOMAIN Entry
  BY DEF DeliveryInv, DeliveryTypes, Staged, AtFile, DownSteps, Fetch
<1>2. UNCHANGED <<catalogue, importing, delivered>> /\ Entry' = Entry
  BY DEF Fetch, Entry
<1>3. PICK served \in Served, ranged \in BOOLEAN :
        LET kept == IF ranged THEN downloading[attempt.file] ELSE <<>>
            sent == SubSeq(served, Len(kept) + 1, Len(served))
        IN /\ ranged => attempt.resume > 0 /\ attempt.resume < Len(served)
           /\ \E n \in 0 .. Len(sent) :
                LET bytes == kept \o SubSeq(sent, 1, n)
                IN /\ downloading' = With(downloading, attempt.file, bytes)
                   /\ IF Len(bytes) = Len(Entry[attempt.file]) THEN Go("verify") ELSE Failed
                   /\ FaultIf(served # Entry[attempt.file] \/ n < Len(sent))
  BY DEF Fetch
<1> DEFINE kept == IF ranged THEN downloading[attempt.file] ELSE <<>>
           sent == SubSeq(served, Len(kept) + 1, Len(served))
<1>4. PICK n \in 0 .. Len(sent) :
        /\ downloading' = With(downloading, attempt.file, kept \o SubSeq(sent, 1, n))
        /\ IF Len(kept \o SubSeq(sent, 1, n)) = Len(Entry[attempt.file]) THEN Go("verify") ELSE Failed
        /\ FaultIf(served # Entry[attempt.file] \/ n < Len(sent))
  BY <1>3
<1> DEFINE bytes == kept \o SubSeq(sent, 1, n)
           wrong == served # Entry[attempt.file] \/ n < Len(sent)
<1>5. /\ bytes \in Seq(Nat)
      /\ ~wrong => /\ Len(bytes) = Len(Entry[attempt.file])
                   /\ attempt.file \notin StaleFiles => IsPrefix(bytes, Entry[attempt.file])
  <2>1. /\ kept = (IF ranged THEN downloading[attempt.file] ELSE <<>>)
        /\ sent = SubSeq(served, Len(kept) + 1, Len(served))
        /\ bytes = kept \o SubSeq(sent, 1, n)
        /\ ranged => attempt.resume > 0 /\ attempt.resume < Len(served)
    BY <1>3
  <2> HIDE DEF kept, sent, bytes
  <2>2. QED BY <1>1, <1>3, <1>4, <2>1, FetchedIs
<1>6. /\ downloading' = With(downloading, attempt.file, bytes)
      /\ IF Len(bytes) = Len(Entry[attempt.file]) THEN Go("verify") ELSE Failed
      /\ FaultIf(wrong)
  BY <1>4
<1> HIDE DEF bytes, wrong, kept, sent
<1>7. /\ DOMAIN downloading' = DOMAIN downloading \union {attempt.file}
      /\ downloading'[attempt.file] = bytes
      /\ \A g \in DOMAIN downloading \ {attempt.file} : downloading'[g] = downloading[g]
  BY <1>6 DEF With, Over
<1>8. /\ attempt' \in Attempts
      /\ attempt'.pc = (IF Len(bytes) = Len(Entry[attempt.file]) THEN "verify" ELSE "failed")
      /\ attempt'.left = attempt.left /\ attempt'.file = attempt.file
  <2>1. CASE Len(bytes) = Len(Entry[attempt.file])
    BY <1>1, <1>6, <2>1, Went DEF Steps, DownSteps
  <2>2. CASE Len(bytes) # Len(Entry[attempt.file])
    BY <1>1, <1>6, <2>2, Went DEF Steps, Failed
  <2>3. QED BY <2>1, <2>2
<1>9. /\ faults' \in Nat /\ history' \in [stale : Nat, faults : Nat]
      /\ history'.stale = history.stale
      /\ history'.faults = 0 => history.faults = 0 /\ ~wrong
  BY <1>1, <1>6, Faulted
<1>10. DeliveryTypes'
  BY <1>1, <1>2, <1>5, <1>7, <1>8, <1>9 DEF DeliveryTypes
<1>11. Staged' /\ Fetching' /\ Verifying'
  <2>1. \A g \in DOMAIN Entry : g # attempt.file /\ AsPinned(g) => AsPinned(g)'
    BY <1>2, <1>7 DEF AsPinned
  <2>2. /\ attempt.left \subseteq DOMAIN Entry
        /\ \A g \in DOMAIN Entry \ attempt.left : AsPinned(g) \/ g = attempt.file
    BY <1>1 DEF DeliveryInv, Staged, AtFile, DownSteps
  <2>3. attempt'.pc \in {"verify", "failed"}
    BY <1>8
  <2>4. Staged'
    BY <1>1, <1>2, <1>8, <2>1, <2>2, <2>3 DEF Staged, AtFile, DownSteps
  <2>5. Fetching' /\ Verifying'
    BY <1>2, <1>7, <1>8, <2>3 DEF Fetching, Verifying
  <2>6. QED BY <2>4, <2>5
<1>12. Cost' /\ AttemptsHelp'
  <2> SUFFICES ASSUME history'.faults = 0
               PROVE  attempt'.pc # "failed" /\ Cardinality(StaleFiles') <= history'.stale
    BY DEF Cost, AttemptsHelp
  <2>1. attempt'.pc = "verify"
    BY <1>5, <1>8, <1>9
  <2>2. StaleFiles' \subseteq StaleFiles
    <3> SUFFICES ASSUME NEW g \in StaleFiles' PROVE g \in StaleFiles
      OBVIOUS
    <3>1. /\ g \in DOMAIN downloading' /\ g \in DOMAIN Entry
          /\ Len(downloading'[g]) <= Len(Entry[g]) /\ ~ IsPrefix(downloading'[g], Entry[g])
      BY <1>2 DEF StaleFiles
    <3>2. CASE g = attempt.file
      BY <1>5, <1>7, <1>9, <3>1, <3>2
    <3>3. CASE g # attempt.file
      BY <1>7, <3>1, <3>3 DEF StaleFiles
    <3>4. QED BY <3>2, <3>3
  <2>3. Cardinality(StaleFiles) <= history.stale /\ history.stale \in Nat /\ Cardinality(StaleFiles) \in Nat
    BY <1>1, <1>9, StaleIs DEF DeliveryInv, Cost, DownSteps, DeliveryTypes
  <2>4. QED BY <1>1, <1>9, <2>1, <2>2, <2>3, StaleFewer
<1>13. Importing' /\ InstalledIsWhole'
  BY <1>2, <1>8 DEF DeliveryInv, InstalledIsWhole, Importing
<1>14. QED BY <1>10, <1>11, <1>12, <1>13 DEF DeliveryInv

LEMMA FetchFailsKeeps ==
  ASSUME DeliveryInv, FetchFails
  PROVE  DeliveryInv'
<1>1. DeliveryTypes /\ attempt \in Attempts /\ Go("failed") /\ FaultIf(TRUE)
  BY DEF DeliveryInv, DeliveryTypes, FetchFails, Failed, FaultIf
<1>2. attempt' \in Attempts /\ attempt'.pc = "failed"
  BY <1>1, Went DEF Steps
<1>3. /\ faults' \in Nat /\ history' \in [stale : Nat, faults : Nat]
      /\ history'.faults # 0
  BY <1>1, Faulted
<1>4. DeliveryTypes'
  BY <1>1, <1>2, <1>3 DEF DeliveryTypes, FetchFails
<1>5. QED BY <1>2, <1>3, <1>4, FailsKeep DEF FetchFails

\* A file of the right length that differs could not have been completed.
LEMMA VerifyKeepsInv ==
  ASSUME DeliveryInv, Verify
  PROVE  DeliveryInv'
<1>1. /\ DeliveryTypes /\ attempt \in Attempts /\ attempt.pc = "verify"
      /\ attempt.file \in DOMAIN Entry /\ attempt.file \in DOMAIN downloading
      /\ Len(downloading[attempt.file]) = Len(Entry[attempt.file])
  BY DEF DeliveryInv, DeliveryTypes, Staged, AtFile, DownSteps, Verify, Verifying
<1>2. UNCHANGED <<catalogue, importing, delivered>> /\ Entry' = Entry
  BY DEF Verify, Entry
<1>3. InstalledIsWhole'
  BY <1>2 DEF DeliveryInv, InstalledIsWhole
<1>4. CASE downloading[attempt.file] = Entry[attempt.file]
  <2>1. NextFile /\ UNCHANGED <<faults, history, downloading>>
    BY <1>4 DEF Verify, NoFault
  <2>2. /\ attempt' \in Attempts
        /\ attempt'.pc = (IF attempt.left = {} THEN "manifest" ELSE "files")
        /\ attempt'.left = attempt.left
    BY <1>1, <2>1, Went DEF NextFile, Steps, DownSteps
  <2>3. DeliveryTypes'
    BY <1>1, <1>2, <2>1, <2>2 DEF DeliveryTypes
  <2>4. Staged'
    <3>1. \A g \in DOMAIN Entry : AsPinned(g) => AsPinned(g)'
      BY <1>2, <2>1 DEF AsPinned
    <3>2. /\ attempt.left \subseteq DOMAIN Entry
          /\ \A g \in DOMAIN Entry \ attempt.left : AsPinned(g)
      BY <1>1, <1>4 DEF DeliveryInv, Staged, AtFile, DownSteps, AsPinned
    <3>3. attempt'.pc \in {"manifest", "files"} /\ (attempt'.pc = "manifest" => attempt.left = {})
      BY <2>2
    <3>4. QED BY <1>2, <2>2, <3>1, <3>2, <3>3 DEF Staged, AtFile, DownSteps
  <2>5. Cost'
    BY <1>1, <1>2, <2>1, StaleSame DEF DeliveryInv, Cost, DownSteps
  <2>6. Fetching' /\ Verifying' /\ Importing' /\ AttemptsHelp'
    BY <2>2 DEF Fetching, Verifying, Importing, AttemptsHelp
  <2>7. QED BY <1>3, <2>3, <2>4, <2>5, <2>6 DEF DeliveryInv
<1>5. CASE downloading[attempt.file] # Entry[attempt.file]
  <2>1. Go("failed")
    BY <1>5 DEF Verify, Failed
  <2>2. attempt' \in Attempts /\ attempt'.pc = "failed"
    BY <1>1, <2>1, Went DEF Steps
  <2>3. CASE UNCHANGED downloading /\ Fault
    <3>1. FaultIf(TRUE)
      BY <2>3 DEF FaultIf
    <3>2. faults' \in Nat /\ history' \in [stale : Nat, faults : Nat] /\ history'.faults # 0
      BY <1>1, <3>1, Faulted
    <3>3. DeliveryTypes'
      BY <1>1, <1>2, <2>2, <2>3, <3>2 DEF DeliveryTypes
    <3>4. QED BY <1>2, <2>2, <3>2, <3>3, FailsKeep
  <2>4. CASE downloading' = Without(downloading, attempt.file) /\ NoFault
    <3>1. /\ DOMAIN downloading' = DOMAIN downloading \ {attempt.file}
          /\ \A g \in DOMAIN downloading \ {attempt.file} : downloading'[g] = downloading[g]
          /\ UNCHANGED <<faults, history>>
      BY <2>4 DEF NoFault, Without, Restrict
    <3>2. DeliveryTypes'
      BY <1>1, <1>2, <2>2, <3>1 DEF DeliveryTypes
    <3>3. attempt.file \in StaleFiles
      <4>1. Entry[attempt.file] \in Seq(Nat) /\ Len(Entry[attempt.file]) \in Nat
        BY <1>1, EntryIs
      <4>2. downloading[attempt.file] \in Seq(Nat)
        BY <1>1 DEF DeliveryTypes
      <4>3. ~ IsPrefix(downloading[attempt.file], Entry[attempt.file])
        BY <1>1, <1>5, <4>1, <4>2, PrefixOfItself
      <4>4. Len(downloading[attempt.file]) <= Len(Entry[attempt.file])
        BY <1>1, <4>1
      <4>5. QED BY <1>1, <4>3, <4>4 DEF StaleFiles
    <3>4. StaleFiles' \subseteq StaleFiles /\ attempt.file \notin StaleFiles'
      BY <1>2, <3>1 DEF StaleFiles
    <3>5. /\ Cardinality(StaleFiles') < Cardinality(StaleFiles)
          /\ Cardinality(StaleFiles') \in Nat /\ Cardinality(StaleFiles) \in Nat
      BY <1>1, <3>3, <3>4, StaleFewer, StaleIs
    <3>6. AttemptsHelp'
      <4>1. history.faults = 0 => Cardinality(StaleFiles) <= history.stale
        BY <1>1 DEF DeliveryInv, Cost, DownSteps
      <4>2. history.stale \in Nat
        BY <1>1 DEF DeliveryTypes
      <4>3. QED BY <3>1, <3>5, <4>1, <4>2 DEF AttemptsHelp
    <3>7. Staged' /\ Fetching' /\ Verifying' /\ Cost' /\ Importing'
      BY <2>2 DEF Staged, Fetching, Verifying, Cost, Importing, DownSteps
    <3>8. QED BY <1>3, <3>2, <3>6, <3>7 DEF DeliveryInv
  <2>5. QED BY <1>5, <2>3, <2>4 DEF Verify
<1>6. QED BY <1>4, <1>5
\* A step that leaves the catalogue, the installed package and the attempt's
\* file alone, and that ends the attempt with a fault.
LEMMA FaultyEnd ==
  ASSUME DeliveryInv, Failed, Fault, UNCHANGED <<catalogue, delivered>>,
         \A f \in DOMAIN downloading' : downloading'[f] \in Seq(Nat)
  PROVE  DeliveryInv'
<1>1. DeliveryTypes /\ attempt \in Attempts /\ Go("failed") /\ FaultIf(TRUE)
  BY DEF DeliveryInv, DeliveryTypes, Failed, FaultIf
<1>2. attempt' \in Attempts /\ attempt'.pc = "failed"
  BY <1>1, Went DEF Steps
<1>3. faults' \in Nat /\ history' \in [stale : Nat, faults : Nat] /\ history'.faults # 0
  BY <1>1, Faulted
<1>4. DeliveryTypes'
  BY <1>1, <1>2, <1>3 DEF DeliveryTypes
<1>5. QED BY <1>2, <1>3, <1>4, FailsKeep

LEMMA WriteManifestKeeps ==
  ASSUME DeliveryInv, WriteManifest
  PROVE  DeliveryInv'
<1>1. /\ DeliveryTypes /\ attempt \in Attempts /\ attempt.pc = "manifest"
      /\ UNCHANGED <<catalogue, importing, delivered>> /\ Entry' = Entry
  BY DEF DeliveryInv, DeliveryTypes, WriteManifest, Entry
<1>2. CASE Go("move") /\ NoFault /\ UNCHANGED downloading
  <2>1. /\ attempt' \in Attempts /\ attempt'.pc = "move"
        /\ attempt'.left = attempt.left /\ UNCHANGED <<faults, history>>
    BY <1>1, <1>2, Went DEF Steps, DownSteps, NoFault
  <2>2. DeliveryTypes'
    BY <1>1, <1>2, <2>1 DEF DeliveryTypes
  <2>3. Staged'
    <3>1. \A g \in DOMAIN Entry : AsPinned(g) => AsPinned(g)'
      BY <1>1, <1>2 DEF AsPinned
    <3>2. attempt.left = {} /\ \A g \in DOMAIN Entry \ attempt.left : AsPinned(g)
      BY <1>1 DEF DeliveryInv, Staged, AtFile, DownSteps
    <3>3. QED BY <1>1, <2>1, <3>1, <3>2 DEF Staged, AtFile, DownSteps
  <2>4. Cost'
    BY <1>1, <1>2, <2>1, StaleSame DEF DeliveryInv, Cost, DownSteps
  <2>5. Fetching' /\ Verifying' /\ Importing' /\ AttemptsHelp'
    BY <2>1 DEF Fetching, Verifying, Importing, AttemptsHelp
  <2>6. InstalledIsWhole'
    BY <1>1 DEF DeliveryInv, InstalledIsWhole
  <2>7. QED BY <2>2, <2>3, <2>4, <2>5, <2>6 DEF DeliveryInv
<1>3. CASE Failed /\ Fault /\ downloading' \in Left(downloading)
  <2>1. \A f \in DOMAIN downloading' : downloading'[f] \in Seq(Nat)
    BY <1>1, <1>3, LeftIs DEF DeliveryTypes
  <2>2. QED BY <1>1, <1>3, <2>1, FaultyEnd
<1>4. QED BY <1>2, <1>3 DEF WriteManifest

\* Everything listed was staged, so the package that is moved is whole.
LEMMA MoveDownloadKeeps ==
  ASSUME DeliveryInv, MoveDownload
  PROVE  DeliveryInv'
<1>1. /\ DeliveryTypes /\ attempt \in Attempts /\ attempt.pc = "move"
      /\ UNCHANGED <<catalogue, importing>>
  BY DEF DeliveryInv, DeliveryTypes, MoveDownload
<1>2. CASE /\ delivered' = [declared |-> Entry, files |-> downloading]
           /\ downloading' = NoFiles /\ Go("none") /\ NoFault
  <2>1. /\ attempt' \in Attempts /\ attempt'.pc = "none" /\ UNCHANGED <<faults, history>>
    BY <1>1, <1>2, Went DEF Steps, NoFault
  <2>2. DeliveryTypes'
    BY <1>1, <1>2, <2>1 DEF DeliveryTypes, NoFiles
  <2>3. InstalledIsWhole'
    <3>1. \A f \in DOMAIN Entry : AsPinned(f)
      BY <1>1 DEF DeliveryInv, Staged, AtFile, DownSteps
    <3>2. delivered'.declared = Entry /\ delivered'.files = downloading
      BY <1>2
    <3>3. QED BY <3>1, <3>2 DEF InstalledIsWhole, AsPinned
  <2>4. Staged' /\ Fetching' /\ Verifying' /\ Cost' /\ Importing' /\ AttemptsHelp'
    BY <2>1 DEF Staged, Fetching, Verifying, Cost, Importing, AttemptsHelp, DownSteps
  <2>5. QED BY <2>2, <2>3, <2>4 DEF DeliveryInv
<1>3. CASE Failed /\ Fault /\ UNCHANGED <<downloading, delivered>>
  <2>1. \A f \in DOMAIN downloading' : downloading'[f] \in Seq(Nat)
    BY <1>1, <1>3 DEF DeliveryTypes
  <2>2. QED BY <1>1, <1>3, <2>1, FaultyEnd
<1>4. QED BY <1>2, <1>3 DEF MoveDownload

\* An import's step that leaves the download and the catalogue alone.
LEMMA ClearLeftoversKeeps ==
  ASSUME DeliveryInv, ClearLeftovers
  PROVE  DeliveryInv'
<1>1. /\ DeliveryTypes /\ attempt \in Attempts /\ Go("copy")
      /\ FaultIf(importing' # NoFiles)
      /\ UNCHANGED <<catalogue, downloading, delivered>>
  BY DEF DeliveryInv, DeliveryTypes, ClearLeftovers
<1>2. attempt' \in Attempts /\ attempt'.pc = "copy"
  BY <1>1, Went DEF Steps
<1>3. /\ faults' \in Nat /\ history' \in [stale : Nat, faults : Nat]
      /\ history'.faults = 0 => importing' = NoFiles
  BY <1>1, Faulted
<1>4. DeliveryTypes'
  BY <1>1, <1>2, <1>3 DEF DeliveryTypes
<1>5. Staged' /\ Fetching' /\ Verifying' /\ Cost' /\ Importing' /\ AttemptsHelp'
  BY <1>2, <1>3 DEF Staged, Fetching, Verifying, Cost, Importing, AttemptsHelp, DownSteps
<1>6. InstalledIsWhole'
  BY <1>1 DEF DeliveryInv, InstalledIsWhole
<1>7. QED BY <1>4, <1>5, <1>6 DEF DeliveryInv

\* A copy that meets nothing is the package; one that meets a leftover had a
\* fault when they were cleared.
LEMMA CopyKeeps ==
  ASSUME DeliveryInv, Copy
  PROVE  DeliveryInv'
<1>1. /\ DeliveryTypes /\ attempt \in Attempts /\ attempt.pc = "copy"
      /\ UNCHANGED <<catalogue, downloading, delivered>>
  BY DEF DeliveryInv, DeliveryTypes, Copy
<1>2. InstalledIsWhole'
  BY <1>1 DEF DeliveryInv, InstalledIsWhole
<1>3. CASE importing' = Over(Unpacked, importing) /\ Go("place") /\ NoFault
  <2>1. attempt' \in Attempts /\ attempt'.pc = "place" /\ UNCHANGED <<faults, history>>
    BY <1>1, <1>3, Went DEF Steps, NoFault
  <2>2. DeliveryTypes'
    BY <1>1, <2>1 DEF DeliveryTypes
  <2>3. \A f \in DOMAIN Unpacked : f \in DOMAIN importing' /\ importing'[f] = Unpacked[f]
    BY <1>3, OverIs
  <2>4. Staged' /\ Fetching' /\ Verifying' /\ Cost' /\ Importing' /\ AttemptsHelp'
    BY <2>1, <2>3 DEF Staged, Fetching, Verifying, Cost, Importing, AttemptsHelp, DownSteps
  <2>5. QED BY <1>2, <2>2, <2>4 DEF DeliveryInv
<1>4. CASE /\ Failed
           /\ FaultIf(DOMAIN importing \intersect DOMAIN Unpacked = {} \/ importing' # NoFiles)
  <2>1. Go("failed")
    BY <1>4 DEF Failed
  <2>2. attempt' \in Attempts /\ attempt'.pc = "failed"
    BY <1>1, <2>1, Went DEF Steps
  <2> DEFINE wrong == DOMAIN importing \intersect DOMAIN Unpacked = {} \/ importing' # NoFiles
  <2>3. FaultIf(wrong)
    BY <1>4
  <2>4. history.faults = 0 => wrong
    BY <1>1 DEF DeliveryInv, Importing, NoFiles
  <2> HIDE DEF wrong
  <2>5. /\ faults' \in Nat /\ history' \in [stale : Nat, faults : Nat]
        /\ history'.faults = 0 => history.faults = 0 /\ ~wrong
    BY <1>1, <2>3, Faulted
  <2>6. history'.faults # 0
    BY <2>4, <2>5
  <2>7. DeliveryTypes'
    BY <1>1, <2>2, <2>5 DEF DeliveryTypes
  <2>8. QED BY <1>1, <2>2, <2>6, <2>7, FailsKeep
<1>5. QED BY <1>3, <1>4 DEF Copy

LEMMA PlaceKeeps ==
  ASSUME DeliveryInv, Place
  PROVE  DeliveryInv'
<1>1. /\ DeliveryTypes /\ attempt \in Attempts /\ attempt.pc = "place"
      /\ UNCHANGED <<catalogue, downloading>>
  BY DEF DeliveryInv, DeliveryTypes, Place
<1>2. CASE /\ delivered' = [declared |-> Unpacked, files |-> importing]
           /\ importing' = NoFiles /\ Go("none") /\ NoFault
  <2>1. attempt' \in Attempts /\ attempt'.pc = "none" /\ UNCHANGED <<faults, history>>
    BY <1>1, <1>2, Went DEF Steps, NoFault
  <2>2. DeliveryTypes'
    BY <1>1, <2>1 DEF DeliveryTypes
  <2>3. InstalledIsWhole'
    <3>1. delivered'.declared = Unpacked /\ delivered'.files = importing
      BY <1>2
    <3>2. QED BY <1>1, <3>1 DEF DeliveryInv, Importing, InstalledIsWhole
  <2>4. Staged' /\ Fetching' /\ Verifying' /\ Cost' /\ Importing' /\ AttemptsHelp'
    BY <2>1 DEF Staged, Fetching, Verifying, Cost, Importing, AttemptsHelp, DownSteps
  <2>5. QED BY <2>2, <2>3, <2>4 DEF DeliveryInv
<1>3. CASE Failed /\ Fault /\ UNCHANGED delivered
  <2>1. \A f \in DOMAIN downloading' : downloading'[f] \in Seq(Nat)
    BY <1>1 DEF DeliveryTypes
  <2>2. QED BY <1>1, <1>3, <2>1, FaultyEnd
<1>4. QED BY <1>2, <1>3 DEF Place

\* A crash or a cancellation is a fault, and writes nothing that was installed.
LEMMA InterruptKeeps ==
  ASSUME DeliveryInv, Interrupt
  PROVE  DeliveryInv'
<1>1. \A f \in DOMAIN downloading' : downloading'[f] \in Seq(Nat)
  BY DEF DeliveryInv, DeliveryTypes, Interrupt
<1>2. QED BY <1>1, FaultyEnd DEF Interrupt

\* Another revision is pinned while no attempt is under way.
LEMMA UpgradeKeeps ==
  ASSUME DeliveryInv, Upgrade
  PROVE  DeliveryInv'
<1>1. DeliveryTypes /\ attempt' = [attempt EXCEPT !.pc = "none"]
  BY DEF DeliveryInv, Upgrade
<1>2. attempt' \in Attempts /\ attempt'.pc = "none"
  BY <1>1 DEF DeliveryTypes, Attempts, Steps
<1>3. DeliveryTypes'
  BY <1>1, <1>2 DEF DeliveryTypes, Upgrade
<1>4. Staged' /\ Fetching' /\ Verifying' /\ Cost' /\ Importing' /\ AttemptsHelp'
  BY <1>2 DEF Staged, Fetching, Verifying, Cost, Importing, AttemptsHelp, DownSteps
<1>5. InstalledIsWhole'
  BY DEF DeliveryInv, InstalledIsWhole, Upgrade
<1>6. QED BY <1>3, <1>4, <1>5 DEF DeliveryInv

LEMMA UninstallKeeps ==
  ASSUME DeliveryInv, Uninstall
  PROVE  DeliveryInv'
<1>1. /\ DeliveryTypes /\ attempt.pc \in {"none", "failed"}
      /\ UNCHANGED <<catalogue, downloading, importing, attempt, faults, history>>
  BY DEF DeliveryInv, Uninstall, Busy
<1>2. DeliveryTypes'
  BY <1>1 DEF DeliveryTypes
<1>3. InstalledIsWhole'
  BY DEF InstalledIsWhole, Uninstall, NotDelivered, NoFiles
<1>4. Staged' /\ Fetching' /\ Verifying' /\ Cost' /\ Importing'
  BY <1>1 DEF Staged, Fetching, Verifying, Cost, Importing, DownSteps
<1>5. AttemptsHelp'
  BY <1>1, StaleSame DEF DeliveryInv, AttemptsHelp
<1>6. QED BY <1>2, <1>3, <1>4, <1>5 DEF DeliveryInv

LEMMA DeliveryKept ==
  ASSUME DeliveryInv, [DeliveryNext]_deliveryVars
  PROVE  DeliveryInv'
<1>1. CASE UNCHANGED deliveryVars
  BY <1>1 DEF deliveryVars, DeliveryInv, DeliveryTypes, Staged, Fetching, Verifying, Cost,
     Importing, InstalledIsWhole, AttemptsHelp, AtFile, AsPinned, StaleFiles, Entry
<1>2. CASE DeliveryNext
  <2>1. CASE BeginDownload \/ BeginImport
    BY <2>1, BeginKeeps DEF BeginDownload, BeginImport
  <2>2. QED BY <1>2, <2>1, StageFileKeeps, FetchKeeps, FetchFailsKeeps, VerifyKeepsInv,
       WriteManifestKeeps, MoveDownloadKeeps, ClearLeftoversKeeps, CopyKeeps, PlaceKeeps,
       InterruptKeeps, UpgradeKeeps, UninstallKeeps DEF DeliveryNext
<1>3. QED BY <1>1, <1>2

\* A file that is as pinned is longer than nothing and as long as it should be:
\* it is not the one being fetched, nor one whose check fails.
LEMMA VerifiedIsKept ==
  ASSUME DeliveryInv, [DeliveryNext]_deliveryVars
  PROVE  VerifiedStays
<1> SUFFICES ASSUME NEW f \in DOMAIN Entry \intersect DOMAIN downloading,
                    downloading[f] = Entry[f], attempt.pc \notin {"manifest", "move"}
             PROVE  f \in DOMAIN downloading' /\ downloading'[f] = downloading[f]
  BY DEF VerifiedStays
<1>1. ASSUME UNCHANGED downloading
      PROVE  f \in DOMAIN downloading' /\ downloading'[f] = downloading[f]
  BY <1>1
<1>2. CASE Fetch
  <2>1. PICK bytes : downloading' = With(downloading, attempt.file, bytes)
    BY <1>2 DEF Fetch
  <2>2. /\ DOMAIN With(downloading, attempt.file, bytes) = DOMAIN downloading \union {attempt.file}
        /\ \A g \in DOMAIN downloading \ {attempt.file} :
             With(downloading, attempt.file, bytes)[g] = downloading[g]
    BY DEF With, Over
  <2>3. attempt.pc = "fetch" /\ DeliveryTypes /\ Fetching
    BY <1>2 DEF Fetch, DeliveryInv
  <2>4. Len(Entry[f]) \in Nat /\ Len(Entry[f]) <= Len(Entry[f])
    BY <2>3, EntryIs
  <2>5. f # attempt.file
    BY <2>3, <2>4 DEF Fetching
  <2>6. QED BY <2>1, <2>2, <2>5
<1>3. CASE Verify
  <2>1. CASE downloading' = Without(downloading, attempt.file) /\ f # attempt.file
    BY <2>1 DEF Without, Restrict
  <2>2. CASE downloading[attempt.file] = Entry[attempt.file] \/ UNCHANGED downloading
    BY <1>1, <1>3, <2>2 DEF Verify
  <2>3. QED BY <1>3, <2>1, <2>2 DEF Verify
<1>4. CASE BeginDownload \/ BeginImport \/ StageFile \/ FetchFails \/ ClearLeftovers \/ Copy
           \/ Place \/ Interrupt \/ Upgrade \/ Uninstall \/ UNCHANGED deliveryVars
  BY <1>1, <1>4 DEF BeginDownload, BeginImport, Begin, StageFile, FetchFails, ClearLeftovers, Copy,
     Place, Interrupt, Upgrade, Uninstall, deliveryVars
<1>5. CASE WriteManifest \/ MoveDownload
  BY <1>5 DEF WriteManifest, MoveDownload
<1>6. QED BY <1>2, <1>3, <1>4, <1>5 DEF DeliveryNext

\* Whatever attempts, leftovers, servers and Hosts of other revisions came
\* before, an installed package holds exactly the bytes that were pinned or
\* imported; an attempt without faults succeeds or removes a file that could not
\* be completed; and a file that is as pinned is not touched.
\* (stage_catalogue_file, download_catalogue_model, import_model_package.)
THEOREM DeliveryStaysExact == DeliveryInit /\ [][DeliveryNext]_deliveryVars => DeliveryIsExact
<1>1. DeliveryInit => DeliveryInv
  BY DeliveryStarts
<1>2. DeliveryInv /\ [DeliveryNext]_deliveryVars => DeliveryInv'
  BY DeliveryKept
<1>3. DeliveryInv /\ [DeliveryNext]_deliveryVars => [VerifiedStays]_deliveryVars
  BY VerifiedIsKept
<1>4. DeliveryInv => InstalledIsWhole /\ AttemptsHelp
  BY DEF DeliveryInv
<1>5. QED BY <1>1, <1>2, <1>3, <1>4, PTL DEF DeliveryIsExact

-----------------------------------------------------------------------------
(* The folders of the models and the list made of them.                    *)

\* What the scan may find in a folder.
Found(p, c) ==
  \/ c \in {Absent, Junk}
  \/ /\ c.what = "package" /\ c.damaged \in BOOLEAN
     /\ p \in AppFolders => c.id \in DOMAIN CurrentOf /\ c.rev # "none"

Scannable(d) == \A p \in Folders : Found(p, d[p])

RegistryInv ==
  /\ portable \in BOOLEAN
  /\ folders = [p \in Folders |-> folders[p]] /\ Scannable(folders)

\* The first copies of the two tiers, and which of a pair gives way.
Users(d) == FirstCopies(d, Tier(d, UserFolders))
Apps(d) == FirstCopies(d, Tier(d, AppTier))
Loser(d, u, a) == IF BundledWins(d[u], d[a]) THEN u ELSE a

\* A nonempty set of naturals has a least element.
LEMMA LeastNatural ==
  ASSUME NEW T \in SUBSET Nat, T # {}
  PROVE  \E x \in T : \A y \in T : x <= y
<1> DEFINE R == {p \in Nat \X Nat : p[1] < p[2]}
<1>1. IsWellFoundedOn(R, Nat)
  BY NatLessThanWellFounded DEF OpToRel
<1>2. \E x \in T : \A y \in T : <<y, x>> \notin R
  <2> HIDE DEF R
  <2> QED BY <1>1, WFMin
<1>3. PICK x \in T : \A y \in T : <<y, x>> \notin R
  BY <1>2
<1>4. ASSUME NEW y \in T PROVE x <= y
  <2>1. x \in Nat /\ y \in Nat
    OBVIOUS
  <2>2. <<y, x>> \in Nat \X Nat /\ <<y, x>> \notin R
    BY <1>3, <2>1
  <2>3. ~ (y < x)
    BY <2>2
  <2>4. QED BY <2>1, <2>3
<1>5. QED BY <1>4

\* The tiers are disjoint sets of folders.
LEMMA TiersDiffer ==
  /\ UserFolders \subseteq Nat /\ AppTier \subseteq Nat /\ KeptFolders \subseteq Nat
  /\ UserFolders \intersect AppTier = {} /\ KeptFolders \intersect (UserFolders \union AppTier) = {}
  /\ AppTier \subseteq AppFolders /\ UserFolders \union AppTier \union KeptFolders \subseteq Folders
  BY RegistryAssumption DEF AppTier, Folders

\* Every model of a tier has a first copy in it, and one only.
LEMMA FirstCopyOf ==
  ASSUME NEW d, NEW S \in SUBSET Nat
  PROVE  /\ FirstCopies(d, S) \subseteq S
         /\ \A p \in S : \E q \in FirstCopies(d, S) : d[q].id = d[p].id
         /\ \A p, q \in FirstCopies(d, S) : d[p].id = d[q].id => p = q
<1>1. FirstCopies(d, S) \subseteq S
  BY DEF FirstCopies
<1>2. ASSUME NEW p \in S PROVE \E q \in FirstCopies(d, S) : d[q].id = d[p].id
  <2> DEFINE T == {q \in S : d[q].id = d[p].id}
  <2>1. PICK x \in T : \A y \in T : x <= y
    <3>1. p \in T /\ T \in SUBSET Nat
      OBVIOUS
    <3>2. QED BY <3>1, LeastNatural
  <2>2. x \in FirstCopies(d, S)
    BY <2>1 DEF FirstCopies
  <2>3. QED BY <2>1, <2>2
<1>3. ASSUME NEW p \in FirstCopies(d, S), NEW q \in FirstCopies(d, S), d[p].id = d[q].id PROVE p = q
  <2>1. p \in Nat /\ q \in Nat /\ p <= q /\ q <= p
    BY <1>3 DEF FirstCopies
  <2>2. QED BY <2>1
<1>4. QED BY <1>1, <1>2, <1>3

\* The first copies of the two tiers.
LEMMA UsersApps ==
  ASSUME NEW d
  PROVE  /\ Users(d) \subseteq Tier(d, UserFolders) /\ Apps(d) \subseteq Tier(d, AppTier)
         /\ Users(d) \intersect Apps(d) = {}
         /\ \A p \in Tier(d, UserFolders) : \E q \in Users(d) : d[q].id = d[p].id
         /\ \A p \in Tier(d, AppTier) : \E q \in Apps(d) : d[q].id = d[p].id
         /\ \A p, q \in Users(d) : d[p].id = d[q].id => p = q
         /\ \A p, q \in Apps(d) : d[p].id = d[q].id => p = q
<1>1. Tier(d, UserFolders) \in SUBSET Nat /\ Tier(d, AppTier) \in SUBSET Nat
      /\ Tier(d, UserFolders) \subseteq UserFolders /\ Tier(d, AppTier) \subseteq AppTier
  BY TiersDiffer DEF Tier
<1>2. QED BY <1>1, FirstCopyOf, TiersDiffer DEF Users, Apps

\* What the scan lists.
LEMMA ScanIs ==
  ASSUME NEW d
  PROVE  /\ Scan(d).superseded \subseteq Users(d) \union Apps(d)
         /\ \A p : p \in Scan(d).superseded <=>
                     \E u \in Users(d), a \in Apps(d) : d[u].id = d[a].id /\ p = Loser(d, u, a)
         /\ Scan(d).discovered = (Users(d) \union Apps(d)) \ Scan(d).superseded
         /\ Scan(d).damaged = {p \in UserFolders \union AppTier : d[p].what = "package" /\ d[p].damaged}
         /\ Scan(d).previous = {p \in KeptFolders : d[p].what = "package"}
         /\ DOMAIN Scan(d).unsupported =
              {p \in UserFolders \union AppTier \union KeptFolders : d[p] = Junk} \union Scan(d).damaged
                \union ((Tier(d, UserFolders) \union Tier(d, AppTier)) \ (Users(d) \union Apps(d)))
<1> DEFINE twice == {pair \in Users(d) \X Apps(d) : d[pair[1]].id = d[pair[2]].id}
           beaten == {IF BundledWins(d[pair[1]], d[pair[2]]) THEN pair[1] ELSE pair[2] : pair \in twice}
<1>1. /\ Scan(d).superseded = beaten
      /\ Scan(d).discovered = (Users(d) \union Apps(d)) \ beaten
      /\ Scan(d).damaged = {p \in UserFolders \union AppTier : d[p].what = "package" /\ d[p].damaged}
      /\ Scan(d).previous = {p \in KeptFolders : d[p].what = "package"}
      /\ DOMAIN Scan(d).unsupported =
           {p \in UserFolders \union AppTier \union KeptFolders : d[p] = Junk}
             \union {p \in UserFolders \union AppTier : d[p].what = "package" /\ d[p].damaged}
             \union ((Tier(d, UserFolders) \union Tier(d, AppTier)) \ (Users(d) \union Apps(d)))
  BY Zenon DEF Scan, Users, Apps
<1>2. ASSUME NEW p
      PROVE  p \in beaten <=> \E u \in Users(d), a \in Apps(d) : d[u].id = d[a].id /\ p = Loser(d, u, a)
  <2>1. ASSUME NEW u \in Users(d), NEW a \in Apps(d), d[u].id = d[a].id PROVE Loser(d, u, a) \in beaten
    <3>1. <<u, a>> \in twice
      BY <2>1
    <3>2. QED BY <3>1 DEF Loser
  <2>2. ASSUME NEW pair \in twice,
               p = IF BundledWins(d[pair[1]], d[pair[2]]) THEN pair[1] ELSE pair[2]
        PROVE  \E u \in Users(d), a \in Apps(d) : d[u].id = d[a].id /\ p = Loser(d, u, a)
    BY <2>2 DEF Loser
  <2>3. QED BY <2>1, <2>2
<1>3. beaten \subseteq Users(d) \union Apps(d)
  OBVIOUS
<1>4. QED BY <1>1, <1>2, <1>3

\* Of two first copies of a model one is in use, and of one alone it is.
LEMMA OneIsUsed ==
  ASSUME NEW d, NEW u \in Users(d), NEW a \in Apps(d), d[u].id = d[a].id
  PROVE  /\ u \in Scan(d).discovered <=> ~BundledWins(d[u], d[a])
         /\ a \in Scan(d).discovered <=> BundledWins(d[u], d[a])
<1>1. ASSUME NEW v \in Users(d), NEW b \in Apps(d), d[v].id = d[b].id, Loser(d, v, b) \in {u, a}
      PROVE  v = u /\ b = a
  <2>1. v = u \/ b = a
    BY <1>1, UsersApps DEF Loser
  <2>2. QED BY <1>1, <2>1, UsersApps
<1>2. u # a
  BY UsersApps
<1>3. Loser(d, u, a) \in Scan(d).superseded
  BY ScanIs
<1>4. u \in Scan(d).superseded <=> BundledWins(d[u], d[a])
  BY <1>1, <1>2, <1>3, ScanIs DEF Loser
<1>5. a \in Scan(d).superseded <=> ~BundledWins(d[u], d[a])
  BY <1>1, <1>2, <1>3, ScanIs DEF Loser
<1>6. QED BY <1>4, <1>5, ScanIs

\* A sound package of a scanned folder has its model in use from some folder.
LEMMA ModelIsUsed ==
  ASSUME NEW d, NEW p \in Tier(d, UserFolders) \union Tier(d, AppTier)
  PROVE  \E q \in Scan(d).discovered : d[q].id = d[p].id
<1>1. PICK q \in Users(d) \union Apps(d) : d[q].id = d[p].id
  BY UsersApps
<1>2. CASE q \notin Scan(d).superseded
  BY <1>1, <1>2, ScanIs
<1>3. CASE q \in Scan(d).superseded
  <2>1. PICK u \in Users(d), a \in Apps(d) : d[u].id = d[a].id /\ q = Loser(d, u, a)
    BY <1>3, ScanIs
  <2>2. d[u].id = d[p].id /\ d[a].id = d[p].id
    BY <1>1, <2>1 DEF Loser
  <2>3. QED BY <2>1, <2>2, OneIsUsed
<1>4. QED BY <1>2, <1>3

\* The two tiers of sound packages are apart, and neither holds junk or damage.
LEMMA TierIs ==
  ASSUME NEW d, NEW p \in Tier(d, UserFolders) \union Tier(d, AppTier)
  PROVE  /\ p \in UserFolders \union AppTier /\ p \notin KeptFolders
         /\ d[p].what = "package" /\ ~d[p].damaged /\ d[p] # Junk /\ d[p] # Absent
         /\ p \in UserFolders <=> p \in Tier(d, UserFolders)
  BY TiersDiffer DEF Tier, Junk, Absent

\* Where a folder of each kind is listed.
LEMMA ListedOnce ==
  ASSUME NEW d, Scannable(d), NEW p \in UserFolders \union AppTier \union KeptFolders, d[p] # Absent
  PROVE  LET scan == Scan(d)
             listed == <<scan.discovered, scan.superseded, scan.previous, DOMAIN scan.unsupported>>
         IN \E i \in 1 .. 4 : \A j \in 1 .. 4 : p \in listed[j] <=> j = i
<1> DEFINE listed == <<Scan(d).discovered, Scan(d).superseded, Scan(d).previous, DOMAIN Scan(d).unsupported>>
           T == Tier(d, UserFolders) \union Tier(d, AppTier)
<1>1. Users(d) \subseteq T /\ Apps(d) \subseteq T /\ T \subseteq UserFolders \union AppTier
  BY UsersApps DEF Tier
<1>2. Found(p, d[p])
  BY TiersDiffer DEF Scannable
<1>3. CASE d[p] = Junk
  <2>1. p \notin T /\ p \notin Scan(d).previous /\ p \in DOMAIN Scan(d).unsupported
    BY <1>3, ScanIs DEF Junk, Tier
  <2>2. p \notin Scan(d).discovered /\ p \notin Scan(d).superseded
    BY <1>1, <2>1, ScanIs
  <2>3. \A j \in 1 .. 4 : p \in listed[j] <=> j = 4
    BY <2>1, <2>2
  <2>4. QED BY <2>3
<1>4. CASE d[p].what = "package" /\ p \in KeptFolders
  <2>1. p \notin T /\ p \notin UserFolders \union AppTier /\ d[p] # Junk
    BY <1>4, TiersDiffer DEF Junk, Tier
  <2>2. p \in Scan(d).previous
    BY <1>4, ScanIs
  <2>3. p \notin DOMAIN Scan(d).unsupported
    BY <2>1, ScanIs
  <2>4. p \notin Scan(d).discovered /\ p \notin Scan(d).superseded
    BY <1>1, <2>1, ScanIs
  <2>5. \A j \in 1 .. 4 : p \in listed[j] <=> j = 3
    BY <2>2, <2>3, <2>4
  <2>6. QED BY <2>5
<1>5. CASE d[p].what = "package" /\ p \in UserFolders \union AppTier /\ d[p].damaged
  <2>1. p \notin T /\ p \notin KeptFolders
    BY <1>5, TiersDiffer DEF Tier
  <2>2. p \notin Scan(d).previous /\ p \in DOMAIN Scan(d).unsupported
    BY <1>5, <2>1, ScanIs
  <2>3. p \notin Scan(d).discovered /\ p \notin Scan(d).superseded
    BY <1>1, <2>1, ScanIs
  <2>4. \A j \in 1 .. 4 : p \in listed[j] <=> j = 4
    BY <2>2, <2>3
  <2>5. QED BY <2>4
<1>6. CASE p \in T
  <2>1. p \notin KeptFolders /\ d[p] # Junk /\ ~d[p].damaged
    BY <1>6, TierIs
  <2>2. p \notin Scan(d).previous
    BY <2>1, ScanIs
  <2>3. p \in DOMAIN Scan(d).unsupported <=> p \notin Users(d) \union Apps(d)
    BY <1>6, <2>1, ScanIs
  <2>4. p \in Scan(d).discovered <=> p \in Users(d) \union Apps(d) /\ p \notin Scan(d).superseded
    BY ScanIs
  <2>5. p \in Scan(d).superseded => p \in Users(d) \union Apps(d)
    BY ScanIs
  <2>6. CASE p \notin Users(d) \union Apps(d)
    <3>1. \A j \in 1 .. 4 : p \in listed[j] <=> j = 4
      BY <2>2, <2>3, <2>4, <2>5, <2>6
    <3>2. QED BY <3>1
  <2>7. CASE p \in Scan(d).superseded
    <3>1. \A j \in 1 .. 4 : p \in listed[j] <=> j = 2
      BY <2>2, <2>3, <2>4, <2>5, <2>7
    <3>2. QED BY <3>1
  <2>8. CASE p \in Users(d) \union Apps(d) /\ p \notin Scan(d).superseded
    <3>1. \A j \in 1 .. 4 : p \in listed[j] <=> j = 1
      BY <2>2, <2>3, <2>4, <2>8
    <3>2. QED BY <3>1
  <2>9. QED BY <2>6, <2>7, <2>8
<1>7. d[p] = Junk \/ (d[p].what = "package" /\ (p \in KeptFolders \/ d[p].damaged)) \/ p \in T
  BY <1>2 DEF Found, Tier
<1>8. QED BY <1>3, <1>4, <1>5, <1>6, <1>7

\* No folder is lost.
LEMMA AllListed == ASSUME RegistryInv PROVE FoldersAreAccountedFor
<1> DEFINE d == folders
           listed == <<Scan(d).discovered, Scan(d).superseded, Scan(d).previous, DOMAIN Scan(d).unsupported>>
<1>1. ASSUME NEW p \in UserFolders \union AppTier \union KeptFolders, d[p] # Absent
      PROVE  Cardinality({i \in 1 .. 4 : p \in listed[i]}) = 1
  <2>1. PICK i \in 1 .. 4 : \A j \in 1 .. 4 : p \in listed[j] <=> j = i
    BY <1>1, ListedOnce DEF RegistryInv
  <2>2. {j \in 1 .. 4 : p \in listed[j]} = {i}
    BY <2>1
  <2>3. QED BY <2>2, FS_Singleton
<1>2. ASSUME NEW id \in Ids PROVE Cardinality(Of(d, Scan(d).discovered, id)) <= 1
  <2>1. ASSUME NEW p \in Of(d, Scan(d).discovered, id), NEW q \in Of(d, Scan(d).discovered, id)
        PROVE  p = q
    <3>1. /\ p \in Scan(d).discovered /\ q \in Scan(d).discovered /\ d[p].id = d[q].id
          /\ p \in Users(d) \union Apps(d) /\ q \in Users(d) \union Apps(d)
      BY ScanIs DEF Of
    <3>2. QED BY <3>1, UsersApps, OneIsUsed
  <2>2. CASE Of(d, Scan(d).discovered, id) = {}
    BY <2>2, FS_EmptySet
  <2>3. CASE Of(d, Scan(d).discovered, id) # {}
    <3>1. PICK p : Of(d, Scan(d).discovered, id) = {p}
      BY <2>1, <2>3
    <3>2. QED BY <3>1, FS_Singleton
  <2>4. QED BY <2>2, <2>3
<1>3. QED BY <1>1, <1>2, Zenon DEF FoldersAreAccountedFor

\* Which copy is in use.
LEMMA CurrentUsed == ASSUME RegistryInv PROVE CurrentCopyIsUsed
<1> SUFFICES ASSUME NEW p \in Scan(folders).superseded
             PROVE  \E q \in Of(folders, Scan(folders).discovered, folders[p].id) :
                      IsCurrent(folders[p]) => IsCurrent(folders[q]) /\ q \in UserFolders
  BY DEF CurrentCopyIsUsed
<1>1. PICK u \in Users(folders), a \in Apps(folders) :
        folders[u].id = folders[a].id /\ p = Loser(folders, u, a)
  BY ScanIs
<1>2. u \in UserFolders
  BY UsersApps DEF Tier
<1>3. CASE BundledWins(folders[u], folders[a])
  <2>1. a \in Scan(folders).discovered /\ p = u
    BY <1>1, <1>3, OneIsUsed DEF Loser
  <2>2. ~IsCurrent(folders[p]) /\ folders[a].id = folders[p].id
    BY <1>1, <1>3, <2>1 DEF BundledWins
  <2>3. QED BY <2>1, <2>2 DEF Of
<1>4. CASE ~BundledWins(folders[u], folders[a])
  <2>1. u \in Scan(folders).discovered /\ p = a
    BY <1>1, <1>4, OneIsUsed DEF Loser
  <2>2. IsCurrent(folders[p]) => IsCurrent(folders[u])
    BY <1>4, <2>1 DEF BundledWins
  <2>3. QED BY <1>1, <1>2, <2>1, <2>2 DEF Of
<1>5. QED BY <1>3, <1>4

\* There is a copy to maintain of every model that has one, sound or damaged.
LEMMA Maintained ==
  ASSUME NEW d, Scannable(d), NEW id, NEW p \in UserFolders \union AppTier,
         d[p].what = "package", d[p].id = id
  PROVE  MaintainedIn(d, id) # {}
<1>1. d[p].damaged \in BOOLEAN
  <2>1. Found(p, d[p])
    BY TiersDiffer DEF Scannable
  <2>2. QED BY <2>1 DEF Found, Absent, Junk
<1>2. CASE Of(d, Scan(d).discovered, id) # {}
  BY <1>2 DEF MaintainedIn
<1>3. CASE Of(d, Scan(d).discovered, id) = {}
  <2> DEFINE damaged == Of(d, Scan(d).damaged, id)
             T == {DamagedOrder(d, q) : q \in damaged}
  <2>1. d[p].damaged
    <3>1. SUFFICES ASSUME ~d[p].damaged PROVE FALSE
      BY <1>1
    <3>2. p \in Tier(d, UserFolders) \union Tier(d, AppTier)
      BY <3>1 DEF Tier
    <3>3. PICK q \in Scan(d).discovered : d[q].id = d[p].id
      BY <3>2, ModelIsUsed
    <3>4. QED BY <1>3, <3>3 DEF Of
  <2>2. p \in damaged
    BY <2>1, ScanIs DEF Of
  <2>3. T \in SUBSET Nat /\ T # {}
    <3>0. damaged \subseteq Scan(d).damaged /\ Scan(d).damaged \subseteq UserFolders \union AppTier
      BY ScanIs DEF Of
    <3>1. \A q \in damaged : q \in Nat
      BY <3>0, TiersDiffer
    <3>2. \A q \in damaged : DamagedOrder(d, q) \in Nat
      BY <3>1 DEF DamagedOrder
    <3>3. QED BY <2>2, <3>2
  <2>4. PICK x \in T : \A y \in T : x <= y
    BY <2>3, LeastNatural
  <2>5. PICK q \in damaged : x = DamagedOrder(d, q)
    BY <2>4
  <2>6. q \in {r \in damaged : \A s \in damaged : DamagedOrder(d, r) <= DamagedOrder(d, s)}
    BY <2>4, <2>5
  <2>7. QED BY <1>3, <2>6 DEF MaintainedIn
<1>4. QED BY <1>2, <1>3

\* What is maintained is a package of that model in a scanned folder.
LEMMA MaintainedIs ==
  ASSUME NEW d, NEW id, NEW p \in MaintainedIn(d, id)
  PROVE  /\ p \in UserFolders \union AppTier /\ d[p].what = "package" /\ d[p].id = id
         /\ p \in Of(d, Scan(d).discovered, id) \/ p \in Of(d, Scan(d).damaged, id)
<1>1. p \in Of(d, Scan(d).discovered, id) \/ p \in Of(d, Scan(d).damaged, id)
  BY DEF MaintainedIn
<1>2. CASE p \in Of(d, Scan(d).discovered, id)
  <2>1. p \in Users(d) \union Apps(d) /\ d[p].id = id
    BY <1>2, ScanIs DEF Of
  <2>2. QED BY <1>2, <2>1, UsersApps, TierIs
<1>3. CASE p \in Of(d, Scan(d).damaged, id)
  BY <1>3, ScanIs DEF Of
<1>4. QED BY <1>1, <1>2, <1>3

\* What is offered for a model.
LEMMA OffersAre ==
  ASSUME NEW d, NEW id
  PROVE  /\ "load" \in Offers(d, id) <=> Of(d, Scan(d).discovered, id) # {}
         /\ "download" \in Offers(d, id) <=> DownloadOffered(d, id)
         /\ "update" \in Offers(d, id) <=> \E p \in MaintainedIn(d, id) : Status(d[p]) = "update available"
         /\ "delete_previous" \in Offers(d, id) <=> Of(d, Scan(d).previous, id) # {}
         /\ "remove" \in Offers(d, id) <=> MaintainedIn(d, id) \ AppFolders # {}
         /\ "verify" \in Offers(d, id) <=> \E p \in MaintainedIn(d, id) : Status(d[p]) = "current"
<1> DEFINE offered == [
        load |-> Of(d, Scan(d).discovered, id) # {},
        download |-> DownloadOffered(d, id),
        update |-> \E p \in MaintainedIn(d, id) : Status(d[p]) = "update available",
        revert |-> RevertSources(d, id) # {},
        delete_previous |-> Of(d, Scan(d).previous, id) # {},
        remove_superseded |-> Of(d, Scan(d).superseded, id) \ AppFolders # {},
        remove |-> MaintainedIn(d, id) \ AppFolders # {},
        verify |-> \E p \in MaintainedIn(d, id) : Status(d[p]) = "current"]
<1>1. Offers(d, id) = {action \in DOMAIN offered : offered[action]}
  BY Zenon DEF Offers
<1>2. DOMAIN offered = {"load", "download", "update", "revert", "delete_previous", "remove_superseded",
                        "remove", "verify"}
  OBVIOUS
<1>3. ASSUME NEW action \in DOMAIN offered PROVE action \in Offers(d, id) <=> offered[action]
  BY <1>1, <1>3
<1>4. /\ offered["load"] <=> Of(d, Scan(d).discovered, id) # {}
      /\ offered["download"] <=> DownloadOffered(d, id)
      /\ offered["update"] <=> \E p \in MaintainedIn(d, id) : Status(d[p]) = "update available"
      /\ offered["delete_previous"] <=> Of(d, Scan(d).previous, id) # {}
      /\ offered["remove"] <=> MaintainedIn(d, id) \ AppFolders # {}
      /\ offered["verify"] <=> \E p \in MaintainedIn(d, id) : Status(d[p]) = "current"
  OBVIOUS
<1> HIDE DEF offered
<1>5. \A action \in {"load", "download", "update", "delete_previous", "remove", "verify"} :
        action \in Offers(d, id) <=> offered[action]
  BY <1>2, <1>3
<1>6. QED BY <1>4, <1>5

\* A copy that is maintained can be updated, verified or removed.
LEMMA MaintainedHasARemedy ==
  ASSUME NEW d, Scannable(d), NEW id, NEW p \in MaintainedIn(d, id)
  PROVE  "update" \in Offers(d, id) \/ "verify" \in Offers(d, id) \/ "remove" \in Offers(d, id)
<1>1. CASE p \notin AppFolders
  BY <1>1, OffersAre
<1>2. CASE p \in AppFolders
  <2>1. d[p].what = "package" /\ Found(p, d[p])
    BY MaintainedIs, TiersDiffer DEF Scannable
  <2>2. d[p].id \in DOMAIN CurrentOf /\ d[p].rev # "none"
    BY <1>2, <2>1 DEF Found, Absent, Junk
  <2>3. Status(d[p]) = "current" \/ Status(d[p]) = "update available"
    BY <2>2 DEF Status
  <2>4. QED BY <2>3, OffersAre
<1>3. QED BY <1>1, <1>2

\* Whatever is listed has a remedy.
LEMMA RemedyForEach == ASSUME RegistryInv PROVE EveryRowHasARemedy
<1> DEFINE d == folders
<1>1. Scannable(d)
  BY DEF RegistryInv
<1>2. ASSUME NEW id \in RowIds(d)
      PROVE  Offers(d, id) \intersect {"load", "download", "update", "verify", "remove", "delete_previous"} # {}
  <2>1. CASE MaintainedIn(d, id) # {}
    BY <1>1, <2>1, MaintainedHasARemedy
  <2>2. CASE MaintainedIn(d, id) = {} /\ id \in DOMAIN CurrentOf
    BY <2>2, OffersAre DEF DownloadOffered
  <2>3. CASE Of(d, Scan(d).previous, id) # {}
    BY <2>3, OffersAre
  <2>4. QED BY <2>1, <2>2, <2>3 DEF RowIds
<1>3. ASSUME NEW id, MaintainedIn(d, id) # {}
      PROVE  Offers(d, id) \intersect {"update", "verify", "remove"} # {}
  BY <1>1, <1>3, MaintainedHasARemedy
<1>4. ASSUME NEW id, "download" \in Offers(d, id)
      PROVE  \A p \in UserFolders \union AppTier : ~(d[p].what = "package" /\ d[p].id = id)
  BY <1>1, <1>4, OffersAre, Maintained DEF DownloadOffered
<1>5. \A r \in Rows(d) : \E id \in RowIds(d) : r.id = id /\ r.at = MaintainedIn(d, id) /\ r.offers = Offers(d, id)
  BY DEF Rows
<1>6. ASSUME NEW r \in Rows(d)
      PROVE  /\ r.offers \intersect {"load", "download", "update", "verify", "remove", "delete_previous"} # {}
             /\ r.damaged /\ r.at # {} => r.offers \intersect {"update", "verify", "remove"} # {}
             /\ "download" \in r.offers =>
                  \A p \in UserFolders \union AppTier : ~(d[p].what = "package" /\ d[p].id = r.id)
  BY <1>2, <1>3, <1>4, <1>5
<1>7. QED BY <1>6 DEF EveryRowHasARemedy

\* What is found in the folders stays of the kind the scan knows.
LEMMA RegistryInvariance == RegistryInit /\ [][RegistryNext]_registryVars => []RegistryInv
<1>1. RegistryInit => RegistryInv
  BY DEF RegistryInit, RegistryInv, Scannable, Found
<1>2. RegistryInv /\ [RegistryNext]_registryVars => RegistryInv'
  <2> SUFFICES ASSUME RegistryInv, [RegistryNext]_registryVars PROVE RegistryInv'
    OBVIOUS
  <2>1. CASE FolderChanges
    <3>0. PICK p \in Folders : \E copy \in Contents[p] : folders' = [folders EXCEPT ![p] = copy]
      BY <2>1 DEF FolderChanges
    <3>1. PICK copy \in Contents[p] : folders' = [folders EXCEPT ![p] = copy]
      BY <3>0
    <3>2. Found(p, copy)
      BY RegistryAssumption DEF Found, Package
    <3>3. folders' = [q \in Folders |-> folders'[q]] /\ \A q \in Folders : folders'[q] = IF q = p THEN copy ELSE folders[q]
      BY <3>1 DEF RegistryInv
    <3>4. \A q \in Folders : Found(q, folders'[q])
      BY <3>2, <3>3 DEF RegistryInv, Scannable
    <3>5. QED BY <2>1, <3>3, <3>4 DEF FolderChanges, RegistryInv, Scannable
  <2>2. CASE Rescan \/ UNCHANGED registryVars
    BY <2>2 DEF Rescan, registryVars, RegistryInv, Scannable, Found
  <2>3. QED BY <2>1, <2>2 DEF RegistryNext
<1>3. QED BY <1>1, <1>2, PTL

\* Whatever is put into the folders, in whatever order: each of them is accounted
\* for once, the copy in use is the one its tier and the catalogue call for, and
\* every model on the list can be used, mended or cleared.  (scan_model_registry,
\* build_model_list, row_actions.)
THEOREM ListStaysTrue ==
  RegistryInit /\ [][RegistryNext]_registryVars =>
    [](FoldersAreAccountedFor /\ CurrentCopyIsUsed /\ EveryRowHasARemedy)
<1>1. RegistryInv => FoldersAreAccountedFor /\ CurrentCopyIsUsed /\ EveryRowHasARemedy
  BY AllListed, CurrentUsed, RemedyForEach
<1>2. QED BY <1>1, RegistryInvariance, PTL

-----------------------------------------------------------------------------
(* What is heard of an utterance through all that happens to the playback   *)
(* stream.  The inductive invariant StreamInv follows the sound from what   *)
(* was heard over what is queued (QueueInv) to what the call under way, or  *)
(* the next one, is about to feed (OrderInv): each continues the one before, *)
(* and only what is fed into an empty buffer may have been rounded.          *)
(* Rounding is counted in losses of an endpoint that the stream has noticed. *)

-----------------------------------------------------------------------------
(* Arithmetic: ticks, and the two ways of rounding to frames.              *)

\* A product of naturals grows with its factors.
LEMMA ProductGrows ==
  ASSUME NEW a \in Nat, NEW b \in Nat, NEW c \in Nat, a <= b
  PROVE  a * c <= b * c /\ c * a <= c * b
<1>1. PICK d \in Nat : b = a + d
  <2>1. b - a \in Nat /\ b = a + (b - a)
    OBVIOUS
  <2>2. QED BY <2>1
<1>2. b * c = a * c + d * c /\ c * b = c * a + c * d
  BY <1>1
<1>3. d * c \in Nat /\ c * d \in Nat /\ a * c \in Nat /\ c * a \in Nat
  BY <1>1
<1>4. QED BY <1>2, <1>3

\* One more of a sum.
LEMMA OneMore ==
  ASSUME NEW n \in Nat, NEW x \in Nat, NEW y \in Nat
  PROVE  (n + 1) * (x + y) = n * (x + y) + x + y
<1>1. \A z \in Nat : (n + 1) * z = n * z + z
  OBVIOUS
<1>2. QED BY <1>1

\* A positive factor can be taken out of an inequality.
LEMMA FactorOut ==
  ASSUME NEW n \in Nat \ {0}, NEW x \in Nat, NEW y \in Nat
  PROVE  /\ n * x <= n * y => x <= y
         /\ n * x < n * y => x < y
<1>1. ASSUME y < x PROVE n * y < n * x
  <2>1. n * (y + 1) <= n * x
    BY <1>1, ProductGrows
  <2>2. n * (y + 1) = n * y + n /\ n * y \in Nat /\ n * x \in Nat
    OBVIOUS
  <2>3. QED BY <2>1, <2>2
<1>2. ASSUME y <= x PROVE n * y <= n * x
  BY <1>2, ProductGrows
<1>3. n * x \in Nat /\ n * y \in Nat
  OBVIOUS
<1>4. QED BY <1>1, <1>2, <1>3

\* Quotient and remainder.
LEMMA DivisionIs ==
  ASSUME NEW n \in Nat, NEW d \in Nat \ {0}
  PROVE  n \div d \in Nat /\ n % d \in 0 .. d - 1 /\ n = d * (n \div d) + (n % d)
<1>1. n \div d \in Nat
  OBVIOUS
<1>2. n % d \in 0 .. d - 1
  OBVIOUS
<1>3. n = d * (n \div d) + (n % d)
  OBVIOUS
<1>4. QED BY <1>1, <1>2, <1>3

\* A rate that divides the ticks of a second has a whole number of them per frame.
LEMMA TicksPerFrame ==
  ASSUME NEW t \in Nat \ {0}, NEW r \in Nat \ {0}, t % r = 0
  PROVE  t \div r \in Nat \ {0} /\ r * (t \div r) = t
<1>1. t \div r \in Nat /\ t % r \in 0 .. r - 1 /\ t = r * (t \div r) + (t % r)
  BY DivisionIs
<1>2. r * (t \div r) = t
  <2>1. r * (t \div r) \in Nat
    BY <1>1
  <2>2. QED BY <1>1, <2>1
<1>3. t \div r \in Nat
  BY <1>1
<1>4. t \div r # 0
  <2>1. ASSUME t \div r = 0 PROVE FALSE
    <3>1. r * 0 = 0
      OBVIOUS
    <3>2. QED BY <1>2, <2>1, <3>1
  <2>2. QED BY <2>1
<1>5. QED BY <1>2, <1>3, <1>4

\* Ticks of a whole number of frames, for two rates a and b with ta and tb ticks each.
LEMMA SameTicks ==
  ASSUME NEW a \in Nat, NEW b \in Nat, NEW ta \in Nat, NEW tb \in Nat, NEW f \in Nat,
         a * ta = b * tb
  PROVE  (f * b) * tb = a * (f * ta)
<1>1. (f * b) * tb = f * (b * tb)
  OBVIOUS
<1>2. f * (a * ta) = a * (f * ta)
  OBVIOUS
<1>3. QED BY <1>1, <1>2

\* convert_frame_position() rounds down to a frame of the other rate.
LEMMA ConvertedDown ==
  ASSUME NEW a \in Nat \ {0}, NEW b \in Nat \ {0}, NEW ta \in Nat \ {0}, NEW tb \in Nat \ {0},
         NEW f \in Nat, a * ta = b * tb
  PROVE  /\ Converted(f, a, b) \in Nat
         /\ Converted(f, a, b) * tb <= f * ta
         /\ f * ta < Converted(f, a, b) * tb + tb
<1> DEFINE q == (f * b) \div a
           m == (f * b) % a
<1>1. f * b \in Nat
  OBVIOUS
<1>2. q \in Nat /\ m \in 0 .. a - 1 /\ f * b = a * q + m
  BY <1>1
<1> HIDE DEF q, m
<1>3. (a * q) * tb <= (f * b) * tb /\ (f * b) * tb < (a * q + a) * tb
  <2>1. a * q \in Nat /\ m \in Nat /\ f * b + 1 \in Nat
    BY <1>1, <1>2
  <2>2. (a * q) * tb <= (f * b) * tb
    BY <1>1, <1>2, <2>1, ProductGrows
  <2>3. (f * b + 1) * tb <= (a * q + a) * tb
    BY <1>1, <1>2, <2>1, ProductGrows
  <2>4. (f * b + 1) * tb = (f * b) * tb + tb /\ (f * b) * tb \in Nat
    BY <1>1
  <2>5. (a * q + a) * tb \in Nat
    BY <1>2
  <2>6. QED BY <2>2, <2>3, <2>4, <2>5
<1>4. (f * b) * tb = a * (f * ta)
  BY SameTicks
<1>5. (a * q) * tb = a * (q * tb) /\ (a * q + a) * tb = a * (q * tb + tb)
  BY <1>2
<1>6. f * ta \in Nat /\ q * tb \in Nat
  BY <1>2
<1>7. a * (q * tb) <= a * (f * ta) /\ a * (f * ta) < a * (q * tb + tb)
  BY <1>3, <1>4, <1>5
<1>8. q * tb <= f * ta /\ f * ta < q * tb + tb
  BY <1>6, <1>7, FactorOut
<1>9. QED BY <1>2, <1>8 DEF Converted, q

\* Rounding up loses nothing.
LEMMA RoundedUp ==
  ASSUME NEW a \in Nat \ {0}, NEW b \in Nat \ {0}, NEW ta \in Nat \ {0}, NEW tb \in Nat \ {0},
         NEW f \in Nat \ {0}, a * ta = b * tb
  PROVE  /\ (f * b + a - 1) \div a \in Nat \ {0}
         /\ ((f * b + a - 1) \div a) * tb >= f * ta
<1> DEFINE q == (f * b + a - 1) \div a
           m == (f * b + a - 1) % a
<1>1. f * b \in Nat /\ f * b + a - 1 \in Nat
  OBVIOUS
<1>2. q \in Nat /\ m \in 0 .. a - 1 /\ f * b + a - 1 = a * q + m
  BY <1>1, DivisionIs
<1> HIDE DEF q, m
<1>3. a * q \in Nat /\ a * q >= f * b
  BY <1>1, <1>2
<1>4. (f * b) * tb <= (a * q) * tb
  BY <1>1, <1>3, ProductGrows
<1>5. (f * b) * tb = a * (f * ta) /\ (a * q) * tb = a * (q * tb)
  <2>1. (f * b) * tb = a * (f * ta)
    BY SameTicks
  <2>2. (a * q) * tb = a * (q * tb)
    BY <1>2
  <2>3. QED BY <2>1, <2>2
<1>6. f * ta \in Nat \ {0} /\ q * tb \in Nat
  <2>1. 1 * ta <= f * ta
    BY ProductGrows
  <2>2. QED BY <1>2, <2>1
<1>7. f * ta <= q * tb
  BY <1>4, <1>5, <1>6, FactorOut
<1>8. q # 0
  <2>1. ASSUME q = 0 PROVE FALSE
    <3>1. 0 * tb = 0
      OBVIOUS
    <3>2. QED BY <1>6, <1>7, <2>1, <3>1
  <2>2. QED BY <2>1
<1>9. QED BY <1>2, <1>6, <1>7, <1>8 DEF q

\* convert_pcm_s16le() rounds up: the converted sentence is not shorter.
LEMMA ConvertedUp ==
  ASSUME NEW s \in DOMAIN Clips, NEW b \in Nat \ {0}, NEW ta \in Nat \ {0}, NEW tb \in Nat \ {0},
         Clips[s].frames \in Nat \ {0}, Clips[s].rate \in Nat \ {0}, Clips[s].rate * ta = b * tb
  PROVE  /\ ConvertedFrames(s, b) \in Nat \ {0}
         /\ ConvertedFrames(s, b) * tb >= Clips[s].frames * ta
BY RoundedUp DEF ConvertedFrames

-----------------------------------------------------------------------------
(* The inductive invariant.                                                *)

Places == [s : 1 .. Count, at : Nat]
Client == [endpoint : DOMAIN Endpoints, source : Int, lost : BOOLEAN, started : BOOLEAN]
Sound == [gen : Nat, from : Places, until : Places]

Inside == {"observe", "held", "feed", "wait"}
Active == Inside \cup {"open", "emptied"}
Playing == call.op = "play" /\ call.pc \in Inside
Reopening == call.op = "reopen" /\ call.pc \in Inside \cup {"emptied"}
Emptying == call.op = "drain" /\ call.pc \in Inside \cup {"emptied"}
Idle == call.pc = "idle"
\* A seek is taken up by the next call.
Sought == playNext.handled # generation

StreamTypes ==
  /\ follows \in BOOLEAN /\ default \in DOMAIN Endpoints
  /\ client # NoClient => client \in Client
  /\ buffer \in Seq(Sound) /\ generation \in Nat
  /\ segment \in [s : 1 .. Count, base : Nat, next : Nat]
  /\ call \in [op : {"play", "reopen", "drain"}, s : 1 .. Count, frame : Nat, gen : Nat,
               pc : Active \cup {"idle", "done", "stopped", "failed"}]
  /\ playNext \in [s : 1 .. Count + 1, frame : Nat, handled : Nat]
  /\ control \in [cancelled : BOOLEAN, paused : BOOLEAN, seeks : Nat,
                  target : [s : 1 .. Count, frame : Nat]]
  /\ position \in Places /\ due \in Places
  /\ overrun \in Nat /\ upsets \in [losses : Nat, moves : Nat]

\* What a call may rely on at each of its steps.
CallsInv ==
  /\ call.pc \in Inside \cup {"emptied"} => Opened
  /\ call.pc = "open" => call.op = "play"
  /\ call.pc = "emptied" => call.op # "play" /\ buffer = <<>>
  /\ call.pc = "done" => buffer = <<>>
  /\ call.pc \in Active => call.gen = generation /\ playNext.handled = generation
  /\ Idle /\ Sought => playNext.s <= Count /\ position = SourcePlace(playNext)
  /\ Idle /\ ~Sought => playNext.frame = 0
  /\ Playing => segment.s = call.s /\ segment.next <= ConvertedFrames(call.s, Rate)

\* p begins where q ends: at the same tick, or with the next sentence.
Joins(p, q) == p.s = q.s + 1 /\ p.at = 0 /\ q.at >= EndOf(q.s).at
Exact(p, q) == p = q \/ Joins(p, q)

\* The losses that the stream has taken up: a lost client is not noticed at once.
Noticed == upsets.losses - (IF Opened /\ client.lost THEN 1 ELSE 0)

\* p continues q, up to the rounding of the endpoints lost and `extra` ticks.
Continues(p, q, losses, extra) ==
  \/ /\ p.s = q.s /\ p.at <= q.at
     /\ \E e \in DOMAIN Endpoints :
          p.at >= WithinSentence(q) - losses * (Ticks \div Clips[q.s].rate + Ticks \div Endpoints[e])
                    - extra
  \/ Joins(p, q)

\* What lies in the endpoint's buffer: nothing of a client that is gone, nothing from
\* before a seek, one sound after the other from where the last ended, and at its end
\* the frames of the sentence fed last.
QueueInv ==
  /\ ~Opened => buffer = <<>>
  /\ Opened /\ client.lost => buffer = <<>> /\ upsets.losses > 0
  /\ Len(buffer) <= Capacity
  /\ segment.base <= segment.next
  /\ segment.base > 0 => Len(buffer) <= segment.next - segment.base
  /\ \A i \in 1 .. Len(buffer) :
       /\ buffer[i].gen = generation
       /\ Len(buffer) - i < segment.next - segment.base =>
            buffer[i].until = PlaceAt(segment.s, segment.next - (Len(buffer) - i), Rate)
  /\ \A i \in 1 .. Len(buffer) - 1 : Exact(buffer[i + 1].from, buffer[i].until)
  /\ buffer # <<>> => Continues(buffer[1].from, due, Noticed, Ticks \div Rate - 1)

\* Where sound will have been played up to when all that is queued was.
Queued == IF buffer = <<>> THEN due ELSE buffer[Len(buffer)].until

\* What is fed next continues what is queued: with rounding only if nothing is.
Upcoming(p, extra) ==
  IF buffer = <<>> THEN Continues(p, due, Noticed, extra) ELSE Exact(p, Queued)

\* What is fed next continues what is queued and what was heard.
OrderInv ==
  /\ Playing => Upcoming(PlaceAt(call.s, segment.next, Rate), Ticks \div Rate - 1)
  /\ call.pc = "open" \/ Reopening => Upcoming(SourcePlace(call), 0)
  /\ (call.pc = "open" \/ Reopening) /\ call.frame > 0 => buffer = <<>>
  /\ Idle /\ ~Sought => Exact([s |-> playNext.s, at |-> 0], Queued)
  /\ Emptying \/ call.pc = "done" => Queued.s = Count /\ Queued.at >= EndOf(Count).at

\* What a pause can still let through.
PauseInv ==
  /\ call.pc = "held" => ~client.started
  /\ ~control.paused => overrun = 0
  /\ control.paused => overrun + Len(buffer) <= 2 * Capacity
  /\ control.paused /\ call.pc = "feed" => overrun + Len(buffer) <= Capacity

\* The place that publish_position() would show, when it shows one.
Shown == PlaceAt(segment.s, segment.next - Len(buffer), Rate)
Shows == Opened /\ ~client.lost /\ Len(buffer) <= segment.next - segment.base

\* When what it would show was heard: not while a flushed stream waits to be reopened.
Truthful ==
  \/ Playing \/ Emptying \/ (Idle /\ ~Sought)
  \/ Reopening /\ (call.pc = "wait" \/ buffer # <<>>)

\* The displayed position was heard, and stays so as the endpoint plays on: also when
\* what it plays next begins a little before what it played.
PositionInv ==
  /\ Truthful /\ Shows => Reached(Shown, due)
  /\ call.pc \notin {"open", "failed", "stopped"} /\ ~(Idle /\ Sought) =>
       /\ Reached(position, due)
       /\ \A i \in 1 .. Len(buffer) : Reached(position, buffer[i].until)
  /\ Playing /\ buffer = <<>> /\ segment.next < ConvertedFrames(call.s, Rate) =>
       Reached(position, PlaceAt(call.s, segment.next + 1, Rate))

StreamInv ==
  StreamTypes /\ CallsInv /\ QueueInv /\ OrderInv /\ PauseInv /\ PositionInv

-----------------------------------------------------------------------------
(* Rates and places.                                                       *)

\* Every sentence and every endpoint has a whole number of ticks per frame.
LEMMA RatesAre ==
  /\ Count \in Nat \ {0}
  /\ DOMAIN Endpoints # {}
  /\ \A s \in 1 .. Count :
       /\ s \in DOMAIN Clips
       /\ Clips[s].rate \in Nat \ {0} /\ Clips[s].frames \in Nat \ {0}
       /\ Ticks \div Clips[s].rate \in Nat \ {0}
       /\ Clips[s].rate * (Ticks \div Clips[s].rate) = Ticks
  /\ \A e \in DOMAIN Endpoints :
       /\ Endpoints[e] \in Nat \ {0}
       /\ Ticks \div Endpoints[e] \in Nat \ {0}
       /\ Endpoints[e] * (Ticks \div Endpoints[e]) = Ticks
<1>1. Count \in Nat \ {0} /\ DOMAIN Endpoints # {} /\ DOMAIN Clips = 1 .. Count
  <2>1. Clips \in Seq([rate : Nat \ {0}, frames : Nat \ {0}]) /\ Clips # <<>>
    BY StreamBounds
  <2>2. Len(Clips) \in Nat \ {0} /\ DOMAIN Clips = 1 .. Len(Clips)
    BY <2>1
  <2>3. Endpoints \in Seq(Nat \ {0}) /\ Endpoints # <<>>
    BY StreamBounds
  <2>4. 1 \in DOMAIN Endpoints
    BY <2>3
  <2>5. QED BY <2>2, <2>4 DEF Count
<1>2. \A s \in DOMAIN Clips : Clips[s].rate \in Nat \ {0} /\ Clips[s].frames \in Nat \ {0}
  <2>1. ASSUME NEW s \in DOMAIN Clips PROVE Clips[s] \in [rate : Nat \ {0}, frames : Nat \ {0}]
    <3>1. Clips \in Seq([rate : Nat \ {0}, frames : Nat \ {0}])
      BY StreamBounds
    <3>2. s \in 1 .. Len(Clips)
      BY <1>1 DEF Count
    <3>3. QED BY <3>1, <3>2, ElementOfSeq
  <2>2. QED BY <2>1
<1>3. \A e \in DOMAIN Endpoints : Endpoints[e] \in Nat \ {0}
  BY StreamBounds
<1>4. Ticks \in Nat \ {0}
  BY StreamBounds
<1>5. \A s \in DOMAIN Clips : /\ Ticks \div Clips[s].rate \in Nat \ {0}
                              /\ Clips[s].rate * (Ticks \div Clips[s].rate) = Ticks
  BY <1>2, <1>4, StreamBounds, TicksPerFrame
<1>6. \A e \in DOMAIN Endpoints : /\ Ticks \div Endpoints[e] \in Nat \ {0}
                                  /\ Endpoints[e] * (Ticks \div Endpoints[e]) = Ticks
  BY <1>3, <1>4, StreamBounds, TicksPerFrame
<1>7. QED BY <1>1, <1>2, <1>3, <1>5, <1>6

\* A place of a sentence, in frames of some rate.
LEMMA PlaceIs ==
  ASSUME NEW s \in 1 .. Count, NEW f \in Nat, NEW r \in Nat, Ticks \div r \in Nat
  PROVE  /\ PlaceAt(s, f, r) \in Places
         /\ PlaceAt(s, f, r).s = s /\ PlaceAt(s, f, r).at = f * (Ticks \div r)
         /\ f = 0 => PlaceAt(s, f, r) = [s |-> s, at |-> 0]
<1>1. f * (Ticks \div r) \in Nat /\ 0 * (Ticks \div r) = 0
  OBVIOUS
<1>2. QED BY <1>1 DEF PlaceAt, Places

\* The same for a frame of the sentence itself.
LEMMA SourcePlaceIs ==
  ASSUME NEW p, p.s \in 1 .. Count, p.frame \in Nat
  PROVE  /\ SourcePlace(p) \in Places
         /\ SourcePlace(p).s = p.s
         /\ SourcePlace(p).at = p.frame * (Ticks \div Clips[p.s].rate)
         /\ p.frame = 0 => SourcePlace(p) = [s |-> p.s, at |-> 0]
<1>1. Clips[p.s].rate \in Nat /\ Ticks \div Clips[p.s].rate \in Nat
  BY RatesAre
<1>2. QED BY <1>1, PlaceIs DEF SourcePlace

\* Where a sentence ends.
LEMMA EndIs ==
  ASSUME NEW s \in 1 .. Count
  PROVE  /\ EndOf(s) \in Places
         /\ EndOf(s).s = s
         /\ EndOf(s).at = Clips[s].frames * (Ticks \div Clips[s].rate)
BY RatesAre, PlaceIs DEF EndOf

\* The open client's rate is its endpoint's.
LEMMA RateIs ==
  ASSUME StreamTypes, Opened
  PROVE  /\ client.endpoint \in DOMAIN Endpoints
         /\ Rate \in Nat \ {0} /\ Ticks \div Rate \in Nat \ {0} /\ Rate * (Ticks \div Rate) = Ticks
BY RatesAre DEF StreamTypes, Opened, Client, Rate

-----------------------------------------------------------------------------
(* Steps that leave the stream alone.                                      *)

streamState == <<client, buffer, generation, segment, due, upsets>>
callState == <<call, playNext, position>>

\* What the user asks for does not touch the stream or the call.
LEMMA ControlKeeps ==
  ASSUME StreamInv, PauseOrResume \/ Seek \/ CancelStream
  PROVE  StreamInv'
<1>1. UNCHANGED <<follows, default, streamState, callState>>
  BY DEF PauseOrResume, Seek, CancelStream, streamState, callState, callVars, endpointVars
<1>2. StreamTypes'
  <2>1. control' \in [cancelled : BOOLEAN, paused : BOOLEAN, seeks : Nat,
                      target : [s : 1 .. Count, frame : Nat]]
    <3>1. CASE PauseOrResume
      BY <3>1 DEF StreamInv, StreamTypes, PauseOrResume
    <3>2. CASE CancelStream
      BY <3>2 DEF StreamInv, StreamTypes, CancelStream
    <3>3. CASE Seek
      <4>1. PICK s \in DOMAIN Clips : \E f \in 0 .. Clips[s].frames :
               control' = [control EXCEPT !.seeks = @ + 1, !.target = [s |-> s, frame |-> f]]
        BY <3>3 DEF Seek
      <4>2. s \in 1 .. Count /\ Clips[s].frames \in Nat
        BY StreamBounds, RatesAre DEF Count
      <4>3. PICK f \in 0 .. Clips[s].frames :
               control' = [control EXCEPT !.seeks = @ + 1, !.target = [s |-> s, frame |-> f]]
        BY <4>1
      <4>4. f \in Nat
        BY <4>2
      <4>5. control \in [cancelled : BOOLEAN, paused : BOOLEAN, seeks : Nat,
                         target : [s : 1 .. Count, frame : Nat]]
        BY DEF StreamInv, StreamTypes
      <4> DEFINE place == [s |-> s, frame |-> f]
      <4>6. control.seeks + 1 \in Nat /\ place \in [s : 1 .. Count, frame : Nat]
        BY <4>2, <4>4, <4>5
      <4>7. control' = [control EXCEPT !.seeks = control.seeks + 1, !.target = place]
        BY <4>3, <4>5
      <4> HIDE DEF place
      <4>8. QED BY <4>5, <4>6, <4>7
    <3>4. QED BY <3>1, <3>2, <3>3
  <2>2. overrun' \in Nat
    <3>1. overrun \in Nat
      BY DEF StreamInv, StreamTypes
    <3>2. overrun' = 0 \/ overrun' = overrun
      BY DEF PauseOrResume, Seek, CancelStream
    <3>3. QED BY <3>1, <3>2
  <2>3. QED BY <1>1, <2>1, <2>2 DEF StreamInv, StreamTypes, streamState, callState
<1>3. CallsInv' /\ QueueInv' /\ OrderInv' /\ PositionInv'
  BY <1>1 DEF StreamInv, streamState, callState, CallsInv, QueueInv, OrderInv, PositionInv, Opened, Idle,
     Sought, Playing, Reopening, Emptying, SourcePlace, Rate, Noticed, Queued, Upcoming,
     Truthful, Shows, Shown, Reached
<1>4. PauseInv'
  <2>1. CASE PauseOrResume
    <3>1. Len(buffer) \in Nat /\ Len(buffer) <= Capacity /\ Capacity \in Nat
      BY StreamBounds DEF StreamInv, StreamTypes, QueueInv
    <3>2. QED BY <1>1, <2>1, <3>1 DEF StreamInv, PauseInv, PauseOrResume, streamState, callState
  <2>2. CASE Seek \/ CancelStream
    <3>1. overrun' = overrun /\ control'.paused = control.paused
      BY <2>2 DEF Seek, CancelStream, StreamInv, StreamTypes
    <3>2. QED BY <1>1, <3>1 DEF StreamInv, PauseInv, streamState, callState
  <2>3. QED BY <2>1, <2>2
<1>5. QED BY <1>2, <1>3, <1>4 DEF StreamInv

\* Nor does a change of the default endpoint.
LEMMA MoveKeeps ==
  ASSUME StreamInv, MoveDefault
  PROVE  StreamInv'
<1>1. UNCHANGED <<follows, client, buffer, generation, segment, due, callState, control, overrun>>
  BY DEF MoveDefault, callState, callVars, endpointVars
<1>2. default' \in DOMAIN Endpoints /\ upsets' \in [losses : Nat, moves : Nat]
      /\ upsets'.losses = upsets.losses
  <2>1. upsets \in [losses : Nat, moves : Nat] /\ upsets' = [upsets EXCEPT !.moves = @ + 1]
    BY DEF MoveDefault, StreamInv, StreamTypes
  <2>2. default' \in DOMAIN Endpoints
    BY DEF MoveDefault
  <2>3. QED BY <2>1, <2>2
<1>3. StreamTypes'
  BY <1>1, <1>2 DEF StreamInv, StreamTypes, callState
<1>4. Noticed' = Noticed /\ UNCHANGED upsets.losses
  BY <1>1, <1>2 DEF Noticed, Opened
<1>5. CallsInv' /\ QueueInv' /\ OrderInv' /\ PositionInv' /\ PauseInv'
  BY <1>1, <1>4 DEF StreamInv, callState, CallsInv, QueueInv, OrderInv, PositionInv, PauseInv, Opened, Idle,
     Sought, Playing, Reopening, Emptying, SourcePlace, Rate, Queued, Upcoming,
     Truthful, Shows, Shown, Reached
<1>6. QED BY <1>3, <1>5 DEF StreamInv

\* Opening fails with the utterance.
LEMMA OpenFailsKeeps ==
  ASSUME StreamInv, OpenFails
  PROVE  StreamInv'
<1>1. UNCHANGED <<follows, default, streamState, control, overrun, playNext, position>>
  BY DEF OpenFails, At, streamState, endpointVars
<1>2. call' \in [op : {"play", "reopen", "drain"}, s : 1 .. Count, frame : Nat, gen : Nat,
                 pc : {"failed"}] /\ call'.pc = "failed"
  BY DEF OpenFails, At, StreamInv, StreamTypes
<1>3. StreamTypes'
  BY <1>1, <1>2 DEF StreamInv, StreamTypes, streamState
<1>4. CallsInv' /\ QueueInv' /\ OrderInv' /\ PositionInv' /\ PauseInv'
  BY <1>1, <1>2 DEF StreamInv, streamState, CallsInv, QueueInv, OrderInv, PositionInv, PauseInv, Opened, Idle,
     Sought, Playing, Reopening, Emptying, Rate, Noticed, Truthful, Inside, Active
<1>5. QED BY <1>3, <1>4 DEF StreamInv

-----------------------------------------------------------------------------
(* Continuing what was heard.                                              *)

\* The part of a place that lies in its own sentence is a number of ticks, no more than the
\* place's own offset and no more than the sentence is long.
LEMMA WithinIs ==
  ASSUME NEW p \in Places
  PROVE  /\ WithinSentence(p) \in Nat /\ WithinSentence(p) <= p.at
         /\ WithinSentence(p) <= Clips[p.s].frames * (Ticks \div Clips[p.s].rate)
<1>1. p.s \in 1 .. Count /\ p.at \in Nat
  BY DEF Places
<1>2. EndOf(p.s).at \in Nat /\ EndOf(p.s).at = Clips[p.s].frames * (Ticks \div Clips[p.s].rate)
  BY <1>1, EndIs DEF Places
<1>3. QED BY <1>1, <1>2 DEF WithinSentence, Smaller

\* A place continues itself.
LEMMA ContinuesItself ==
  ASSUME NEW p \in Places, NEW losses \in Nat, NEW extra \in Nat
  PROVE  Continues(p, p, losses, extra)
<1>1. PICK e \in DOMAIN Endpoints : TRUE
  BY RatesAre
<1>2. p.s \in 1 .. Count /\ p.at \in Nat
  BY DEF Places
<1> DEFINE k == Ticks \div Clips[p.s].rate + Ticks \div Endpoints[e]
<1>3. k \in Nat
  BY <1>2, RatesAre
<1>4. losses * k \in Nat
  BY <1>3
<1>5. p.at >= WithinSentence(p) - losses * k - extra
  <2> HIDE DEF k
  <2> QED BY <1>2, <1>4, WithinIs
<1>6. QED BY <1>2, <1>5 DEF Continues

\* So does a place that joins on exactly.
LEMMA ExactContinues ==
  ASSUME NEW p, NEW q \in Places, NEW losses \in Nat, NEW extra \in Nat, Exact(p, q)
  PROVE  Continues(p, q, losses, extra)
<1>1. CASE p = q
  BY <1>1, ContinuesItself
<1>2. CASE Joins(p, q)
  BY <1>2 DEF Continues
<1>3. QED BY <1>1, <1>2 DEF Exact

\* Setting back a place by d ticks costs d ticks.
LEMMA ContinuesBack ==
  ASSUME NEW p \in Places, NEW q \in Places, NEW r \in Places, NEW losses \in Nat,
         NEW extra \in Nat, NEW d \in Nat,
         Continues(p, q, losses, extra), r.s = p.s, r.at <= p.at, p.at <= r.at + d
  PROVE  Continues(r, q, losses, extra + d)
<1>1. CASE Joins(p, q)
  BY <1>1 DEF Joins, Continues, Places
<1>2. CASE ~Joins(p, q)
  <2>1. p.s = q.s /\ p.at <= q.at
    BY <1>2 DEF Continues
  <2>2. PICK e \in DOMAIN Endpoints :
           p.at >= WithinSentence(q) - losses * (Ticks \div Clips[q.s].rate + Ticks \div Endpoints[e]) - extra
    BY <1>2 DEF Continues
  <2> DEFINE k == losses * (Ticks \div Clips[q.s].rate + Ticks \div Endpoints[e])
  <2>3. k \in Nat
    BY RatesAre DEF Places
  <2>4. r.at >= WithinSentence(q) - k - (extra + d) /\ r.at <= q.at
    <3>1. p.at >= WithinSentence(q) - k - extra /\ WithinSentence(q) \in Nat
      BY <2>2, WithinIs
    <3> HIDE DEF k
    <3>2. QED BY <2>1, <2>3, <3>1 DEF Places
  <2>5. QED BY <2>1, <2>4 DEF Continues
<1>3. QED BY <1>1, <1>2

\* A lost endpoint, on whose frames a sentence was fed, sets it back by no more than
\* a frame of each.
LEMMA ContinuesLost ==
  ASSUME NEW p \in Places, NEW q \in Places, NEW r \in Places, NEW losses \in Nat,
         NEW on \in DOMAIN Endpoints,
         Continues(p, q, losses, Ticks \div Endpoints[on] - 1),
         r.s = p.s, r.at <= p.at, p.at < r.at + Ticks \div Clips[p.s].rate
  PROVE  Continues(r, q, losses + 1, 0)
<1>1. CASE Joins(p, q)
  BY <1>1 DEF Joins, Continues, Places
<1>2. CASE ~Joins(p, q)
  <2>1. p.s = q.s /\ p.at <= q.at
    BY <1>2 DEF Continues
  <2>2. PICK e \in DOMAIN Endpoints :
           p.at >= WithinSentence(q) - losses * (Ticks \div Clips[q.s].rate + Ticks \div Endpoints[e])
                   - (Ticks \div Endpoints[on] - 1)
    BY <1>2 DEF Continues
  <2> DEFINE tr == Ticks \div Clips[q.s].rate
             k(x) == losses * (tr + Ticks \div Endpoints[x])
  <2>3. tr \in Nat /\ \A x \in DOMAIN Endpoints : Ticks \div Endpoints[x] \in Nat \ {0}
    BY RatesAre DEF Places
  <2>4. PICK m \in {e, on} : /\ Ticks \div Endpoints[e] <= Ticks \div Endpoints[m]
                             /\ Ticks \div Endpoints[on] <= Ticks \div Endpoints[m]
    BY <2>3
  <2> HIDE DEF tr
  <2>5. k(e) <= k(m)
    <3>1. tr + Ticks \div Endpoints[e] \in Nat /\ tr + Ticks \div Endpoints[m] \in Nat
          /\ tr + Ticks \div Endpoints[e] <= tr + Ticks \div Endpoints[m]
      BY <2>3, <2>4
    <3>2. QED BY <3>1, ProductGrows
  <2>6. k(e) \in Nat /\ k(m) \in Nat
    BY <2>3
  <2>7. (losses + 1) * (tr + Ticks \div Endpoints[m]) = k(m) + tr + Ticks \div Endpoints[m]
    <3> DEFINE each == Ticks \div Endpoints[m]
    <3>1. each \in Nat /\ tr \in Nat
      BY <2>3
    <3> HIDE DEF each
    <3>2. (losses + 1) * (tr + each) = losses * (tr + each) + tr + each
      BY <3>1, OneMore
    <3>3. QED BY <3>2 DEF each
  <2>8. p.at >= WithinSentence(q) - k(e) - (Ticks \div Endpoints[on] - 1)
    BY <2>2 DEF tr
  <2>9. p.at < r.at + tr
    BY <2>1 DEF tr
  <2> DEFINE far == (losses + 1) * (tr + Ticks \div Endpoints[m])
             ke == k(e)
             km == k(m)
             w == WithinSentence(q)
             te == Ticks \div Endpoints[on]
             tm == Ticks \div Endpoints[m]
  <2>10. far = km + tr + tm /\ ke <= km /\ te <= tm /\ p.at >= w - ke - (te - 1)
         /\ w \in Nat /\ ke \in Nat /\ km \in Nat /\ te \in Nat /\ tm \in Nat
    BY <2>3, <2>4, <2>5, <2>6, <2>7, <2>8, WithinIs
  <2>11. r.at >= w - far - 0 /\ r.at <= q.at
    <3> HIDE DEF far, ke, km, te, tm, w
    <3> QED BY <2>1, <2>3, <2>9, <2>10 DEF Places
  <2>12. QED BY <2>1, <2>11 DEF Continues, tr
<1>3. QED BY <1>1, <1>2

-----------------------------------------------------------------------------
(* Looking at the stream.                                                  *)

\* An open client is a client, and a client is open.
LEMMA OpenIs ==
  ASSUME NEW c \in Client
  PROVE  c # NoClient
<1>1. c.endpoint \in DOMAIN Endpoints /\ NoClient.endpoint = 0
  BY DEF Client, NoClient
<1>2. 0 \notin DOMAIN Endpoints
  BY StreamBounds
<1>3. QED BY <1>1, <1>2

\* The number of pauses and losses a stream has been through is a number.
LEMMA NoticedIs ==
  ASSUME StreamTypes, QueueInv
  PROVE  Noticed \in Nat
BY DEF StreamTypes, QueueInv, Noticed

\* The end of what is queued is a place, and each piece of sound of the buffer starts and ends
\* at one.
LEMMA QueuedIs ==
  ASSUME StreamTypes
  PROVE  /\ Queued \in Places
         /\ Len(buffer) \in Nat
         /\ buffer # <<>> => Len(buffer) > 0
         /\ Len(buffer) = 0 => buffer = <<>>
         /\ \A i \in 1 .. Len(buffer) :
              buffer[i] \in Sound /\ buffer[i].from \in Places /\ buffer[i].until \in Places
<1>1. buffer \in Seq(Sound) /\ due \in Places
  BY DEF StreamTypes
<1>2. Len(buffer) \in Nat /\ (buffer # <<>> => Len(buffer) > 0) /\ (Len(buffer) = 0 => buffer = <<>>)
  BY <1>1
<1>3. \A i \in 1 .. Len(buffer) : buffer[i] \in Sound
  BY <1>1, ElementOfSeq
<1>4. \A i \in 1 .. Len(buffer) : buffer[i].from \in Places /\ buffer[i].until \in Places
  BY <1>3 DEF Sound
<1>5. buffer # <<>> => Len(buffer) \in 1 .. Len(buffer)
  BY <1>2
<1>6. QED BY <1>1, <1>2, <1>3, <1>4, <1>5 DEF Queued

\* The stream's part of the invariant speaks of the stream's variables only.
LEMMA StreamStays ==
  ASSUME StreamInv, UNCHANGED <<buffer, generation, segment, due>>,
         upsets'.losses = upsets.losses, Opened' = Opened,
         Opened => client'.endpoint = client.endpoint /\ client'.lost = client.lost
  PROVE  /\ QueueInv'
         /\ Noticed' = Noticed /\ Queued' = Queued
         /\ Opened => Rate' = Rate /\ Shown' = Shown
         /\ Shows' = Shows
<1>1. Noticed' = Noticed
  BY DEF Noticed
<1>2. Opened => Rate' = Rate
  BY DEF Rate
<1>3. ~Opened => buffer = <<>> /\ Len(buffer) = 0
  BY DEF StreamInv, QueueInv
<1>4. QueueInv'
  <2>1. CASE Opened
    BY <1>1, <1>2, <2>1 DEF StreamInv, QueueInv
  <2>2. CASE ~Opened
    BY <1>3, <2>2 DEF StreamInv, QueueInv
  <2>3. QED BY <2>1, <2>2
<1>5. QED BY <1>1, <1>2, <1>4 DEF Queued, Shown, Shows

\* With nothing queued it says little.
LEMMA StreamDrops ==
  ASSUME StreamInv, buffer' = <<>>, segment'.base <= segment'.next,
         segment' \in [s : 1 .. Count, base : Nat, next : Nat],
         upsets' = upsets, ~Opened' \/ client'.lost = FALSE \/ (Opened /\ client'.lost = client.lost)
  PROVE  QueueInv' /\ Len(buffer') = 0 /\ Queued' = due'
<1>1. Len(buffer') = 0 /\ 1 .. Len(buffer') = {} /\ 1 .. Len(buffer') - 1 = {}
  BY EmptySeq
<1>2. Capacity \in Nat
  BY StreamBounds
<1>3. QueueInv'
  BY <1>1, <1>2 DEF StreamInv, QueueInv
<1>4. QED BY <1>1, <1>3 DEF Queued

-----------------------------------------------------------------------------
(* Beginning a call.                                                       *)

\* A flush stops the client and empties its buffer, and the segment is fed again from its base;
\* the endpoint and whether it was lost stay as they were.
LEMMA FlushedIs ==
  ASSUME StreamTypes, Opened, ClientFlushed
  PROVE  /\ client' \in Client /\ Opened' /\ client'.started = FALSE
         /\ client'.endpoint = client.endpoint /\ client'.lost = client.lost
         /\ buffer' = <<>>
         /\ segment' \in [s : 1 .. Count, base : Nat, next : Nat]
         /\ segment'.s = segment.s /\ segment'.base = segment.base /\ segment'.next = segment.base
<1>1. client \in Client /\ client' = [client EXCEPT !.started = FALSE]
  BY DEF StreamTypes, Opened, ClientFlushed
<1>2. client' \in Client /\ client'.started = FALSE
      /\ client'.endpoint = client.endpoint /\ client'.lost = client.lost
  BY <1>1 DEF Client
<1>3. Opened'
  BY <1>2, OpenIs DEF Opened, NoClient
<1>4. segment \in [s : 1 .. Count, base : Nat, next : Nat] /\ segment' = [segment EXCEPT !.next = segment.base]
  BY DEF StreamTypes, ClientFlushed
<1>5. segment' \in [s : 1 .. Count, base : Nat, next : Nat]
      /\ segment'.s = segment.s /\ segment'.base = segment.base /\ segment'.next = segment.base
  BY <1>4
<1>6. QED BY <1>2, <1>3, <1>5 DEF ClientFlushed

\* Beginning to play a sentence keeps the invariant: the call starts at the position the
\* pipeline asks for, with the generation it has handled.
LEMMA PlayFromKeeps ==
  ASSUME StreamInv, PlayFrom
  PROVE  StreamInv'
<1> USE DEF StreamInv
<1>1. /\ Idle /\ playNext \in [s : 1 .. Count, frame : Nat, handled : Nat]
      /\ UNCHANGED <<follows, default, playNext, position, control, overrun, upsets>>
      /\ generation' = playNext.handled
  BY DEF PlayFrom, StreamTypes, Idle, Count
<1>2. /\ call'.s = playNext.s /\ call'.frame = playNext.frame /\ call'.gen = playNext.handled
      /\ call' \in [op : {"play", "reopen", "drain"}, s : 1 .. Count, frame : Nat, gen : Nat,
                    pc : {"open", "observe"}]
      /\ call'.pc = "open" => call'.op = "play"
      /\ call'.pc = "observe" => call'.op = "reopen" /\ Opened
  BY <1>1 DEF PlayFrom, Reopens
<1>3. SourcePlace(call)' = SourcePlace(playNext) /\ SourcePlace(playNext) \in Places
  BY <1>1, <1>2, SourcePlaceIs DEF SourcePlace
<1>4. ~Sought'
  BY <1>1 DEF Sought
<1>5. ~Playing' /\ ~Emptying' /\ ~Idle' /\ call'.pc # "done" /\ call'.pc \in Active
  BY <1>2 DEF Playing, Emptying, Idle, Active, Inside
<1>6. CASE Sought
  <2>1. due' = SourcePlace(playNext)
    BY <1>6 DEF PlayFrom, Sought
  <2>2. /\ buffer' = <<>> /\ segment'.base <= segment'.next /\ Opened' = Opened
        /\ segment' \in [s : 1 .. Count, base : Nat, next : Nat]
        /\ Opened => client' \in Client /\ client'.lost = client.lost
        /\ ~Opened => client' = client
    <3>1. CASE Opened
      <4>1. ClientFlushed
        BY <1>6, <3>1 DEF PlayFrom, FlushStale, Sought
      <4>2. /\ client' \in Client /\ Opened' /\ client'.lost = client.lost /\ buffer' = <<>>
            /\ segment' \in [s : 1 .. Count, base : Nat, next : Nat]
            /\ segment'.base = segment.base /\ segment'.next = segment.base
        BY <3>1, <4>1, FlushedIs
      <4>3. segment'.base <= segment'.next
        BY <4>2
      <4>4. QED BY <3>1, <4>2, <4>3
    <3>2. CASE ~Opened
      <4>1. StreamKept
        BY <1>6, <3>2 DEF PlayFrom, FlushStale
      <4>2. QED BY <3>2, <4>1 DEF StreamKept, endpointVars, QueueInv, StreamTypes, Opened
    <3>3. QED BY <3>1, <3>2
  <2>3. QueueInv' /\ Len(buffer') = 0 /\ Queued' = due'
    BY <1>1, <2>2, StreamDrops
  <2>4. StreamTypes'
    <3>1. client' # NoClient => client' \in Client
      BY <2>2 DEF Opened
    <3>2. buffer' \in Seq(Sound) /\ generation' \in Nat
      BY <1>1, <2>2
    <3>3. call' \in [op : {"play", "reopen", "drain"}, s : 1 .. Count, frame : Nat, gen : Nat,
                     pc : Active \cup {"idle", "done", "stopped", "failed"}]
      BY <1>2 DEF Active, Inside
    <3>4. QED BY <1>1, <1>3, <2>1, <2>2, <3>1, <3>2, <3>3 DEF StreamTypes, NoClient
  <2>5. CallsInv'
    BY <1>1, <1>2, <1>4, <1>5, <2>2 DEF CallsInv, Active, Inside
  <2>6. OrderInv'
    <3>1. Noticed' \in Nat
      <4>1. Noticed' = Noticed
        BY <1>1, <2>2 DEF Noticed
      <4>2. QED BY <4>1, NoticedIs
    <3>2. Continues(SourcePlace(playNext), SourcePlace(playNext), Noticed', 0)
      BY <1>3, <3>1, ContinuesItself
    <3>3. Upcoming(SourcePlace(call), 0)'
      BY <1>3, <2>1, <2>2, <3>2 DEF Upcoming, Continues, Joins, WithinSentence, EndOf, PlaceAt
    <3>4. QED BY <1>5, <2>2, <3>3 DEF OrderInv
  <2>7. PauseInv'
    <3>1. Len(buffer) \in Nat /\ Len(buffer') = 0
      BY <2>3, QueuedIs
    <3>2. call'.pc # "held" /\ call'.pc # "feed"
      BY <1>2
    <3>3. overrun \in Nat /\ Capacity \in Nat
      BY StreamBounds DEF StreamTypes
    <3>4. QED BY <1>1, <3>1, <3>2, <3>3 DEF PauseInv
  <2>8. PositionInv'
    <3>1. position' = due'
      BY <1>1, <1>6, <2>1 DEF CallsInv
    <3>2. Reached(position, due)'
      BY <1>3, <2>1, <3>1 DEF Reached, Before, Places
    <3>3. ~Truthful'
      BY <1>2, <1>5, <2>2 DEF Truthful
    <3>4. 1 .. Len(buffer') = {}
      BY <2>3
    <3>5. QED BY <1>5, <3>2, <3>3, <3>4 DEF PositionInv
  <2>9. QED BY <2>3, <2>4, <2>5, <2>6, <2>7, <2>8
<1>7. CASE ~Sought
  <2>1. UNCHANGED <<client, buffer, segment, due, generation>>
    BY <1>1, <1>7 DEF PlayFrom, FlushStale, StreamKept, endpointVars, Sought
  <2>2. /\ QueueInv'
        /\ Noticed' = Noticed /\ Queued' = Queued /\ Opened' = Opened
        /\ Opened => Rate' = Rate /\ Shown' = Shown
        /\ Shows' = Shows
    BY <1>1, <2>1, StreamStays DEF Opened
  <2>3. StreamTypes'
    <3>1. call' \in [op : {"play", "reopen", "drain"}, s : 1 .. Count, frame : Nat, gen : Nat,
                     pc : Active \cup {"idle", "done", "stopped", "failed"}]
      BY <1>2 DEF Active, Inside
    <3>2. QED BY <1>1, <2>1, <3>1 DEF StreamTypes, NoClient
  <2>4. CallsInv'
    BY <1>1, <1>2, <1>4, <1>5, <2>2 DEF CallsInv, Active, Inside
  <2>5. playNext.frame = 0 /\ SourcePlace(playNext) = [s |-> playNext.s, at |-> 0]
    BY <1>1, <1>7, SourcePlaceIs DEF CallsInv
  <2>6. OrderInv'
    <3>1. Exact(SourcePlace(playNext), Queued) /\ Queued \in Places
      BY <1>1, <1>7, <2>5, QueuedIs DEF OrderInv
    <3>2. Noticed \in Nat
      BY NoticedIs
    <3>3. buffer = <<>> => Continues(SourcePlace(playNext), due, Noticed, 0)
      BY <3>1, <3>2, ExactContinues DEF Queued
    <3>4. Upcoming(SourcePlace(call), 0)'
      BY <1>3, <2>1, <2>2, <3>1, <3>3 DEF Upcoming
    <3>5. QED BY <1>2, <1>5, <2>5, <3>4 DEF OrderInv
  <2>7. PauseInv'
    BY <1>1, <1>2, <2>1 DEF PauseInv
  <2>8. PositionInv'
    <3>1. Reached(position, due) /\ \A i \in 1 .. Len(buffer) : Reached(position, buffer[i].until)
      BY <1>1, <1>7 DEF PositionInv, Idle
    <3>2. Truthful
      BY <1>1, <1>7 DEF Truthful
    <3>3. Shows => Reached(Shown, due)
      BY <3>2 DEF PositionInv
    <3>4. Shows => Opened
      BY DEF Shows
    <3>5. QED BY <1>1, <1>5, <2>1, <2>2, <3>1, <3>3, <3>4 DEF PositionInv, Reached
  <2>9. QED BY <2>2, <2>3, <2>4, <2>6, <2>7, <2>8
<1>8. QED BY <1>6, <1>7

\* Beginning to drain after the last sentence keeps the invariant.
LEMMA DrainKeeps ==
  ASSUME StreamInv, Drain
  PROVE  StreamInv'
<1> USE DEF StreamInv
<1>1. /\ Idle /\ playNext.s = Count + 1
      /\ UNCHANGED <<follows, default, client, buffer, generation, segment, playNext, position,
                     control, due, overrun, upsets>>
  <2>1. playNext.s \in 1 .. Count + 1 /\ Count \in Nat
    BY RatesAre DEF StreamTypes
  <2>2. playNext.s = Count + 1
    BY <2>1 DEF Drain
  <2>3. QED BY <2>2 DEF Drain, endpointVars, Idle
<1>2. ~Sought /\ ~Sought'
  BY <1>1, RatesAre DEF CallsInv, Sought
<1>3. /\ call'.op = "drain" /\ call'.s = Count /\ call'.gen = playNext.handled
      /\ call' \in [op : {"play", "reopen", "drain"}, s : 1 .. Count, frame : Nat, gen : Nat,
                    pc : {"done", "observe"}]
      /\ call'.pc = "observe" <=> Opened
  <2>1. Count \in 1 .. Count /\ playNext.handled \in Nat
    BY RatesAre DEF StreamTypes
  <2>2. call' = [op |-> "drain", s |-> Count, frame |-> 0, gen |-> playNext.handled,
                 pc |-> IF Opened THEN "observe" ELSE "done"]
    BY DEF Drain
  <2>3. QED BY <2>1, <2>2
<1>4. ~Playing' /\ ~Reopening' /\ ~Idle' /\ call'.pc # "open"
  BY <1>3 DEF Playing, Reopening, Idle
<1>5. /\ QueueInv'
      /\ Noticed' = Noticed /\ Queued' = Queued /\ Opened' = Opened
      /\ Opened => Rate' = Rate /\ Shown' = Shown
      /\ Shows' = Shows
  BY <1>1, StreamStays DEF Opened
<1>6. StreamTypes'
  <2>1. call' \in [op : {"play", "reopen", "drain"}, s : 1 .. Count, frame : Nat, gen : Nat,
                   pc : Active \cup {"idle", "done", "stopped", "failed"}]
    BY <1>3 DEF Active, Inside
  <2>2. QED BY <1>1, <2>1 DEF StreamTypes, NoClient
<1>7. CallsInv'
  BY <1>1, <1>2, <1>3, <1>4, <1>5 DEF CallsInv, QueueInv, Active, Inside, Sought
<1>8. OrderInv'
  <2>1. Exact([s |-> Count + 1, at |-> 0], Queued) /\ Queued \in Places
    BY <1>1, <1>2, QueuedIs DEF OrderInv
  <2>2. Queued.s = Count /\ Queued.at >= EndOf(Count).at
    <3>1. Queued.s \in 1 .. Count /\ Count \in Nat
      BY <2>1, RatesAre DEF Places
    <3>2. [s |-> Count + 1, at |-> 0] # Queued
      BY <3>1
    <3>3. Joins([s |-> Count + 1, at |-> 0], Queued)
      BY <2>1, <3>2 DEF Exact
    <3>4. Queued.s = Count
      BY <3>1, <3>3 DEF Joins
    <3>5. QED BY <3>3, <3>4 DEF Joins
  <2>3. QED BY <1>4, <1>5, <2>2 DEF OrderInv
<1>9. PauseInv'
  BY <1>1, <1>3 DEF PauseInv
<1>10. PositionInv'
  <2>1. Reached(position, due) /\ \A i \in 1 .. Len(buffer) : Reached(position, buffer[i].until)
    BY <1>1, <1>2 DEF PositionInv, Idle
  <2>2. Truthful /\ (Shows => Opened)
    BY <1>1, <1>2 DEF Truthful, Shows
  <2>3. Shows => Reached(Shown, due)
    BY <2>2 DEF PositionInv
  <2>4. QED BY <1>1, <1>4, <1>5, <2>1, <2>2, <2>3 DEF PositionInv, Reached
<1>11. QED BY <1>5, <1>6, <1>7, <1>8, <1>9, <1>10

\* Where a sentence begins in the queue: convert_frame_position(), but not beyond its
\* converted end.
LEMMA FirstFrameIs ==
  ASSUME NEW s \in 1 .. Count, NEW frame \in Nat, NEW on \in DOMAIN Endpoints,
         NEW first, first = Smaller(ConvertedFrames(s, Endpoints[on]),
                                    Converted(frame, Clips[s].rate, Endpoints[on])),
         NEW at, at = frame * (Ticks \div Clips[s].rate)
  PROVE  /\ first \in Nat /\ at \in Nat /\ first <= ConvertedFrames(s, Endpoints[on])
         /\ frame = 0 => first = 0
         /\ first * (Ticks \div Endpoints[on]) \in Nat
         /\ first * (Ticks \div Endpoints[on]) <= at
         /\ \/ at < first * (Ticks \div Endpoints[on]) + Ticks \div Endpoints[on]
            \/ /\ first * (Ticks \div Endpoints[on]) >= EndOf(s).at
               /\ first = ConvertedFrames(s, Endpoints[on])
<1> DEFINE tr == Ticks \div Clips[s].rate
           te == Ticks \div Endpoints[on]
           total == ConvertedFrames(s, Endpoints[on])
           start == Converted(frame, Clips[s].rate, Endpoints[on])
<1>1. /\ s \in DOMAIN Clips /\ Clips[s].rate \in Nat \ {0} /\ Clips[s].frames \in Nat \ {0}
      /\ Endpoints[on] \in Nat \ {0} /\ tr \in Nat \ {0} /\ te \in Nat \ {0}
      /\ Clips[s].rate * tr = Endpoints[on] * te
  BY RatesAre
<1>2. start \in Nat /\ start * te <= frame * tr /\ frame * tr < start * te + te
  <2> HIDE DEF tr, te
  <2> QED BY <1>1, ConvertedDown
<1>3. total \in Nat \ {0} /\ total * te >= Clips[s].frames * tr
  <2> HIDE DEF tr, te
  <2> QED BY <1>1, ConvertedUp
<1>4. EndOf(s).at = Clips[s].frames * tr
  BY EndIs
<1>5. at = frame * tr
  OBVIOUS
<1>6. first = Smaller(total, start)
  OBVIOUS
<1> HIDE DEF tr, te, total, start
<1>7. start * te \in Nat /\ total * te \in Nat /\ frame * tr \in Nat /\ Clips[s].frames * tr \in Nat
  BY <1>1, <1>2, <1>3
<1>8. frame = 0 => start = 0
  <2>1. ASSUME frame = 0, start # 0 PROVE FALSE
    <3>1. 0 * tr = 0 /\ 1 * te <= start * te
      BY <1>1, <1>2, <2>1, ProductGrows
    <3>2. start * te <= 0
      BY <1>2, <2>1, <3>1
    <3>3. QED BY <1>1, <1>7, <3>1, <3>2
  <2>2. QED BY <2>1
<1>9. CASE total <= start
  <2>1. first = total /\ total * te <= start * te
    <3>1. first = total
      BY <1>2, <1>3, <1>6, <1>9 DEF Smaller
    <3>2. total * te <= start * te
      BY <1>1, <1>2, <1>3, <1>9, ProductGrows
    <3>3. QED BY <3>1, <3>2
  <2>2. frame = 0 => first = 0
    BY <1>3, <1>8, <1>9
  <2>3. first * te <= at /\ first * te >= EndOf(s).at /\ first * te \in Nat
    BY <1>2, <1>3, <1>4, <1>5, <1>7, <2>1
  <2>4. QED BY <1>3, <1>5, <1>7, <2>1, <2>2, <2>3 DEF te, total
<1>10. CASE ~(total <= start)
  <2>1. first = start /\ start <= total
    BY <1>2, <1>3, <1>6, <1>10 DEF Smaller
  <2>2. first * te <= at /\ at < first * te + te /\ first * te \in Nat
    BY <1>2, <1>5, <1>7, <2>1
  <2>3. QED BY <1>2, <1>5, <1>7, <1>8, <2>1, <2>2 DEF te, total
<1>11. QED BY <1>9, <1>10

\* Opening a stream, or keeping the one that is open, keeps the invariant: the segment starts
\* at or before what is due, with the slack of one more resampling.
LEMMA OpenStreamKeeps ==
  ASSUME StreamInv, OpenStream
  PROVE  StreamInv'
<1> USE DEF StreamInv
<1> DEFINE on == IF Opened THEN client.endpoint ELSE default
           first == segment'.next
           te == Ticks \div Endpoints[on]
<1>1. /\ call.pc = "open" /\ call.op = "play"
      /\ call' = [call EXCEPT !.pc = "observe"] /\ position' = SourcePlace(call)
      /\ UNCHANGED <<follows, default, buffer, generation, playNext, control, due, overrun, upsets>>
  BY DEF OpenStream, CallsInv
<1>2. /\ on \in DOMAIN Endpoints
      /\ call.s \in 1 .. Count /\ call.frame \in Nat
      /\ call \in [op : {"play", "reopen", "drain"}, s : 1 .. Count, frame : Nat, gen : Nat,
                   pc : Active \cup {"idle", "done", "stopped", "failed"}]
  BY RateIs DEF StreamTypes
<1>3. /\ client' = IF Opened THEN client
                   ELSE [endpoint |-> on, source |-> Clips[call.s].rate, lost |-> FALSE,
                         started |-> FALSE]
      /\ segment' = [s |-> call.s,
                     base |-> Smaller(ConvertedFrames(call.s, Endpoints[on]),
                                      Converted(call.frame, Clips[call.s].rate, Endpoints[on])),
                     next |-> Smaller(ConvertedFrames(call.s, Endpoints[on]),
                                      Converted(call.frame, Clips[call.s].rate, Endpoints[on]))]
  BY DEF OpenStream
<1>4. /\ segment'.s = call.s /\ segment'.base = first /\ segment' = [s |-> call.s, base |-> first, next |-> first]
      /\ first = Smaller(ConvertedFrames(call.s, Endpoints[on]),
                         Converted(call.frame, Clips[call.s].rate, Endpoints[on]))
  BY <1>3
<1>5. /\ call' \in [op : {"play"}, s : 1 .. Count, frame : Nat, gen : Nat, pc : {"observe"}]
      /\ call'.s = call.s /\ call'.gen = call.gen /\ call'.pc = "observe" /\ call'.op = "play"
  BY <1>1, <1>2
<1>6. client' \in Client /\ client'.endpoint = on /\ (~Opened => client'.lost = FALSE)
  <2>1. CASE Opened
    BY <1>3, <2>1 DEF StreamTypes, Opened
  <2>2. CASE ~Opened
    <3>1. Clips[call.s].rate \in Int
      BY <1>2, RatesAre
    <3>2. QED BY <1>2, <1>3, <2>2, <3>1 DEF Client
  <2>3. QED BY <2>1, <2>2
<1>7. Opened' /\ Rate' = Endpoints[on]
  BY <1>6, OpenIs DEF Opened, Rate, NoClient
<1> HIDE DEF on
<1> DEFINE at == call.frame * (Ticks \div Clips[call.s].rate)
<1>8. /\ first \in Nat /\ first <= ConvertedFrames(call.s, Endpoints[on])
      /\ call.frame = 0 => first = 0
      /\ first * te \in Nat /\ first * te <= at
      /\ at < first * te + te \/ (first * te >= EndOf(call.s).at /\ first = ConvertedFrames(call.s, Endpoints[on]))
      /\ te \in Nat \ {0} /\ at \in Nat
  BY <1>2, <1>4, FirstFrameIs, RatesAre
<1>9. /\ SourcePlace(call) \in Places /\ SourcePlace(call).s = call.s /\ SourcePlace(call).at = at
      /\ call.frame = 0 => SourcePlace(call) = [s |-> call.s, at |-> 0]
  BY <1>2, SourcePlaceIs
<1> HIDE DEF first, at
<1> DEFINE here == PlaceAt(call.s, first, Endpoints[on])
<1>10. /\ here \in Places /\ here.s = call.s /\ here.at = first * te
       /\ first = 0 => here = [s |-> call.s, at |-> 0]
       /\ here = PlaceAt(call'.s, segment'.next, Rate')
  <2>1. Endpoints[on] \in Nat
    BY <1>2, RatesAre
  <2>2. QED BY <1>2, <1>5, <1>7, <1>8, <2>1, PlaceIs DEF first
<1> HIDE DEF te, here
<1>11. segment' \in [s : 1 .. Count, base : Nat, next : Nat] /\ segment'.next - segment'.base = 0
  BY <1>2, <1>4, <1>8
<1>12. StreamTypes'
  <2>1. call' \in [op : {"play", "reopen", "drain"}, s : 1 .. Count, frame : Nat, gen : Nat,
                   pc : Active \cup {"idle", "done", "stopped", "failed"}]
    BY <1>5 DEF Active, Inside
  <2>2. QED BY <1>1, <1>6, <1>9, <1>11, <2>1 DEF StreamTypes
<1>13. /\ ~Idle' /\ ~Emptying' /\ ~Reopening' /\ Playing'
  BY <1>5 DEF Idle, Emptying, Reopening, Playing, Inside
<1>14. CallsInv'
  <2>1. call.gen = generation /\ playNext.handled = generation
    BY <1>1 DEF CallsInv, Active
  <2>2. segment'.next <= ConvertedFrames(call'.s, Rate')
    BY <1>4, <1>5, <1>7, <1>8 DEF first
  <2>3. QED BY <1>1, <1>4, <1>5, <1>7, <1>13, <2>1, <2>2 DEF CallsInv
<1>15. /\ Noticed' = Noticed /\ Queued' = Queued
       /\ Noticed \in Nat /\ Queued \in Places /\ Len(buffer) \in Nat
       /\ ~Opened => buffer = <<>>
       /\ Opened => Rate' = Rate
  <2>1. Noticed' = Noticed
    BY <1>1, <1>3, <1>6, <1>7 DEF Noticed, StreamTypes
  <2>2. Queued' = Queued
    BY <1>1 DEF Queued
  <2>3. Opened => Rate' = Rate
    BY <1>7 DEF Rate, on
  <2>4. QED BY <2>1, <2>2, <2>3, NoticedIs, QueuedIs DEF QueueInv
<1>16. call.frame > 0 => buffer = <<>>
  BY <1>1 DEF OrderInv
<1>17. Len(<<>>) = 0 /\ 1 .. 0 = {}
  BY EmptySeq
<1>18. QueueInv'
  <2>1. first > 0 => buffer = <<>>
    BY <1>2, <1>8, <1>16
  <2>2. \A i \in 1 .. Len(buffer) : ~(Len(buffer) - i < 0)
    BY <1>15
  <2>3. Opened => client'.lost = client.lost
    BY <1>3
  <2>4. \A i \in 1 .. Len(buffer) : buffer[i].gen = generation
    BY DEF QueueInv
  <2>5. segment'.base <= segment'.next /\ (segment'.base > 0 => Len(buffer) <= segment'.next - segment'.base)
    BY <1>4, <1>8, <1>11, <1>17, <2>1
  <2>6. buffer # <<>> => Continues(buffer[1].from, due, Noticed, Ticks \div Rate - 1) /\ Rate' = Rate
    BY <1>15 DEF QueueInv
  <2>7. QED BY <1>1, <1>6, <1>7, <1>11, <1>15, <1>17, <2>2, <2>3, <2>4, <2>5, <2>6 DEF QueueInv
<1>19. Upcoming(SourcePlace(call), 0)
  BY <1>1 DEF OrderInv
<1>20. Upcoming(PlaceAt(call.s, segment.next, Rate), Ticks \div Rate - 1)'
  <2>1. CASE buffer = <<>>
    <3>1. Continues(SourcePlace(call), due, Noticed, 0) /\ due \in Places
      BY <1>19, <2>1 DEF Upcoming, StreamTypes
    <3>2. CASE at < first * te + te
      <4>1. te - 1 \in Nat /\ at <= first * te + (te - 1)
        BY <1>8, <3>2
      <4>2. Continues(here, due, Noticed, 0 + (te - 1))
        BY <1>8, <1>9, <1>10, <1>15, <3>1, <4>1, ContinuesBack
      <4>3. 0 + (te - 1) = Ticks \div Rate' - 1
        BY <1>7, <1>8 DEF te
      <4>4. QED BY <1>1, <1>10, <1>15, <2>1, <4>2, <4>3 DEF Upcoming
    <3>3. CASE first * te >= EndOf(call.s).at
      <4>1. CASE Joins(SourcePlace(call), due)
        <5>1. at = 0
          BY <1>9, <4>1 DEF Joins
        <5>2. first * te = 0
          BY <1>8, <5>1
        <5>3. Joins(here, due)
          BY <1>9, <1>10, <4>1, <5>2 DEF Joins
        <5>4. QED BY <1>1, <1>10, <1>15, <2>1, <5>3 DEF Upcoming, Continues
      <4>2. CASE ~Joins(SourcePlace(call), due)
        <5>1. call.s = due.s /\ at <= due.at
          BY <1>9, <3>1, <4>2 DEF Continues
        <5>2. PICK e \in DOMAIN Endpoints : TRUE
          BY RatesAre
        <5> DEFINE k == Noticed * (Ticks \div Clips[due.s].rate + Ticks \div Endpoints[e])
        <5>3. k \in Nat
          <6>1. due.s \in 1 .. Count
            BY <3>1 DEF Places
          <6>2. Ticks \div Clips[due.s].rate \in Nat /\ Ticks \div Endpoints[e] \in Nat
            BY <5>2, <6>1, RatesAre
          <6>3. Ticks \div Clips[due.s].rate + Ticks \div Endpoints[e] \in Nat
            BY <6>2
          <6>4. QED BY <1>15, <6>3
        <5>4. here.at >= WithinSentence(due) /\ here.at <= due.at /\ WithinSentence(due) \in Nat
          <6>1. EndOf(due.s).at \in Nat /\ due.at \in Nat
            BY <3>1, EndIs DEF Places
          <6>2. WithinSentence(due) <= EndOf(due.s).at
            BY <6>1 DEF WithinSentence, Smaller
          <6>3. QED BY <1>8, <1>10, <3>1, <3>3, <5>1, <6>1, <6>2, WithinIs
        <5>5. here.at >= WithinSentence(due) - k - (te - 1)
          <6>1. here.at \in Nat
            BY <1>10 DEF Places
          <6> HIDE DEF k
          <6>2. QED BY <1>8, <5>3, <5>4, <6>1
        <5>6. Continues(here, due, Noticed, te - 1)
          BY <1>10, <5>1, <5>4, <5>5 DEF Continues
        <5>7. te = Ticks \div Rate'
          BY <1>7 DEF te
        <5>8. QED BY <1>1, <1>10, <1>15, <2>1, <5>6, <5>7 DEF Upcoming
      <4>3. QED BY <4>1, <4>2
    <3>4. QED BY <1>8, <3>2, <3>3
  <2>2. CASE buffer # <<>>
    <3>1. call.frame = 0
      BY <1>2, <1>16, <2>2
    <3>2. here = SourcePlace(call)
      BY <1>8, <1>9, <1>10, <3>1
    <3>3. Exact(here, Queued)
      BY <1>19, <2>2, <3>2 DEF Upcoming
    <3>4. QED BY <1>1, <1>10, <1>15, <2>2, <3>3 DEF Upcoming
  <2>3. QED BY <2>1, <2>2
<1>21. OrderInv'
  BY <1>5, <1>13, <1>20 DEF OrderInv
<1>22. PauseInv'
  BY <1>1, <1>5 DEF PauseInv
<1>23. due \in Places /\ \A i \in 1 .. Len(buffer) : buffer[i].until \in Places
  BY QueuedIs DEF StreamTypes
\* Until the sentence goes on from elsewhere, it begins here.
<1>24. call.frame = 0 => position' = [s |-> segment'.s, at |-> 0]
  BY <1>1, <1>4, <1>9
<1>25. call.frame > 0 => buffer = <<>> /\ Before(SourcePlace(call), due)
                         /\ Before(here, due)
  <2>1. ASSUME call.frame > 0
        PROVE  Before(SourcePlace(call), due) /\ Before(here, due) /\ buffer = <<>>
    <3>1. at > 0
      <4>1. Ticks \div Clips[call.s].rate \in Nat \ {0}
        BY <1>2, RatesAre
      <4>2. 1 * (Ticks \div Clips[call.s].rate) <= at
        <5> DEFINE each == Ticks \div Clips[call.s].rate
        <5>1. each \in Nat /\ call.frame \in Nat /\ 1 <= call.frame /\ at = call.frame * each
          BY <1>2, <2>1, <4>1 DEF at
        <5> HIDE DEF each
        <5>2. 1 * each <= call.frame * each
          BY <5>1, ProductGrows
        <5>3. QED BY <5>1, <5>2 DEF each
      <4>3. QED BY <1>8, <4>1, <4>2
    <3>2. Continues(SourcePlace(call), due, Noticed, 0)
      BY <1>16, <1>19, <2>1 DEF Upcoming
    <3>3. call.s = due.s /\ at <= due.at
      BY <1>9, <3>1, <3>2 DEF Continues, Joins
    <3>4. first * te <= due.at
      BY <1>8, <1>23, <3>3 DEF Places
    <3>5. QED BY <1>9, <1>10, <1>16, <2>1, <3>3, <3>4 DEF Before
  <2>2. QED BY <2>1
<1>26. call.frame = 0 \/ call.frame > 0
  BY <1>2
<1>27. PositionInv'
  <2>1. Reached(position, due)'
    BY <1>1, <1>24, <1>25, <1>26 DEF Reached, Before
  <2>2. \A i \in 1 .. Len(buffer) : Reached(position, buffer[i].until)'
    BY <1>1, <1>17, <1>24, <1>25, <1>26 DEF Reached
  <2>3. Shows' => Reached(Shown, due)'
    <3>1. ASSUME Shows' PROVE Reached(Shown, due)'
      <4>1. Len(buffer) = 0
        BY <1>1, <1>11, <1>15, <3>1 DEF Shows
      <4>2. segment'.next - Len(buffer') = first
        BY <1>1, <1>8, <4>1 DEF first
      <4>3. Shown' = here
        BY <1>4, <1>5, <1>10, <4>2 DEF Shown, first
      <4>4. call.frame = 0 => here = [s |-> segment'.s, at |-> 0]
        BY <1>4, <1>8, <1>10
      <4>5. QED BY <1>1, <1>25, <1>26, <4>3, <4>4 DEF Reached, Before
    <3>2. QED BY <3>1
  <2>4. segment'.next < ConvertedFrames(call'.s, Rate') =>
          Reached(position, PlaceAt(call.s, segment.next + 1, Rate))'
    <3>1. ASSUME first < ConvertedFrames(call.s, Endpoints[on])
          PROVE  Reached(position, PlaceAt(call.s, segment.next + 1, Rate))'
      <4>1. at < first * te + te
        BY <1>8, <3>1
      <4>2. Endpoints[on] \in Nat /\ Ticks \div Endpoints[on] \in Nat /\ first + 1 \in Nat
        BY <1>2, <1>8, RatesAre
      <4>3. PlaceAt(call.s, first + 1, Endpoints[on]).s = call.s
            /\ PlaceAt(call.s, first + 1, Endpoints[on]).at = (first + 1) * te
        BY <1>2, <4>2, PlaceIs DEF te
      <4>4. (first + 1) * te = first * te + te
        BY <1>8
      <4>5. Before(SourcePlace(call), PlaceAt(call.s, first + 1, Endpoints[on]))
        BY <1>8, <1>9, <4>1, <4>3, <4>4 DEF Before
      <4>6. QED BY <1>1, <1>5, <1>7, <4>5 DEF Reached, Before, first
    <3>2. QED BY <1>5, <1>7, <3>1 DEF first
  <2>5. QED BY <1>1, <1>13, <2>1, <2>2, <2>3, <2>4 DEF PositionInv
<1>28. QED BY <1>12, <1>14, <1>18, <1>21, <1>22, <1>27

-----------------------------------------------------------------------------
(* The endpoint plays, and is lost.                                        *)

\* What was reached at the end of the queue is reached a frame later.
LEMMA NextIsBeyond ==
  ASSUME StreamTypes, Opened, NEW q \in Places, Reached(position, q),
         Exact(PlaceAt(call.s, segment.next, Rate), q)
  PROVE  Reached(position, PlaceAt(call.s, segment.next + 1, Rate))
<1> DEFINE here == PlaceAt(call.s, segment.next, Rate)
           beyond == PlaceAt(call.s, segment.next + 1, Rate)
<1>1. Ticks \div Rate \in Nat /\ Rate \in Nat /\ segment.next \in Nat /\ call.s \in 1 .. Count
      /\ position \in Places
  BY RateIs DEF StreamTypes
<1>2. /\ here \in Places /\ beyond \in Places /\ here.s = call.s /\ beyond.s = call.s
      /\ here.at = segment.next * (Ticks \div Rate)
      /\ beyond.at = (segment.next + 1) * (Ticks \div Rate)
  BY <1>1, PlaceIs
<1>3. (segment.next + 1) * (Ticks \div Rate) = segment.next * (Ticks \div Rate) + Ticks \div Rate
  BY <1>1
<1>4. Exact(here, q)
  OBVIOUS
<1> HIDE DEF here, beyond
<1>5. Before(here, beyond)
  <2>1. here.at \in Nat
    BY <1>2 DEF Places
  <2>2. QED BY <1>1, <1>2, <1>3, <2>1 DEF Before
<1>6. Before(q, here)
  BY <1>4 DEF Exact, Joins, Before, Places
<1>7. Before(position, q) => Before(position, beyond)
  BY <1>1, <1>2, <1>5, <1>6 DEF Before, Places
<1>8. QED BY <1>7 DEF Reached, beyond

\* The device taking the front of the buffer keeps the invariant: what is due moves to where
\* the taken sound ended, which is where the next piece starts.
LEMMA PlayKeeps ==
  ASSUME StreamInv, Play
  PROVE  StreamInv'
<1> USE DEF StreamInv
<1>1. /\ Opened /\ client.started /\ ~client.lost /\ buffer # <<>>
      /\ buffer' = Tail(buffer) /\ due' = buffer[1].until
      /\ overrun' = IF control.paused THEN overrun + 1 ELSE 0
      /\ UNCHANGED <<follows, default, client, generation, segment, call, playNext, position,
                     control, upsets>>
  BY DEF Play, Audible, callVars
<1>2. buffer \in Seq(Sound)
  BY DEF StreamTypes
<1> DEFINE n == Len(buffer)
<1>3. /\ n \in Nat \ {0} /\ Len(buffer') = n - 1 /\ buffer' \in Seq(Sound)
      /\ \A i \in 1 .. n - 1 : buffer'[i] = buffer[i + 1]
      /\ buffer' = <<>> <=> n = 1
  <2>1. /\ n \in Nat /\ Tail(buffer) \in Seq(Sound) /\ Len(Tail(buffer)) = n - 1
        /\ \A i \in 1 .. n - 1 : Tail(buffer)[i] = buffer[i + 1]
    BY <1>1, <1>2, HeadTailProperties, LenProperties
  <2>2. n > 0
    BY <1>1, QueuedIs
  <2>3. Tail(buffer) = <<>> <=> Len(Tail(buffer)) = 0
    BY <2>1, EmptySeq
  <2>4. QED BY <1>1, <2>1, <2>2, <2>3
<1>4. \A i \in 1 .. n : buffer[i] \in Sound /\ buffer[i].from \in Places /\ buffer[i].until \in Places
  BY QueuedIs
<1>5. due' \in Places /\ due' = buffer[1].until
  BY <1>1, <1>3, <1>4
<1>6. StreamTypes'
  <2>1. overrun' \in Nat
    BY <1>1 DEF StreamTypes
  <2>2. QED BY <1>1, <1>3, <1>5, <2>1 DEF StreamTypes, NoClient
<1>7. Opened' /\ Rate' = Rate /\ Noticed' = Noticed /\ Noticed \in Nat /\ (Sought' <=> Sought) /\ (Idle' <=> Idle)
      /\ (Playing' <=> Playing) /\ (Emptying' <=> Emptying) /\ (Reopening' <=> Reopening)
  BY <1>1, NoticedIs DEF Opened, Rate, Noticed, Sought, Idle, Playing, Emptying, Reopening
<1>8. CallsInv'
  BY <1>1, <1>7 DEF CallsInv, Idle, SourcePlace, Opened, Rate, Playing, Sought
<1>9. Queued' = Queued
  <2>1. CASE n = 1
    BY <1>1, <1>3, <2>1 DEF Queued
  <2>2. CASE n # 1
    <3>1. n - 1 \in 1 .. n - 1 /\ buffer' # <<>>
      BY <1>3, <2>2
    <3>2. buffer'[n - 1] = buffer[n]
      BY <1>3, <3>1
    <3>3. QED BY <1>1, <1>3, <3>1, <3>2 DEF Queued
  <2>3. QED BY <2>1, <2>2
<1>10. client'.lost = client.lost /\ upsets' = upsets /\ segment' = segment
  BY <1>1
<1> DEFINE te == Ticks \div Rate - 1
<1>11. te \in Nat
  BY <1>1, RateIs
<1>12. QueueInv'
  <2>1. Len(buffer') <= Capacity
    BY <1>3, StreamBounds DEF QueueInv
  <2>2. segment.base > 0 => Len(buffer') <= segment.next - segment.base
    <3>1. segment.base > 0 => Len(buffer) <= segment.next - segment.base
      BY DEF QueueInv
    <3>2. segment.base \in Nat /\ segment.next \in Nat
      BY DEF StreamTypes
    <3>3. QED BY <1>3, <3>1, <3>2
  <2>3. ASSUME NEW i \in 1 .. Len(buffer')
        PROVE  /\ buffer'[i].gen = generation
               /\ Len(buffer') - i < segment.next - segment.base =>
                    buffer'[i].until = PlaceAt(segment.s, segment.next - (Len(buffer') - i), Rate)
    <3>1. i + 1 \in 1 .. n /\ buffer'[i] = buffer[i + 1] /\ Len(buffer') - i = n - (i + 1)
      BY <1>3
    <3>2. QED BY <3>1 DEF QueueInv
  <2>4. ASSUME NEW i \in 1 .. Len(buffer') - 1
        PROVE  Exact(buffer'[i + 1].from, buffer'[i].until)
    <3>1. i + 1 \in 1 .. n - 1 /\ i \in 1 .. n - 1
      BY <1>3
    <3>2. buffer'[i] = buffer[i + 1] /\ buffer'[i + 1] = buffer[(i + 1) + 1]
      BY <1>3, <3>1
    <3>3. QED BY <3>1, <3>2 DEF QueueInv
  <2>5. ASSUME buffer' # <<>> PROVE Continues(buffer'[1].from, due', Noticed, te)
    <3>1. 1 \in 1 .. n - 1 /\ buffer'[1] = buffer[1 + 1]
      BY <1>3, <2>5
    <3>2. Exact(buffer[1 + 1].from, buffer[1].until)
      BY <3>1 DEF QueueInv
    <3>3. QED BY <1>5, <1>7, <1>11, <3>1, <3>2, ExactContinues
  <2>6. QED BY <1>1, <1>7, <2>1, <2>2, <2>3, <2>4, <2>5 DEF QueueInv
\* What was to join the last sound, now queued no more, continues it.
<1>13. ASSUME NEW p, NEW x \in Nat, Upcoming(p, x)
       PROVE  IF buffer' = <<>> THEN Continues(p, due', Noticed', x) ELSE Exact(p, Queued')
  <2>1. Exact(p, Queued)
    BY <1>1, <1>13 DEF Upcoming
  <2>2. buffer' = <<>> => due' = Queued
    BY <1>9 DEF Queued
  <2>3. QED BY <1>5, <1>7, <1>9, <2>1, <2>2, ExactContinues
<1>14. OrderInv'
  <2>1. Playing' => Upcoming(PlaceAt(call.s, segment.next, Rate), Ticks \div Rate - 1)'
    BY <1>1, <1>7, <1>11, <1>13 DEF OrderInv, Upcoming
  <2>2. call.pc = "open" \/ Reopening => Upcoming(SourcePlace(call), 0)'
    <3>1. SourcePlace(call)' = SourcePlace(call)
      BY <1>1 DEF SourcePlace
    <3>2. QED BY <1>13, <3>1 DEF OrderInv, Upcoming
  <2>3. ~((call.pc = "open" \/ Reopening) /\ call.frame > 0)
    BY <1>1 DEF OrderInv
  <2>4. Idle' /\ ~Sought' => Exact([s |-> playNext.s, at |-> 0], Queued)'
    BY <1>1, <1>7, <1>9 DEF OrderInv
  <2>5. Emptying' \/ call'.pc = "done" => Queued'.s = Count /\ Queued'.at >= EndOf(Count).at
    BY <1>1, <1>7, <1>9 DEF OrderInv
  <2>6. QED BY <1>1, <1>7, <2>1, <2>2, <2>3, <2>4, <2>5 DEF OrderInv
<1>15. PauseInv'
  <2>1. overrun \in Nat /\ Capacity \in Nat
    BY StreamBounds DEF StreamTypes
  <2>2. control.paused => overrun' + Len(buffer') = overrun + n
    BY <1>1, <1>3, <2>1
  <2>3. QED BY <1>1, <1>3, <2>1, <2>2 DEF PauseInv
<1>16. PositionInv'
  <2>1. ASSUME Truthful', Shows' PROVE Reached(Shown, due)'
    <3>1. Truthful
      BY <1>1, <1>7, <2>1 DEF Truthful
    <3>2. /\ segment.base \in Nat /\ segment.next \in Nat /\ segment.s \in 1 .. Count
          /\ n - 1 <= segment.next - segment.base
          /\ Shown' = PlaceAt(segment.s, segment.next - (n - 1), Rate)
      BY <1>1, <1>3, <1>7, <2>1 DEF StreamTypes, Shows, Shown
    <3>3. CASE n - 1 < segment.next - segment.base
      <4>1. buffer[1].until = PlaceAt(segment.s, segment.next - (n - 1), Rate)
        BY <1>3, <3>3 DEF QueueInv
      <4>2. Shown' = due'
        BY <1>5, <3>2, <4>1
      <4>3. QED BY <1>5, <4>2 DEF Reached, Before, Places
    <3>4. CASE n - 1 = segment.next - segment.base
      <4>1. segment.base = 0
        BY <1>3, <3>2, <3>4 DEF QueueInv
      <4>2. segment.next - (n - 1) = 0
        BY <1>3, <3>2, <3>4, <4>1
      <4>3. Shown' = [s |-> segment.s, at |-> 0]
        BY <1>1, <3>2, <4>2, RateIs, PlaceIs
      <4>4. QED BY <1>1, <4>3 DEF Reached
    <3>5. QED BY <1>3, <3>2, <3>3, <3>4
  <2>2. ASSUME call.pc \notin {"open", "failed", "stopped"}, ~(Idle /\ Sought)
        PROVE  /\ Reached(position, due)'
               /\ \A i \in 1 .. Len(buffer') : Reached(position, buffer[i].until)'
    <3>1. \A i \in 1 .. n : Reached(position, buffer[i].until)
      BY <2>2 DEF PositionInv
    <3>2. Reached(position, due)'
      BY <1>1, <1>3, <1>5, <3>1 DEF Reached
    <3>3. ASSUME NEW i \in 1 .. Len(buffer') PROVE Reached(position, buffer[i].until)'
      <4>1. i + 1 \in 1 .. n /\ buffer'[i] = buffer[i + 1]
        BY <1>3
      <4>2. QED BY <1>1, <3>1, <4>1 DEF Reached
    <3>4. QED BY <3>2, <3>3
  <2>3. ASSUME Playing, buffer' = <<>>, segment.next < ConvertedFrames(call.s, Rate)
        PROVE  Reached(position, PlaceAt(call.s, segment.next + 1, Rate))'
    <3>1. n = 1
      BY <1>3, <2>3
    <3>2. call.pc \notin {"open", "failed", "stopped"} /\ ~(Idle /\ Sought)
      BY <2>3 DEF Playing, Inside, Idle
    <3>3. Reached(position, buffer[1].until)
      BY <3>1, <3>2 DEF PositionInv
    <3>4. Exact(PlaceAt(call.s, segment.next, Rate), buffer[1].until)
      BY <1>1, <2>3, <3>1 DEF OrderInv, Upcoming, Queued
    <3>5. Reached(position, PlaceAt(call.s, segment.next + 1, Rate))
      BY <1>1, <1>5, <3>3, <3>4, NextIsBeyond
    <3>6. QED BY <1>1, <1>7, <3>5 DEF Reached
  <2>4. QED BY <1>1, <1>7, <2>1, <2>2, <2>3 DEF PositionInv
<1>17. QED BY <1>6, <1>8, <1>12, <1>14, <1>15, <1>16

\* Losing an endpoint keeps the invariant: what is due moves past the sound that was lost with
\* its buffer, which counts as one more loss.
LEMMA LoseKeeps ==
  ASSUME StreamInv, Lose
  PROVE  StreamInv'
<1> USE DEF StreamInv
<1>1. /\ Opened /\ ~client.lost /\ client \in Client /\ buffer' = <<>> /\ due' = Queued
      /\ client' = [client EXCEPT !.lost = TRUE] /\ upsets' = [upsets EXCEPT !.losses = @ + 1]
      /\ UNCHANGED <<follows, default, generation, segment, call, playNext, position, control, overrun>>
  BY DEF Lose, callVars, Queued, StreamTypes, Opened
<1>2. /\ client' \in Client /\ client'.lost /\ client'.started = client.started
      /\ client'.endpoint = client.endpoint
  BY <1>1 DEF Client
<1>3. Opened' /\ Rate' = Rate
  BY <1>2, OpenIs DEF Opened, NoClient, Rate
<1>4. upsets' \in [losses : Nat, moves : Nat] /\ upsets'.losses = upsets.losses + 1
  <2>1. upsets \in [losses : Nat, moves : Nat]
    BY DEF StreamTypes
  <2>2. QED BY <1>1, <2>1
<1>5. Noticed' = Noticed /\ Noticed \in Nat
  <2>1. upsets.losses \in Nat
    BY DEF StreamTypes
  <2>2. Noticed = upsets.losses - 0
    BY <1>1 DEF Noticed
  <2>3. Noticed' = upsets'.losses - 1
    BY <1>2, <1>3 DEF Noticed
  <2>4. QED BY <1>4, <2>1, <2>2, <2>3
<1>6. Queued \in Places /\ Queued' = Queued /\ due' \in Places
  BY <1>1, QueuedIs DEF Queued
<1>7. Len(buffer') = 0 /\ 1 .. Len(buffer') = {} /\ 1 .. Len(buffer') - 1 = {}
  BY <1>1, EmptySeq
<1>8. StreamTypes'
  BY <1>1, <1>2, <1>4, <1>6 DEF StreamTypes
<1>9. (Sought' <=> Sought) /\ (Idle' <=> Idle) /\ (Playing' <=> Playing) /\ (Emptying' <=> Emptying) /\ (Reopening' <=> Reopening)
      /\ SourcePlace(call)' = SourcePlace(call) /\ SourcePlace(playNext)' = SourcePlace(playNext)
  BY <1>1 DEF Sought, Idle, Playing, Emptying, Reopening, SourcePlace
<1>10. CallsInv'
  BY <1>1, <1>3, <1>9 DEF CallsInv
<1>11. QueueInv'
  <2>1. segment.base > 0 => 0 <= segment.next - segment.base
    BY DEF QueueInv, StreamTypes
  <2>2. Capacity \in Nat /\ upsets.losses \in Nat
    BY StreamBounds DEF StreamTypes
  <2>3. QED BY <1>1, <1>3, <1>4, <1>7, <2>1, <2>2 DEF QueueInv
<1>12. ASSUME NEW p, NEW x \in Nat, Upcoming(p, x)
       PROVE  Continues(p, due', Noticed, x)
  <2>1. CASE buffer = <<>>
    BY <1>1, <1>12, <2>1 DEF Upcoming, Queued
  <2>2. CASE buffer # <<>>
    <3>1. Exact(p, Queued)
      BY <1>12, <2>2 DEF Upcoming
    <3>2. QED BY <1>1, <1>5, <1>6, <3>1, ExactContinues
  <2>3. QED BY <2>1, <2>2
<1>13. OrderInv'
  <2>1. Ticks \div Rate - 1 \in Nat
    BY <1>1, RateIs
  <2>2. Playing => Continues(PlaceAt(call.s, segment.next, Rate), due', Noticed, Ticks \div Rate - 1)
    BY <1>12, <2>1 DEF OrderInv
  <2>3. call.pc = "open" \/ Reopening => Continues(SourcePlace(call), due', Noticed, 0)
    BY <1>12 DEF OrderInv
  <2>4. QED BY <1>1, <1>3, <1>5, <1>6, <1>9, <2>2, <2>3 DEF OrderInv, Upcoming
<1>14. PauseInv'
  <2>1. Len(buffer) \in Nat /\ overrun \in Nat /\ Capacity \in Nat
    BY StreamBounds, QueuedIs DEF StreamTypes
  <2>2. QED BY <1>1, <1>2, <1>7, <2>1 DEF PauseInv
<1>15. PositionInv'
  <2>1. ~Shows'
    BY <1>2 DEF Shows
  <2>2. ASSUME call.pc \notin {"open", "failed", "stopped"}, ~(Idle /\ Sought)
        PROVE  Reached(position, due)'
    <3>1. Reached(position, Queued)
      <4>1. buffer # <<>> => Len(buffer) \in 1 .. Len(buffer)
        BY QueuedIs
      <4>2. QED BY <2>2, <4>1 DEF PositionInv, Queued
    <3>2. QED BY <1>1, <3>1 DEF Reached
  <2>3. ASSUME Playing, segment.next < ConvertedFrames(call.s, Rate)
        PROVE  Reached(position, PlaceAt(call.s, segment.next + 1, Rate))
    <3>1. CASE buffer = <<>>
      BY <2>3, <3>1 DEF PositionInv
    <3>2. CASE buffer # <<>>
      <4>1. call.pc \notin {"open", "failed", "stopped"} /\ ~(Idle /\ Sought)
        BY <2>3 DEF Playing, Inside, Idle
      <4>2. Reached(position, Queued)
        <5>1. Len(buffer) \in 1 .. Len(buffer)
          BY <3>2, QueuedIs
        <5>2. QED BY <3>2, <4>1, <5>1 DEF PositionInv, Queued
      <4>3. Exact(PlaceAt(call.s, segment.next, Rate), Queued)
        BY <2>3, <3>2 DEF OrderInv, Upcoming
      <4>4. QED BY <1>1, <1>6, <4>2, <4>3, NextIsBeyond
    <3>3. QED BY <3>1, <3>2
  <2>4. QED BY <1>1, <1>3, <1>7, <1>9, <2>1, <2>2, <2>3 DEF PositionInv, Reached
<1>16. QED BY <1>8, <1>10, <1>11, <1>13, <1>14, <1>15

-----------------------------------------------------------------------------
(* A turn of a call's loop, and its end.                                   *)

\* What publish_position() shows: a place of the sentence fed last, or nothing new.
LEMMA PublishedIs ==
  ASSUME StreamInv, Opened
  PROVE  /\ Published \in Places
         /\ Published = position \/ (Shows /\ Published = Shown)
<1> USE DEF StreamInv
<1>1. position \in Places /\ segment \in [s : 1 .. Count, base : Nat, next : Nat]
  BY DEF StreamTypes
<1>2. CASE client.lost \/ Len(buffer) > segment.next - segment.base
  BY <1>1, <1>2 DEF Published
<1>3. CASE ~(client.lost \/ Len(buffer) > segment.next - segment.base)
  <2>1. Published = Shown
    BY <1>3 DEF Published, Shown
  <2>2. Len(buffer) \in Nat /\ Len(buffer) <= segment.next - segment.base
    BY <1>1, <1>3, QueuedIs
  <2>3. Shows
    BY <1>3, <2>2 DEF Shows
  <2>4. segment.next - Len(buffer) \in Nat
    BY <1>1, <2>2
  <2>5. Shown \in Places
    BY <1>1, <2>4, RateIs, PlaceIs DEF Shown
  <2>6. QED BY <2>1, <2>3, <2>5
<1>4. QED BY <1>2, <1>3

\* It was heard, and what is queued ends no earlier.
LEMMA ShownIsHeard ==
  ASSUME StreamInv, Shows, Truthful
  PROVE  /\ Reached(Shown, due)
         /\ \A i \in 1 .. Len(buffer) : Reached(Shown, buffer[i].until)
         /\ Playing /\ buffer = <<>> => Reached(Shown, PlaceAt(call.s, segment.next + 1, Rate))
<1> USE DEF StreamInv
<1>1. Opened /\ Len(buffer) \in Nat /\ Len(buffer) <= segment.next - segment.base
      /\ segment \in [s : 1 .. Count, base : Nat, next : Nat]
  BY QueuedIs DEF Shows, StreamTypes
<1>2. Rate \in Nat /\ Ticks \div Rate \in Nat
  BY <1>1, RateIs
<1>3. ASSUME NEW a \in Nat, NEW b \in Nat, a <= b
      PROVE  Before(PlaceAt(segment.s, a, Rate), PlaceAt(segment.s, b, Rate))
  <2>1. a * (Ticks \div Rate) <= b * (Ticks \div Rate)
    BY <1>2, <1>3, ProductGrows
  <2>2. QED BY <2>1 DEF Before, PlaceAt
<1>4. ASSUME NEW i \in 1 .. Len(buffer) PROVE Reached(Shown, buffer[i].until)
  <2>1. Len(buffer) - i < segment.next - segment.base
    BY <1>1
  <2>2. buffer[i].until = PlaceAt(segment.s, segment.next - (Len(buffer) - i), Rate)
    BY <2>1 DEF QueueInv
  <2>3. segment.next - Len(buffer) \in Nat /\ segment.next - (Len(buffer) - i) \in Nat
        /\ segment.next - Len(buffer) <= segment.next - (Len(buffer) - i)
    BY <1>1
  <2>4. QED BY <1>3, <2>2, <2>3 DEF Reached, Shown
<1>5. ASSUME Playing, buffer = <<>>
      PROVE  Reached(Shown, PlaceAt(call.s, segment.next + 1, Rate))
  <2>1. segment.s = call.s /\ Len(buffer) = 0
    BY <1>5, EmptySeq DEF CallsInv
  <2>2. segment.next - Len(buffer) = segment.next /\ segment.next <= segment.next + 1
        /\ segment.next \in Nat /\ segment.next + 1 \in Nat
    BY <1>1, <2>1
  <2>3. Before(PlaceAt(segment.s, segment.next, Rate), PlaceAt(segment.s, segment.next + 1, Rate))
    BY <1>3, <2>2
  <2>4. QED BY <2>1, <2>2, <2>3 DEF Reached, Shown
<1>6. Reached(Shown, due)
  BY DEF PositionInv
<1>7. QED BY <1>4, <1>5, <1>6

\* A turn of the loop that changes neither the stream nor the position, and stays in
\* the call.
LEMMA TurnKeeps ==
  ASSUME StreamInv, call.pc \in Inside, NEW pc, call' = [call EXCEPT !.pc = pc],
         pc \in Inside \cup {"emptied"},
         UNCHANGED <<follows, default, buffer, generation, segment, due, upsets, playNext, control,
                     overrun>>,
         client' \in Client, client'.endpoint = client.endpoint, client'.lost = client.lost,
         pc = "held" => ~client'.started,
         control.paused /\ pc = "feed" => overrun + Len(buffer) <= Capacity,
         pc = "emptied" => call.op # "play" /\ buffer = <<>>,
         pc = "wait" => buffer # <<>> \/ call.op # "reopen",
         \/ position' = position
         \/ call.pc = "wait" /\ position' = Published
  PROVE  StreamInv'
<1> USE DEF StreamInv
<1>1. Opened /\ Opened'
  BY OpenIs DEF CallsInv, Opened, NoClient
<1>2. /\ QueueInv'
      /\ Noticed' = Noticed /\ Queued' = Queued
      /\ Rate' = Rate /\ Shown' = Shown
      /\ Shows' = Shows
  BY <1>1, StreamStays
<1>3. /\ call \in [op : {"play", "reopen", "drain"}, s : 1 .. Count, frame : Nat, gen : Nat,
                   pc : Active \cup {"idle", "done", "stopped", "failed"}]
      /\ pc \in Active
  BY DEF StreamTypes, Active
<1>4. /\ call' \in [op : {"play", "reopen", "drain"}, s : 1 .. Count, frame : Nat, gen : Nat,
                    pc : Active \cup {"idle", "done", "stopped", "failed"}]
      /\ call'.pc = pc /\ call'.op = call.op /\ call'.s = call.s /\ call'.frame = call.frame
      /\ call'.gen = call.gen
  BY <1>3
<1>5. position' \in Places
  BY <1>1, PublishedIs DEF StreamTypes
<1>6. StreamTypes'
  BY <1>4, <1>5 DEF StreamTypes
<1>7. /\ ~Idle /\ ~Idle' /\ call.pc \notin {"idle", "done", "open", "failed", "stopped"}
      /\ call'.pc \notin {"idle", "done", "open", "failed", "stopped"}
      /\ Playing => call.op = "play"
      /\ Playing' => Playing /\ call.op = "play"
      /\ Reopening' => Reopening /\ call.op = "reopen"
      /\ Emptying' => Emptying /\ call.op = "drain"
  BY <1>4 DEF Idle, Playing, Reopening, Emptying, Inside
<1>8. SourcePlace(call)' = SourcePlace(call)
  BY <1>4 DEF SourcePlace
<1>9. CallsInv'
  <2>1. call.gen = generation /\ playNext.handled = generation
    BY DEF CallsInv, Active
  <2>2. Playing => segment.s = call.s /\ segment.next <= ConvertedFrames(call.s, Rate)
    BY DEF CallsInv
  <2>3. QED BY <1>1, <1>2, <1>4, <1>7, <2>1, <2>2 DEF CallsInv
<1>10. OrderInv'
  <2>1. Playing => Upcoming(PlaceAt(call.s, segment.next, Rate), Ticks \div Rate - 1)
    BY DEF OrderInv
  <2>2. Reopening => Upcoming(SourcePlace(call), 0) /\ (call.frame > 0 => buffer = <<>>)
    BY DEF OrderInv
  <2>3. Emptying => Queued.s = Count /\ Queued.at >= EndOf(Count).at
    BY DEF OrderInv
  <2>4. QED BY <1>2, <1>4, <1>7, <1>8, <2>1, <2>2, <2>3 DEF OrderInv, Upcoming
<1>11. PauseInv'
  BY <1>4 DEF PauseInv
<1>12. Truthful' => Truthful
  <2>1. ASSUME Truthful' PROVE Truthful
    <3>1. Playing' \/ Emptying' \/ (Reopening' /\ (pc = "wait" \/ buffer # <<>>))
      BY <1>4, <1>7, <2>1 DEF Truthful
    <3>2. QED BY <1>7, <3>1 DEF Truthful
  <2>2. QED BY <2>1
<1>13. CASE position' = position
  <2>1. Reached(position, due) /\ \A i \in 1 .. Len(buffer) : Reached(position, buffer[i].until)
    BY <1>7 DEF PositionInv
  <2>2. Truthful' /\ Shows => Reached(Shown, due)
    BY <1>12 DEF PositionInv
  <2>3. Playing /\ buffer = <<>> /\ segment.next < ConvertedFrames(call.s, Rate) =>
          Reached(position, PlaceAt(call.s, segment.next + 1, Rate))
    BY DEF PositionInv
  <2>4. PositionInv'
    BY <1>2, <1>4, <1>7, <1>13, <2>1, <2>2, <2>3 DEF PositionInv, Reached
  <2>5. QED BY <1>2, <1>6, <1>9, <1>10, <1>11, <2>4
<1>14. CASE call.pc = "wait" /\ position' = Published /\ Published # position
  <2>1. Shows /\ Published = Shown
    BY <1>1, <1>14, PublishedIs
  <2>2. Truthful
    BY <1>3, <1>14 DEF Truthful, Playing, Emptying, Reopening, Inside
  <2>3. /\ Reached(Shown, due)
        /\ \A i \in 1 .. Len(buffer) : Reached(Shown, buffer[i].until)
        /\ Playing /\ buffer = <<>> => Reached(Shown, PlaceAt(call.s, segment.next + 1, Rate))
    BY <2>1, <2>2, ShownIsHeard
  <2>4. PositionInv'
    BY <1>2, <1>4, <1>7, <1>14, <2>1, <2>3 DEF PositionInv, Reached
  <2>5. QED BY <1>2, <1>6, <1>9, <1>10, <1>11, <2>4
<1>15. QED BY <1>13, <1>14

\* A turn of the waiting loop publishes a place that was reached, and keeps the invariant.
LEMMA WaitKeeps == ASSUME StreamInv, Wait PROVE StreamInv'
<1>1. client \in Client /\ Len(buffer) \in Nat /\ call.pc = "wait" /\ call.pc \in Inside
  BY QueuedIs DEF StreamInv, CallsInv, Wait, Inside, Opened, StreamTypes
<1>2. /\ call' = [call EXCEPT !.pc = "observe"] /\ position' = Published
      /\ UNCHANGED <<follows, default, client, buffer, generation, segment, due, upsets, playNext,
                     control, overrun>>
  BY DEF Wait, endpointVars
<1>3. "observe" \in Inside
  BY DEF Inside
<1>4. QED BY <1>1, <1>2, <1>3, TurnKeeps

-----------------------------------------------------------------------------
(* The pipeline joins a call.                                              *)

\* How a call ends.
LEMMA ReturnIs ==
  ASSUME StreamInv, NEW i \in BOOLEAN, NEW h \in Places, call.pc \in Active, ReturnedAt(i, h)
  PROVE  /\ call' \in [op : {"play", "reopen", "drain"}, s : 1 .. Count, frame : Nat, gen : Nat,
                       pc : {"idle", "done", "stopped"}]
         /\ playNext' \in [s : 1 .. Count + 1, frame : Nat, handled : Nat]
         /\ position' \in Places
         /\ call'.op = call.op
         /\ call'.pc = "stopped" <=> control.cancelled
         /\ call'.pc = "done" => call.op = "drain" /\ ~i /\ position' = h
         /\ call'.pc = "idle" /\ control.seeks # generation =>
              /\ playNext'.handled # generation /\ playNext'.s <= Count
              /\ position' = SourcePlace(playNext)'
         /\ call'.pc = "idle" /\ control.seeks = generation =>
              /\ call.op = "drain" => i
              /\ playNext'.s = call.s + 1 /\ playNext'.frame = 0 /\ playNext'.handled = generation
              /\ position' = h
<1> USE DEF StreamInv
<1>1. /\ call \in [op : {"play", "reopen", "drain"}, s : 1 .. Count, frame : Nat, gen : Nat,
                   pc : Active \cup {"idle", "done", "stopped", "failed"}]
      /\ control.seeks \in Nat /\ control.target \in [s : 1 .. Count, frame : Nat]
      /\ playNext.handled = generation /\ generation \in Nat
  BY DEF StreamTypes, CallsInv
<1>2. Count \in Nat
  BY RatesAre
<1> DEFINE ended == IF control.cancelled THEN "stopped"
                    ELSE IF call.op = "drain" /\ ~i THEN "done" ELSE "idle"
<1>3. /\ call' = [call EXCEPT !.pc = ended]
      /\ playNext' = IF ended = "idle" /\ control.seeks # generation
                     THEN [s |-> control.target.s, frame |-> control.target.frame,
                           handled |-> control.seeks]
                     ELSE [s |-> call.s + 1, frame |-> 0, handled |-> generation]
      /\ position' = IF ended = "idle" /\ control.seeks # generation
                     THEN SourcePlace(control.target) ELSE h
  BY <1>1 DEF ReturnedAt
<1>4. /\ call' \in [op : {"play", "reopen", "drain"}, s : 1 .. Count, frame : Nat, gen : Nat,
                    pc : {"idle", "done", "stopped"}]
      /\ call'.op = call.op /\ call'.pc = ended
  BY <1>1, <1>3
<1>5. ended = "stopped" <=> control.cancelled
  OBVIOUS
<1>6. ended = "done" => call.op = "drain" /\ ~i
  OBVIOUS
<1>7. ended = "idle" /\ call.op = "drain" => i
  OBVIOUS
<1> HIDE DEF ended
<1>8. SourcePlace(control.target) \in Places
  BY <1>1, SourcePlaceIs
<1>9. CASE ended = "idle" /\ control.seeks # generation
  <2>1. /\ playNext' = [s |-> control.target.s, frame |-> control.target.frame, handled |-> control.seeks]
        /\ position' = SourcePlace(control.target)
    BY <1>3, <1>9
  <2>2. playNext'.s = control.target.s /\ playNext'.frame = control.target.frame /\ playNext'.handled = control.seeks
    BY <2>1
  <2>3. SourcePlace(playNext)' = SourcePlace(control.target)
    BY <2>2 DEF SourcePlace
  <2>4. playNext' \in [s : 1 .. Count + 1, frame : Nat, handled : Nat] /\ playNext'.s <= Count
    BY <1>1, <1>2, <2>1
  <2>5. QED BY <1>4, <1>5, <1>8, <1>9, <2>1, <2>2, <2>3, <2>4
<1>10. CASE ~(ended = "idle" /\ control.seeks # generation)
  <2>1. playNext' = [s |-> call.s + 1, frame |-> 0, handled |-> generation] /\ position' = h
    BY <1>3, <1>10
  <2>2. playNext' \in [s : 1 .. Count + 1, frame : Nat, handled : Nat]
    BY <1>1, <1>2, <2>1
  <2>3. QED BY <1>4, <1>5, <1>6, <1>7, <1>10, <2>1, <2>2
<1>11. QED BY <1>9, <1>10

\* An utterance that is stopped or has failed asks nothing more of its stream.
LEMMA LeftKeeps ==
  ASSUME StreamInv, StreamTypes', QueueInv', call'.pc \in {"stopped", "failed"},
         UNCHANGED <<control, overrun>>, Len(buffer') <= Len(buffer)
  PROVE  StreamInv'
<1> USE DEF StreamInv
<1>1. ~Idle' /\ ~Playing' /\ ~Reopening' /\ ~Emptying'
  BY DEF Idle, Playing, Reopening, Emptying, Inside
<1>2. CallsInv' /\ OrderInv' /\ PositionInv'
  BY <1>1 DEF CallsInv, OrderInv, PositionInv, Truthful, Inside, Active
<1>3. PauseInv'
  <2>1. Len(buffer) \in Nat /\ Len(buffer') \in Nat /\ overrun \in Nat /\ Capacity \in Nat
    BY QueuedIs, StreamBounds DEF StreamTypes
  <2>2. QED BY <2>1 DEF PauseInv
<1>4. QED BY <1>2, <1>3

\* A call that a seek ended leaves the next one to begin at the seek's target.
LEMMA SoughtKeeps ==
  ASSUME StreamInv, StreamTypes', QueueInv', call'.pc = "idle", Sought', playNext'.s <= Count,
         position' = SourcePlace(playNext)', PauseInv'
  PROVE  StreamInv'
<1>1. Idle' /\ ~Playing' /\ ~Reopening' /\ ~Emptying'
  BY DEF Idle, Playing, Reopening, Emptying, Inside
<1>2. CallsInv' /\ OrderInv' /\ PositionInv'
  BY <1>1 DEF CallsInv, OrderInv, PositionInv, Truthful, Inside, Active
<1>3. QED BY <1>2 DEF StreamInv

\* The last frame of a drained stream was heard.
LEMMA DoneKeeps ==
  ASSUME StreamInv, Emptying, StreamTypes', QueueInv', call'.pc = "done", buffer = <<>>, buffer' = <<>>,
         UNCHANGED <<due, control, overrun, segment>>, Reached(position', due)
  PROVE  StreamInv'
<1> USE DEF StreamInv
<1>1. ~Idle' /\ ~Playing' /\ ~Reopening' /\ ~Emptying'
  BY DEF Idle, Playing, Reopening, Emptying, Inside
<1>2. CallsInv'
  BY <1>1 DEF CallsInv, Inside, Active
<1>3. OrderInv'
  BY <1>1 DEF OrderInv, Queued
<1>4. PauseInv'
  BY DEF PauseInv
<1>5. 1 .. Len(buffer') = {}
  BY EmptySeq
<1>6. PositionInv'
  BY <1>1, <1>5 DEF PositionInv, Truthful, Reached
<1>7. QED BY <1>2, <1>3, <1>4, <1>6

-----------------------------------------------------------------------------
(* A lost endpoint is noticed.                                             *)

\* One loss more allows for more rounding.
LEMMA ContinuesLonger ==
  ASSUME NEW p \in Places, NEW q \in Places, NEW losses \in Nat, NEW extra \in Nat,
         Continues(p, q, losses, extra)
  PROVE  Continues(p, q, losses + 1, extra)
<1>1. CASE Joins(p, q)
  BY <1>1 DEF Continues
<1>2. CASE ~Joins(p, q)
  <2>1. p.s = q.s /\ p.at <= q.at
    BY <1>2 DEF Continues
  <2>2. PICK e \in DOMAIN Endpoints :
           p.at >= WithinSentence(q) - losses * (Ticks \div Clips[q.s].rate + Ticks \div Endpoints[e]) - extra
    BY <1>2 DEF Continues
  <2> DEFINE k == Ticks \div Clips[q.s].rate + Ticks \div Endpoints[e]
             near == losses * k
             far == (losses + 1) * k
  <2>3. k \in Nat
    BY RatesAre DEF Places
  <2>4. p.at >= WithinSentence(q) - near - extra
    BY <2>2
  <2> HIDE DEF k
  <2>5. far = near + k /\ near \in Nat
    BY <2>3
  <2> HIDE DEF near, far
  <2>6. p.at >= WithinSentence(q) - far - extra
    BY <2>3, <2>4, <2>5, WithinIs DEF Places
  <2>7. QED BY <2>1, <2>6 DEF Continues, far, k
<1>3. QED BY <1>1, <1>2

\* play_from() begins again on another client.
LEMMA ReopenKeeps ==
  ASSUME StreamInv, StreamTypes', QueueInv', call.pc \in Active, call'.pc = "open", call'.op = "play",
         call'.gen = call.gen, buffer' = <<>>,
         UNCHANGED <<generation, playNext, control, overrun>>,
         Continues(SourcePlace(call'), due', Noticed', 0)
  PROVE  StreamInv'
<1> USE DEF StreamInv
<1>1. ~Idle' /\ ~Playing' /\ ~Reopening' /\ ~Emptying' /\ call'.pc \in Active
      /\ call'.pc \notin Inside \cup {"emptied", "done", "idle", "held", "feed"}
  BY DEF Idle, Playing, Reopening, Emptying, Inside, Active
<1>2. CallsInv'
  <2>1. call.gen = generation /\ playNext.handled = generation
    BY DEF CallsInv
  <2>2. QED BY <1>1, <2>1 DEF CallsInv
<1>3. Upcoming(SourcePlace(call), 0)'
  BY DEF Upcoming, SourcePlace
<1>4. OrderInv'
  BY <1>1, <1>3 DEF OrderInv
<1>5. PauseInv'
  <2>1. Len(buffer) \in Nat /\ Len(buffer') = 0 /\ overrun \in Nat
    BY QueuedIs, EmptySeq DEF StreamTypes
  <2>2. Capacity \in Nat
    BY StreamBounds
  <2>3. (~control.paused => overrun = 0) /\ (control.paused => overrun + Len(buffer) <= 2 * Capacity)
    BY DEF PauseInv
  <2>4. control.paused => overrun + 0 <= 2 * Capacity
    BY <2>1, <2>2, <2>3
  <2>5. QED BY <1>1, <2>1, <2>3, <2>4 DEF PauseInv
<1>6. PositionInv'
  BY <1>1 DEF PositionInv, Truthful
<1>7. QED BY <1>2, <1>4, <1>5, <1>6

\* Closing a lost endpoint in the middle of a call keeps the invariant: nothing was queued.
LEMMA InvalidatedKeeps ==
  ASSUME StreamInv, call.pc \in Inside, client.lost, Invalidated,
         UNCHANGED <<follows, default, generation, segment, control, due, overrun, upsets>>
  PROVE  StreamInv'
<1> USE DEF StreamInv
<1>1. /\ Opened /\ buffer = <<>> /\ buffer' = <<>> /\ client' = NoClient /\ ~Opened'
      /\ upsets.losses \in Nat /\ upsets.losses > 0
  BY DEF CallsInv, QueueInv, Invalidated, Closed, Opened, StreamTypes
<1>2. QueueInv' /\ Len(buffer') = 0 /\ Queued' = due'
  <2>1. segment' \in [s : 1 .. Count, base : Nat, next : Nat] /\ segment'.base <= segment'.next
    BY DEF StreamTypes, QueueInv
  <2>2. QED BY <1>1, <2>1, StreamDrops
<1>3. Noticed' = Noticed + 1 /\ Noticed \in Nat
  BY <1>1 DEF Noticed
<1>4. call.pc \in Active /\ call.op \in {"play", "reopen", "drain"} /\ position \in Places /\ due \in Places
      /\ call \in [op : {"play", "reopen", "drain"}, s : 1 .. Count, frame : Nat, gen : Nat,
                   pc : Active \cup {"idle", "done", "stopped", "failed"}]
  BY DEF StreamTypes, Active
<1>5. Len(buffer') <= Len(buffer)
  BY <1>1, <1>2
<1>6. ASSUME /\ call' \in [op : {"play", "reopen", "drain"}, s : 1 .. Count, frame : Nat, gen : Nat,
                           pc : Active \cup {"idle", "done", "stopped", "failed"}]
             /\ playNext' \in [s : 1 .. Count + 1, frame : Nat, handled : Nat]
             /\ position' \in Places
      PROVE  StreamTypes'
  BY <1>1, <1>6 DEF StreamTypes, NoClient
<1>7. CASE Returned(FALSE) /\ (call.op = "drain" \/ control.cancelled)
  <2>1. ReturnedAt(FALSE, position)
    BY <1>7 DEF Returned
  <2>2. /\ call' \in [op : {"play", "reopen", "drain"}, s : 1 .. Count, frame : Nat, gen : Nat,
                      pc : {"idle", "done", "stopped"}]
        /\ playNext' \in [s : 1 .. Count + 1, frame : Nat, handled : Nat]
        /\ position' \in Places
        /\ call'.pc = "stopped" <=> control.cancelled
        /\ call'.pc = "done" => call.op = "drain" /\ position' = position
        /\ call'.pc = "idle" => call.op # "drain"
    <3>1. FALSE \in BOOLEAN
      OBVIOUS
    <3>2. call'.pc = "idle" => call.op # "drain"
      BY <2>1 DEF ReturnedAt
    <3>3. QED BY <1>4, <2>1, <3>1, <3>2, ReturnIs
  <2>3. StreamTypes'
    BY <1>6, <2>2
  <2>4. CASE call'.pc = "stopped"
    BY <1>2, <1>5, <2>3, <2>4, LeftKeeps
  <2>5. CASE call'.pc # "stopped"
    <3>1. call'.pc = "done" /\ call.op = "drain" /\ position' = position
      BY <1>7, <2>2, <2>5
    <3>2. Emptying
      BY <3>1 DEF Emptying
    <3>3. Reached(position', due)
      <4>1. call.pc \notin {"open", "failed", "stopped"} /\ ~(Idle /\ Sought)
        BY DEF Inside, Idle
      <4>2. Reached(position, due)
        BY <4>1 DEF PositionInv
      <4>3. QED BY <3>1, <4>2
    <3>4. QED BY <1>1, <1>2, <2>3, <3>1, <3>2, <3>3, DoneKeeps
  <2>6. QED BY <2>4, <2>5
<1>8. CASE call.op = "reopen" /\ ~control.cancelled
  <2>1. call' = [call EXCEPT !.op = "play", !.pc = "open"] /\ UNCHANGED <<playNext, position>>
    BY <1>8 DEF Invalidated
  <2>2. /\ call' \in [op : {"play"}, s : 1 .. Count, frame : Nat, gen : Nat, pc : {"open"}]
        /\ call'.s = call.s /\ call'.frame = call.frame /\ call'.gen = call.gen
        /\ call'.pc = "open" /\ call'.op = "play"
    BY <1>4, <2>1
  <2>3. StreamTypes'
    BY <1>6, <2>1, <2>2 DEF StreamTypes, Active
  <2>4. SourcePlace(call') = SourcePlace(call) /\ SourcePlace(call) \in Places
    BY <1>4, <2>2, SourcePlaceIs DEF SourcePlace
  <2>5. Reopening
    BY <1>8 DEF Reopening
  <2>6. Continues(SourcePlace(call), due, Noticed, 0)
    BY <1>1, <2>5 DEF OrderInv, Upcoming
  <2>7. Continues(SourcePlace(call'), due', Noticed', 0)
    BY <1>3, <1>4, <2>4, <2>6, ContinuesLonger
  <2>8. QED BY <1>1, <1>2, <1>4, <2>1, <2>2, <2>3, <2>7, ReopenKeeps
<1>9. CASE call.op = "play"
  <2> DEFINE frame == Converted(segment.next, Rate, Clips[call.s].rate)
             tr == Ticks \div Clips[call.s].rate
             te == Ticks \div Rate
  <2>1. call' = [call EXCEPT !.pc = "open", !.frame = frame] /\ UNCHANGED <<playNext, position>>
    BY <1>9 DEF Invalidated
  <2>2. /\ client.endpoint \in DOMAIN Endpoints /\ Rate = Endpoints[client.endpoint]
        /\ Rate \in Nat \ {0} /\ te \in Nat \ {0} /\ Rate * te = Ticks
        /\ Clips[call.s].rate \in Nat \ {0} /\ tr \in Nat \ {0} /\ Clips[call.s].rate * tr = Ticks
        /\ segment.next \in Nat /\ call.s \in 1 .. Count
    BY <1>1, <1>4, RateIs, RatesAre DEF StreamTypes, Rate
  <2>3. frame \in Nat /\ frame * tr <= segment.next * te /\ segment.next * te < frame * tr + tr
    <3> HIDE DEF tr, te
    <3> QED BY <2>2, ConvertedDown
  <2> HIDE DEF frame
  <2>4. /\ call' \in [op : {"play"}, s : 1 .. Count, frame : Nat, gen : Nat, pc : {"open"}]
        /\ call'.s = call.s /\ call'.frame = frame /\ call'.gen = call.gen
        /\ call'.pc = "open" /\ call'.op = "play"
    BY <1>4, <1>9, <2>1, <2>3
  <2>5. StreamTypes'
    BY <1>6, <2>1, <2>4 DEF StreamTypes, Active
  <2>6. SourcePlace(call') \in Places /\ SourcePlace(call').s = call.s /\ SourcePlace(call').at = frame * tr
    BY <2>4, SourcePlaceIs
  <2> DEFINE here == PlaceAt(call.s, segment.next, Rate)
  <2>7. here \in Places /\ here.s = call.s /\ here.at = segment.next * te
    BY <2>2, PlaceIs
  <2>8. Continues(here, due, Noticed, te - 1)
    <3>1. Playing
      BY <1>9 DEF Playing
    <3>2. QED BY <1>1, <3>1 DEF OrderInv, Upcoming
  <2>9. Continues(SourcePlace(call'), due, Noticed + 1, 0)
    <3>1. te = Ticks \div Endpoints[client.endpoint]
      BY <2>2
    <3>2. SourcePlace(call').at <= here.at /\ here.at < SourcePlace(call').at + Ticks \div Clips[here.s].rate
      BY <2>3, <2>6, <2>7
    <3> HIDE DEF here, te, tr
    <3>3. QED BY <1>3, <1>4, <2>2, <2>6, <2>7, <2>8, <3>1, <3>2, ContinuesLost
  <2>10. QED BY <1>1, <1>2, <1>3, <1>4, <2>1, <2>4, <2>5, <2>9, ReopenKeeps
<1>10. QED BY <1>4, <1>7, <1>8, <1>9 DEF Invalidated

-----------------------------------------------------------------------------
(* The calls' other steps.                                                 *)

\* A seek ends the call and drops what it queued.
LEMMA FlushedKeeps ==
  ASSUME StreamInv, call.pc \in Inside, ~control.cancelled, control.seeks # call.gen,
         ClientFlushed, Returned(TRUE),
         UNCHANGED <<follows, default, generation, control, due, overrun, upsets>>
  PROVE  StreamInv'
<1> USE DEF StreamInv
<1>1. Opened /\ call.pc \in Active /\ control.seeks # generation /\ position \in Places
  BY DEF CallsInv, StreamTypes, Active
<1>2. /\ client' \in Client /\ Opened' /\ client'.started = FALSE /\ client'.lost = client.lost
      /\ buffer' = <<>>
      /\ segment' \in [s : 1 .. Count, base : Nat, next : Nat]
      /\ segment'.base <= segment'.next
  <2>1. /\ client' \in Client /\ Opened' /\ client'.started = FALSE /\ client'.lost = client.lost
        /\ buffer' = <<>>
        /\ segment' \in [s : 1 .. Count, base : Nat, next : Nat]
        /\ segment'.base = segment.base /\ segment'.next = segment.base
    BY <1>1, FlushedIs
  <2>2. segment'.base <= segment'.next
    BY <2>1
  <2>3. QED BY <2>1, <2>2
<1>3. QueueInv' /\ Len(buffer') = 0
  BY <1>1, <1>2, StreamDrops
<1>4. /\ call' \in [op : {"play", "reopen", "drain"}, s : 1 .. Count, frame : Nat, gen : Nat,
                    pc : {"idle", "done", "stopped"}]
      /\ playNext' \in [s : 1 .. Count + 1, frame : Nat, handled : Nat] /\ position' \in Places
      /\ call'.pc = "stopped" <=> control.cancelled
      /\ call'.pc = "done" => ~TRUE
      /\ call'.pc = "idle" /\ control.seeks # generation =>
           /\ playNext'.handled # generation /\ playNext'.s <= Count
           /\ position' = SourcePlace(playNext)'
  <2>1. TRUE \in BOOLEAN /\ ReturnedAt(TRUE, position)
    BY DEF Returned
  <2>2. QED BY <1>1, <2>1, ReturnIs
<1>5. call'.pc = "idle"
  BY <1>4
<1>6. StreamTypes'
  <2>1. buffer' \in Seq(Sound)
    BY <1>2
  <2>2. QED BY <1>2, <1>4, <2>1 DEF StreamTypes
<1>7. PauseInv'
  <2>1. Len(buffer) \in Nat /\ overrun \in Nat /\ Capacity \in Nat
    BY QueuedIs, StreamBounds DEF StreamTypes
  <2>2. (~control.paused => overrun = 0) /\ (control.paused => overrun + Len(buffer) <= 2 * Capacity)
    BY DEF PauseInv
  <2>3. control.paused => overrun + 0 <= 2 * Capacity
    BY <2>1, <2>2
  <2>4. QED BY <1>3, <1>5, <2>2, <2>3 DEF PauseInv
<1>8. Sought'
  BY <1>1, <1>4, <1>5 DEF Sought
<1>9. QED BY <1>1, <1>3, <1>4, <1>5, <1>6, <1>7, <1>8, SoughtKeeps

\* A stop ends it too, and leaves the stream.
LEMMA CancelledKeeps ==
  ASSUME StreamInv, call.pc \in Inside, control.cancelled, Returned(FALSE),
         client' \in Client, client'.endpoint = client.endpoint, client'.lost = client.lost,
         UNCHANGED <<buffer, segment, follows, default, generation, control, due, overrun, upsets>>
  PROVE  StreamInv'
<1> USE DEF StreamInv
<1>1. Opened /\ Opened' /\ call.pc \in Active /\ position \in Places
  BY OpenIs DEF CallsInv, StreamTypes, Active, Opened, NoClient
<1>2. QueueInv'
  BY <1>1, StreamStays
<1>3. /\ call' \in [op : {"play", "reopen", "drain"}, s : 1 .. Count, frame : Nat, gen : Nat,
                    pc : {"idle", "done", "stopped"}]
      /\ playNext' \in [s : 1 .. Count + 1, frame : Nat, handled : Nat] /\ position' \in Places
      /\ call'.pc = "stopped" <=> control.cancelled
  <2>1. FALSE \in BOOLEAN /\ ReturnedAt(FALSE, position)
    BY DEF Returned
  <2>2. QED BY <1>1, <2>1, ReturnIs
<1>4. StreamTypes'
  BY <1>3 DEF StreamTypes
<1>5. Len(buffer') <= Len(buffer)
  BY QueuedIs
<1>6. QED BY <1>2, <1>3, <1>4, <1>5, LeftKeeps

\* Stopping or starting the client changes nothing else of it.
LEMMA StartedIs ==
  ASSUME StreamTypes, Opened, NEW b \in BOOLEAN, Started(b)
  PROVE  /\ client' \in Client /\ client'.started = b /\ client'.endpoint = client.endpoint
         /\ client'.lost = client.lost /\ buffer' = buffer
<1>1. client \in Client /\ client' = [client EXCEPT !.started = b] /\ buffer' = buffer
  BY DEF StreamTypes, Opened, Started
<1>2. QED BY <1>1 DEF Client

\* Reading cancel, pause and the generation keeps the invariant on each of its outcomes.
LEMMA ObserveKeeps == ASSUME StreamInv, Observe PROVE StreamInv'
<1> USE DEF StreamInv
<1>1. /\ call.pc = "observe" /\ call.pc \in Inside /\ Opened /\ client \in Client
      /\ UNCHANGED <<follows, default, generation, control, due, overrun, upsets>>
  BY DEF Observe, Inside, CallsInv, StreamTypes, Opened
<1>2. CASE control.cancelled
  <2>1. Stopped(Returned(FALSE)) /\ UNCHANGED segment
    BY <1>1, <1>2 DEF Observe
  <2>2. CASE client.started /\ client.lost
    <3>1. Invalidated
      BY <2>1, <2>2 DEF Stopped
    <3>2. QED BY <1>1, <2>1, <2>2, <3>1, InvalidatedKeeps
  <2>3. CASE ~(client.started /\ client.lost)
    <3>1. Started(FALSE) /\ Returned(FALSE) /\ FALSE \in BOOLEAN
      BY <2>1, <2>3 DEF Stopped
    <3>2. QED BY <1>1, <1>2, <2>1, <3>1, StartedIs, CancelledKeeps
  <2>4. QED BY <2>2, <2>3
<1>3. CASE ~control.cancelled /\ control.seeks # call.gen
  <2>1. ClientFlushed /\ Returned(TRUE)
    BY <1>1, <1>3 DEF Observe
  <2>2. QED BY <1>1, <1>3, <2>1, FlushedKeeps
<1>4. CASE ~control.cancelled /\ control.seeks = call.gen /\ control.paused
  <2>1. Stopped(At("held")) /\ UNCHANGED segment
    BY <1>1, <1>4 DEF Observe
  <2>2. CASE client.started /\ client.lost
    <3>1. Invalidated
      BY <2>1, <2>2 DEF Stopped
    <3>2. QED BY <1>1, <2>1, <2>2, <3>1, InvalidatedKeeps
  <2>3. CASE ~(client.started /\ client.lost)
    <3>1. Started(FALSE) /\ At("held") /\ FALSE \in BOOLEAN
      BY <2>1, <2>3 DEF Stopped
    <3>2. /\ client' \in Client /\ client'.started = FALSE /\ client'.endpoint = client.endpoint
          /\ client'.lost = client.lost /\ buffer' = buffer
      BY <1>1, <3>1, StartedIs
    <3>3. call' = [call EXCEPT !.pc = "held"] /\ UNCHANGED <<playNext, position>> /\ "held" \in Inside
      BY <3>1 DEF At, Inside
    <3>4. QED BY <1>1, <2>1, <3>2, <3>3, TurnKeeps
  <2>4. QED BY <2>2, <2>3
<1>5. CASE ~control.cancelled /\ control.seeks = call.gen /\ ~control.paused
  <2>1. At("feed") /\ StreamKept
    BY <1>1, <1>5 DEF Observe
  <2>2. UNCHANGED <<client, buffer, segment, playNext, position>> /\ call' = [call EXCEPT !.pc = "feed"]
        /\ "feed" \in Inside
    BY <2>1 DEF At, StreamKept, endpointVars, Inside
  <2>3. QED BY <1>1, <1>5, <2>2, TurnKeeps
<1>6. QED BY <1>2, <1>3, <1>4, <1>5

\* Leaving a pause keeps the invariant: the call goes on, returns, or is cancelled.
LEMMA ReleasedKeeps == ASSUME StreamInv, Released PROVE StreamInv'
<1> USE DEF StreamInv
<1>1. /\ call.pc = "held" /\ call.pc \in Inside /\ Opened /\ client \in Client
      /\ UNCHANGED <<follows, default, generation, control, due, overrun, upsets>>
  BY DEF Released, Inside, CallsInv, StreamTypes, Opened
<1>2. CASE control.cancelled
  <2>1. Returned(FALSE) /\ UNCHANGED <<client, buffer, segment>>
    BY <1>2 DEF Released, StreamKept, endpointVars
  <2>2. QED BY <1>1, <1>2, <2>1, CancelledKeeps
<1>3. CASE ~control.cancelled /\ control.seeks # call.gen
  <2>1. ClientFlushed /\ Returned(TRUE)
    BY <1>3 DEF Released
  <2>2. QED BY <1>1, <1>3, <2>1, FlushedKeeps
<1>4. CASE ~control.cancelled /\ control.seeks = call.gen
  <2>1. At("feed") /\ StreamKept /\ ~control.paused
    BY <1>4 DEF Released
  <2>2. UNCHANGED <<client, buffer, segment, playNext, position>> /\ call' = [call EXCEPT !.pc = "feed"]
        /\ "feed" \in Inside
    BY <2>1 DEF At, StreamKept, endpointVars, Inside
  <2>3. QED BY <1>1, <2>1, <2>2, TurnKeeps
<1>5. QED BY <1>2, <1>3, <1>4

\* Finding the buffer empty or not while draining keeps the invariant.
LEMMA EmptyKeeps == ASSUME StreamInv, Empty PROVE StreamInv'
<1> USE DEF StreamInv
<1>1. /\ call.pc = "feed" /\ call.pc \in Inside /\ Opened /\ client \in Client /\ call.op \in {"drain", "reopen"}
      /\ UNCHANGED <<follows, default, generation, segment, control, due, overrun, upsets>>
  BY DEF Empty, Inside, CallsInv, StreamTypes, Opened
<1>2. CASE client.lost
  <2>1. Invalidated
    BY <1>2 DEF Empty
  <2>2. QED BY <1>1, <1>2, <2>1, InvalidatedKeeps
<1>3. CASE ~client.lost
  <2> DEFINE pc == IF buffer = <<>> THEN "emptied" ELSE "wait"
  <2>1. Started(TRUE) /\ At(pc) /\ TRUE \in BOOLEAN
    BY <1>3 DEF Empty
  <2>2. /\ client' \in Client /\ client'.endpoint = client.endpoint
        /\ client'.lost = client.lost /\ buffer' = buffer
    BY <1>1, <2>1, StartedIs
  <2>3. call' = [call EXCEPT !.pc = pc] /\ UNCHANGED <<playNext, position>> /\ pc \in Inside \cup {"emptied"}
        /\ (pc = "emptied" => buffer = <<>>) /\ (pc = "wait" => buffer # <<>>) /\ pc \notin {"held", "feed"}
    BY <2>1 DEF At, Inside
  <2> HIDE DEF pc
  <2>4. QED BY <1>1, <2>2, <2>3, TurnKeeps
<1>4. QED BY <1>2, <1>3

\* Ending a drain stops and closes the client, and keeps the invariant.
LEMMA EmptiedKeeps == ASSUME StreamInv, Emptied PROVE StreamInv'
<1> USE DEF StreamInv
<1>1. /\ call.pc = "emptied" /\ Opened /\ client \in Client /\ buffer = <<>> /\ call.op \in {"drain", "reopen"}
      /\ call.pc \in Active
      /\ UNCHANGED <<follows, default, generation, segment, control, due, overrun, upsets>>
  BY DEF Emptied, CallsInv, StreamTypes, Opened, Active
<1>2. call \in [op : {"play", "reopen", "drain"}, s : 1 .. Count, frame : Nat, gen : Nat,
                pc : Active \cup {"idle", "done", "stopped", "failed"}]
  BY DEF StreamTypes
<1>3. CASE client.lost
  <2>1. At("failed") /\ UNCHANGED <<client, buffer>>
    BY <1>1, <1>3 DEF Emptied, endpointVars
  <2>2. call' = [call EXCEPT !.pc = "failed"] /\ UNCHANGED <<playNext, position>>
    BY <2>1 DEF At
  <2>3. /\ call' \in [op : {"play", "reopen", "drain"}, s : 1 .. Count, frame : Nat, gen : Nat,
                      pc : Active \cup {"idle", "done", "stopped", "failed"}]
        /\ call'.pc = "failed"
    BY <1>2, <2>2
  <2>4. StreamTypes'
    BY <1>1, <2>1, <2>2, <2>3 DEF StreamTypes, NoClient
  <2>5. QueueInv' /\ Len(buffer') <= Len(buffer)
    BY <1>1, <2>1, StreamStays, QueuedIs DEF Opened
  <2>6. QED BY <1>1, <2>3, <2>4, <2>5, LeftKeeps
<1>4. CASE ~client.lost /\ (call.op = "drain" \/ control.cancelled)
  <2>1. Started(FALSE) /\ ReturnedAt(FALSE, Published) /\ FALSE \in BOOLEAN
    BY <1>1, <1>4 DEF Emptied
  <2>2. /\ client' \in Client /\ client'.endpoint = client.endpoint
        /\ client'.lost = client.lost /\ buffer' = buffer
    BY <1>1, <2>1, StartedIs
  <2>3. Published \in Places /\ (Published = position \/ (Shows /\ Published = Shown))
    BY <1>1, PublishedIs
  <2>4. /\ call' \in [op : {"play", "reopen", "drain"}, s : 1 .. Count, frame : Nat, gen : Nat,
                      pc : {"idle", "done", "stopped"}]
        /\ playNext' \in [s : 1 .. Count + 1, frame : Nat, handled : Nat]
        /\ position' \in Places
        /\ call'.pc = "stopped" <=> control.cancelled
        /\ call'.pc = "done" => call.op = "drain" /\ position' = Published
    BY <1>1, <2>1, <2>3, ReturnIs
  <2>5. call'.pc = "idle" => call.op # "drain"
    BY <2>1 DEF ReturnedAt
  <2>6. StreamTypes'
    BY <1>1, <2>2, <2>4 DEF StreamTypes
  <2>7. Opened' /\ QueueInv' /\ Len(buffer') <= Len(buffer)
    BY <1>1, <2>2, StreamStays, QueuedIs, OpenIs DEF Opened, NoClient
  <2>8. CASE call'.pc = "stopped"
    BY <1>1, <2>6, <2>7, <2>8, LeftKeeps
  <2>9. CASE call'.pc # "stopped"
    <3>1. call'.pc = "done" /\ call.op = "drain" /\ position' = Published
      BY <1>4, <2>4, <2>5, <2>9
    <3>2. Emptying
      BY <1>1, <3>1 DEF Emptying
    <3>3. Reached(position, due)
      BY <1>1 DEF PositionInv, Idle
    <3>4. Shows => Reached(Shown, due)
      BY <3>2 DEF PositionInv, Truthful
    <3>5. Reached(position', due)
      BY <2>3, <3>1, <3>3, <3>4
    <3>6. QED BY <1>1, <2>2, <2>6, <2>7, <3>1, <3>2, <3>5, DoneKeeps
  <2>10. QED BY <2>8, <2>9
<1>5. CASE ~client.lost /\ call.op = "reopen" /\ ~control.cancelled
  <2>1. /\ client' = NoClient /\ ~Opened' /\ buffer' = <<>> /\ position' = Published /\ UNCHANGED playNext
        /\ call' = [call EXCEPT !.op = "play", !.pc = "open"]
    BY <1>1, <1>5 DEF Emptied, Closed, Opened
  <2>2. /\ call' \in [op : {"play"}, s : 1 .. Count, frame : Nat, gen : Nat, pc : {"open"}]
        /\ call'.s = call.s /\ call'.frame = call.frame /\ call'.gen = call.gen
        /\ call'.pc = "open" /\ call'.op = "play"
    BY <1>2, <2>1
  <2>3. position' \in Places
    BY <1>1, <2>1, PublishedIs
  <2>4. StreamTypes'
    <3>1. call' \in [op : {"play", "reopen", "drain"}, s : 1 .. Count, frame : Nat, gen : Nat,
                     pc : Active \cup {"idle", "done", "stopped", "failed"}]
      BY <2>2 DEF Active
    <3>2. buffer' \in Seq(Sound)
      BY <2>1
    <3>3. QED BY <1>1, <2>1, <2>3, <3>1, <3>2 DEF StreamTypes
  <2>5. QueueInv'
    <3>1. segment' \in [s : 1 .. Count, base : Nat, next : Nat] /\ segment'.base <= segment'.next
      BY <1>1 DEF StreamTypes, QueueInv
    <3>2. QED BY <1>1, <2>1, <3>1, StreamDrops
  <2>6. Noticed' = Noticed
    BY <1>1, <1>5, <2>1 DEF Noticed
  <2>7. Reopening
    BY <1>1, <1>5 DEF Reopening
  <2>8. Continues(SourcePlace(call), due, Noticed, 0) /\ SourcePlace(call') = SourcePlace(call)
    BY <1>1, <2>2, <2>7 DEF OrderInv, Upcoming, SourcePlace
  <2>9. QED BY <1>1, <2>1, <2>2, <2>4, <2>5, <2>6, <2>8, ReopenKeeps
<1>6. QED BY <1>1, <1>3, <1>4, <1>5

-----------------------------------------------------------------------------
(* The buffer is filled.                                                   *)

\* Feeding the buffer keeps the invariant: each new piece starts where the last one ended, and
\* a sentence fed to its end returns.
LEMMA FeedKeeps == ASSUME StreamInv, Feed PROVE StreamInv'
<1> USE DEF StreamInv
<1>1. /\ call.pc = "feed" /\ call.op = "play" /\ Playing /\ Opened /\ client \in Client
      /\ call.pc \in Inside /\ call.pc \in Active
      /\ UNCHANGED <<follows, default, generation, control, due, overrun, upsets>>
  BY DEF Feed, Inside, Active, CallsInv, StreamTypes, Opened, Playing
<1>2. CASE client.lost
  <2>1. Invalidated /\ UNCHANGED segment
    BY <1>2 DEF Feed
  <2>2. QED BY <1>1, <1>2, <2>1, InvalidatedKeeps
<1>3. CASE ~client.lost
  <2> DEFINE total == ConvertedFrames(call.s, Rate)
             next == segment.next
             len == Len(buffer)
             n == Smaller(Capacity - Len(buffer), total - segment.next)
             te == Ticks \div Rate
             P(k) == PlaceAt(call.s, k, Rate)
  <2>1. /\ buffer' = buffer \o Frames(n) /\ segment' = [segment EXCEPT !.next = @ + n]
        /\ client' = [client EXCEPT !.started = TRUE]
        /\ IF next + n >= total THEN Returned(FALSE) ELSE At("wait")
    BY <1>3 DEF Feed
  <2>2. /\ Rate \in Nat \ {0} /\ te \in Nat \ {0} /\ call.s \in 1 .. Count
        /\ total \in Nat \ {0} /\ total * te >= EndOf(call.s).at
    <3>1. /\ Rate \in Nat \ {0} /\ te \in Nat \ {0} /\ Rate * te = Ticks /\ call.s \in 1 .. Count
      BY <1>1, RateIs DEF StreamTypes
    <3>2. /\ call.s \in DOMAIN Clips /\ Clips[call.s].rate \in Nat \ {0} /\ Clips[call.s].frames \in Nat \ {0}
          /\ Ticks \div Clips[call.s].rate \in Nat \ {0}
          /\ Clips[call.s].rate * (Ticks \div Clips[call.s].rate) = Rate * te
      BY <3>1, RatesAre
    <3> HIDE DEF te
    <3>3. QED BY <3>1, <3>2, ConvertedUp, EndIs
  <2>3. /\ segment \in [s : 1 .. Count, base : Nat, next : Nat] /\ next \in Nat
        /\ segment.s = call.s /\ next <= total
    BY <1>1 DEF StreamTypes, CallsInv
  <2>4. len \in Nat /\ len <= Capacity /\ Capacity \in Nat \ {0} /\ buffer \in Seq(Sound)
    BY QueuedIs, StreamBounds DEF QueueInv, StreamTypes
  <2> HIDE DEF total, te
  <2>5. /\ n \in Nat /\ next + n <= total /\ len + n <= Capacity
    BY <2>2, <2>3, <2>4 DEF Smaller
  <2> HIDE DEF n
  <2>6. \A k \in Nat : P(k) \in Places /\ P(k).s = call.s /\ P(k).at = k * te
    <3>1. Rate \in Nat /\ Ticks \div Rate \in Nat
      BY <2>2 DEF te
    <3>2. QED BY <2>2, <3>1, PlaceIs DEF te
  <2> HIDE DEF P
  <2>7. /\ Frames(n) \in Seq(Sound) /\ Len(Frames(n)) = n
        /\ \A k \in 1 .. n : Frames(n)[k] = [gen |-> generation, from |-> P(next + k - 1), until |-> P(next + k)]
    <3>1. Frames(n) = [k \in 1 .. n |-> [gen |-> generation, from |-> P(next + k - 1), until |-> P(next + k)]]
      BY DEF Frames, P
    <3>2. \A k \in 1 .. n : [gen |-> generation, from |-> P(next + k - 1), until |-> P(next + k)] \in Sound
      <4>1. ASSUME NEW k \in 1 .. n
            PROVE  [gen |-> generation, from |-> P(next + k - 1), until |-> P(next + k)] \in Sound
        <5>1. next + k - 1 \in Nat /\ next + k \in Nat /\ generation \in Nat
          <6>1. k \in Nat /\ k >= 1 /\ generation \in Nat
            BY <2>5 DEF StreamTypes
          <6>2. QED BY <2>3, <6>1
        <5>2. P(next + k - 1) \in Places /\ P(next + k) \in Places
          BY <2>6, <5>1
        <5>3. QED BY <5>1, <5>2 DEF Sound
      <4>2. QED BY <4>1
    <3>3. Frames(n) \in [1 .. n -> Sound]
      BY <3>1, <3>2
    <3>4. Frames(n) \in Seq(Sound) /\ Len(Frames(n)) = n
      BY <2>5, <3>3, IsASeq, LenProperties
    <3>5. QED BY <3>1, <3>4
  <2>8. /\ buffer' \in Seq(Sound) /\ Len(buffer') = len + n
        /\ \A i \in 1 .. len : buffer'[i] = buffer[i]
        /\ \A i \in len + 1 .. len + n :
             /\ buffer'[i].gen = generation
             /\ buffer'[i].from = P(next + (i - len) - 1) /\ buffer'[i].until = P(next + (i - len))
    <3>1. /\ buffer' \in Seq(Sound) /\ Len(buffer') = len + n
          /\ \A i \in 1 .. len + n : buffer'[i] = IF i <= len THEN buffer[i] ELSE Frames(n)[i - len]
      <4>1. buffer \in Seq(Sound) /\ Frames(n) \in Seq(Sound)
        BY <2>4, <2>7
      <4>2. /\ buffer \o Frames(n) \in Seq(Sound)
            /\ Len(buffer \o Frames(n)) = Len(buffer) + Len(Frames(n))
            /\ \A i \in 1 .. Len(buffer) + Len(Frames(n)) :
                 (buffer \o Frames(n))[i] = IF i <= Len(buffer) THEN buffer[i] ELSE Frames(n)[i - Len(buffer)]
        BY <4>1, ConcatProperties
      <4>3. Len(Frames(n)) = n
        BY <2>7
      <4>4. QED BY <2>1, <4>2, <4>3
    <3>2. \A i \in 1 .. len : buffer'[i] = buffer[i]
      BY <2>4, <2>5, <3>1
    <3>3. ASSUME NEW i \in len + 1 .. len + n
          PROVE  /\ buffer'[i].gen = generation
                 /\ buffer'[i].from = P(next + (i - len) - 1) /\ buffer'[i].until = P(next + (i - len))
      <4>1. i - len \in 1 .. n /\ i \in 1 .. len + n /\ ~(i <= len)
        BY <2>4, <2>5, <3>3
      <4>2. buffer'[i] = Frames(n)[i - len]
        BY <3>1, <4>1
      <4>3. QED BY <2>7, <4>1, <4>2
    <3>4. QED BY <3>1, <3>2, <3>3
  <2>9. /\ segment' \in [s : 1 .. Count, base : Nat, next : Nat]
        /\ segment'.s = call.s /\ segment'.base = segment.base /\ segment'.next = next + n
    BY <2>1, <2>3, <2>5
  <2>10. /\ client' \in Client /\ client'.endpoint = client.endpoint /\ client'.lost = FALSE
         /\ client'.started = TRUE
    BY <1>1, <1>3, <2>1 DEF Client
  <2>11. Opened' /\ Rate' = Rate /\ Noticed' = Noticed /\ Noticed \in Nat
    <3>1. Opened'
      BY <2>10, OpenIs DEF Opened, NoClient
    <3>2. Noticed' = Noticed
      BY <1>1, <1>3, <2>10, <3>1 DEF Noticed
    <3>3. QED BY <2>10, <3>1, <3>2, NoticedIs DEF Rate
  \* What is queued and what comes next.
  <2>12. /\ buffer = <<>> => Continues(P(next), due, Noticed, te - 1)
         /\ buffer # <<>> => Exact(P(next), buffer[len].until)
    BY <1>1 DEF OrderInv, Upcoming, Queued, P, te
  <2>13. /\ buffer = <<>> <=> len = 0
         /\ buffer' = <<>> <=> len + n = 0
    <3>1. buffer = <<>> <=> len = 0
      BY <2>4, EmptySeq
    <3>2. buffer' = <<>> <=> Len(buffer') = 0
      BY <2>8, EmptySeq
    <3>3. QED BY <2>8, <3>1, <3>2
  <2>14. n = 0 => buffer' = buffer
    <3>1. ASSUME n = 0 PROVE buffer' = buffer
      <4>1. Frames(n) = <<>>
        BY <2>7, <3>1, EmptySeq
      <4>2. QED BY <2>1, <2>4, <4>1
    <3>2. QED BY <3>1
  <2>15. n > 0 => buffer'[len + n].until = P(next + n) /\ buffer' # <<>>
    <3>1. ASSUME n > 0 PROVE len + n \in len + 1 .. len + n /\ next + ((len + n) - len) = next + n
      BY <2>3, <2>4, <2>5, <3>1
    <3>2. QED BY <2>4, <2>5, <2>8, <2>13, <3>1
  <2>16. /\ buffer' = <<>> => Continues(P(next + n), due, Noticed, te - 1)
         /\ buffer' # <<>> => Exact(P(next + n), buffer'[len + n].until)
    <3>1. CASE n = 0
      <4>1. next + n = next /\ len + n = len
        BY <2>3, <2>4, <3>1
      <4>2. QED BY <2>12, <2>14, <3>1, <4>1
    <3>2. CASE n > 0
      BY <2>15, <3>2 DEF Exact
    <3>3. QED BY <2>5, <3>1, <3>2
  <2>17. QueueInv'
    <3>1. ASSUME NEW i \in 1 .. Len(buffer')
          PROVE  /\ buffer'[i].gen = generation
                 /\ Len(buffer') - i < segment'.next - segment'.base =>
                      buffer'[i].until = PlaceAt(segment'.s, segment'.next - (Len(buffer') - i), Rate)
      <4>1. CASE i <= len
        <5>1. i \in 1 .. len /\ buffer'[i] = buffer[i]
          BY <2>4, <2>8, <4>1
        <5>2. buffer[i].gen = generation
          BY <5>1 DEF QueueInv
        <5>3. len - i < next - segment.base => buffer[i].until = PlaceAt(segment.s, next - (len - i), Rate)
          BY <5>1 DEF QueueInv
        <5>4. /\ Len(buffer') - i < segment'.next - segment'.base <=> len - i < next - segment.base
              /\ segment'.next - (Len(buffer') - i) = next - (len - i)
          <6>1. segment.base \in Nat /\ i \in Nat
            BY <2>3, <5>1
          <6>2. segment'.next = next + n /\ segment'.base = segment.base /\ Len(buffer') = len + n
            BY <2>8, <2>9
          <6>3. len + n - i = (len - i) + n /\ next + n - segment.base = (next - segment.base) + n
                /\ (next + n) - (len + n - i) = next - (len - i)
            BY <2>3, <2>4, <2>5, <6>1
          <6>4. (len - i) + n < (next - segment.base) + n <=> len - i < next - segment.base
            BY <2>3, <2>4, <2>5, <6>1
          <6>5. Len(buffer') - i = (len - i) + n
            BY <2>3, <2>4, <2>5, <6>1, <6>2
          <6>6. segment'.next - segment'.base = (next - segment.base) + n
            BY <2>3, <2>4, <2>5, <6>1, <6>2
          <6>7. segment'.next - (Len(buffer') - i) = next - (len - i)
            BY <2>3, <2>4, <2>5, <6>1, <6>2
          <6>8. QED BY <6>4, <6>5, <6>6, <6>7
        <5>5. QED BY <2>3, <2>9, <5>1, <5>2, <5>3, <5>4
      <4>2. CASE i > len
        <5>1. i \in len + 1 .. len + n
          BY <2>4, <2>5, <2>8, <4>2
        <5>2. segment'.next - (Len(buffer') - i) = next + (i - len)
          BY <2>3, <2>4, <2>5, <2>8, <2>9, <5>1
        <5>3. QED BY <2>8, <2>9, <5>1, <5>2 DEF P
      <4>3. QED BY <2>4, <2>8, <4>1, <4>2
    <3>2. ASSUME NEW i \in 1 .. Len(buffer') - 1
          PROVE  Exact(buffer'[i + 1].from, buffer'[i].until)
      <4>1. CASE i < len
        <5>1. i \in 1 .. len - 1 /\ i \in 1 .. len /\ i + 1 \in 1 .. len
          BY <2>4, <2>5, <2>8, <4>1
        <5>2. QED BY <2>8, <5>1 DEF QueueInv
      <4>2. CASE i = len
        <5>1. i \in 1 .. len /\ i + 1 \in len + 1 .. len + n /\ next + ((i + 1) - len) - 1 = next /\ buffer # <<>>
          BY <2>3, <2>4, <2>5, <2>8, <2>13, <4>2
        <5>2. buffer'[i + 1].from = P(next) /\ buffer'[i].until = buffer[len].until
          BY <2>8, <4>2, <5>1
        <5>3. QED BY <2>12, <5>1, <5>2
      <4>3. CASE i > len
        <5>1. i \in len + 1 .. len + n /\ i + 1 \in len + 1 .. len + n
              /\ next + ((i + 1) - len) - 1 = next + (i - len)
          BY <2>3, <2>4, <2>5, <2>8, <4>3
        <5>2. buffer'[i + 1].from = buffer'[i].until
          BY <2>8, <5>1
        <5>3. QED BY <5>2 DEF Exact
      <4>4. QED BY <2>4, <2>8, <4>1, <4>2, <4>3
    <3>3. ASSUME buffer' # <<>> PROVE Continues(buffer'[1].from, due, Noticed, te - 1)
      <4>1. CASE buffer # <<>>
        <5>1. 1 \in 1 .. len
          BY <2>4, <2>13, <4>1
        <5>2. QED BY <2>8, <4>1, <5>1 DEF QueueInv, te
      <4>2. CASE buffer = <<>>
        <5>1. 1 \in len + 1 .. len + n /\ next + (1 - len) - 1 = next
          BY <2>3, <2>4, <2>5, <2>13, <3>3, <4>2
        <5>2. buffer'[1].from = P(next)
          BY <2>8, <5>1
        <5>3. QED BY <2>12, <4>2, <5>2
      <4>3. QED BY <4>1, <4>2
    <3>4. segment'.base > 0 => Len(buffer') <= segment'.next - segment'.base
      <4>1. segment.base > 0 => len <= next - segment.base
        BY DEF QueueInv
      <4>2. QED BY <2>3, <2>4, <2>5, <2>8, <2>9, <4>1
    <3>5. segment'.base <= segment'.next /\ Len(buffer') <= Capacity
      <4>1. segment.base <= next
        BY DEF QueueInv
      <4>2. QED BY <2>3, <2>4, <2>5, <2>8, <2>9, <4>1
    <3>6. QED BY <1>1, <2>10, <2>11, <3>1, <3>2, <3>3, <3>4, <3>5 DEF QueueInv, te
  \* What is displayed was heard before anything of the next frames is.
  <2>18. position \in Places /\ due \in Places
    BY DEF StreamTypes
  <2>19. n > 0 => Reached(position, P(next + 1))
    <3>1. ASSUME n > 0, buffer = <<>> PROVE Reached(position, P(next + 1))
      <4>1. next < total
        BY <2>2, <2>3, <2>5, <3>1
      <4>2. QED BY <1>1, <3>1, <4>1 DEF PositionInv, total, P
    <3>2. ASSUME buffer # <<>> PROVE Reached(position, P(next + 1))
      <4>1. len \in 1 .. len
        BY <2>4, <2>13, <3>2
      <4>2. Reached(position, buffer[len].until) /\ buffer[len].until \in Places
        BY <1>1, <4>1, QueuedIs DEF PositionInv, Idle
      <4>3. Exact(PlaceAt(call.s, segment.next, Rate), buffer[len].until)
        BY <2>12, <3>2 DEF P
      <4>4. QED BY <1>1, <4>2, <4>3, NextIsBeyond DEF P
    <3>3. QED BY <3>1, <3>2
  <2>20. ASSUME NEW i \in 1 .. Len(buffer') PROVE Reached(position, buffer'[i].until)
    <3>1. CASE i <= len
      <4>1. i \in 1 .. len
        BY <2>4, <3>1
      <4>2. QED BY <1>1, <2>8, <4>1 DEF PositionInv, Idle
    <3>2. CASE i > len
      <4>1. i \in len + 1 .. len + n /\ i - len \in Nat /\ i - len >= 1 /\ n > 0
        BY <2>4, <2>5, <2>8, <3>2
      <4>2. next + 1 \in Nat /\ next + (i - len) \in Nat /\ next + 1 <= next + (i - len)
        BY <2>3, <4>1
      <4>3. (next + 1) * te <= (next + (i - len)) * te
        BY <2>2, <4>2, ProductGrows
      <4>4. Before(P(next + 1), P(next + (i - len)))
        BY <2>6, <4>2, <4>3 DEF Before
      <4>5. P(next + 1) \in Places /\ P(next + (i - len)) \in Places
        BY <2>6, <4>2
      <4>6. Before(position, P(next + 1)) => Before(position, P(next + (i - len)))
        BY <2>18, <4>4, <4>5 DEF Before, Places
      <4>7. Reached(position, P(next + (i - len)))
        BY <2>19, <4>1, <4>6 DEF Reached
      <4>8. QED BY <2>8, <4>1, <4>7
    <3>3. QED BY <2>4, <2>8, <3>1, <3>2
  <2>21. Reached(position, due)
    BY <1>1 DEF PositionInv, Idle
  <2>22. Shown' = Shown /\ (Shows' => Shows)
    <3>1. segment'.next - Len(buffer') = next - len
      BY <2>3, <2>4, <2>5, <2>8, <2>9
    <3>2. Len(buffer') <= segment'.next - segment'.base => len <= next - segment.base
      BY <2>3, <2>4, <2>5, <2>8, <2>9
    <3>3. QED BY <1>1, <1>3, <2>3, <2>9, <2>11, <3>1, <3>2 DEF Shown, Shows
  <2>23. Shows => Reached(Shown, due)
    BY <1>1 DEF PositionInv, Truthful
  <2>24. call'.pc # "feed" /\ call'.pc # "held" => PauseInv'
    <3>1. overrun \in Nat /\ Len(buffer') <= Capacity /\ Len(buffer') \in Nat
      BY <2>4, <2>5, <2>8 DEF StreamTypes
    <3>2. control.paused => overrun + len <= Capacity
      BY <1>1 DEF PauseInv
    <3>3. control.paused => overrun + Len(buffer') <= 2 * Capacity
      BY <2>4, <3>1, <3>2
    <3>4. ~control.paused => overrun = 0
      BY DEF PauseInv
    <3>5. QED BY <1>1, <3>3, <3>4 DEF PauseInv
  <2>25. ASSUME /\ call' \in [op : {"play", "reopen", "drain"}, s : 1 .. Count, frame : Nat, gen : Nat,
                              pc : Active \cup {"idle", "done", "stopped", "failed"}]
                /\ playNext' \in [s : 1 .. Count + 1, frame : Nat, handled : Nat]
                /\ position' \in Places
         PROVE  StreamTypes'
    BY <1>1, <2>8, <2>9, <2>10, <2>25 DEF StreamTypes
  <2>26. CASE next + n < total
    <3>1. call' = [call EXCEPT !.pc = "wait"] /\ UNCHANGED <<playNext, position>>
      <4>1. ~(next + n >= total)
        BY <2>2, <2>3, <2>5, <2>26
      <4>2. At("wait")
        BY <2>1, <4>1
      <4>3. QED BY <4>2 DEF At
    <3>2. call \in [op : {"play", "reopen", "drain"}, s : 1 .. Count, frame : Nat, gen : Nat,
                    pc : Active \cup {"idle", "done", "stopped", "failed"}]
      BY DEF StreamTypes
    <3>3. /\ call' \in [op : {"play", "reopen", "drain"}, s : 1 .. Count, frame : Nat, gen : Nat,
                        pc : Active \cup {"idle", "done", "stopped", "failed"}]
          /\ call'.pc = "wait" /\ call'.op = "play" /\ call'.s = call.s /\ call'.gen = call.gen
      BY <1>1, <3>1, <3>2 DEF Active, Inside
    <3>4. StreamTypes'
      BY <2>25, <3>1, <3>3 DEF StreamTypes
    <3>5. Playing' /\ ~Idle' /\ ~Reopening' /\ ~Emptying'
      BY <3>3 DEF Playing, Idle, Reopening, Emptying, Inside
    <3>6. CallsInv'
      <4>1. call.gen = generation /\ playNext.handled = generation
        BY <1>1 DEF CallsInv
      <4>2. segment'.next <= ConvertedFrames(call'.s, Rate')
        BY <2>5, <2>9, <2>11, <3>3 DEF total
      <4>3. QED BY <1>1, <2>9, <2>11, <3>1, <3>3, <3>5, <4>1, <4>2 DEF CallsInv
    <3>7. OrderInv'
      <4>1. PlaceAt(call'.s, segment'.next, Rate') = P(next + n)
        BY <2>9, <2>11, <3>3 DEF P
      <4>2. Upcoming(PlaceAt(call.s, segment.next, Rate), Ticks \div Rate - 1)'
        BY <1>1, <2>8, <2>11, <2>16, <4>1 DEF Upcoming, Queued, te
      <4>3. QED BY <3>3, <3>5, <4>2 DEF OrderInv
    <3>8. PositionInv'
      <4>1. Reached(position, due)' /\ \A i \in 1 .. Len(buffer') : Reached(position, buffer[i].until)'
        BY <1>1, <2>3, <2>9, <2>20, <2>21, <3>1 DEF Reached
      <4>2. Shows' => Reached(Shown, due)'
        BY <1>1, <2>3, <2>9, <2>22, <2>23 DEF Reached
      <4>3. ASSUME buffer' = <<>> PROVE FALSE
        BY <2>4, <2>2, <2>3, <2>5, <2>13, <2>26, <4>3 DEF n, Smaller
      <4>4. QED BY <3>3, <3>5, <4>1, <4>2, <4>3 DEF PositionInv
    <3>9. QED BY <2>17, <2>24, <3>3, <3>4, <3>6, <3>7, <3>8
  <2>27. CASE next + n = total
    <3>1. ReturnedAt(FALSE, position) /\ FALSE \in BOOLEAN
      <4>1. next + n >= total
        BY <2>2, <2>27
      <4>2. Returned(FALSE)
        BY <2>1, <4>1
      <4>3. QED BY <4>2 DEF Returned
    <3>2. /\ call' \in [op : {"play", "reopen", "drain"}, s : 1 .. Count, frame : Nat, gen : Nat,
                        pc : {"idle", "done", "stopped"}]
          /\ playNext' \in [s : 1 .. Count + 1, frame : Nat, handled : Nat]
          /\ position' \in Places
          /\ call'.pc = "stopped" <=> control.cancelled
          /\ call'.pc = "done" => call.op = "drain"
          /\ call'.pc = "idle" /\ control.seeks # generation =>
               /\ playNext'.handled # generation /\ playNext'.s <= Count
               /\ position' = SourcePlace(playNext)'
          /\ call'.pc = "idle" /\ control.seeks = generation =>
               /\ playNext'.s = call.s + 1 /\ playNext'.frame = 0 /\ playNext'.handled = generation
               /\ position' = position
      BY <1>1, <2>18, <3>1, ReturnIs
    <3>3. StreamTypes' /\ PauseInv'
      BY <2>24, <2>25, <3>2
    <3>4. CASE call'.pc = "stopped"
      <4>1. ~Idle' /\ ~Playing' /\ ~Reopening' /\ ~Emptying'
        BY <3>4 DEF Idle, Playing, Reopening, Emptying, Inside
      <4>2. CallsInv' /\ OrderInv' /\ PositionInv'
        BY <3>4, <4>1 DEF CallsInv, OrderInv, PositionInv, Truthful, Inside, Active
      <4>3. QED BY <2>17, <3>3, <4>2
    <3>5. CASE call'.pc = "idle" /\ control.seeks # generation
      BY <1>1, <2>17, <3>2, <3>3, <3>5, SoughtKeeps DEF Sought
    <3>6. CASE call'.pc = "idle" /\ control.seeks = generation
      <4>1. Idle' /\ ~Sought' /\ ~Playing' /\ ~Reopening' /\ ~Emptying'
        BY <1>1, <3>2, <3>6 DEF Idle, Sought, Playing, Reopening, Emptying, Inside
      <4>2. CallsInv'
        BY <3>2, <3>6, <4>1 DEF CallsInv, Inside, Active
      <4>3. total * te \in Nat /\ total * te > 0
        <5>1. 1 * te <= total * te
          BY <2>2, ProductGrows
        <5>2. QED BY <2>2, <5>1
      <4>4. P(total) \in Places /\ P(total).s = call.s /\ P(total).at = total * te
        BY <2>2, <2>6
      <4>5. Queued' \in Places /\ Queued'.s = call.s /\ Queued'.at >= total * te
        <5>1. CASE buffer' = <<>>
          <6>1. Continues(P(total), due, Noticed, te - 1)
            BY <2>16, <2>27, <5>1
          <6>2. P(total).s = due.s /\ P(total).at <= due.at
            BY <4>3, <4>4, <6>1 DEF Continues, Joins
          <6>3. Queued' = due
            BY <1>1, <5>1 DEF Queued
          <6>4. QED BY <2>18, <4>3, <4>4, <6>2, <6>3 DEF Places
        <5>2. CASE buffer' # <<>>
          <6>1. Exact(P(total), buffer'[len + n].until)
            BY <2>16, <2>27, <5>2
          <6>2. P(total) = buffer'[len + n].until
            BY <4>3, <4>4, <6>1 DEF Exact, Joins
          <6>3. Queued' = P(total)
            BY <2>8, <5>2, <6>2 DEF Queued
          <6>4. QED BY <4>3, <4>4, <6>3
        <5>3. QED BY <5>1, <5>2
      <4>6. Joins([s |-> playNext'.s, at |-> 0], Queued')
        <5>1. EndOf(call.s).at \in Nat /\ Queued'.at \in Nat
          BY <2>2, <4>5, EndIs DEF Places
        <5>2. Queued'.at >= EndOf(call.s).at
          BY <2>2, <4>3, <4>5, <5>1
        <5>3. QED BY <3>2, <3>6, <4>5, <5>2 DEF Joins
      <4>7. OrderInv'
        BY <3>6, <4>1, <4>6 DEF OrderInv, Exact
      <4>8. PositionInv'
        <5>1. Reached(position, due)' /\ \A i \in 1 .. Len(buffer') : Reached(position, buffer[i].until)'
          BY <1>1, <2>3, <2>9, <2>20, <2>21, <3>2, <3>6 DEF Reached
        <5>2. Shows' => Reached(Shown, due)'
          BY <1>1, <2>3, <2>9, <2>22, <2>23 DEF Reached
        <5>3. QED BY <4>1, <5>1, <5>2 DEF PositionInv
      <4>9. QED BY <2>17, <3>3, <4>2, <4>7, <4>8
    <3>7. QED BY <1>1, <3>2, <3>4, <3>5, <3>6
  <2>28. QED BY <2>2, <2>3, <2>5, <2>26, <2>27
<1>4. QED BY <1>2, <1>3

-----------------------------------------------------------------------------
(* The invariant, and what it says of the stream.                          *)

\* The initial states satisfy the invariant.
LEMMA StreamBegins == ASSUME StreamInit PROVE StreamInv
<1>1. 1 \in 1 .. Count /\ Count \in Nat
  BY RatesAre
<1>2. /\ follows \in BOOLEAN /\ default = 1
      /\ client = NoClient /\ buffer = <<>> /\ generation = 0
      /\ segment = [s |-> 1, base |-> 0, next |-> 0]
      /\ call = [op |-> "play", s |-> 1, frame |-> 0, gen |-> 0, pc |-> "idle"]
      /\ playNext = [s |-> 1, frame |-> 0, handled |-> 0]
      /\ control = [cancelled |-> FALSE, paused |-> FALSE, seeks |-> 0, target |-> [s |-> 1, frame |-> 0]]
      /\ position = [s |-> 1, at |-> 0] /\ due = [s |-> 1, at |-> 0]
      /\ overrun = 0 /\ upsets = [losses |-> 0, moves |-> 0]
  <2>1. PlaceAt(1, 0, Ticks) = [s |-> 1, at |-> 0]
    <3>1. Ticks \in Nat \ {0}
      BY StreamBounds
    <3>2. Ticks \div Ticks \in Nat
      BY <3>1, DivisionIs
    <3>3. 0 * (Ticks \div Ticks) = 0
      BY <3>2
    <3>4. QED BY <3>3 DEF PlaceAt
  <2>2. QED BY <2>1 DEF StreamInit
<1>3. 1 \in DOMAIN Endpoints
  BY StreamBounds
<1>4. StreamTypes
  <2>1. [s |-> 1, at |-> 0] \in Places /\ [s |-> 1, frame |-> 0] \in [s : 1 .. Count, frame : Nat]
    BY <1>1 DEF Places
  <2>2. segment \in [s : 1 .. Count, base : Nat, next : Nat]
        /\ playNext \in [s : 1 .. Count + 1, frame : Nat, handled : Nat]
        /\ upsets \in [losses : Nat, moves : Nat]
    BY <1>1, <1>2
  <2>3. call \in [op : {"play", "reopen", "drain"}, s : 1 .. Count, frame : Nat, gen : Nat,
                  pc : Active \cup {"idle", "done", "stopped", "failed"}]
    BY <1>1, <1>2
  <2>4. control \in [cancelled : BOOLEAN, paused : BOOLEAN, seeks : Nat,
                     target : [s : 1 .. Count, frame : Nat]]
    BY <1>2, <2>1
  <2>5. buffer \in Seq(Sound)
    BY <1>2
  <2>6. QED BY <1>2, <1>3, <2>1, <2>2, <2>3, <2>4, <2>5 DEF StreamTypes
<1>5. Idle /\ ~Sought /\ ~Opened /\ ~Playing /\ ~Reopening /\ ~Emptying
  BY <1>2 DEF Idle, Sought, Opened, Playing, Reopening, Emptying, Inside
<1>6. CallsInv
  BY <1>2, <1>5 DEF CallsInv, Inside, Active
<1>7. Len(buffer) = 0 /\ 1 .. Len(buffer) = {} /\ 1 .. Len(buffer) - 1 = {}
  BY <1>2, EmptySeq
<1>8. QueueInv
  <2>1. Capacity \in Nat
    BY StreamBounds
  <2>2. QED BY <1>2, <1>5, <1>7, <2>1 DEF QueueInv
<1>9. OrderInv
  BY <1>2, <1>5 DEF OrderInv, Exact, Queued
<1>10. PauseInv
  BY <1>2 DEF PauseInv
<1>11. PositionInv
  BY <1>2, <1>5, <1>7 DEF PositionInv, Reached, Shows
<1>12. QED BY <1>4, <1>6, <1>8, <1>9, <1>10, <1>11 DEF StreamInv

\* A step that changes nothing keeps the invariant.
LEMMA StreamStutters == ASSUME StreamInv, UNCHANGED streamVars PROVE StreamInv'
<1>1. UNCHANGED <<follows, default, client, buffer, generation, segment, call, playNext, position,
                  control, due, overrun, upsets>>
  BY DEF streamVars, endpointVars, callVars
<1>2. StreamTypes'
  BY <1>1 DEF StreamInv, StreamTypes, NoClient
<1>3. QED
  BY <1>1, <1>2 DEF StreamInv, CallsInv, QueueInv, OrderInv, PauseInv, PositionInv, Opened, Idle,
     Sought, Playing, Reopening, Emptying, SourcePlace, Rate, Noticed, Queued, Upcoming,
     Truthful, Shows, Shown, Reached

\* What the bookkeeping amounts to for the listener.
LEMMA StreamInvSuffices == ASSUME StreamInv PROVE StreamIsHeard
<1> USE DEF StreamInv
<1>1. HeardInOrder
  <2>1. ASSUME Audible
        PROVE  /\ Head(buffer).gen = generation
               /\ \/ /\ Head(buffer).from.s = due.s /\ Head(buffer).from.at <= due.at
                     /\ \E e \in DOMAIN Endpoints :
                          Head(buffer).from.at > WithinSentence(due) - Drift(due.s, e) - Ticks \div Rate
                  \/ Joins(Head(buffer).from, due)
    <3>1. Opened /\ ~client.lost /\ buffer # <<>> /\ Head(buffer) = buffer[1] /\ 1 \in 1 .. Len(buffer)
      BY <2>1, QueuedIs DEF Audible
    <3>2. buffer[1].gen = generation /\ Continues(buffer[1].from, due, Noticed, Ticks \div Rate - 1)
      BY <3>1 DEF QueueInv
    <3>3. Noticed = upsets.losses /\ upsets.losses \in Nat
      BY <3>1 DEF Noticed, StreamTypes
    <3>4. Ticks \div Rate \in Nat /\ due \in Places /\ buffer[1].from \in Places
      BY <3>1, RateIs, QueuedIs DEF StreamTypes
    <3>5. CASE Joins(buffer[1].from, due)
      BY <3>1, <3>2, <3>5
    <3>6. CASE ~Joins(buffer[1].from, due)
      <4>1. buffer[1].from.s = due.s /\ buffer[1].from.at <= due.at
        BY <3>2, <3>6 DEF Continues
      <4>2. PICK e \in DOMAIN Endpoints :
               buffer[1].from.at >= WithinSentence(due)
                 - Noticed * (Ticks \div Clips[due.s].rate + Ticks \div Endpoints[e])
                 - (Ticks \div Rate - 1)
        BY <3>2, <3>6 DEF Continues
      <4>3. Drift(due.s, e) = Noticed * (Ticks \div Clips[due.s].rate + Ticks \div Endpoints[e])
        BY <3>3 DEF Drift
      <4>4. Drift(due.s, e) \in Nat
        <5>1. Ticks \div Clips[due.s].rate + Ticks \div Endpoints[e] \in Nat
          BY <3>4, RatesAre DEF Places
        <5>2. QED BY <3>3, <5>1 DEF Drift
      <4>5. buffer[1].from.at > WithinSentence(due) - Drift(due.s, e) - Ticks \div Rate
        <5>1. WithinSentence(due) \in Nat /\ buffer[1].from.at \in Nat
          BY <3>4, WithinIs DEF Places
        <5>2. buffer[1].from.at >= WithinSentence(due) - Drift(due.s, e) - (Ticks \div Rate - 1)
          BY <4>2, <4>3
        <5>3. QED BY <3>4, <4>4, <5>1, <5>2
      <4>6. QED BY <3>1, <3>2, <4>1, <4>5
    <3>7. QED BY <3>5, <3>6
  <2>2. QED BY <2>1 DEF HeardInOrder, Joins
<1>2. PauseIsSilent
  <2>1. overrun \in Nat /\ Len(buffer) \in Nat /\ Capacity \in Nat
    BY QueuedIs, StreamBounds DEF StreamTypes
  <2>2. (~control.paused => overrun = 0) /\ (control.paused => overrun + Len(buffer) <= 2 * Capacity)
    BY DEF PauseInv
  <2>3. overrun <= 2 * Capacity
    BY <2>1, <2>2
  <2>4. QED BY <2>3 DEF PauseIsSilent, PauseInv
<1>3. DrainedIsHeard
  BY DEF DrainedIsHeard, OrderInv, CallsInv, Queued
<1>4. PositionIsHeard
  <2>1. Idle /\ Sought => position = SourcePlace(playNext)
    BY DEF CallsInv
  <2>2. call.pc \notin {"open", "failed", "stopped"} /\ ~(Idle /\ Sought) => Reached(position, due)
    BY DEF PositionInv
  <2>3. QED BY <2>1, <2>2 DEF PositionIsHeard, Idle, Sought
<1>5. QED BY <1>1, <1>2, <1>3, <1>4 DEF StreamIsHeard

\* One endpoint stream is heard as one recording, for any sentences, rates and
\* endpoints, any buffer, and however often the user pauses and seeks and Windows
\* moves or takes away the endpoint: nothing is skipped, no more is repeated than the
\* rounding of the endpoints lost, nothing from before a seek is heard, a pause is
\* silent within two buffers, a drained stream was heard to its end, and the displayed
\* position does not run ahead of the sound.
THEOREM StreamStaysHeard == StreamInit /\ [][StreamNext]_streamVars => []StreamIsHeard
<1>1. ASSUME StreamInv, [StreamNext]_streamVars PROVE StreamInv'
  <2>1. CASE PauseOrResume \/ Seek \/ CancelStream
    BY <1>1, <2>1, ControlKeeps
  <2>2. CASE PlayFrom \/ Drain \/ OpenStream \/ OpenFails
    BY <1>1, <2>2, PlayFromKeeps, DrainKeeps, OpenStreamKeeps, OpenFailsKeeps
  <2>3. CASE Observe \/ Released \/ Feed \/ Empty \/ Wait \/ Emptied
    BY <1>1, <2>3, ObserveKeeps, ReleasedKeeps, FeedKeeps, EmptyKeeps, WaitKeeps, EmptiedKeeps
  <2>4. CASE Play \/ Lose \/ MoveDefault
    BY <1>1, <2>4, PlayKeeps, LoseKeeps, MoveKeeps
  <2>5. CASE UNCHANGED streamVars
    BY <1>1, <2>5, StreamStutters
  <2>6. QED BY <1>1, <2>1, <2>2, <2>3, <2>4, <2>5 DEF StreamNext
<1>2. QED BY <1>1, StreamBegins, StreamInvSuffices, PTL

=============================================================================
