------------------------- MODULE RunnerSessionProofs -------------------------
(***************************************************************************)
(* Proofs about RunnerSession, for every engine set, every capacity of a   *)
(* pipe, any number of faults, calls and sentences.                        *)
(*                                                                         *)
(* A call says nothing of what an earlier one left in a pipe, a parser or  *)
(* the runner's own queue, so the inductive invariant Inv says where every *)
(* half message of the exchange under way is.  Exchange: what the Host     *)
(* still has to write, the pipe and the runner's parser hold the one       *)
(* request, in order (Asked); what the runner has to write, a pipe and the *)
(* Host's parser hold a prefix cut out of one allowed answer (Answered),   *)
(* up to the first junk a faulty runner wrote.  The rest is about the      *)
(* threads: which statements the caller may be at (Calling), when the      *)
(* audio reader exists (Waiting), which errors may stand (Errs), and that  *)
(* a sentence said to be heard was received whole (Spoke, Sound).          *)
(***************************************************************************)
EXTENDS RunnerSession, SequenceTheorems, TLAPS

-----------------------------------------------------------------------------
(* Messages on a channel.                                                  *)

Whats == {"none", "initialize", "load", "synthesize", "unload", "ok", "error"}
Msgs == [what : Whats, id : Nat]
AudioFrames == [what : {"audio"}, id : Nat, n : Nat, last : BOOLEAN]
Things == Msgs \union AudioFrames
Pieces == [of : Things, half : 0 .. 2]
Outputs == [to : {"control", "audio"}, piece : Pieces]

\* The j-th piece of the messages M.
Piece(M, j) == [of |-> M[(j + 1) \div 2], half |-> 2 - (j % 2)]

\* No junk among the first i pieces of a pipe; nothing but what a parser refuses.
Clean(pipe, i) == \A j \in 1 .. i : pipe[j] # Junk
Dirty(pipe) == pipe # <<>> => pipe[1] = Junk

\* The first k pieces of M were written, and d messages were taken: a parser's
\* buffer and the pipe hold what is between, up to the first junk.
Carries(M, d, buffer, pipe, k) ==
  /\ 2 * d + Len(buffer) <= k /\ k <= 2 * Len(M)
  /\ \A i \in 1 .. Len(buffer) : buffer[i] = Piece(M, 2 * d + i)
  /\ \A i \in 1 .. Len(pipe) :
       Clean(pipe, i) =>
         /\ 2 * d + Len(buffer) + i <= k
         /\ pipe[i] = Piece(M, 2 * d + Len(buffer) + i)
  /\ Clean(pipe, Len(pipe)) => 2 * d + Len(buffer) + Len(pipe) = k

-----------------------------------------------------------------------------
(* The inductive invariant: the exchange under way.                        *)

ChannelTypes ==
  /\ id \in Nat /\ reply \in Msgs /\ replies \in Seq(Things) /\ frames \in Seq(Things)
  /\ outgoing \in Seq(Pieces) /\ stdin \in Seq(Pieces) /\ inBuffer \in Seq(Pieces)
  /\ control \in Seq(Pieces) /\ ctlBuffer \in Seq(Pieces)
  /\ audio \in Seq(Pieces) /\ audBuffer \in Seq(Pieces)
  /\ toWrite \in Seq(Outputs)
  /\ audFirst \in BOOLEAN /\ abort \in BOOLEAN /\ late \in BOOLEAN /\ cancelled \in BOOLEAN
  /\ stdinClosed \in BOOLEAN /\ loaded \in BOOLEAN

\* Nothing of any answer is about.
Quiet ==
  /\ replies = <<>> /\ reply = NoReply /\ ctlBuffer = <<>> /\ Dirty(control)
  /\ frames = <<>> /\ audBuffer = <<>> /\ Dirty(audio) /\ toWrite = <<>>

\* The process has no request.
Unasked == outgoing = <<>> /\ stdin = <<>> /\ inBuffer = <<>>

\* The request is on its way, and the process has not acted on it.
Asked ==
  LET request == <<Message(method, id)>> IN
  /\ Len(outgoing) <= 2
  /\ \A i \in 1 .. Len(outgoing) : outgoing[i] = Piece(request, 2 - Len(outgoing) + i)
  /\ Carries(request, 0, inBuffer, stdin, 2 - Len(outgoing)) /\ Clean(stdin, Len(stdin))
  /\ Quiet /\ reader # "done"
  /\ method \in {"synthesize", "unload"} => loaded

\* The answers there are: a reply, and for synthesize the frames of a stream; l
\* says whether they leave a model loaded.
Fits(m, F, l) ==
  /\ m \in {Message("ok", id), Message("error", id)}
  /\ IF method = "synthesize"
     THEN /\ Len(F) > 0 /\ \A j \in 1 .. Len(F) : F[j].last <=> j = Len(F)
          /\ m.what = "ok" => F = Sentence(id)
     ELSE F = <<>>
  /\ method = "synthesize" \/ (method = "load" /\ m.what = "ok") => l

\* The j-th write of an answer.
Output(m, F, j) ==
  IF engine = "qwen"
  THEN IF j <= 2 * Len(F) THEN [to |-> "audio", piece |-> Piece(F, j)]
       ELSE [to |-> "control", piece |-> Piece(<<m>>, j - 2 * Len(F))]
  ELSE IF j <= 2 THEN [to |-> "control", piece |-> Piece(<<m>>, j)]
       ELSE [to |-> "audio", piece |-> Piece(F, j - 2)]

\* c pieces of the reply and k of the stream are written; the reply was received
\* if d is 1.
Writing(m, F, c, k) ==
  /\ Len(toWrite) = 2 * Len(F) + 2 - c - k
  /\ \A i \in 1 .. Len(toWrite) : toWrite[i] = Output(m, F, c + k + i)
  /\ IF engine = "qwen" THEN c = 0 \/ k = 2 * Len(F) ELSE c = 2 \/ k = 0
Receiving(m, d, c) ==
  /\ Carries(<<m>>, d, ctlBuffer, control, c)
  /\ IF d = 0 THEN replies = <<>> /\ reply = NoReply
     ELSE (replies = <<m>> /\ reply = NoReply) \/ (replies = <<>> /\ reply = m)
Streaming(F, k) ==
  /\ Carries(F, Len(frames), audBuffer, audio, k)
  /\ \A j \in 1 .. Len(frames) : frames[j] = F[j]
  /\ reader = "done" => Len(frames) = Len(F)
  /\ reader = "reading" => Len(frames) < Len(F)
Answering(m, F, d, c, k) == Fits(m, F, loaded) /\ Writing(m, F, c, k) /\ Receiving(m, d, c) /\ Streaming(F, k)

Answered ==
  /\ Unasked
  /\ \E m \in Msgs, F \in Seq(AudioFrames), d \in 0 .. 1, c \in 0 .. 2, k \in Nat :
       Answering(m, F, d, c, k)

Exchange ==
  /\ ~live => Unasked /\ Quiet /\ control = <<>> /\ audio = <<>>
  /\ live /\ host = "idle" => Unasked /\ Quiet /\ loaded
  /\ live /\ host # "idle" => Asked \/ Answered

-----------------------------------------------------------------------------
(* The inductive invariant: the threads.                                   *)

Calling ==
  /\ host = "idle" <=> call = "none"
  /\ ~live <=> proc = "none"
  /\ live => host # "spawn"
  /\ ~live => host \in {"idle", "spawn"}
  /\ host = "spawn" => call # "unload"
  /\ live /\ host # "idle" =>
       \/ method \in {"initialize", "load"} /\ call \in {"prepare", "synthesize"}
       \/ method \in {"synthesize", "unload"} /\ call = method
  /\ stdinClosed => host = "finish"

Waiting ==
  /\ host = "write" => reply = NoReply /\ replies = <<>>
  /\ host = "await" => outgoing = <<>> /\ reply = NoReply /\ (method = "synthesize" => reader # "none")
  /\ host = "join" => /\ method = "synthesize" /\ reader # "none"
                      /\ ctlError = "none" => reply # NoReply
  /\ reader # "none" => method = "synthesize" /\ host \in {"await", "join", "finish"}
  /\ reader = "none" => frames = <<>> /\ audBuffer = <<>> /\ ~abort
  /\ host = "finish" => reader # "reading"

Errs ==
  /\ host \in {"idle", "spawn", "write", "await"} => ctlError = "none"
  /\ audError # "none" <=> reader = "failed"
  /\ audFirst => audError \notin {"none", "aborted"}
  /\ audError = "aborted" => ctlError \notin {"none", "aborted"}
  /\ ctlError = "aborted" => audFirst
  /\ audError # "none" /\ ctlError = "none" => audFirst
  /\ abort => reader = "failed" \/ ctlError \notin {"none", "aborted"}
  /\ host # "finish" => cause = "none"
  /\ host = "finish" => cause \notin {"none", "aborted"} /\ (cause = "unloaded" <=> call = "unload")

Spoke == (call # "none" => spoken = <<>>) /\ SpokenIsWhole

\* Without faults.
Sound ==
  ~faulty =>
    /\ ~late /\ ~cancelled /\ ~abort
    /\ ctlError = "none" /\ audError = "none"
    /\ cause \in {"none", "refused", "unloaded"}
    /\ outcome \notin {"broken", "cancelled"}
    /\ live /\ host # "finish" => Running
    /\ Clean(control, Len(control)) /\ Clean(audio, Len(audio))

Inv == TypeOK /\ ChannelTypes /\ Exchange /\ Calling /\ Waiting /\ Errs /\ Spoke /\ Sound

-----------------------------------------------------------------------------
(* Lemmas about pipes and parsers.                                         *)

\* The first n pieces of a pipe.
LEMMA FirstOf ==
  ASSUME NEW S, NEW pipe \in Seq(S), NEW n \in 0 .. Len(pipe)
  PROVE  /\ First(n, pipe) \in Seq(S) /\ Len(First(n, pipe)) = n
         /\ \A i \in 1 .. n : First(n, pipe)[i] = pipe[i]
<1>1. Len(pipe) \in Nat /\ n \in Nat /\ \A i \in 1 .. n : pipe[i] \in S
  BY LenProperties, ElementOfSeq
<1> DEFINE p == SubSeq(pipe, 1, n)
<1>2. /\ p \in Seq(S) /\ Len(p) = (IF 1 <= n THEN n - 1 + 1 ELSE 0)
      /\ \A i \in 1 .. n - 1 + 1 : p[i] = pipe[1 + i - 1]
  BY <1>1, SubSeqProperties
<1> HIDE DEF p
<1>3. \A i \in 1 .. n : i \in 1 .. n - 1 + 1 /\ 1 + i - 1 = i
  BY <1>1
<1>4. Len(p) = n /\ \A i \in 1 .. n : p[i] = pipe[i]
  BY <1>1, <1>2, <1>3
<1>5. QED BY <1>2, <1>4 DEF p, First

\* What is left of a pipe after its first n pieces.
LEMMA AfterOf ==
  ASSUME NEW S, NEW pipe \in Seq(S), NEW n \in 0 .. Len(pipe)
  PROVE  /\ After(n, pipe) \in Seq(S) /\ Len(After(n, pipe)) = Len(pipe) - n
         /\ \A i \in 1 .. Len(pipe) - n : After(n, pipe)[i] = pipe[n + i]
<1>1. /\ Len(pipe) \in Nat /\ n \in Nat /\ n + 1 \in Int
      /\ \A i \in n + 1 .. Len(pipe) : pipe[i] \in S
  BY LenProperties, ElementOfSeq
<1> DEFINE p == SubSeq(pipe, n + 1, Len(pipe))
<1>2. /\ p \in Seq(S)
      /\ Len(p) = (IF n + 1 <= Len(pipe) THEN Len(pipe) - (n + 1) + 1 ELSE 0)
      /\ \A i \in 1 .. Len(pipe) - (n + 1) + 1 : p[i] = pipe[(n + 1) + i - 1]
  BY <1>1, SubSeqProperties
<1> HIDE DEF p
<1>3. \A i \in 1 .. Len(pipe) - n : i \in 1 .. Len(pipe) - (n + 1) + 1 /\ (n + 1) + i - 1 = n + i
  BY <1>1
<1>4. Len(p) = Len(pipe) - n /\ \A i \in 1 .. Len(pipe) - n : p[i] = pipe[n + i]
  BY <1>1, <1>2, <1>3
<1>5. QED BY <1>2, <1>4 DEF p, After

\* The messages of a buffer, and the piece that is kept.
LEMMA Halves ==
  ASSUME NEW buffer \in Seq(Pieces)
  PROVE  \E h \in Nat :
           /\ 2 * h <= Len(buffer) /\ Len(buffer) <= 2 * h + 1
           /\ Complete(buffer) \in Seq(Things) /\ Len(Complete(buffer)) = h
           /\ \A i \in 1 .. h : Complete(buffer)[i] = buffer[2 * i].of
           /\ Kept(buffer) \in Seq(Pieces) /\ Len(Kept(buffer)) = Len(buffer) - 2 * h
           /\ \A i \in 1 .. Len(buffer) - 2 * h : Kept(buffer)[i] = buffer[2 * h + i]
<1> DEFINE h == Len(buffer) \div 2
<1>1. Len(buffer) \in Nat /\ \A i \in 1 .. Len(buffer) : buffer[i] \in Pieces
  BY LenProperties, ElementOfSeq
<1>2. h \in Nat /\ 2 * h <= Len(buffer) /\ Len(buffer) <= 2 * h + 1
  BY <1>1
<1>3. Complete(buffer) = [i \in 1 .. h |-> buffer[2 * i].of] /\ Kept(buffer) = After(2 * h, buffer)
  BY DEF Complete, Kept, After
<1> HIDE DEF h
<1>4. \A i \in 1 .. h : 2 * i \in 1 .. Len(buffer) /\ buffer[2 * i].of \in Things
  BY <1>1, <1>2 DEF Pieces
<1>5. Complete(buffer) \in Seq(Things) /\ Len(Complete(buffer)) = h
  BY <1>2, <1>3, <1>4, IsASeq, LenProperties
<1>6. \A i \in 1 .. h : Complete(buffer)[i] = buffer[2 * i].of
  BY <1>3
<1>7. 2 * h \in 0 .. Len(buffer)
  BY <1>1, <1>2
<1>8. /\ Kept(buffer) \in Seq(Pieces) /\ Len(Kept(buffer)) = Len(buffer) - 2 * h
      /\ \A i \in 1 .. Len(buffer) - 2 * h : Kept(buffer)[i] = buffer[2 * h + i]
  BY <1>3, <1>7, AfterOf
<1>9. QED BY <1>2, <1>5, <1>6, <1>8

\* A buffer into which the first n pieces of a pipe were read.
LEMMA Read ==
  ASSUME NEW buffer \in Seq(Pieces), NEW pipe \in Seq(Pieces), NEW n \in 0 .. Len(pipe)
  PROVE  /\ buffer \o First(n, pipe) \in Seq(Pieces)
         /\ Len(buffer \o First(n, pipe)) = Len(buffer) + n
         /\ \A i \in 1 .. Len(buffer) : (buffer \o First(n, pipe))[i] = buffer[i]
         /\ \A i \in 1 .. n : (buffer \o First(n, pipe))[Len(buffer) + i] = pipe[i]
<1>1. Len(buffer) \in Nat /\ Len(pipe) \in Nat /\ n \in Nat
  BY LenProperties
<1> DEFINE f == First(n, pipe)
<1>2. f \in Seq(Pieces) /\ Len(f) = n /\ \A i \in 1 .. n : f[i] = pipe[i]
  BY FirstOf
<1> HIDE DEF f
<1> DEFINE b == buffer \o f
<1>3. /\ b \in Seq(Pieces) /\ Len(b) = Len(buffer) + Len(f)
      /\ \A i \in 1 .. Len(buffer) + Len(f) : b[i] = IF i <= Len(buffer) THEN buffer[i] ELSE f[i - Len(buffer)]
  BY <1>2, ConcatProperties
<1> HIDE DEF b
<1>4. \A i \in 1 .. Len(buffer) : b[i] = buffer[i]
  BY <1>1, <1>2, <1>3
<1>5. ASSUME NEW i \in 1 .. n PROVE b[Len(buffer) + i] = pipe[i]
  <2>1. /\ Len(buffer) + i \in 1 .. Len(buffer) + Len(f) /\ ~(Len(buffer) + i <= Len(buffer))
        /\ (Len(buffer) + i) - Len(buffer) = i
    BY <1>1, <1>2
  <2>2. QED BY <1>2, <1>3, <2>1
<1>6. QED BY <1>2, <1>3, <1>4, <1>5 DEF b, f

-----------------------------------------------------------------------------
(* What is written and read on a channel.                                  *)

\* A piece of a message is never junk, and the second half names the message.
LEMMA PieceIs ==
  ASSUME NEW M, NEW j \in Nat
  PROVE  /\ Piece(M, j) # Junk /\ Piece(M, j).half = 2 - (j % 2)
         /\ Piece(M, 2 * j).of = M[j]
<1>1. j % 2 \in {0, 1} /\ (2 * j + 1) \div 2 = j
  OBVIOUS
<1>2. QED BY <1>1 DEF Piece, Junk

\* The next piece is written.
LEMMA CarriesWrite ==
  ASSUME NEW M, Len(M) \in Nat, NEW d \in Nat, NEW k \in Nat, NEW buffer \in Seq(Pieces),
         NEW pipe \in Seq(Pieces), Carries(M, d, buffer, pipe, k), k < 2 * Len(M),
         NEW piece \in Pieces, piece = Piece(M, k + 1)
  PROVE  Carries(M, d, buffer, Append(pipe, piece), k + 1)
<1>1. Len(buffer) \in Nat /\ Len(pipe) \in Nat
  BY LenProperties
<1> DEFINE after == Append(pipe, piece)
<1>2. /\ Len(after) = Len(pipe) + 1 /\ \A i \in 1 .. Len(pipe) : after[i] = pipe[i]
      /\ after[Len(pipe) + 1] = piece
  BY AppendProperties
<1> HIDE DEF after
<1>3. \A i \in 1 .. Len(pipe) : Clean(after, i) => Clean(pipe, i)
  BY <1>1, <1>2 DEF Clean
<1>4. Clean(after, Len(pipe) + 1) => Clean(pipe, Len(pipe))
  BY <1>1, <1>2 DEF Clean
<1>5. 2 * d + Len(buffer) <= k + 1 /\ k + 1 <= 2 * Len(M)
  BY <1>1 DEF Carries
<1>6. ASSUME NEW i \in 1 .. Len(after), Clean(after, i)
      PROVE  2 * d + Len(buffer) + i <= k + 1 /\ after[i] = Piece(M, 2 * d + Len(buffer) + i)
  <2>1. CASE i <= Len(pipe)
    BY <1>1, <1>2, <1>3, <1>6, <2>1 DEF Carries
  <2>2. CASE i = Len(pipe) + 1
    <3>1. 2 * d + Len(buffer) + Len(pipe) = k
      BY <1>4, <1>6, <2>2 DEF Carries
    <3>2. QED BY <1>1, <1>2, <2>2, <3>1
  <2>3. QED BY <1>1, <1>2, <2>1, <2>2
<1>7. ASSUME Clean(after, Len(after)) PROVE 2 * d + Len(buffer) + Len(after) = k + 1
  <2>1. Clean(pipe, Len(pipe))
    BY <1>2, <1>4, <1>7
  <2>2. 2 * d + Len(buffer) + Len(pipe) = k
    BY <2>1 DEF Carries
  <2>3. QED BY <1>1, <1>2, <2>2
<1>8. QED BY <1>5, <1>6, <1>7 DEF Carries, after

\* Junk is written.
LEMMA CarriesJunk ==
  ASSUME NEW M, NEW d, NEW k, NEW buffer, NEW pipe \in Seq(Pieces), Carries(M, d, buffer, pipe, k)
  PROVE  Carries(M, d, buffer, Append(pipe, Junk), k)
<1>1. Len(pipe) \in Nat
  BY LenProperties
<1> DEFINE after == Append(pipe, Junk)
<1>2. Junk \in Pieces
  <2>1. NoReply \in Things
    BY DEF NoReply, Message, Things, Msgs, Whats
  <2>2. QED BY <2>1 DEF Junk, Pieces
<1>3. /\ Len(after) = Len(pipe) + 1 /\ \A i \in 1 .. Len(pipe) : after[i] = pipe[i]
      /\ after[Len(pipe) + 1] = Junk
  BY <1>2, AppendProperties
<1> HIDE DEF after
<1>4. ~Clean(after, Len(pipe) + 1)
  BY <1>1, <1>3 DEF Clean
<1>5. \A i \in 1 .. Len(after) : Clean(after, i) => i \in 1 .. Len(pipe) /\ Clean(pipe, i)
  BY <1>1, <1>3, <1>4 DEF Clean
<1>6. QED BY <1>3, <1>4, <1>5 DEF Carries, after

\* What the parser did not refuse holds no junk.
LEMMA Parsed ==
  ASSUME NEW buffer \in Seq(Pieces), NEW pipe \in Seq(Pieces), NEW n \in 0 .. Len(pipe),
         ~Malformed(buffer \o First(n, pipe))
  PROVE  Clean(pipe, n)
<1>1. Len(buffer) \in Nat /\ Len(pipe) \in Nat /\ n \in Nat
  BY LenProperties
<1> DEFINE b == buffer \o First(n, pipe)
<1>2. /\ b \in Seq(Pieces) /\ Len(b) = Len(buffer) + n
      /\ \A i \in 1 .. n : b[Len(buffer) + i] = pipe[i]
  BY Read
<1>3. \A i \in DOMAIN b : b[i].half = 2 - (i % 2)
  BY DEF Malformed
<1> HIDE DEF b
<1>4. \A i \in 1 .. n : pipe[i].half = 2 - ((Len(buffer) + i) % 2)
  <2>1. DOMAIN b = 1 .. Len(buffer) + n
    BY <1>2, LenProperties
  <2>2. \A i \in 1 .. n : Len(buffer) + i \in 1 .. Len(buffer) + n
    BY <1>1
  <2>3. QED BY <1>2, <1>3, <2>1, <2>2
<1>5. \A i \in 1 .. n : (Len(buffer) + i) % 2 \in {0, 1}
  BY <1>1
<1>6. QED BY <1>4, <1>5 DEF Clean, Junk

\* A read of n pieces takes whole messages, and keeps the beginning of the next one.
Reads(M, d, buffer, pipe, k, n) ==
  LET b == buffer \o First(n, pipe) IN
  /\ ~Malformed(b)
  /\ Complete(b) \in Seq(Things) /\ Kept(b) \in Seq(Pieces) /\ After(n, pipe) \in Seq(Pieces)
  /\ d + Len(Complete(b)) <= Len(M)
  /\ \A i \in 1 .. Len(Complete(b)) : Complete(b)[i] = M[d + i]
  /\ Carries(M, d + Len(Complete(b)), Kept(b), After(n, pipe), k)

\* A parser that reads n pieces, none of them junk, gets whole messages in
\* order and keeps at most half of one.
LEMMA CarriesRead ==
  ASSUME NEW M, Len(M) \in Nat, NEW d \in Nat, NEW k \in Nat, NEW buffer \in Seq(Pieces),
         NEW pipe \in Seq(Pieces), Carries(M, d, buffer, pipe, k),
         NEW n \in 0 .. Len(pipe), Clean(pipe, n)
  PROVE  Reads(M, d, buffer, pipe, k, n)
<1> DEFINE b == buffer \o First(n, pipe)
<1>0. b = buffer \o First(n, pipe)
  OBVIOUS
<1> HIDE DEF b
<1>1. Len(buffer) \in Nat /\ Len(pipe) \in Nat /\ n \in Nat
  BY LenProperties
<1>2. /\ b \in Seq(Pieces) /\ Len(b) = Len(buffer) + n
      /\ \A i \in 1 .. Len(buffer) : b[i] = buffer[i]
      /\ \A i \in 1 .. n : b[Len(buffer) + i] = pipe[i]
  BY <1>0, Read
<1>3. \A i \in 1 .. n : Clean(pipe, i)
  BY <1>1 DEF Clean
<1>4. \A i \in 1 .. n : /\ 2 * d + Len(buffer) + i <= k
                        /\ pipe[i] = Piece(M, 2 * d + Len(buffer) + i)
  BY <1>1, <1>3 DEF Carries
<1>5. \A i \in 1 .. Len(b) : 2 * d + i <= k /\ b[i] = Piece(M, 2 * d + i)
  <2> SUFFICES ASSUME NEW i \in 1 .. Len(b) PROVE 2 * d + i <= k /\ b[i] = Piece(M, 2 * d + i)
    OBVIOUS
  <2>1. CASE i <= Len(buffer)
    BY <1>1, <1>2, <2>1 DEF Carries
  <2>2. CASE i > Len(buffer)
    <3>1. i - Len(buffer) \in 1 .. n /\ Len(buffer) + (i - Len(buffer)) = i
          /\ 2 * d + Len(buffer) + (i - Len(buffer)) = 2 * d + i
      BY <1>1, <1>2, <2>2
    <3>2. QED BY <1>2, <1>4, <3>1
  <2>3. QED BY <1>1, <1>2, <2>1, <2>2
<1>6. PICK h \in Nat :
        /\ 2 * h <= Len(b) /\ Len(b) <= 2 * h + 1
        /\ Complete(b) \in Seq(Things) /\ Len(Complete(b)) = h
        /\ \A i \in 1 .. h : Complete(b)[i] = b[2 * i].of
        /\ Kept(b) \in Seq(Pieces) /\ Len(Kept(b)) = Len(b) - 2 * h
        /\ \A i \in 1 .. Len(b) - 2 * h : Kept(b)[i] = b[2 * h + i]
  BY <1>2, Halves
<1>15. h \in Nat /\ 2 * h <= Len(b) /\ Len(b) <= 2 * h + 1 /\ Len(b) = Len(buffer) + n
  BY <1>2, <1>6
<1>7. ~Malformed(b)
  <2>1. \A i \in 1 .. Len(b) : 2 * d + i \in Nat /\ (2 * d + i) % 2 = i % 2
    BY <1>2
  <2>2. ASSUME NEW i \in 1 .. Len(b) PROVE b[i].half = 2 - (i % 2)
    <3>1. 2 * d + i \in Nat /\ (2 * d + i) % 2 = i % 2 /\ b[i] = Piece(M, 2 * d + i)
      BY <1>5, <2>1
    <3>2. Piece(M, 2 * d + i).half = 2 - ((2 * d + i) % 2)
      BY <3>1, PieceIs
    <3>3. QED BY <3>1, <3>2
  <2>3. DOMAIN b = 1 .. Len(b)
    BY <1>2, LenProperties
  <2>4. QED BY <2>2, <2>3 DEF Malformed
<1>8. 2 * (d + h) <= k /\ k <= 2 * Len(M) /\ d + h <= Len(M)
  <2>1. k <= 2 * Len(M) /\ 2 * d + Len(buffer) <= k
    BY DEF Carries
  <2>2. Len(b) = 0 \/ 2 * d + Len(b) <= k
    <3>1. Len(b) \in Nat /\ (Len(b) = 0 \/ Len(b) \in 1 .. Len(b))
      BY <1>1, <1>15
    <3>2. QED BY <1>5, <3>1
  <2>3. QED BY <1>1, <1>15, <2>1, <2>2
<1>9. \A i \in 1 .. h : Complete(b)[i] = M[d + i]
  <2> SUFFICES ASSUME NEW i \in 1 .. h PROVE Complete(b)[i] = M[d + i]
    OBVIOUS
  <2>1. 2 * i \in 1 .. Len(b) /\ 2 * d + 2 * i = 2 * (d + i) /\ d + i \in Nat
    BY <1>1, <1>15
  <2>2. b[2 * i] = Piece(M, 2 * (d + i))
    BY <1>5, <2>1
  <2>3. Piece(M, 2 * (d + i)).of = M[d + i]
    BY <2>1, PieceIs
  <2>4. Complete(b)[i] = b[2 * i].of
    BY <1>6
  <2>5. QED BY <2>2, <2>3, <2>4
<1>10. /\ After(n, pipe) \in Seq(Pieces) /\ Len(After(n, pipe)) = Len(pipe) - n
       /\ \A i \in 1 .. Len(pipe) - n : After(n, pipe)[i] = pipe[n + i]
  BY AfterOf
<1> DEFINE after == After(n, pipe)
           kept == Kept(b)
<1>11. /\ after \in Seq(Pieces) /\ Len(after) = Len(pipe) - n
       /\ \A i \in 1 .. Len(after) : after[i] = pipe[n + i]
       /\ Len(kept) = Len(b) - 2 * h /\ \A i \in 1 .. Len(kept) : kept[i] = b[2 * h + i]
  BY <1>6, <1>10
<1> HIDE DEF after, kept
<1>12. ASSUME NEW i \in 1 .. Len(after), Clean(after, i)
       PROVE  n + i \in 1 .. Len(pipe) /\ Clean(pipe, n + i)
  <2>1. Len(after) = Len(pipe) - n /\ n + i \in 1 .. Len(pipe)
    BY <1>1, <1>11
  <2>2. ASSUME NEW j \in 1 .. n + i PROVE pipe[j] # Junk
    <3>1. CASE j <= n
      <4>1. j \in 1 .. n
        BY <1>1, <3>1
      <4>2. QED BY <4>1 DEF Clean
    <3>2. CASE j > n
      <4>1. j - n \in 1 .. i /\ j - n \in 1 .. Len(after) /\ n + (j - n) = j
        BY <1>1, <2>1, <3>2
      <4>2. after[j - n] # Junk
        BY <1>12, <4>1 DEF Clean
      <4>3. after[j - n] = pipe[n + (j - n)]
        BY <1>11, <4>1
      <4>4. QED BY <4>1, <4>2, <4>3
    <3>3. QED BY <1>1, <3>1, <3>2
  <2>3. QED BY <2>1, <2>2 DEF Clean
<1>13. Carries(M, d + h, kept, after, k)
  <2>7. Len(kept) = Len(b) - 2 * h /\ Len(after) = Len(pipe) - n
    BY <1>11
  <2>1. 2 * (d + h) + Len(kept) = 2 * d + Len(buffer) + n
    BY <1>1, <1>15, <2>7
  <2>2. 2 * (d + h) + Len(kept) <= k /\ k <= 2 * Len(M)
    <3>1. n = 0 \/ 2 * d + Len(buffer) + n <= k
      BY <1>1, <1>4
    <3>2. QED BY <1>1, <2>1, <3>1 DEF Carries
  <2>3. ASSUME NEW i \in 1 .. Len(kept) PROVE kept[i] = Piece(M, 2 * (d + h) + i)
    <3>1. 2 * h + i \in 1 .. Len(b) /\ 2 * d + (2 * h + i) = 2 * (d + h) + i
      BY <1>1, <1>2, <1>6, <1>11
    <3>2. QED BY <1>5, <1>11, <3>1
  <2>4. ASSUME NEW i \in 1 .. Len(after), Clean(after, i)
        PROVE  /\ 2 * (d + h) + Len(kept) + i <= k
               /\ after[i] = Piece(M, 2 * (d + h) + Len(kept) + i)
    <3>1. 2 * (d + h) + Len(kept) + i = 2 * d + Len(buffer) + (n + i)
      BY <1>1, <1>15, <2>7
    <3>2. n + i \in 1 .. Len(pipe) /\ Clean(pipe, n + i) /\ after[i] = pipe[n + i]
      BY <1>11, <1>12, <2>4
    <3>3. /\ 2 * d + Len(buffer) + (n + i) <= k
          /\ pipe[n + i] = Piece(M, 2 * d + Len(buffer) + (n + i))
      BY <3>2 DEF Carries
    <3>4. QED BY <3>1, <3>2, <3>3
  <2>5. ASSUME Clean(after, Len(after)) PROVE 2 * (d + h) + Len(kept) + Len(after) = k
    <3>1. Clean(pipe, Len(pipe))
      <4>1. CASE Len(after) = 0
        <5>1. Len(pipe) = n
          BY <1>1, <2>7, <4>1
        <5>2. QED BY <5>1
      <4>2. CASE Len(after) # 0
        <5>1. Len(after) \in 1 .. Len(after) /\ n + Len(after) = Len(pipe)
          BY <1>1, <2>7, <4>2
        <5>2. QED BY <1>12, <2>5, <5>1
      <4>3. QED BY <4>1, <4>2
    <3>2. 2 * d + Len(buffer) + Len(pipe) = k
      BY <3>1 DEF Carries
    <3>3. 2 * (d + h) + Len(kept) + Len(after) = 2 * d + Len(buffer) + n + (Len(pipe) - n)
      BY <2>1, <2>7
    <3>4. 2 * d + Len(buffer) + n + (Len(pipe) - n) = 2 * d + Len(buffer) + Len(pipe)
      BY <1>1
    <3>5. QED BY <3>2, <3>3, <3>4
  <2>6. QED BY <2>2, <2>3, <2>4, <2>5 DEF Carries
<1>14. /\ ~Malformed(b)
       /\ Complete(b) \in Seq(Things) /\ Kept(b) \in Seq(Pieces) /\ After(n, pipe) \in Seq(Pieces)
       /\ d + Len(Complete(b)) <= Len(M)
       /\ \A i \in 1 .. Len(Complete(b)) : Complete(b)[i] = M[d + i]
       /\ Carries(M, d + Len(Complete(b)), Kept(b), After(n, pipe), k)
  BY <1>6, <1>7, <1>8, <1>9, <1>10, <1>13 DEF after, kept
<1>16. QED BY <1>14 DEF Reads, b

\* All of it was taken: nothing but junk is left.
LEMMA CarriesAll ==
  ASSUME NEW M, Len(M) \in Nat, NEW d \in Nat, NEW k \in Nat, NEW buffer \in Seq(Pieces),
         NEW pipe \in Seq(Pieces), Carries(M, d, buffer, pipe, k), d = Len(M)
  PROVE  k = 2 * Len(M) /\ buffer = <<>> /\ Dirty(pipe) /\ (Clean(pipe, Len(pipe)) => pipe = <<>>)
<1>1. Len(buffer) \in Nat /\ Len(pipe) \in Nat
  BY LenProperties
<1>2. k = 2 * Len(M) /\ Len(buffer) = 0
  BY <1>1 DEF Carries
<1>3. Dirty(pipe)
  <2> SUFFICES ASSUME pipe # <<>>, pipe[1] # Junk PROVE FALSE
    BY DEF Dirty
  <2>1. 1 \in 1 .. Len(pipe)
    BY <1>1, EmptySeq
  <2>2. Clean(pipe, 1)
    BY DEF Clean
  <2>3. QED BY <1>1, <1>2, <2>1, <2>2 DEF Carries
<1>4. Clean(pipe, Len(pipe)) => pipe = <<>>
  BY <1>1, <1>2, EmptySeq DEF Carries
<1>5. QED BY <1>2, <1>3, <1>4, EmptySeq

\* Nothing was written: nothing but junk is there.
LEMMA CarriesNone ==
  ASSUME NEW M, Len(M) \in Nat, NEW pipe \in Seq(Pieces), Dirty(pipe)
  PROVE  Carries(M, 0, <<>>, pipe, 0)
<1>1. Len(pipe) \in Nat /\ Len(<<>>) = 0
  BY LenProperties, EmptySeq
<1>2. \A i \in 1 .. Len(pipe) : ~Clean(pipe, i)
  BY <1>1, EmptySeq DEF Clean, Dirty
<1>3. Clean(pipe, Len(pipe)) => Len(pipe) = 0
  BY <1>1, <1>2
<1>4. QED BY <1>1, <1>2, <1>3 DEF Carries

-----------------------------------------------------------------------------
(* What the runners answer.                                                *)

\* Two sequences of writes, one after the other.
LEMMA Then ==
  ASSUME NEW s \in Seq(Outputs), NEW t \in Seq(Outputs)
  PROVE  /\ s \o t \in Seq(Outputs) /\ Len(s \o t) = Len(s) + Len(t)
         /\ Len(s) \in Nat /\ Len(t) \in Nat
         /\ \A i \in 1 .. Len(s) + Len(t) : (s \o t)[i] = IF i <= Len(s) THEN s[i] ELSE t[i - Len(s)]
BY ConcatProperties, LenProperties

\* The pieces of messages are pieces.
LEMMA PieceType ==
  ASSUME NEW M \in Seq(Things), NEW j \in 1 .. 2 * Len(M)
  PROVE  Piece(M, j) \in Pieces
<1>1. Len(M) \in Nat
  BY LenProperties
<1>2. (j + 1) \div 2 \in 1 .. Len(M) /\ 2 - (j % 2) \in 0 .. 2
  BY <1>1
<1>3. M[(j + 1) \div 2] \in Things
  BY <1>2, ElementOfSeq
<1>4. QED BY <1>2, <1>3 DEF Piece, Pieces

\* A message on its own, and its two halves.
LEMMA OneOf ==
  ASSUME NEW m \in Things
  PROVE  /\ <<m>> \in Seq(Things) /\ Len(<<m>>) = 1
         /\ Piece(<<m>>, 1) = [of |-> m, half |-> 1] /\ Piece(<<m>>, 2) = [of |-> m, half |-> 2]
         /\ [of |-> m, half |-> 1] \in Pieces /\ [of |-> m, half |-> 2] \in Pieces
<1>1. (1 + 1) \div 2 = 1 /\ (2 + 1) \div 2 = 1 /\ 1 % 2 = 1 /\ 2 % 2 = 0 /\ 2 - 1 = 1 /\ 2 - 0 = 2
  OBVIOUS
<1>2. <<m>>[1] = m /\ <<m>> \in Seq(Things) /\ Len(<<m>>) = 1
  OBVIOUS
<1>3. QED BY <1>1, <1>2 DEF Piece, Pieces

\* A message is said in two writes.
LEMMA SaysIs ==
  ASSUME NEW m \in Things, NEW pipe \in {"control", "audio"}
  PROVE  /\ Says(pipe, m) \in Seq(Outputs) /\ Len(Says(pipe, m)) = 2
         /\ Says(pipe, m)[1] = [to |-> pipe, piece |-> Piece(<<m>>, 1)]
         /\ Says(pipe, m)[2] = [to |-> pipe, piece |-> Piece(<<m>>, 2)]
<1>1. Wire(m)[1] = [of |-> m, half |-> 1] /\ Wire(m)[2] = [of |-> m, half |-> 2]
  BY DEF Wire
<1>2. \A i \in 1 .. 2 : [to |-> pipe, piece |-> Wire(m)[i]] \in Outputs
  <2>1. \A i \in 1 .. 2 : i = 1 \/ i = 2
    OBVIOUS
  <2>2. QED BY <1>1, <2>1, OneOf DEF Outputs
<1>3. Says(pipe, m) \in Seq(Outputs) /\ Len(Says(pipe, m)) = 2
  <2>1. Says(pipe, m) = [i \in 1 .. 2 |-> [to |-> pipe, piece |-> Wire(m)[i]]]
    BY DEF Says
  <2>2. Says(pipe, m) \in Seq(Outputs)
    BY <1>2, <2>1, IsASeq
  <2>3. QED BY <2>1, <2>2, LenProperties
<1>4. 1 \in 1 .. 2 /\ 2 \in 1 .. 2
  OBVIOUS
<1>5. QED BY <1>1, <1>3, <1>4, OneOf DEF Says

\* A sequence of one element.
LEMMA OneIs == ASSUME NEW S, NEW x \in S PROVE <<x>> \in Seq(S) /\ Len(<<x>>) = 1 /\ <<x>>[1] = x
OBVIOUS

\* The stream of n frames and the one that ends it.
Stream(i, n, q) == [j \in 1 .. n + 1 |-> IF j <= n THEN Frame(i, j, FALSE) ELSE Frame(i, q, TRUE)]

\* What a frame is.
LEMMA FrameIs ==
  ASSUME NEW i \in Nat, NEW n \in Nat, NEW last \in BOOLEAN
  PROVE  /\ Frame(i, n, last) \in AudioFrames /\ Frame(i, n, last) \in Things
         /\ Frame(i, n, last).last = last
BY DEF Frame, AudioFrames, Things

\* A stream has its last frame at the end and nowhere before.
LEMMA StreamFrames ==
  ASSUME NEW i \in Nat, NEW n \in Nat, NEW q \in Nat
  PROVE  /\ Stream(i, n, q) \in Seq(AudioFrames) /\ Len(Stream(i, n, q)) = n + 1
         /\ \A j \in 1 .. n + 1 : Stream(i, n, q)[j].last <=> j = n + 1
<1> DEFINE F == Stream(i, n, q)
<1>1. \A j \in 1 .. n + 1 : F[j] = IF j <= n THEN Frame(i, j, FALSE) ELSE Frame(i, q, TRUE)
  BY DEF Stream
<1>2. ASSUME NEW j \in 1 .. n + 1 PROVE F[j] \in AudioFrames /\ (F[j].last <=> ~(j <= n))
  <2>1. CASE j <= n
    <3>1. F[j] = Frame(i, j, FALSE)
      BY <1>1, <2>1
    <3>3. j \in Nat
      OBVIOUS
    <3>2. QED BY <2>1, <3>1, <3>3, FrameIs
  <2>2. CASE ~(j <= n)
    <3>1. F[j] = Frame(i, q, TRUE)
      BY <1>1, <2>2
    <3>2. QED BY <2>2, <3>1, FrameIs
  <2>3. QED BY <2>1, <2>2
<1>3. F \in Seq(AudioFrames) /\ Len(F) = n + 1
  <2>1. F = [j \in 1 .. n + 1 |-> F[j]]
    BY DEF Stream
  <2> HIDE DEF F
  <2>2. F \in Seq(AudioFrames)
    BY <1>2, <2>1, IsASeq
  <2>3. DOMAIN F = 1 .. n + 1
    BY <2>1
  <2>4. QED BY <2>2, <2>3, LenProperties
<1>4. QED BY <1>2, <1>3

\* The writes of a sentence's frames are the pieces of its stream, in order.
LEMMA SoundsAre ==
  ASSUME NEW i \in Nat, NEW n \in Nat
  PROVE  /\ Sounds(i, n) \in Seq(Outputs) /\ Len(Sounds(i, n)) = 2 * n
         /\ \A k \in 1 .. 2 * n : \A q : Sounds(i, n)[k] = [to |-> "audio", piece |-> Piece(Stream(i, n, q), k)]
<1> DEFINE s == Sounds(i, n)
<1>1. /\ \A k \in 1 .. 2 * n :
            s[k] = [to |-> "audio", piece |-> Wire(Frame(i, (k + 1) \div 2, FALSE))[2 - (k % 2)]]
      /\ s = [k \in 1 .. 2 * n |-> s[k]]
  BY DEF Sounds
<1>2. ASSUME NEW k \in 1 .. 2 * n
      PROVE  /\ s[k] = [to |-> "audio", piece |-> [of |-> Frame(i, (k + 1) \div 2, FALSE), half |-> 2 - (k % 2)]]
             /\ (k + 1) \div 2 \in 1 .. n /\ 2 - (k % 2) \in 0 .. 2
  <2>1. (k + 1) \div 2 \in 1 .. n /\ (2 - (k % 2) = 1 \/ 2 - (k % 2) = 2)
    OBVIOUS
  <2> DEFINE f == Frame(i, (k + 1) \div 2, FALSE)
             h == 2 - (k % 2)
  <2>2. s[k] = [to |-> "audio", piece |-> Wire(f)[h]]
    BY <1>1
  <2>3. h = 1 \/ h = 2
    BY <2>1
  <2> HIDE DEF f, h
  <2>4. Wire(f)[h] = [of |-> f, half |-> h]
    BY <2>3 DEF Wire
  <2>5. s[k] = [to |-> "audio", piece |-> [of |-> f, half |-> h]]
    BY <2>2, <2>4
  <2>6. QED BY <2>1, <2>5 DEF f, h
<1>3. \A k \in 1 .. 2 * n : s[k] \in Outputs
  <2> SUFFICES ASSUME NEW k \in 1 .. 2 * n PROVE s[k] \in Outputs
    OBVIOUS
  <2>1. (k + 1) \div 2 \in Nat /\ FALSE \in BOOLEAN
    BY <1>2
  <2>2. Frame(i, (k + 1) \div 2, FALSE) \in Things
    BY <2>1, FrameIs
  <2>3. [of |-> Frame(i, (k + 1) \div 2, FALSE), half |-> 2 - (k % 2)] \in Pieces
    BY <1>2, <2>2 DEF Pieces
  <2>4. s[k] = [to |-> "audio", piece |-> [of |-> Frame(i, (k + 1) \div 2, FALSE), half |-> 2 - (k % 2)]]
    BY <1>2
  <2> DEFINE p == [of |-> Frame(i, (k + 1) \div 2, FALSE), half |-> 2 - (k % 2)]
  <2>5. p \in Pieces /\ s[k] = [to |-> "audio", piece |-> p]
    BY <2>3, <2>4
  <2> HIDE DEF p, s
  <2>6. QED BY <2>5 DEF Outputs
<1>4. ASSUME NEW k \in 1 .. 2 * n, NEW q
      PROVE  s[k] = [to |-> "audio", piece |-> Piece(Stream(i, n, q), k)]
  <2>1. Stream(i, n, q)[(k + 1) \div 2] = Frame(i, (k + 1) \div 2, FALSE)
    <3>1. (k + 1) \div 2 \in 1 .. n + 1 /\ (k + 1) \div 2 <= n
      BY <1>2
    <3>2. QED BY <3>1 DEF Stream
  <2>2. QED BY <1>2, <2>1 DEF Piece
<1> HIDE DEF s
<1>5. s \in Seq(Outputs) /\ Len(s) = 2 * n
  <2>1. s \in Seq(Outputs)
    BY <1>1, <1>3, IsASeq
  <2>2. DOMAIN s = 1 .. 2 * n
    BY <1>1
  <2>3. QED BY <2>1, <2>2, LenProperties
<1>6. QED BY <1>4, <1>5 DEF s

\* The frame that ends a stream is its last two pieces.
LEMMA ClosingIs ==
  ASSUME NEW i \in Nat, NEW n \in Nat, NEW q \in Nat
  PROVE  /\ Closing(i, q) \in Seq(Outputs) /\ Len(Closing(i, q)) = 2
         /\ \A k \in 1 .. 2 : Closing(i, q)[k] = [to |-> "audio", piece |-> Piece(Stream(i, n, q), 2 * n + k)]
<1> DEFINE f == Frame(i, q, TRUE)
<1>1. f \in Things
  BY FrameIs
<1>2. Closing(i, q) = Says("audio", f)
  BY DEF Closing
<1>3. Stream(i, n, q)[n + 1] = f
  <2>1. n + 1 \in 1 .. n + 1 /\ ~(n + 1 <= n)
    OBVIOUS
  <2>2. QED BY <2>1 DEF Stream
<1> HIDE DEF f
<1>4. /\ Piece(Stream(i, n, q), 2 * n + 1) = [of |-> f, half |-> 1]
      /\ Piece(Stream(i, n, q), 2 * n + 2) = [of |-> f, half |-> 2]
  <2>1. /\ (2 * n + 1 + 1) \div 2 = n + 1 /\ (2 * n + 2 + 1) \div 2 = n + 1
        /\ 2 - ((2 * n + 1) % 2) = 1 /\ 2 - ((2 * n + 2) % 2) = 2
    OBVIOUS
  <2>2. QED BY <1>3, <2>1 DEF Piece
<1>5. \A k \in 1 .. 2 : k = 1 \/ k = 2
  OBVIOUS
<1>6. QED BY <1>1, <1>2, <1>4, <1>5, SaysIs, OneOf

\* A stream and its end.
LEMMA StreamIs ==
  ASSUME NEW i \in Nat, NEW n \in Nat, NEW q \in Nat
  PROVE  /\ Sounds(i, n) \o Closing(i, q) \in Seq(Outputs)
         /\ Len(Sounds(i, n) \o Closing(i, q)) = 2 * n + 2
         /\ \A k \in 1 .. 2 * n + 2 :
              (Sounds(i, n) \o Closing(i, q))[k] = [to |-> "audio", piece |-> Piece(Stream(i, n, q), k)]
<1> DEFINE s == Sounds(i, n) \o Closing(i, q)
<1>1. /\ Sounds(i, n) \in Seq(Outputs) /\ Len(Sounds(i, n)) = 2 * n
      /\ Closing(i, q) \in Seq(Outputs) /\ Len(Closing(i, q)) = 2
  BY SoundsAre, ClosingIs
<1>2. /\ s \in Seq(Outputs) /\ Len(s) = 2 * n + 2
      /\ \A k \in 1 .. 2 * n + 2 : s[k] = IF k <= 2 * n THEN Sounds(i, n)[k] ELSE Closing(i, q)[k - 2 * n]
  <2> DEFINE a == Sounds(i, n)
             b == Closing(i, q)
  <2>1. a \in Seq(Outputs) /\ Len(a) = 2 * n /\ b \in Seq(Outputs) /\ Len(b) = 2 /\ s = a \o b
    BY <1>1
  <2> HIDE DEF a, b, s
  <2>2. /\ s \in Seq(Outputs) /\ Len(s) = 2 * n + 2
        /\ \A k \in 1 .. 2 * n + 2 : s[k] = IF k <= 2 * n THEN a[k] ELSE b[k - 2 * n]
    <3>1. /\ a \o b \in Seq(Outputs) /\ Len(a \o b) = Len(a) + Len(b)
          /\ \A w \in 1 .. Len(a) + Len(b) : (a \o b)[w] = IF w <= Len(a) THEN a[w] ELSE b[w - Len(a)]
      BY <2>1, Then
    <3>2. QED BY <2>1, <3>1
  <2>3. QED BY <2>2 DEF a, b
<1> HIDE DEF s
<1>3. ASSUME NEW k \in 1 .. 2 * n + 2
      PROVE  s[k] = [to |-> "audio", piece |-> Piece(Stream(i, n, q), k)]
  <2>1. CASE k <= 2 * n
    <3>1. k \in 1 .. 2 * n
      BY <2>1
    <3>2. QED BY <1>2, <2>1, <3>1, SoundsAre
  <2>2. CASE ~(k <= 2 * n)
    <3>1. k - 2 * n \in 1 .. 2 /\ 2 * n + (k - 2 * n) = k
      BY <2>2
    <3>2. s[k] = Closing(i, q)[k - 2 * n]
      BY <1>2, <2>2
    <3>3. Closing(i, q)[k - 2 * n] = [to |-> "audio", piece |-> Piece(Stream(i, n, q), 2 * n + (k - 2 * n))]
      BY <3>1, ClosingIs
    <3>4. QED BY <3>1, <3>2, <3>3
  <2>3. QED BY <2>1, <2>2
<1>4. QED BY <1>2, <1>3 DEF s

\* An answer, as the pieces of its reply and of its stream.
Writes(out, m, F) ==
  /\ out \in Seq(Outputs) /\ Len(out) = 2 * Len(F) + 2
  /\ \A k \in 1 .. 2 * Len(F) + 2 : out[k] = Output(m, F, k)

\* An answer without audio writes the two halves of its reply.
LEMMA ReplyOnly ==
  ASSUME NEW m \in Msgs
  PROVE  Writes(Says("control", m), m, <<>>)
<1> DEFINE out == Says("control", m)
<1>1. /\ out \in Seq(Outputs) /\ Len(out) = 2
      /\ out[1] = [to |-> "control", piece |-> Piece(<<m>>, 1)]
      /\ out[2] = [to |-> "control", piece |-> Piece(<<m>>, 2)]
  BY SaysIs DEF Things
<1>2. \A k \in 1 .. 2 : k = 1 \/ k = 2
  OBVIOUS
<1>3. Len(<<>>) = 0 /\ \A k \in 1 .. 2 : Output(m, <<>>, k) = [to |-> "control", piece |-> Piece(<<m>>, k)]
  <2>1. Len(<<>>) = 0
    BY EmptySeq
  <2>2. \A k \in 1 .. 2 : ~(k <= 2 * 0) /\ k - 2 * 0 = k /\ k <= 2
    OBVIOUS
  <2>3. QED BY <2>1, <2>2 DEF Output
<1> HIDE DEF out
<1>4. QED BY <1>1, <1>2, <1>3 DEF Writes, out

\* The reply, then the stream: Kokoro and the stub.
LEMMA ReplyFirst ==
  ASSUME engine # "qwen", NEW m \in Msgs, NEW F \in Seq(AudioFrames),
         NEW r, r = Says("control", m), NEW s \in Seq(Outputs), Len(s) = 2 * Len(F),
         \A k \in 1 .. 2 * Len(F) : s[k] = [to |-> "audio", piece |-> Piece(F, k)]
  PROVE  Writes(r \o s, m, F)
<1>1. /\ r \in Seq(Outputs) /\ Len(r) = 2
      /\ \A k \in 1 .. 2 : r[k] = [to |-> "control", piece |-> Piece(<<m>>, k)]
  <2>1. \A k \in 1 .. 2 : k = 1 \/ k = 2
    OBVIOUS
  <2>2. QED BY <2>1, SaysIs DEF Things
<1>2. Len(F) \in Nat
  BY LenProperties
<1> DEFINE out == r \o s
<1>3. /\ out \in Seq(Outputs) /\ Len(out) = 2 + 2 * Len(F)
      /\ \A k \in 1 .. 2 + 2 * Len(F) : out[k] = IF k <= 2 THEN r[k] ELSE s[k - 2]
  <2>1. /\ out \in Seq(Outputs) /\ Len(out) = Len(r) + Len(s)
        /\ \A k \in 1 .. Len(r) + Len(s) : out[k] = IF k <= Len(r) THEN r[k] ELSE s[k - Len(r)]
    BY <1>1, Then
  <2>2. QED BY <1>1, <2>1
<1> HIDE DEF out
<1>4. ASSUME NEW k \in 1 .. 2 * Len(F) + 2 PROVE out[k] = Output(m, F, k)
  <2>1. k \in 1 .. 2 + 2 * Len(F)
    BY <1>2
  <2>2. CASE k <= 2
    <3>1. k \in 1 .. 2
      BY <1>2, <2>2
    <3>2. QED BY <1>1, <1>3, <2>1, <2>2, <3>1 DEF Output
  <2>3. CASE ~(k <= 2)
    <3>1. k - 2 \in 1 .. 2 * Len(F)
      BY <1>2, <2>3
    <3>2. QED BY <1>3, <2>1, <2>3, <3>1 DEF Output
  <2>4. QED BY <2>2, <2>3
<1>5. QED BY <1>2, <1>3, <1>4 DEF Writes, out

\* Of the last two pieces beyond 2 * l, which one k is.
LEMMA Beyond == ASSUME NEW l \in Nat, NEW k \in Int, k > 2 * l, k <= 2 * l + 2 PROVE k - 2 * l \in 1 .. 2
OBVIOUS

\* The stream, then the reply: Qwen.
LEMMA StreamFirst ==
  ASSUME engine = "qwen", NEW m \in Msgs, NEW F \in Seq(AudioFrames),
         NEW r, r = Says("control", m), NEW s \in Seq(Outputs), Len(s) = 2 * Len(F),
         \A k \in 1 .. 2 * Len(F) : s[k] = [to |-> "audio", piece |-> Piece(F, k)]
  PROVE  Writes(s \o r, m, F)
<1>1. /\ r \in Seq(Outputs) /\ Len(r) = 2
      /\ \A k \in 1 .. 2 : r[k] = [to |-> "control", piece |-> Piece(<<m>>, k)]
  <2>1. \A k \in 1 .. 2 : k = 1 \/ k = 2
    OBVIOUS
  <2>2. QED BY <2>1, SaysIs DEF Things
<1>2. Len(F) \in Nat
  BY LenProperties
<1> DEFINE out == s \o r
<1>3. /\ out \in Seq(Outputs) /\ Len(out) = 2 * Len(F) + 2
      /\ \A k \in 1 .. 2 * Len(F) + 2 : out[k] = IF k <= 2 * Len(F) THEN s[k] ELSE r[k - 2 * Len(F)]
  <2>1. /\ out \in Seq(Outputs) /\ Len(out) = Len(s) + Len(r)
        /\ \A k \in 1 .. Len(s) + Len(r) : out[k] = IF k <= Len(s) THEN s[k] ELSE r[k - Len(s)]
    BY <1>1, Then
  <2>2. QED BY <1>1, <2>1
<1> HIDE DEF out
<1>4. ASSUME NEW k \in 1 .. 2 * Len(F) + 2 PROVE out[k] = Output(m, F, k)
  <2>1. CASE k <= 2 * Len(F)
    <3>1. k \in 1 .. 2 * Len(F)
      BY <1>2, <2>1
    <3>2. QED BY <1>3, <2>1, <3>1 DEF Output
  <2>2. CASE k > 2 * Len(F)
    <3>1. k - 2 * Len(F) \in 1 .. 2
      <4>1. k \in Int /\ k <= 2 * Len(F) + 2
        BY <1>2
      <4>2. QED BY <1>2, <2>2, <4>1, Beyond
    <3>2. QED BY <1>1, <1>3, <2>2, <3>1 DEF Output
  <2>3. QED BY <1>2, <2>1, <2>2
<1>5. QED BY <1>3, <1>4 DEF Writes, out

\* A whole sentence is a stream.
LEMMA SentenceIs ==
  ASSUME NEW i \in Nat, engine \in Engines
  PROVE  /\ engine = "kokoro" => Sentence(i) = Stream(i, Frames - 1, Frames)
         /\ engine = "qwen" => Sentence(i) = Stream(i, Frames, 0)
         /\ engine = "stub" => Sentence(i) = Stream(i, 0, 1)
<1>1. Frames \in Nat /\ Frames >= 1
  BY RunnerBounds
<1>2. CASE engine = "kokoro"
  <2>1. 1 .. (Frames - 1) + 1 = 1 .. Frames
    BY <1>1
  <2>2. \A n \in 1 .. Frames : IF n <= Frames - 1 THEN (n = Frames) = FALSE ELSE n = Frames
    BY <1>1
  <2>3. Sentence(i) = [n \in 1 .. Frames |-> Frame(i, n, n = Frames)]
    BY <1>2 DEF Sentence
  <2>4. Stream(i, Frames - 1, Frames) = [j \in 1 .. Frames |-> IF j <= Frames - 1 THEN Frame(i, j, FALSE) ELSE Frame(i, Frames, TRUE)]
    BY <2>1 DEF Stream
  <2>5. \A n \in 1 .. Frames : Frame(i, n, n = Frames) = IF n <= Frames - 1 THEN Frame(i, n, FALSE) ELSE Frame(i, Frames, TRUE)
    <3> SUFFICES ASSUME NEW n \in 1 .. Frames
                 PROVE  Frame(i, n, n = Frames) = IF n <= Frames - 1 THEN Frame(i, n, FALSE) ELSE Frame(i, Frames, TRUE)
      OBVIOUS
    <3>1. CASE n <= Frames - 1
      <4>1. (n = Frames) = FALSE
        BY <1>1, <3>1
      <4>2. QED BY <3>1, <4>1 DEF Frame
    <3>2. CASE ~(n <= Frames - 1)
      <4>1. n = Frames /\ (n = Frames) = TRUE
        BY <1>1, <3>2
      <4>2. QED BY <3>2, <4>1 DEF Frame
    <3>3. QED BY <3>1, <3>2
  <2>6. QED BY <1>2, <2>3, <2>4, <2>5
<1>3. CASE engine = "qwen"
  <2> DEFINE s == [n \in 1 .. Frames |-> Frame(i, n, FALSE)]
             e == <<Frame(i, 0, TRUE)>>
             F == Stream(i, Frames, 0)
  <2>1. \A n \in 1 .. Frames : Frame(i, n, FALSE) \in AudioFrames
    <3> SUFFICES ASSUME NEW n \in 1 .. Frames PROVE Frame(i, n, FALSE) \in AudioFrames
      OBVIOUS
    <3>1. n \in Nat
      BY <1>1
    <3>2. QED BY <3>1, FrameIs
  <2>2. s \in Seq(AudioFrames) /\ Len(s) = Frames /\ \A n \in 1 .. Frames : s[n] = Frame(i, n, FALSE)
    <3>1. (\A n \in 1 .. Frames : s[n] = Frame(i, n, FALSE)) /\ DOMAIN s = 1 .. Frames /\ s = [n \in 1 .. Frames |-> s[n]]
      OBVIOUS
    <3> HIDE DEF s
    <3>2. s \in Seq(AudioFrames)
      <4>1. \A n \in 1 .. Frames : s[n] \in AudioFrames
        BY <2>1, <3>1
      <4>2. [n \in 1 .. Frames |-> s[n]] \in Seq(AudioFrames)
        BY <1>1, <4>1, IsASeq
      <4>3. QED BY <3>1, <4>2
    <3>3. Len(s) = Frames
      <4>1. DOMAIN s = 1 .. Len(s) /\ Len(s) \in Nat
        BY <3>2, LenProperties
      <4>2. QED BY <1>1, <3>1, <4>1
    <3>4. QED BY <3>1, <3>2, <3>3
  <2>3. e \in Seq(AudioFrames) /\ Len(e) = 1 /\ e[1] = Frame(i, 0, TRUE)
    BY FrameIs, OneIs
  <2>4. /\ F \in Seq(AudioFrames) /\ Len(F) = Frames + 1
        /\ \A j \in 1 .. Frames + 1 : F[j] = IF j <= Frames THEN Frame(i, j, FALSE) ELSE Frame(i, 0, TRUE)
    <3>1. F \in Seq(AudioFrames) /\ Len(F) = Frames + 1
      BY <1>1, StreamFrames
    <3>2. QED BY <3>1 DEF Stream
  <2>5. Sentence(i) = s \o e
    BY <1>3 DEF Sentence
  <2> HIDE DEF s, e, F
  <2> DEFINE t == s \o e
  <2>6. /\ t \in Seq(AudioFrames) /\ Len(t) = Frames + 1
        /\ \A j \in 1 .. Frames + 1 : t[j] = IF j <= Frames THEN s[j] ELSE e[j - Frames]
    <3>1. /\ t \in Seq(AudioFrames) /\ Len(t) = Len(s) + Len(e)
          /\ \A j \in 1 .. Len(s) + Len(e) : t[j] = IF j <= Len(s) THEN s[j] ELSE e[j - Len(s)]
      BY <2>2, <2>3, ConcatProperties
    <3>2. QED BY <2>2, <2>3, <3>1
  <2> HIDE DEF t
  <2>7. ASSUME NEW j \in 1 .. Frames + 1 PROVE t[j] = F[j]
    <3>1. CASE j <= Frames
      <4>1. j \in 1 .. Frames
        BY <1>1, <3>1
      <4>2. QED BY <2>2, <2>4, <2>6, <3>1, <4>1
    <3>2. CASE ~(j <= Frames)
      <4>1. j - Frames = 1
        BY <1>1, <3>2
      <4>2. QED BY <2>3, <2>4, <2>6, <3>2, <4>1
    <3>3. QED BY <3>1, <3>2
  <2>8. t = F
    BY <2>4, <2>6, <2>7, SeqEqual
  <2>9. QED BY <1>3, <2>5, <2>8 DEF t, F
<1>4. CASE engine = "stub"
  <2> DEFINE e == <<Frame(i, 1, TRUE)>>
             F == Stream(i, 0, 1)
  <2>1. e \in Seq(AudioFrames) /\ Len(e) = 1 /\ e[1] = Frame(i, 1, TRUE)
    BY FrameIs, OneIs
  <2>2. F \in Seq(AudioFrames) /\ Len(F) = 1 /\ F[1] = Frame(i, 1, TRUE)
    <3>1. 0 + 1 = 1 /\ 1 \in 1 .. 0 + 1 /\ ~(1 <= 0)
      OBVIOUS
    <3>2. F \in Seq(AudioFrames) /\ Len(F) = 0 + 1
      BY StreamFrames
    <3>3. F[1] = Frame(i, 1, TRUE)
      BY <3>1 DEF Stream
    <3>4. QED BY <3>1, <3>2, <3>3
  <2>3. Sentence(i) = e
    BY <1>4 DEF Sentence
  <2> HIDE DEF e, F
  <2>4. \A j \in 1 .. 1 : j = 1
    OBVIOUS
  <2>5. e = F
    BY <2>1, <2>2, <2>4, SeqEqual
  <2>6. QED BY <1>4, <2>3, <2>5 DEF F
<1>5. QED BY <1>2, <1>3, <1>4

\* Each answer is a reply and, for synthesize, a stream that it fits.
Answers(a) ==
  /\ a.loaded \in BOOLEAN
  /\ \E m \in Msgs, F \in Seq(AudioFrames) : Fits(m, F, a.loaded) /\ Writes(a.out, m, F)

\* The replies there are to a request.
LEMMA OkIs ==
  ASSUME id \in Nat
  PROVE  Message("ok", id) \in Msgs /\ Message("error", id) \in Msgs /\ Message("ok", id).what = "ok"
         /\ Message("error", id).what = "error"
BY DEF Message, Msgs, Whats

\* A reply alone is an answer to anything but synthesize.
LEMMA PlainAnswer ==
  ASSUME id \in Nat, method # "synthesize", NEW a, NEW m, a.loaded \in BOOLEAN,
         m \in {Message("ok", id), Message("error", id)},
         a.out = Says("control", m),
         method = "load" /\ m = Message("ok", id) => a.loaded
  PROVE  Answers(a)
<1>1. m \in Msgs
  BY OkIs
<1>2. Writes(a.out, m, <<>>)
  BY <1>1, ReplyOnly
<1>3. Fits(m, <<>>, a.loaded)
  BY OkIs DEF Fits
<1>4. <<>> \in Seq(AudioFrames)
  BY EmptySeq
<1>5. QED BY <1>1, <1>2, <1>3, <1>4 DEF Answers

\* A reply with a stream of frames is an answer to synthesize.
LEMMA StreamAnswer ==
  ASSUME id \in Nat, method = "synthesize", NEW a, a.loaded = TRUE,
         NEW m, m \in {Message("ok", id), Message("error", id)},
         NEW n \in Nat, NEW q \in Nat,
         m = Message("ok", id) => Stream(id, n, q) = Sentence(id),
         Writes(a.out, m, Stream(id, n, q))
  PROVE  Answers(a)
<1>1. m \in Msgs
  BY OkIs
<1>2. /\ Stream(id, n, q) \in Seq(AudioFrames) /\ Len(Stream(id, n, q)) = n + 1
      /\ \A j \in 1 .. n + 1 : Stream(id, n, q)[j].last <=> j = n + 1
  BY StreamFrames
<1> DEFINE F == Stream(id, n, q)
<1>3. F \in Seq(AudioFrames) /\ Len(F) = n + 1 /\ \A j \in 1 .. n + 1 : F[j].last <=> j = n + 1
  BY <1>2
<1>4. m.what = "ok" => F = Sentence(id)
  BY OkIs
<1>5. Writes(a.out, m, F)
  OBVIOUS
<1> HIDE DEF F
<1>6. Fits(m, F, TRUE)
  BY <1>3, <1>4 DEF Fits
<1>7. QED BY <1>1, <1>3, <1>5, <1>6 DEF Answers

\* The runners answer every request they may get, as above.
LEMMA AnswersAre ==
  ASSUME id \in Nat, engine \in Engines, method \in {"initialize", "load", "synthesize", "unload"},
         loaded \in BOOLEAN, method = "synthesize" => loaded
  PROVE  /\ Handles(Message(method, id)) # {}
         /\ \A a \in Handles(Message(method, id)) : Answers(a)
<1>1. Message(method, id).what = method /\ Message(method, id).id = id
  BY DEF Message
<1>2. engine \in {"kokoro", "qwen", "stub"}
  BY RunnerBounds
<1>3. Frames \in Nat /\ Frames >= 1 /\ Frames - 1 \in Nat /\ (Frames - 1) + 1 = Frames
  BY RunnerBounds
<1> DEFINE m == Message(method, id)
           plain == IF method = "load"
                    THEN IF engine = "stub" THEN StubLoad(id) ELSE KokoroLoad(id)
                    ELSE {Answer(Ok(id), IF method = "unload" THEN FALSE ELSE loaded)}
           spoken_ == CASE engine = "kokoro" -> KokoroSynthesis(id)
                        [] engine = "qwen" -> QwenSynthesis(id)
                        [] engine = "stub" -> StubSynthesis(id)
<1>4. CASE method # "synthesize"
  <2>1. Handles(m) = plain
    BY <1>1, <1>2, <1>4 DEF Handles, KokoroHandles, QwenHandles, StubHandles, Handled, QwenLoad, KokoroLoad
  <2>2. plain # {}
    BY DEF StubLoad, KokoroLoad
  <2>3. ASSUME NEW a \in plain PROVE Answers(a)
    <3>1. PICK what \in {"ok", "error"}, l \in BOOLEAN :
            /\ a = Answer(Says("control", Message(what, id)), l)
            /\ what = "error" \/ method # "load" \/ l
      <4>1. CASE method = "load"
        <5>1. \/ a = Answer(Ok(id), TRUE)
              \/ a = Answer(Error(id), FALSE) \/ a = Answer(Error(id), loaded)
          BY <4>1 DEF StubLoad, KokoroLoad
        <5>2. QED BY <5>1 DEF Ok, Error
      <4>2. CASE method # "load"
        <5>1. a = Answer(Ok(id), IF method = "unload" THEN FALSE ELSE loaded)
          BY <4>2
        <5>2. QED BY <4>2, <5>1 DEF Ok
      <4>3. QED BY <4>1, <4>2
    <3>2. a.out = Says("control", Message(what, id)) /\ a.loaded = l
      BY <3>1 DEF Answer
    <3>3. Message(what, id) \in {Message("ok", id), Message("error", id)}
      BY <3>1
    <3>4. method = "load" /\ Message(what, id) = Message("ok", id) => a.loaded
      BY <3>1, <3>2, OkIs
    <3>5. QED BY <1>4, <3>1, <3>2, <3>3, <3>4, PlainAnswer
  <2>4. QED BY <2>1, <2>2, <2>3
<1>5. CASE method = "synthesize"
  <2>1. Handles(m) = spoken_
    BY <1>1, <1>2, <1>5 DEF Handles, KokoroHandles, QwenHandles, StubHandles, Handled
  <2>2. spoken_ # {}
    BY <1>2 DEF KokoroSynthesis, QwenSynthesis, StubSynthesis, QwenGenerate
  <2>3. ASSUME NEW a \in spoken_ PROVE Answers(a)
    <3>1. CASE engine = "kokoro"
      <4> DEFINE F == Stream(id, Frames - 1, Frames)
                 r == Ok(id)
                 s == Sounds(id, Frames - 1)
                 t == Closing(id, Frames)
      <4>1. a = Answer((r \o s) \o t, TRUE)
        BY <3>1 DEF KokoroSynthesis
      <4>2. a.out = (r \o s) \o t /\ a.loaded = TRUE
        BY <4>1 DEF Answer
      <4>3. /\ r \in Seq(Outputs) /\ s \in Seq(Outputs) /\ t \in Seq(Outputs)
            /\ r = Says("control", Message("ok", id))
        BY <1>3, OkIs, SaysIs, SoundsAre, ClosingIs DEF Ok, Things
      <4>4. (r \o s) \o t = r \o (s \o t)
        <5> HIDE DEF r, s, t
        <5> QED BY <4>3, ConcatAssociative
      <4>5. /\ s \o t \in Seq(Outputs) /\ Len(s \o t) = 2 * Frames
            /\ \A k \in 1 .. 2 * Frames : (s \o t)[k] = [to |-> "audio", piece |-> Piece(F, k)]
        <5>1. 2 * (Frames - 1) + 2 = 2 * Frames
          BY <1>3
        <5> DEFINE p == Frames - 1
        <5>2. p \in Nat
          BY <1>3
        <5>3. /\ Sounds(id, p) \o Closing(id, Frames) \in Seq(Outputs)
              /\ Len(Sounds(id, p) \o Closing(id, Frames)) = 2 * p + 2
              /\ \A k \in 1 .. 2 * p + 2 :
                   (Sounds(id, p) \o Closing(id, Frames))[k] = [to |-> "audio", piece |-> Piece(Stream(id, p, Frames), k)]
          <6> HIDE DEF p
          <6>1. QED BY <1>3, <5>2, StreamIs
        <5>4. QED BY <5>1, <5>3
      <4>6. F \in Seq(AudioFrames) /\ Len(F) = Frames
        BY <1>3, StreamFrames
      <4>7. F = Sentence(id)
        BY <3>1, SentenceIs
      <4> HIDE DEF F, r, s, t
      <4>8. Writes(r \o (s \o t), Message("ok", id), F)
        BY <3>1, <4>3, <4>5, <4>6, OkIs, ReplyFirst
      <4>9. Writes(a.out, Message("ok", id), F)
        BY <4>2, <4>4, <4>8
      <4>10. QED BY <1>3, <1>5, <4>2, <4>7, <4>9, StreamAnswer DEF F
    <3>2. CASE engine = "qwen"
      <4>1. PICK g \in QwenGenerate(id) :
              a = Answer(g.sounds \o Closing(id, 0) \o IF g.ok THEN Ok(id) ELSE Error(id), TRUE)
        BY <3>2 DEF QwenSynthesis
      <4>2. PICK n \in 0 .. Frames : g.sounds = Sounds(id, n) /\ g.ok \in BOOLEAN /\ (g.ok => n = Frames)
        <5>1. \/ \E n \in 0 .. Frames : g = [sounds |-> Sounds(id, n), ok |-> FALSE]
              \/ g = [sounds |-> Sounds(id, Frames), ok |-> TRUE]
          BY DEF QwenGenerate
        <5>2. Frames \in 0 .. Frames
          BY <1>3
        <5>3. CASE \E n \in 0 .. Frames : g = [sounds |-> Sounds(id, n), ok |-> FALSE]
          BY <5>3
        <5>4. CASE g = [sounds |-> Sounds(id, Frames), ok |-> TRUE]
          BY <5>2, <5>4
        <5>5. QED BY <5>1, <5>3, <5>4
      <4> DEFINE F == Stream(id, n, 0)
                 m_ == Message(IF g.ok THEN "ok" ELSE "error", id)
                 r == Says("control", m_)
                 s == Sounds(id, n) \o Closing(id, 0)
      <4>3. a.out = s \o r /\ a.loaded = TRUE
        BY <4>1, <4>2 DEF Answer, Ok, Error
      <4>4. n \in Nat /\ 0 \in Nat
        BY <1>3
      <4>5. F \in Seq(AudioFrames) /\ Len(F) = n + 1
        BY <4>4, StreamFrames
      <4>6. /\ s \in Seq(Outputs) /\ Len(s) = 2 * n + 2
            /\ \A k \in 1 .. 2 * n + 2 : s[k] = [to |-> "audio", piece |-> Piece(F, k)]
        BY <4>4, StreamIs
      <4>7. m_ \in Msgs /\ m_ \in {Message("ok", id), Message("error", id)}
        BY OkIs
      <4>8. m_ = Message("ok", id) => F = Sentence(id)
        <5>1. m_ = Message("ok", id) => g.ok
          BY OkIs
        <5>2. QED BY <3>2, <4>2, <5>1, SentenceIs
      <4> HIDE DEF F, m_, s
      <4>9. Len(s) = 2 * Len(F) /\ 2 * Len(F) = 2 * n + 2
        <5>1. 2 * (n + 1) = 2 * n + 2
          BY <4>4
        <5>2. Len(F) = n + 1 /\ Len(s) = 2 * n + 2
          BY <4>5, <4>6
        <5>3. QED BY <5>1, <5>2
      <4>10. Writes(s \o r, m_, F)
        BY <3>2, <4>5, <4>6, <4>7, <4>9, StreamFirst
      <4>11. Writes(a.out, m_, F)
        BY <4>3, <4>10
      <4>12. QED BY <1>5, <4>3, <4>4, <4>7, <4>8, <4>11, StreamAnswer DEF F
    <3>3. CASE engine = "stub"
      <4> DEFINE F == Stream(id, 0, 1)
                 r == Ok(id)
                 t == Closing(id, 1)
      <4>1. a.out = r \o t /\ a.loaded = TRUE
        <5>1. loaded = TRUE
          BY <1>5
        <5>2. a = Answer(r \o t, loaded)
          BY <3>3 DEF StubSynthesis
        <5>3. QED BY <5>1, <5>2 DEF Answer
      <4>2. r = Says("control", Message("ok", id))
        BY DEF Ok
      <4>3. /\ t \in Seq(Outputs) /\ Len(t) = 2
            /\ \A k \in 1 .. 2 : t[k] = [to |-> "audio", piece |-> Piece(F, 2 * 0 + k)]
        <5>1. /\ Closing(id, 1) \in Seq(Outputs) /\ Len(Closing(id, 1)) = 2
              /\ \A k \in 1 .. 2 : Closing(id, 1)[k] = [to |-> "audio", piece |-> Piece(Stream(id, 0, 1), 2 * 0 + k)]
          <6>1. 0 \in Nat /\ 1 \in Nat
            OBVIOUS
          <6>2. QED BY <6>1, ClosingIs
        <5>2. QED BY <5>1
      <4>4. F \in Seq(AudioFrames) /\ Len(F) = 1
        <5>1. F \in Seq(AudioFrames) /\ Len(F) = 0 + 1
          BY StreamFrames
        <5>2. QED BY <5>1
      <4>5. F = Sentence(id)
        BY <3>3, SentenceIs
      <4> HIDE DEF F, r, t
      <4>6. Len(t) = 2 * Len(F) /\ \A k \in 1 .. 2 * Len(F) : t[k] = [to |-> "audio", piece |-> Piece(F, k)]
        <5>1. 2 * 1 = 2 /\ \A k \in 1 .. 2 : 2 * 0 + k = k
          OBVIOUS
        <5>2. QED BY <4>3, <4>4, <5>1
      <4>7. Writes(r \o t, Message("ok", id), F)
        BY <3>3, <4>2, <4>3, <4>4, <4>6, OkIs, ReplyFirst
      <4>8. Writes(a.out, Message("ok", id), F)
        BY <4>1, <4>7
      <4>9. QED BY <1>5, <4>1, <4>5, <4>8, StreamAnswer DEF F
    <3>4. QED BY <1>2, <3>1, <3>2, <3>3
  <2>4. QED BY <2>1, <2>2, <2>3
<1>6. QED BY <1>4, <1>5

-----------------------------------------------------------------------------
(* The exchange, step by step.                                             *)

exchangeVars == <<engine, live, method, id, outgoing, ctlBuffer, replies, reply,
                  audBuffer, frames, stdin, control, audio, inBuffer, toWrite, loaded>>

\* Nothing in a pipe is clean, and dirty.
LEMMA EmptyIs ==
  /\ Len(<<>>) = 0 /\ <<>> \in Seq(Pieces) /\ <<>> \in Seq(Things) /\ <<>> \in Seq(Outputs)
  /\ Dirty(<<>>) /\ Clean(<<>>, 0)
<1>1. Len(<<>>) = 0 /\ <<>> \in Seq(Pieces) /\ <<>> \in Seq(Things) /\ <<>> \in Seq(Outputs)
  BY EmptySeq
<1>2. \A i \in 1 .. 0 : FALSE
  OBVIOUS
<1>3. QED BY <1>1, <1>2 DEF Dirty, Clean

\* An exchange none of whose data changes.
LEMMA ExchangeSame ==
  ASSUME Exchange, UNCHANGED exchangeVars, live => (host' = "idle" <=> host = "idle"),
         reader' = reader \/ reader' = "failed" \/ (reader = "none" /\ reader' = "none")
  PROVE  Exchange'
<1>1. ASSUME Asked PROVE Asked'
  BY <1>1 DEF exchangeVars, Asked, Quiet
<1>2. ASSUME Answered PROVE Answered'
  <2>1. \A m, F, c, k : Writing(m, F, c, k) => Writing(m, F, c, k)'
    BY DEF exchangeVars, Writing, Output
  <2>2. \A m, d, c : Receiving(m, d, c) => Receiving(m, d, c)'
    BY DEF exchangeVars, Receiving
  <2>3. \A F, k : Streaming(F, k) => Streaming(F, k)'
    BY DEF exchangeVars, Streaming
  <2>4. \A m, F : Fits(m, F, loaded) => Fits(m, F, loaded)'
    BY DEF exchangeVars, Fits, Sentence
  <2>5. Unasked => Unasked'
    BY DEF exchangeVars, Unasked
  <2>6. QED BY <1>2, <2>1, <2>2, <2>3, <2>4, <2>5 DEF Answered, Answering
<1>3. QED BY <1>1, <1>2 DEF Exchange, exchangeVars, Unasked, Quiet

\* Everything about an answer that was received is over.
LEMMA AllTaken ==
  ASSUME ChannelTypes, NEW m \in Msgs, NEW F \in Seq(AudioFrames), NEW c \in 0 .. 2, NEW k \in Nat,
         Answering(m, F, 1, c, k), Len(frames) = Len(F)
  PROVE  /\ toWrite = <<>> /\ ctlBuffer = <<>> /\ audBuffer = <<>>
         /\ Dirty(control) /\ Dirty(audio)
<1>1. Len(F) \in Nat /\ Len(<<m>>) = 1 /\ Len(toWrite) \in Nat
  BY LenProperties DEF ChannelTypes
<1>2. c = 2 * 1 /\ ctlBuffer = <<>> /\ Dirty(control)
  <2>1. /\ Carries(<<m>>, 1, ctlBuffer, control, c) /\ 1 \in Nat /\ c \in Nat /\ Len(<<m>>) \in Nat
        /\ ctlBuffer \in Seq(Pieces) /\ control \in Seq(Pieces)
    BY <1>1 DEF Answering, Receiving, ChannelTypes
  <2> DEFINE M == <<m>>
  <2>2. Len(M) = 1 /\ Carries(M, 1, ctlBuffer, control, c)
    BY <1>1, <2>1
  <2> HIDE DEF M
  <2> DEFINE d == 1
  <2>3. d \in Nat /\ Len(M) \in Nat /\ d = Len(M) /\ Carries(M, d, ctlBuffer, control, c)
    BY <2>1, <2>2
  <2> HIDE DEF d
  <2>4. c = 2 * Len(M) /\ ctlBuffer = <<>> /\ Dirty(control)
    BY <2>1, <2>3, CarriesAll
  <2>5. QED BY <2>2, <2>4
<1>3. k = 2 * Len(F) /\ audBuffer = <<>> /\ Dirty(audio)
  BY <1>1, CarriesAll DEF Answering, Streaming, ChannelTypes
<1>4. Len(toWrite) = 0
  BY <1>1, <1>2, <1>3 DEF Answering, Writing
<1>5. QED BY <1>2, <1>3, <1>4, EmptySeq DEF ChannelTypes

\* A received reply.
LEMMA Replied ==
  ASSUME ChannelTypes, Exchange, replies # <<>> \/ reply # NoReply
  PROVE  /\ live /\ host # "idle" /\ Unasked
         /\ \E m \in Msgs, F \in Seq(AudioFrames), c \in 0 .. 2, k \in Nat :
              /\ Answering(m, F, 1, c, k)
              /\ m # NoReply /\ m.id = id /\ m.what \in {"ok", "error"}
              /\ \/ replies = <<m>> /\ reply = NoReply /\ Head(replies) = m /\ Tail(replies) = <<>>
                 \/ replies = <<>> /\ reply = m
<1>1. live /\ host # "idle" /\ Answered
  BY DEF Exchange, Asked, Quiet
<1>2. PICK m \in Msgs, F \in Seq(AudioFrames), d \in 0 .. 1, c \in 0 .. 2, k \in Nat :
        Answering(m, F, d, c, k)
  BY <1>1 DEF Answered
<1>3. m # NoReply /\ m.id = id /\ m.what \in {"ok", "error"}
  BY <1>2 DEF Answering, Fits, Message, NoReply
<1>4. d = 1
  BY <1>2 DEF Answering, Receiving
<1>5. Head(<<m>>) = m /\ Tail(<<m>>) = <<>>
  OBVIOUS
<1>6. \/ replies = <<m>> /\ reply = NoReply
      \/ replies = <<>> /\ reply = m
  BY <1>2, <1>4 DEF Answering, Receiving
<1>7. Answering(m, F, 1, c, k)
  BY <1>2, <1>4
<1>8. QED BY <1>1, <1>3, <1>5, <1>6, <1>7 DEF Answered

\* The next request is asked of a process without one.
LEMMA RequestAsked ==
  ASSUME NEW next \in {"initialize", "load", "synthesize", "unload"}, NEW i \in Nat, Request(next, i),
         stdin' = <<>>, inBuffer' = <<>>, Quiet', reader' # "done",
         next \in {"synthesize", "unload"} => loaded'
  PROVE  Asked'
<1> DEFINE m == Message(next, i)
<1>1. m \in Things
  BY DEF Message, Msgs, Things, Whats
<1>2. /\ outgoing' = Wire(m) /\ Len(Wire(m)) = 2
      /\ Wire(m)[1] = [of |-> m, half |-> 1] /\ Wire(m)[2] = [of |-> m, half |-> 2]
  BY DEF Request, Wire
<1>3. method' = next /\ id' = i
  BY DEF Request
<1> HIDE DEF m
<1>4. /\ Piece(<<m>>, 1) = [of |-> m, half |-> 1] /\ Piece(<<m>>, 2) = [of |-> m, half |-> 2]
      /\ Len(<<m>>) = 1
  BY <1>1, OneOf
<1>5. \A j \in 1 .. 2 : outgoing'[j] = Piece(<<m>>, 2 - 2 + j)
  <2>1. \A j \in 1 .. 2 : (j = 1 \/ j = 2) /\ 2 - 2 + j = j
    OBVIOUS
  <2>2. QED BY <1>2, <1>4, <2>1
<1>6. Carries(<<m>>, 0, <<>>, <<>>, 2 - 2)
  <2>1. 2 - 2 = 0 /\ Len(<<m>>) \in Nat
    BY <1>4
  <2>2. QED BY <2>1, EmptyIs, CarriesNone
<1>7. Clean(<<>>, Len(<<>>))
  BY EmptyIs
<1>8. QED BY <1>2, <1>3, <1>5, <1>6, <1>7 DEF Asked, m

\* A request leaves the types of the channels as they were.
LEMMA RequestTypes ==
  ASSUME NEW next \in {"initialize", "load", "synthesize", "unload"}, NEW i \in Nat, Request(next, i)
  PROVE  /\ outgoing' \in Seq(Pieces) /\ id' \in Nat /\ id' = i /\ method' = next /\ host' = "write"
         /\ abort' = FALSE /\ late' = FALSE
<1>1. Message(next, i) \in Things
  BY DEF Message, Msgs, Things, Whats
<1>2. Wire(Message(next, i)) \in Seq(Pieces)
  <2> DEFINE a == [of |-> Message(next, i), half |-> 1]
             b == [of |-> Message(next, i), half |-> 2]
  <2>1. a \in Pieces /\ b \in Pieces /\ Wire(Message(next, i)) = <<a, b>>
    BY <1>1, OneOf DEF Wire
  <2> HIDE DEF a, b
  <2>2. <<a, b>> \in Seq(Pieces)
    BY <2>1
  <2>3. QED BY <2>1, <2>2
<1>3. QED BY <1>2 DEF Request

\* An action leaves the exchange as it is, or moves it on.
Data == ChannelTypes /\ Exchange

\* A call begins: its request is asked.
LEMMA BeginExchange ==
  ASSUME Inv, NEW c \in {"prepare", "synthesize", "unload"}, Begin(c)
  PROVE  Exchange'
<1>1. Data /\ host = "idle"
  BY DEF Inv, Data, Begin, Calling
<1>2. CASE live
  <2>1. Unasked /\ Quiet /\ loaded /\ reader = "none"
    BY <1>1, <1>2 DEF Inv, Data, Exchange, Waiting
  <2>2. c # "prepare" /\ Request(c, id + 1) /\ id + 1 \in Nat
    BY <1>1, <1>2 DEF Begin, Data, ChannelTypes
  <2>3. Quiet' /\ stdin' = <<>> /\ inBuffer' = <<>> /\ reader' # "done" /\ loaded' /\ live'
    BY <1>2, <2>1 DEF Begin, Quiet, Unasked, readerVars, procVars
  <2>4. Asked'
    BY <2>2, <2>3, RequestAsked
  <2>5. host' = "write"
    BY <2>2 DEF Request
  <2>6. QED BY <2>3, <2>4, <2>5 DEF Exchange
<1>3. CASE ~live
  <2>1. Unasked /\ Quiet /\ control = <<>> /\ audio = <<>>
    BY <1>1, <1>3 DEF Data, Exchange
  <2>2. ~live' /\ Unasked' /\ Quiet' /\ control' = <<>> /\ audio' = <<>>
    BY <1>3, <2>1 DEF Begin, Quiet, Unasked, readerVars, procVars, callVars
  <2>3. QED BY <2>2 DEF Exchange
<1>4. QED BY <1>2, <1>3

\* A new process has empty pipes and is asked to initialize.
LEMMA SpawnExchange ==
  ASSUME Inv, Spawn
  PROVE  Exchange'
<1>1. Data /\ ~live
  BY DEF Inv, Data, Spawn, Calling
<1>2. Unasked /\ Quiet /\ reader = "none"
  BY <1>1 DEF Data, Exchange, Inv, Calling, Waiting
<1>3. Request("initialize", id + 1) /\ id + 1 \in Nat
  BY <1>1 DEF Spawn, Data, ChannelTypes
<1>4. Quiet' /\ stdin' = <<>> /\ inBuffer' = <<>> /\ reader' # "done" /\ live'
  BY <1>2 DEF Spawn, Quiet, Unasked, readerVars
<1>5. Asked'
  BY <1>3, <1>4, RequestAsked
<1>6. host' = "write"
  BY <1>3 DEF Request
<1>7. QED BY <1>4, <1>5, <1>6 DEF Exchange

\* Without a process nothing is in any pipe.
LEMMA SpawnFailsExchange ==
  ASSUME Inv, SpawnFails
  PROVE  Exchange'
<1>1. Data /\ ~live
  BY DEF Inv, Data, SpawnFails, Calling
<1>2. Unasked /\ Quiet /\ control = <<>> /\ audio = <<>>
  BY <1>1 DEF Data, Exchange
<1>3. ~live' /\ Unasked' /\ Quiet' /\ control' = <<>> /\ audio' = <<>>
  BY <1>1, <1>2 DEF SpawnFails, Return, Quiet, Unasked, procVars
<1>4. QED BY <1>3 DEF Exchange

\* Half a request or a whole one is left to write.
LEMMA OneOrTwo == ASSUME NEW n \in Nat, n # 0, n <= 2 PROVE n \in 1 .. 2
OBVIOUS

\* A piece of the request goes into the pipe.
LEMMA HostWritesExchange ==
  ASSUME Inv, HostWrites
  PROVE  /\ Exchange' /\ stdin' \in Seq(Pieces) /\ outgoing' \in Seq(Pieces)
         /\ Len(stdin') <= Capacity
<1>1. /\ Data /\ live /\ host = "write" /\ outgoing # <<>>
      /\ stdin' = Append(stdin, Head(outgoing)) /\ outgoing' = Tail(outgoing)
  BY DEF Inv, Data, Calling, HostWrites
<1>2. Asked
  BY <1>1 DEF Data, Exchange, Answered, Unasked
<1> DEFINE M == <<Message(method, id)>>
<1>3. /\ outgoing \in Seq(Pieces) /\ stdin \in Seq(Pieces) /\ inBuffer \in Seq(Pieces)
      /\ Len(outgoing) \in Nat /\ Len(outgoing) # 0 /\ Len(stdin) \in Nat
  BY <1>1, EmptySeq, LenProperties DEF Data, ChannelTypes
<1>4. Len(M) = 1
  OBVIOUS
<1>5. /\ Len(outgoing) \in 1 .. 2
      /\ \A i \in 1 .. Len(outgoing) : outgoing[i] = Piece(M, 2 - Len(outgoing) + i)
      /\ Carries(M, 0, inBuffer, stdin, 2 - Len(outgoing)) /\ Clean(stdin, Len(stdin))
  <2>1. Len(outgoing) <= 2
    BY <1>2 DEF Asked
  <2>2. \A i \in 1 .. Len(outgoing) : outgoing[i] = Piece(M, 2 - Len(outgoing) + i)
    BY <1>2 DEF Asked
  <2>3. Carries(M, 0, inBuffer, stdin, 2 - Len(outgoing)) /\ Clean(stdin, Len(stdin))
    BY <1>2 DEF Asked
  <2>4. Len(outgoing) \in 1 .. 2
    BY <1>3, <2>1, OneOrTwo
  <2>5. QED BY <2>2, <2>3, <2>4
<1> HIDE DEF M
<1> DEFINE k == 2 - Len(outgoing)
<1>6. /\ Head(outgoing) = outgoing[1] /\ outgoing[1] \in Pieces /\ outgoing[1] = Piece(M, k + 1)
      /\ Tail(outgoing) \in Seq(Pieces) /\ Len(Tail(outgoing)) = Len(outgoing) - 1
      /\ \A i \in 1 .. Len(outgoing) - 1 : Tail(outgoing)[i] = outgoing[i + 1]
  BY <1>3, <1>5, HeadTailProperties, ElementOfSeq
<1>7. k \in Nat /\ k < 2 * Len(M) /\ Carries(M, 0, inBuffer, stdin, k) /\ 0 \in Nat /\ Len(M) \in Nat
  BY <1>4, <1>5
<1>8. k + 1 = 2 - Len(outgoing') /\ Len(outgoing') = Len(outgoing) - 1 /\ Len(outgoing') \in 0 .. 1
  BY <1>1, <1>5, <1>6
<1>9. Carries(M, 0, inBuffer, stdin', k + 1)
  <2>1. Carries(M, 0, inBuffer, Append(stdin, outgoing[1]), k + 1)
    <3> HIDE DEF k
    <3>1. QED BY <1>3, <1>6, <1>7, CarriesWrite
  <2>2. QED BY <1>1, <1>6, <2>1
<1>10. /\ stdin' \in Seq(Pieces) /\ Len(stdin') = Len(stdin) + 1
       /\ \A i \in 1 .. Len(stdin) : stdin'[i] = stdin[i]
       /\ stdin'[Len(stdin) + 1] = outgoing[1]
  BY <1>1, <1>3, <1>6, AppendProperties
<1>11. Clean(stdin', Len(stdin'))
  <2>1. outgoing[1] # Junk
    BY <1>6, <1>7, PieceIs
  <2>2. ASSUME NEW j \in 1 .. Len(stdin') PROVE stdin'[j] # Junk
    <3>1. j \in 1 .. Len(stdin) \/ j = Len(stdin) + 1
      BY <1>3, <1>10
    <3>2. CASE j \in 1 .. Len(stdin)
      BY <1>5, <1>10, <3>2 DEF Clean
    <3>3. CASE j = Len(stdin) + 1
      BY <1>10, <2>1, <3>3
    <3>4. QED BY <3>1, <3>2, <3>3
  <2>3. QED BY <2>2 DEF Clean
<1>12. ASSUME NEW i \in 1 .. Len(outgoing') PROVE outgoing'[i] = Piece(M, 2 - Len(outgoing') + i)
  <2>1. i \in 1 .. Len(outgoing) - 1 /\ i + 1 \in 1 .. Len(outgoing)
        /\ 2 - Len(outgoing) + (i + 1) = 2 - Len(outgoing') + i
    BY <1>3, <1>8
  <2>2. outgoing'[i] = outgoing[i + 1]
    BY <1>1, <1>6, <2>1
  <2>3. QED BY <1>5, <2>1, <2>2
<1>13. UNCHANGED <<method, id, inBuffer, reader, live, host, loaded>> /\ (Quiet => Quiet')
  BY DEF HostWrites, callVars, procVars, readerVars, Quiet
<1>14. Carries(M, 0, inBuffer', stdin', 2 - Len(outgoing'))
  BY <1>8, <1>9, <1>13
<1>15. M' = M
  BY <1>13 DEF M
<1>16. Len(outgoing') <= 2
  BY <1>8
<1>17. Asked'
  BY <1>2, <1>11, <1>12, <1>13, <1>14, <1>15, <1>16 DEF Asked, M
<1>18. Exchange'
  BY <1>1, <1>13, <1>17 DEF Exchange
<1>19. Len(stdin') <= Capacity
  <2>1. Len(stdin) < Capacity
    BY DEF HostWrites
  <2>2. QED BY <1>3, <1>10, <2>1, RunnerBounds
<1>20. QED BY <1>1, <1>6, <1>10, <1>18, <1>19

\* All of it is written: no frame has come yet.
LEMMA StartsWaitingExchange ==
  ASSUME Inv, StartsWaiting
  PROVE  Exchange'
<1>1. /\ Data /\ live /\ host = "write" /\ reader = "none" /\ host' = "await"
      /\ UNCHANGED exchangeVars
      /\ reader' = IF method = "synthesize" THEN "reading" ELSE "none"
  BY DEF Inv, Data, Calling, Waiting, StartsWaiting, exchangeVars, callVars, procVars
<1>2. ASSUME Asked PROVE Asked'
  BY <1>1, <1>2 DEF exchangeVars, Asked, Quiet
<1>3. ASSUME Answered PROVE Answered'
  <2>1. \A m, F, c, k : Writing(m, F, c, k) => Writing(m, F, c, k)'
    BY <1>1 DEF exchangeVars, Writing, Output
  <2>2. \A m, d, c : Receiving(m, d, c) => Receiving(m, d, c)'
    BY <1>1 DEF exchangeVars, Receiving
  <2>3. \A m, F : Fits(m, F, loaded) => Fits(m, F, loaded)'
    BY <1>1 DEF exchangeVars, Fits, Sentence
  <2>4. \A m, F, k : Fits(m, F, loaded) /\ Streaming(F, k) => Streaming(F, k)'
    <3> SUFFICES ASSUME NEW m, NEW F, NEW k, Fits(m, F, loaded), Streaming(F, k) PROVE Streaming(F, k)'
      OBVIOUS
    <3>1. frames = <<>> /\ Len(frames) = 0
      BY <1>1, EmptySeq DEF Inv, Waiting
    <3>2. method = "synthesize" => Len(frames) < Len(F)
      BY <3>1 DEF Fits
    <3>3. reader' = "reading" => Len(frames) < Len(F)
      BY <1>1, <3>2
    <3>4. reader' # "done"
      BY <1>1
    <3>5. QED BY <1>1, <3>3, <3>4 DEF Streaming, exchangeVars
  <2>5. Unasked => Unasked'
    BY <1>1 DEF exchangeVars, Unasked
  <2>6. QED BY <1>3, <2>1, <2>2, <2>3, <2>4, <2>5 DEF Answered, Answering
<1>4. QED BY <1>1, <1>2, <1>3 DEF Data, Exchange, exchangeVars

-----------------------------------------------------------------------------
(* What a step keeps of an answer.                                         *)

\* Which answers fit depends on the request and the loaded model only.
LEMMA FitsSame ==
  ASSUME UNCHANGED <<engine, method, id, loaded>>, NEW m, NEW F, Fits(m, F, loaded)
  PROVE  Fits(m, F, loaded)'
BY DEF Fits, Sentence

\* What is written depends on the runner's queue only.
LEMMA WritingSame ==
  ASSUME UNCHANGED <<engine, toWrite>>, NEW m, NEW F, NEW c, NEW k, Writing(m, F, c, k)
  PROVE  Writing(m, F, c, k)'
BY DEF Writing, Output

\* What was received of the reply depends on the control channel only.
LEMMA ReceivingSame ==
  ASSUME UNCHANGED <<ctlBuffer, control, replies, reply>>, NEW m, NEW d, NEW c, Receiving(m, d, c)
  PROVE  Receiving(m, d, c)'
BY DEF Receiving

\* What was received of the stream depends on the audio channel only.
LEMMA StreamingSame ==
  ASSUME UNCHANGED <<audBuffer, audio, frames, reader>>, NEW F, NEW k, Streaming(F, k)
  PROVE  Streaming(F, k)'
BY DEF Streaming

\* Of a single message a read completes nothing or all.
LEMMA OneRead ==
  ASSUME NEW M \in Seq(Things), Len(M) = 1, NEW k \in Nat, NEW buffer \in Seq(Pieces),
         NEW pipe \in Seq(Pieces), Carries(M, 0, buffer, pipe, k),
         NEW n \in 0 .. Len(pipe), Clean(pipe, n)
  PROVE  \E e \in 0 .. 1 :
           /\ Carries(M, e, Kept(buffer \o First(n, pipe)), After(n, pipe), k)
           /\ Complete(buffer \o First(n, pipe)) = (IF e = 0 THEN <<>> ELSE M)
<1>1. PICK b : b = buffer \o First(n, pipe)
  OBVIOUS
<1>2. PICK d \in Nat : d = 0
  OBVIOUS
<1>3. Len(M) \in Nat /\ Carries(M, d, buffer, pipe, k)
  BY <1>2
<1>4. /\ Complete(b) \in Seq(Things) /\ d + Len(Complete(b)) <= Len(M)
      /\ \A i \in 1 .. Len(Complete(b)) : Complete(b)[i] = M[d + i]
      /\ Carries(M, d + Len(Complete(b)), Kept(b), After(n, pipe), k)
  <2>1. Reads(M, d, buffer, pipe, k, n)
    BY <1>2, <1>3, CarriesRead
  <2>2. QED BY <1>1, <2>1 DEF Reads
<1>5. PICK s \in Seq(Things) : s = Complete(b)
  BY <1>4
<1>6. Len(s) \in Nat /\ Len(s) \in 0 .. 1 /\ d + Len(s) = Len(s) /\ \A i \in 1 .. Len(s) : s[i] = M[i]
  BY <1>2, <1>4, <1>5, LenProperties
<1>7. CASE Len(s) = 0
  BY <1>1, <1>4, <1>5, <1>6, <1>7, EmptySeq
<1>8. CASE Len(s) = 1
  <2>1. s = M
    BY <1>6, <1>8, SeqEqual
  <2>2. QED BY <1>1, <1>4, <1>5, <1>6, <1>8, <2>1
<1>9. QED BY <1>6, <1>7, <1>8

\* The session is given up: what is in its pipes stays there.
LEMMA GivenUp ==
  ASSUME Inv, live, host # "idle", UNCHANGED <<engine, faulty>>, NEW why, GiveUp(why)
  PROVE  Exchange'
<1>1. UNCHANGED exchangeVars /\ reader' = reader /\ host' = "finish"
  BY DEF GiveUp, exchangeVars, callVars, readerVars, procVars
<1>2. QED BY <1>1, ExchangeSame DEF Inv

\* Giving a request up touches neither pipe nor parser.
LEMMA ControlFailed ==
  ASSUME Inv, live, host # "idle", UNCHANGED <<engine, faulty>>, NEW e, ControlFails(e)
  PROVE  Exchange'
<1>1. CASE method = "synthesize" /\ host = "await"
  <2>1. UNCHANGED exchangeVars /\ reader' = reader /\ host' = "join"
    BY <1>1 DEF ControlFails, exchangeVars, callVars, readerVars, procVars
  <2>2. QED BY <1>1, <2>1, ExchangeSame DEF Inv
<1>2. CASE ~(method = "synthesize" /\ host = "await")
  <2>1. GiveUp(IF method = "unload" THEN "unloaded" ELSE e)
    BY <1>2 DEF ControlFails
  <2>2. QED BY <2>1, GivenUp
<1>3. QED BY <1>1, <1>2

\* Nor does a write or a wait that is interrupted.
LEMMA HostFailsExchange ==
  ASSUME Inv, HostFails
  PROVE  Exchange'
<1>1. live /\ host # "idle" /\ UNCHANGED <<engine, faulty>>
  BY DEF Inv, Calling, HostFails
<1>2. ControlFails(Interruption) \/ ControlFails("closed")
  BY DEF HostFails
<1>3. QED BY <1>1, <1>2, ControlFailed

\* The control parser gets some pieces and completes the reply, or not yet.
LEMMA HostReadsExchange ==
  ASSUME Inv, HostReads
  PROVE  Exchange'
<1>1. /\ Data /\ live /\ host = "await" /\ replies = <<>> /\ reply = NoReply
      /\ UNCHANGED <<engine, faulty>>
  BY DEF Inv, Data, Calling, Waiting, HostReads
<1>2. PICK n \in 1 .. Len(control) :
        LET buffer == ctlBuffer \o First(n, control) IN
        IF Malformed(buffer)
        THEN ControlFails("malformed")
        ELSE /\ control' = After(n, control)
             /\ ctlBuffer' = Kept(buffer) /\ replies' = Complete(buffer)
             /\ UNCHANGED <<callVars, host, outgoing, reply, ctlError, cause, readerVars,
                            waitVars, stdin, audio, stdinClosed, procVars>>
  BY DEF HostReads
<1> DEFINE b == ctlBuffer \o First(n, control)
<1>3. CASE Malformed(b)
  BY <1>1, <1>2, <1>3, ControlFailed
<1>4. CASE ~Malformed(b)
  <2>1. /\ control' = After(n, control) /\ ctlBuffer' = Kept(b) /\ replies' = Complete(b)
        /\ UNCHANGED <<engine, live, method, id, host, outgoing, reply, audBuffer, frames, reader,
                       stdin, audio, inBuffer, toWrite, loaded>>
    BY <1>1, <1>2, <1>4 DEF callVars, readerVars, procVars
  <2>2. /\ ctlBuffer \in Seq(Pieces) /\ control \in Seq(Pieces) /\ Len(control) \in Nat
        /\ n \in 0 .. Len(control) /\ n \in 1 .. Len(control)
    BY <1>1, LenProperties DEF Data, ChannelTypes
  <2>3. Clean(control, n)
    BY <1>4, <2>2, Parsed
  <2>4. ~Asked
    <3>1. control # <<>> /\ control[1] # Junk
      BY <2>2, <2>3, EmptySeq DEF Clean
    <3>2. QED BY <3>1 DEF Asked, Quiet, Dirty
  <2>5. Answered
    BY <1>1, <2>4 DEF Data, Exchange
  <2>6. PICK m \in Msgs, F \in Seq(AudioFrames), d \in 0 .. 1, c \in 0 .. 2, k \in Nat :
          Answering(m, F, d, c, k)
    BY <2>5 DEF Answered
  <2> DEFINE M == <<m>>
  <2>7. /\ d = 0 /\ M # <<>> /\ m # NoReply /\ c \in Nat /\ 0 \in Nat
        /\ M \in Seq(Things) /\ Len(M) = 1 /\ M[1] = m
    <3>1. m # NoReply
      BY <2>6 DEF Answering, Fits, Message, NoReply
    <3>2. d = 0
      BY <1>1, <2>6, <3>1 DEF Answering, Receiving
    <3>3. m \in Things
      BY DEF Things
    <3>4. QED BY <3>1, <3>2, <3>3, OneIs
  <2>8. Carries(M, 0, ctlBuffer, control, c)
    BY <2>6, <2>7 DEF Answering, Receiving
  <2> HIDE DEF M
  <2>9. PICK e \in 0 .. 1 :
          /\ Carries(M, e, Kept(b), After(n, control), c)
          /\ Complete(b) = (IF e = 0 THEN <<>> ELSE M)
    BY <2>2, <2>3, <2>7, <2>8, OneRead
  <2>10. Receiving(m, e, c)'
    <3>1. Carries(M, e, ctlBuffer', control', c) /\ replies' = (IF e = 0 THEN <<>> ELSE M) /\ reply' = NoReply
      BY <1>1, <2>1, <2>9
    <3>2. e = 0 \/ e = 1
      OBVIOUS
    <3>3. QED BY <3>1, <3>2 DEF Receiving, M
  <2>12. Answering(m, F, e, c, k)'
    <3>1. Fits(m, F, loaded)'
      BY <2>1, <2>6, FitsSame DEF Answering
    <3>2. Writing(m, F, c, k)'
      BY <2>1, <2>6, WritingSame DEF Answering
    <3>3. Streaming(F, k)'
      BY <2>1, <2>6, StreamingSame DEF Answering
    <3>4. QED BY <2>10, <3>1, <3>2, <3>3 DEF Answering
  <2>13. Unasked'
    BY <2>1, <2>5 DEF Answered, Unasked
  <2>14. Answered'
    BY <2>12, <2>13 DEF Answered
  <2>15. QED BY <1>1, <2>1, <2>14 DEF Exchange
<1>5. QED BY <1>3, <1>4

\* The reply is taken from the queue and kept.
LEMMA TakeSpokenExchange ==
  ASSUME Inv, TakeSpoken
  PROVE  Exchange' /\ reply' # NoReply /\ reply' \in Msgs /\ replies' = <<>>
<1>1. /\ Data /\ live /\ host = "await" /\ replies # <<>>
      /\ reply' = Head(replies) /\ replies' = Tail(replies) /\ host' = "join"
      /\ UNCHANGED <<engine, live, method, id, outgoing, ctlBuffer, control, audBuffer, frames, reader,
                     stdin, audio, inBuffer, toWrite, loaded>>
  BY DEF Inv, Data, Calling, TakeSpoken, callVars, readerVars, procVars
<1>2. PICK m \in Msgs, F \in Seq(AudioFrames), c \in 0 .. 2, k \in Nat :
        /\ Answering(m, F, 1, c, k)
        /\ m # NoReply /\ m.id = id /\ m.what \in {"ok", "error"}
        /\ \/ replies = <<m>> /\ reply = NoReply /\ Head(replies) = m /\ Tail(replies) = <<>>
           \/ replies = <<>> /\ reply = m
  BY <1>1, Replied DEF Data
<1>3. reply' = m /\ replies' = <<>>
  BY <1>1, <1>2
<1>4. Receiving(m, 1, c)'
  BY <1>1, <1>2, <1>3 DEF Answering, Receiving
<1>5. Answering(m, F, 1, c, k)'
  BY <1>1, <1>2, <1>4, FitsSame, WritingSame, StreamingSame DEF Answering
<1>6. Unasked'
  BY <1>1, Replied DEF Data, Unasked
<1>7. Answered'
  BY <1>5, <1>6 DEF Answered
<1>8. QED BY <1>1, <1>2, <1>3, <1>7 DEF Exchange

\* The reply that is taken last completes its exchange.
LEMMA TakeStartedExchange ==
  ASSUME Inv, TakeStarted, Head(replies).what # "error"
  PROVE  /\ Exchange' /\ replies' = <<>> /\ (host' = "idle" => loaded')
         /\ reader = "none" /\ (method = "load" => loaded)
         /\ toWrite = <<>> /\ ctlBuffer = <<>> /\ Dirty(control) /\ Dirty(audio)
<1>1. /\ Data /\ live /\ host = "await" /\ replies # <<>> /\ reply = NoReply
      /\ reader = "none" /\ frames = <<>> /\ audBuffer = <<>>
      /\ method \in {"initialize", "load"} /\ call \in {"prepare", "synthesize"}
  BY DEF Inv, Data, Calling, Waiting, TakeStarted
<1>2. PICK m \in Msgs, F \in Seq(AudioFrames), c \in 0 .. 2, k \in Nat :
        /\ Answering(m, F, 1, c, k)
        /\ m # NoReply /\ m.id = id /\ m.what \in {"ok", "error"}
        /\ \/ replies = <<m>> /\ reply = NoReply /\ Head(replies) = m /\ Tail(replies) = <<>>
           \/ replies = <<>> /\ reply = m
  BY <1>1, Replied DEF Data
<1>3. m.what = "ok" /\ Head(replies) = m /\ Tail(replies) = <<>>
  BY <1>1, <1>2
<1>4. F = <<>> /\ (method = "load" => loaded)
  BY <1>1, <1>2, <1>3 DEF Answering, Fits
<1>5. toWrite = <<>> /\ ctlBuffer = <<>> /\ Dirty(control) /\ Dirty(audio)
  <2>1. Len(frames) = Len(F)
    BY <1>1, <1>4
  <2>2. QED BY <1>1, <1>2, <2>1, AllTaken DEF Data
<1>6. Unasked
  BY <1>1, Replied DEF Data
<1>7. /\ replies' = <<>>
      /\ UNCHANGED <<live, ctlBuffer, reply, reader, audBuffer, frames, stdin, control, audio,
                     inBuffer, toWrite, loaded>>
  BY <1>3 DEF TakeStarted, readerVars, procVars
<1>8. Quiet'
  BY <1>1, <1>5, <1>7 DEF Quiet
<1>9. CASE method = "load" /\ call = "prepare"
  <2>1. host' = "idle" /\ outgoing' = outgoing
    BY <1>3, <1>9 DEF TakeStarted
  <2>2. Unasked'
    BY <1>6, <1>7, <2>1 DEF Unasked
  <2>3. QED BY <1>1, <1>4, <1>5, <1>7, <1>8, <1>9, <2>1, <2>2 DEF Exchange
<1>10. CASE ~(method = "load" /\ call = "prepare")
  <2> DEFINE next == IF method = "initialize" THEN "load" ELSE call
  <2>1. Request(next, id + 1) /\ id + 1 \in Nat
    BY <1>1, <1>3, <1>10 DEF TakeStarted, Data, ChannelTypes
  <2>2. next \in {"load", "synthesize"} /\ (next = "synthesize" => loaded)
    BY <1>1, <1>4, <1>10
  <2>3. stdin' = <<>> /\ inBuffer' = <<>> /\ reader' # "done"
    BY <1>1, <1>6, <1>7 DEF Unasked
  <2> HIDE DEF next
  <2>4. Asked' /\ host' = "write"
    BY <1>7, <1>8, <2>1, <2>2, <2>3, RequestAsked, RequestTypes
  <2>5. QED BY <1>1, <1>4, <1>5, <1>7, <2>4 DEF Exchange
<1>11. QED BY <1>9, <1>10

\* Without an error the stream has ended and the reply is there.
LEMMA NoFirstError ==
  ASSUME Inv, host = "join", reader \in {"done", "failed"}, FirstError = "none"
  PROVE  reader = "done" /\ reply # NoReply /\ live /\ method = "synthesize"
<1>1. audError = "none" /\ ctlError = "none"
  BY DEF FirstError
<1>2. QED BY <1>1 DEF Inv, Errs, Waiting, Calling

\* What was received is what was sent: the whole sentence, if the reply is ok.
LEMMA JoinExchange ==
  ASSUME Inv, Join, FirstError = "none"
  PROVE  /\ Exchange' /\ (reply.what # "error" => frames = Sentence(id))
         /\ audBuffer = <<>> /\ reader = "done" /\ live
<1>1. /\ Data /\ live /\ host = "join" /\ reader = "done" /\ reply # NoReply /\ method = "synthesize"
  BY NoFirstError DEF Inv, Data, Join
<1>2. PICK m \in Msgs, F \in Seq(AudioFrames), c \in 0 .. 2, k \in Nat :
        /\ Answering(m, F, 1, c, k)
        /\ m # NoReply /\ m.id = id /\ m.what \in {"ok", "error"}
        /\ \/ replies = <<m>> /\ reply = NoReply /\ Head(replies) = m /\ Tail(replies) = <<>>
           \/ replies = <<>> /\ reply = m
  BY <1>1, Replied DEF Data
<1>3. replies = <<>> /\ reply = m
  BY <1>1, <1>2
<1>4. Len(frames) = Len(F) /\ (\A j \in 1 .. Len(frames) : frames[j] = F[j])
  BY <1>1, <1>2 DEF Answering, Streaming
<1>5. loaded /\ (m.what = "ok" => F = Sentence(id))
  BY <1>1, <1>2 DEF Answering, Fits
<1>6. toWrite = <<>> /\ ctlBuffer = <<>> /\ audBuffer = <<>> /\ Dirty(control) /\ Dirty(audio)
  BY <1>1, <1>2, <1>4, AllTaken DEF Data
<1>7. frames = F
  <2>1. AudioFrames \subseteq Things
    BY DEF Things
  <2>2. F \in Seq(Things) /\ frames \in Seq(Things)
    BY <1>1, <2>1, SeqMonotonic DEF Data, ChannelTypes
  <2>3. QED BY <1>4, <2>2, SeqEqual
<1>8. /\ host' = "idle" /\ reply' = NoReply /\ frames' = <<>>
      /\ UNCHANGED <<live, outgoing, ctlBuffer, replies, audBuffer, stdin, control, audio,
                     inBuffer, toWrite, loaded>>
  BY DEF Join, procVars
<1>9. Unasked
  BY <1>1, <1>2, Replied DEF Data
<1>10. Unasked' /\ Quiet'
  BY <1>3, <1>6, <1>8, <1>9 DEF Unasked, Quiet
<1>11. Exchange'
  BY <1>1, <1>5, <1>8, <1>10 DEF Exchange
<1>12. QED BY <1>1, <1>2, <1>3, <1>5, <1>6, <1>7, <1>11

\* A session that is dropped leaves nothing in any channel.
LEMMA DroppedExchange ==
  ASSUME Inv, Dropped
  PROVE  Exchange'
<1>1. /\ ~live' /\ outgoing' = <<>> /\ stdin' = <<>> /\ inBuffer' = <<>> /\ replies' = <<>>
      /\ reply' = NoReply /\ ctlBuffer' = <<>> /\ control' = <<>> /\ frames' = <<>>
      /\ audBuffer' = <<>> /\ audio' = <<>> /\ toWrite' = <<>>
  BY DEF Dropped
<1>2. Unasked' /\ Quiet'
  BY <1>1, EmptyIs DEF Unasked, Quiet
<1>3. QED BY <1>1, <1>2 DEF Exchange

\* The frames of a read follow those received before, and only the last one of
\* the stream ends it.
Continues(F, s, old, new, at) ==
  /\ Len(new) = Len(old) + Len(s)
  /\ \A j \in 1 .. Len(new) : new[j] = F[j]
  /\ at = "done" => Len(new) = Len(F)
  /\ at = "reading" => Len(new) < Len(F)

\* A position that is both the last and bounded is the end.
LEMMA AtTheEnd ==
  ASSUME NEW a \in Nat, NEW l \in Nat, NEW i \in 1 .. l, NEW f \in Nat, a + l <= f, a + i = f
  PROVE  a + l = f
OBVIOUS

\* Frames received after others continue the stream, and the reader is done
\* exactly at its last frame.
LEMMA FramesAdd ==
  ASSUME NEW F, Len(F) \in Nat, \A j \in 1 .. Len(F) : F[j].last <=> j = Len(F),
         NEW old \in Seq(Things), Len(old) < Len(F), \A j \in 1 .. Len(old) : old[j] = F[j],
         NEW s \in Seq(Things), Len(old) + Len(s) <= Len(F),
         \A i \in 1 .. Len(s) : s[i] = F[Len(old) + i],
         NEW new, new = old \o s,
         NEW at, at = IF \E i \in DOMAIN s : s[i].last THEN "done" ELSE "reading"
  PROVE  Continues(F, s, old, new, at)
<1>1. /\ Len(old) \in Nat /\ Len(s) \in Nat /\ DOMAIN s = 1 .. Len(s)
      /\ Len(old \o s) = Len(old) + Len(s)
      /\ \A i \in 1 .. Len(old) + Len(s) : (old \o s)[i] = IF i <= Len(old) THEN old[i] ELSE s[i - Len(old)]
  BY LenProperties, ConcatProperties
<1>2. Len(new) = Len(old) + Len(s)
  BY <1>1
<1>3. ASSUME NEW j \in 1 .. Len(new) PROVE new[j] = F[j]
  <2>1. CASE j <= Len(old)
    <3>1. new[j] = old[j] /\ j \in 1 .. Len(old)
      BY <1>1, <1>2, <2>1
    <3>2. QED BY <3>1
  <2>2. CASE j > Len(old)
    <3>1. new[j] = s[j - Len(old)] /\ j - Len(old) \in 1 .. Len(s) /\ Len(old) + (j - Len(old)) = j
      BY <1>1, <1>2, <2>2
    <3>2. QED BY <3>1
  <2>3. QED BY <1>1, <1>2, <2>1, <2>2
<1>4. ASSUME at = "done" PROVE Len(new) = Len(F)
  <2>1. PICK i \in 1 .. Len(s) : s[i].last
    BY <1>1, <1>4
  <2>2. Len(old) + i \in 1 .. Len(F) /\ F[Len(old) + i].last
    BY <1>1, <2>1
  <2>3. Len(old) + i = Len(F)
    BY <2>2
  <2>4. Len(old) + Len(s) = Len(F)
    BY <1>1, <2>3, AtTheEnd
  <2>5. QED BY <1>2, <2>4
<1>5. ASSUME Len(new) = Len(F) PROVE at # "reading"
  <2>1. Len(s) \in 1 .. Len(s) /\ Len(old) + Len(s) = Len(F) /\ Len(F) \in 1 .. Len(F)
    BY <1>1, <1>2, <1>5
  <2>2. s[Len(s)] = F[Len(F)]
    BY <2>1
  <2>3. s[Len(s)].last
    BY <2>1, <2>2
  <2>4. QED BY <1>1, <2>1, <2>3
<1>6. Len(new) <= Len(F) /\ Len(new) \in Nat
  BY <1>1, <1>2
<1>7. QED BY <1>2, <1>3, <1>4, <1>5, <1>6 DEF Continues

\* The audio parser gets some pieces.
LEMMA ReaderReadsExchange ==
  ASSUME Inv, ReaderReads
  PROVE  Exchange'
<1>1. /\ Data /\ reader = "reading" /\ live /\ host # "idle" /\ id \in Nat
      /\ UNCHANGED <<engine, live, method, id, host, outgoing, ctlBuffer, replies, reply, stdin, control,
                     inBuffer, toWrite, loaded>>
  BY DEF Inv, Data, ChannelTypes, Calling, Waiting, ReaderReads, callVars, hostVars, procVars
<1>2. PICK n \in 1 .. Len(audio) :
       LET buffer == audBuffer \o First(n, audio) IN
       IF Malformed(buffer)
       THEN AudioFails("malformed")
       ELSE /\ audio' = After(n, audio)
            /\ audBuffer' = Kept(buffer)
            /\ frames' = frames \o Complete(buffer)
            /\ reader' = IF \E i \in DOMAIN Complete(buffer) : Complete(buffer)[i].last
                         THEN "done" ELSE "reading"
            /\ UNCHANGED <<audError, audFirst, abort>>
  BY DEF ReaderReads
<1> DEFINE b == audBuffer \o First(n, audio)
<1>3. CASE Malformed(b)
  <2>1. AudioFails("malformed")
    BY <1>2, <1>3
  <2>2. UNCHANGED exchangeVars /\ reader' = "failed"
    BY <1>1, <2>1 DEF AudioFails, exchangeVars
  <2>3. QED BY <1>1, <2>2, ExchangeSame DEF Data
<1>4. CASE ~Malformed(b)
  <2>1. /\ audio' = After(n, audio) /\ audBuffer' = Kept(b) /\ frames' = frames \o Complete(b)
        /\ reader' = IF \E i \in DOMAIN Complete(b) : Complete(b)[i].last THEN "done" ELSE "reading"
    BY <1>2, <1>4
  <2>2. /\ audBuffer \in Seq(Pieces) /\ audio \in Seq(Pieces) /\ Len(audio) \in Nat
        /\ n \in 0 .. Len(audio) /\ n \in 1 .. Len(audio) /\ frames \in Seq(Things) /\ Len(frames) \in Nat
    BY <1>1, LenProperties DEF Data, ChannelTypes
  <2>3. Clean(audio, n)
    BY <1>4, <2>2, Parsed
  <2>4. ~Asked
    <3>1. audio # <<>> /\ audio[1] # Junk
      BY <2>2, <2>3, EmptySeq DEF Clean
    <3>2. QED BY <3>1 DEF Asked, Quiet, Dirty
  <2>5. Answered
    BY <1>1, <2>4 DEF Data, Exchange
  <2>6. PICK m \in Msgs, F \in Seq(AudioFrames), d \in 0 .. 1, c \in 0 .. 2, k \in Nat :
          Answering(m, F, d, c, k)
    BY <2>5 DEF Answered
  <2>7. /\ Carries(F, Len(frames), audBuffer, audio, k)
        /\ \A j \in 1 .. Len(frames) : frames[j] = F[j]
        /\ Len(frames) < Len(F) /\ Len(F) \in Nat
    BY <1>1, <2>6, LenProperties DEF Answering, Streaming
  <2>8. method = "synthesize" /\ \A j \in 1 .. Len(F) : F[j].last <=> j = Len(F)
    BY <1>1, <2>6 DEF Answering, Fits, Inv, Waiting
  <2>9. Reads(F, Len(frames), audBuffer, audio, k, n)
    BY <2>2, <2>3, <2>7, CarriesRead
  <2>10. PICK s : s = Complete(b)
    OBVIOUS
  <2>11. /\ s \in Seq(Things) /\ Len(s) \in Nat /\ Len(frames) + Len(s) <= Len(F)
         /\ \A i \in 1 .. Len(s) : s[i] = F[Len(frames) + i]
         /\ Carries(F, Len(frames) + Len(s), audBuffer', audio', k)
         /\ DOMAIN s = 1 .. Len(s)
    <3>1. /\ s \in Seq(Things) /\ Len(frames) + Len(s) <= Len(F)
          /\ \A i \in 1 .. Len(s) : s[i] = F[Len(frames) + i]
          /\ Carries(F, Len(frames) + Len(s), audBuffer', audio', k)
      BY <2>1, <2>9, <2>10 DEF Reads
    <3>2. QED BY <3>1, LenProperties
  <2>12. /\ frames' = frames \o s
         /\ reader' = IF \E i \in DOMAIN s : s[i].last THEN "done" ELSE "reading"
    BY <2>1, <2>10
  <2>13. Continues(F, s, frames, frames', reader')
    BY <2>2, <2>7, <2>8, <2>11, <2>12, FramesAdd
  <2>14. Streaming(F, k)'
    BY <2>11, <2>13 DEF Streaming, Continues
  <2>15. Answering(m, F, d, c, k)'
    BY <1>1, <2>6, <2>14, FitsSame, WritingSame, ReceivingSame DEF Answering
  <2>16. Unasked'
    BY <1>1, <2>5 DEF Answered, Unasked
  <2>17. Answered'
    BY <2>15, <2>16 DEF Answered
  <2>18. QED BY <1>1, <2>17 DEF Exchange
<1>5. QED BY <1>3, <1>4

\* A reader that fails keeps its frames and takes no more.
LEMMA ReaderFailsExchange ==
  ASSUME Inv, ReaderFails
  PROVE  Exchange'
<1>1. UNCHANGED exchangeVars /\ reader' = "failed" /\ host' = host
  BY DEF ReaderFails, AudioFails, exchangeVars, callVars, hostVars, procVars
<1>2. QED BY <1>1, ExchangeSame DEF Inv

-----------------------------------------------------------------------------
(* The exchange: the process.                                              *)

\* The runner reads its request and answers it, or has not got all of it.
LEMMA ProcReadsExchange ==
  ASSUME Inv, ProcReads
  PROVE  Exchange' /\ proc' = proc /\ toWrite' \in Seq(Outputs) /\ loaded' \in BOOLEAN
<1>1. /\ Data /\ live /\ toWrite = <<>> /\ id \in Nat /\ engine \in Engines /\ loaded \in BOOLEAN
      /\ UNCHANGED <<engine, faulty, live, method, id, host, outgoing, ctlBuffer, replies, reply, audBuffer,
                     frames, reader, control, audio>>
  BY DEF Inv, TypeOK, Data, ChannelTypes, Calling, ProcReads, Running, callVars, hostVars, readerVars
<1>2. PICK n \in 1 .. Len(stdin) :
       LET buffer == inBuffer \o First(n, stdin) IN
       /\ stdin' = After(n, stdin)
       /\ inBuffer' = Kept(buffer)
       /\ IF Complete(buffer) = <<>>
          THEN UNCHANGED <<proc, toWrite, loaded>>
          ELSE LET m == Complete(buffer)[1] IN
               \/ \E a \in Handles(m) :
                    toWrite' = a.out /\ loaded' = a.loaded /\ UNCHANGED proc
               \/ /\ Handles(m) = {}
                  /\ proc' = "exited" /\ UNCHANGED <<toWrite, loaded>>
  BY DEF ProcReads
<1> DEFINE b == inBuffer \o First(n, stdin)
<1>3. /\ inBuffer \in Seq(Pieces) /\ stdin \in Seq(Pieces) /\ Len(stdin) \in Nat
      /\ n \in 0 .. Len(stdin) /\ n \in 1 .. Len(stdin) /\ stdin # <<>>
      /\ toWrite \in Seq(Outputs)
  BY <1>1, LenProperties, EmptySeq DEF Data, ChannelTypes
<1>4. host # "idle" /\ Asked
  BY <1>1, <1>3 DEF Data, Exchange, Answered, Unasked
<1>5. method \in {"initialize", "load", "synthesize", "unload"} /\ (method = "synthesize" => loaded)
  BY <1>1, <1>4 DEF Inv, Calling, Asked
<1> DEFINE M == <<Message(method, id)>>
           k == 2 - Len(outgoing)
<1>6. M \in Seq(Things) /\ Len(M) = 1 /\ M[1] = Message(method, id) /\ M # <<>>
  <2>1. Message(method, id) \in Things
    BY <1>1, <1>5 DEF Message, Msgs, Things, Whats
  <2>2. QED BY <2>1, OneIs
<1>7. Len(outgoing) <= 2 /\ Len(outgoing) \in Nat /\ outgoing \in Seq(Pieces)
  BY <1>1, <1>4, LenProperties DEF Asked, Data, ChannelTypes
<1>8. Carries(M, 0, inBuffer, stdin, k) /\ Clean(stdin, Len(stdin))
  BY <1>4 DEF Asked
<1>9. k \in Nat
  BY <1>7
<1> HIDE DEF M, k
<1>10. Clean(stdin, n)
  BY <1>3, <1>8 DEF Clean
<1>11. PICK e \in 0 .. 1 :
         /\ Carries(M, e, Kept(b), After(n, stdin), k)
         /\ Complete(b) = (IF e = 0 THEN <<>> ELSE M)
  BY <1>3, <1>6, <1>8, <1>9, <1>10, OneRead
<1>12. stdin' = After(n, stdin) /\ inBuffer' = Kept(b)
  BY <1>2
<1>13. Clean(stdin', Len(stdin'))
  <2>1. /\ Len(stdin') = Len(stdin) - n
        /\ \A i \in 1 .. Len(stdin) - n : stdin'[i] = stdin[n + i]
    BY <1>3, <1>12, AfterOf
  <2>2. \A i \in 1 .. Len(stdin) - n : n + i \in 1 .. Len(stdin)
    BY <1>3
  <2>3. QED BY <1>8, <2>1, <2>2 DEF Clean
<1>14. CASE e = 0
  <2>1. UNCHANGED <<proc, toWrite, loaded>>
    BY <1>2, <1>11, <1>14
  <2>2. Carries(M, 0, inBuffer', stdin', k)
    BY <1>11, <1>12, <1>14
  <2>3. M' = M /\ k' = k
    BY <1>1 DEF M, k
  <2>4. Quiet'
    BY <1>1, <1>4, <2>1 DEF Asked, Quiet
  <2>5. Asked'
    BY <1>1, <1>4, <1>13, <2>1, <2>2, <2>3, <2>4 DEF Asked, M, k
  <2>6. QED BY <1>1, <1>3, <1>4, <2>1, <2>5 DEF Exchange
<1>15. CASE e = 1
  <2>1. Complete(b) = M
    BY <1>11, <1>15
  <2>2. /\ Handles(Message(method, id)) # {}
        /\ \A a \in Handles(Message(method, id)) : Answers(a)
    BY <1>1, <1>5, AnswersAre
  <2>3. PICK a \in Handles(Message(method, id)) : toWrite' = a.out /\ loaded' = a.loaded /\ UNCHANGED proc
    BY <1>2, <1>6, <2>1, <2>2
  <2>4. PICK m \in Msgs, F \in Seq(AudioFrames) : Fits(m, F, a.loaded) /\ Writes(a.out, m, F)
    BY <2>2 DEF Answers
  <2>5. Carries(M, 1, inBuffer', stdin', k)
    BY <1>11, <1>12, <1>15
  <2>6. k = 2 /\ inBuffer' = <<>> /\ stdin' = <<>>
    <3>1. PICK l \in Nat : l = 1
      OBVIOUS
    <3>2. inBuffer' \in Seq(Pieces) /\ stdin' \in Seq(Pieces)
      <4>1. stdin' \in Seq(Pieces)
        BY <1>3, <1>12, AfterOf
      <4>2. PICK p \in Seq(Pieces) : p = b
        BY <1>3, Read
      <4>3. Kept(p) \in Seq(Pieces)
        BY Halves
      <4>4. QED BY <1>12, <4>1, <4>2, <4>3
    <3>3. Carries(M, l, inBuffer', stdin', k) /\ Len(M) \in Nat /\ l = Len(M)
      BY <1>6, <2>5, <3>1
    <3>4. k = 2 * Len(M) /\ inBuffer' = <<>> /\ (Clean(stdin', Len(stdin')) => stdin' = <<>>)
      BY <1>9, <3>2, <3>3, CarriesAll
    <3>5. QED BY <1>6, <1>13, <3>4
  <2>7. Unasked'
    <3>1. Len(outgoing) = 0
      BY <1>7, <2>6 DEF k
    <3>2. outgoing = <<>>
      BY <1>7, <3>1, EmptySeq
    <3>3. QED BY <1>1, <2>6, <3>2 DEF Unasked
  <2>8. /\ ctlBuffer = <<>> /\ Dirty(control) /\ replies = <<>> /\ reply = NoReply
        /\ audBuffer = <<>> /\ Dirty(audio) /\ frames = <<>> /\ reader # "done"
        /\ control \in Seq(Pieces) /\ audio \in Seq(Pieces)
    BY <1>1, <1>4 DEF Asked, Quiet, Data, ChannelTypes
  <2>9. Len(F) \in Nat /\ 0 \in 0 .. 1 /\ 0 \in 0 .. 2 /\ 0 \in Nat /\ Len(<<m>>) \in Nat
    <3>1. m \in Things
      BY DEF Things
    <3>2. QED BY <3>1, LenProperties, OneIs
  <2>10. Fits(m, F, loaded)'
    BY <1>1, <2>3, <2>4 DEF Fits, Sentence
  <2>11. Writing(m, F, 0, 0)'
    <3>1. Len(toWrite') = 2 * Len(F) + 2 /\ (\A i \in 1 .. 2 * Len(F) + 2 : toWrite'[i] = Output(m, F, i))
      BY <2>3, <2>4 DEF Writes
    <3>2. 2 * Len(F) + 2 - 0 - 0 = 2 * Len(F) + 2 /\ \A i \in 1 .. 2 * Len(F) + 2 : 0 + 0 + i = i
      BY <2>9
    <3>3. \A i \in 1 .. Len(toWrite') : toWrite'[i] = Output(m, F, 0 + 0 + i)
      BY <3>1, <3>2
    <3>4. \A i : Output(m, F, i)' = Output(m, F, i)
      BY <1>1 DEF Output
    <3>5. QED BY <3>1, <3>2, <3>3, <3>4 DEF Writing, Output
  <2>12. Receiving(m, 0, 0)'
    <3>1. Carries(<<m>>, 0, <<>>, control, 0)
      BY <2>8, <2>9, CarriesNone
    <3>2. QED BY <1>1, <2>8, <3>1 DEF Receiving
  <2>13. Streaming(F, 0)'
    <3>1. Carries(F, 0, <<>>, audio, 0)
      BY <2>8, <2>9, CarriesNone
    <3>2. Len(frames) = 0 /\ frames = <<>>
      BY <2>8, EmptySeq
    <3>3. reader = "reading" => Len(F) > 0
      BY <2>4, <2>9 DEF Fits, Inv, Waiting
    <3>4. QED BY <1>1, <2>8, <2>9, <3>1, <3>2, <3>3 DEF Streaming
  <2>14. Answered'
    BY <2>7, <2>9, <2>10, <2>11, <2>12, <2>13 DEF Answered, Answering
  <2>15. toWrite' \in Seq(Outputs) /\ loaded' \in BOOLEAN
    BY <2>2, <2>3, <2>4 DEF Answers, Writes
  <2>16. QED BY <1>1, <1>4, <2>3, <2>14, <2>15 DEF Exchange
<1>16. QED BY <1>14, <1>15

\* Steps that touch neither a pipe nor a parser.
LEMMA OtherExchange ==
  ASSUME Inv, ProcEndOfInput \/ ProcDies \/ Kill \/ Expire \/ Cancel
  PROVE  Exchange'
<1>1. UNCHANGED exchangeVars /\ reader' = reader /\ host' = host
  BY DEF ProcEndOfInput, ProcDies, Kill, Expire, Cancel, exchangeVars, callVars, hostVars, readerVars,
    procVars
<1>2. QED BY <1>1, ExchangeSame DEF Inv

\* The write that is next.
LEMMA NextWrite ==
  ASSUME NEW m, NEW F, Len(F) \in Nat, NEW c \in 0 .. 2, NEW k \in Nat, k <= 2 * Len(F),
         toWrite \in Seq(Outputs), toWrite # <<>>, Writing(m, F, c, k), engine' = engine,
         toWrite' = Tail(toWrite)
  PROVE  /\ Head(toWrite) = toWrite[1] /\ toWrite[1] \in Outputs /\ toWrite' \in Seq(Outputs)
         /\ \/ /\ toWrite[1] = [to |-> "control", piece |-> Piece(<<m>>, c + 1)]
               /\ c + 1 \in 1 .. 2 /\ Writing(m, F, c + 1, k)'
            \/ /\ toWrite[1] = [to |-> "audio", piece |-> Piece(F, k + 1)]
               /\ k < 2 * Len(F) /\ Writing(m, F, c, k + 1)'
<1>1. Len(toWrite) \in Nat /\ Len(toWrite) # 0 /\ toWrite[1] \in Outputs
  <2>1. Len(toWrite) \in Nat /\ Len(toWrite) # 0
    BY EmptySeq, LenProperties
  <2>2. 1 \in 1 .. Len(toWrite)
    BY <2>1
  <2>3. QED BY <2>1, <2>2, ElementOfSeq
<1>2. /\ Head(toWrite) = toWrite[1] /\ toWrite' \in Seq(Outputs) /\ Len(toWrite') = Len(toWrite) - 1
      /\ \A i \in 1 .. Len(toWrite) - 1 : toWrite'[i] = toWrite[i + 1]
  BY <1>1, HeadTailProperties
<1> DEFINE l == Len(F)
<1>3. /\ Len(toWrite) = 2 * l + 2 - c - k
      /\ \A i \in 1 .. Len(toWrite) : toWrite[i] = Output(m, F, c + k + i)
      /\ IF engine = "qwen" THEN c = 0 \/ k = 2 * l ELSE c = 2 \/ k = 0
  BY DEF Writing
<1>4. l \in Nat /\ k <= 2 * l
  OBVIOUS
<1> HIDE DEF l
<1>5. toWrite[1] = Output(m, F, c + k + 1)
  <2>1. 1 \in 1 .. Len(toWrite)
    BY <1>1
  <2>2. QED BY <1>3, <2>1
<1>6. \A i \in 1 .. Len(toWrite') : toWrite'[i] = Output(m, F, c + k + 1 + i)
  <2> SUFFICES ASSUME NEW i \in 1 .. Len(toWrite') PROVE toWrite'[i] = Output(m, F, c + k + 1 + i)
    OBVIOUS
  <2>1. i \in 1 .. Len(toWrite) - 1 /\ i + 1 \in 1 .. Len(toWrite) /\ c + k + (i + 1) = c + k + 1 + i
    BY <1>1, <1>2
  <2>2. toWrite'[i] = toWrite[i + 1] /\ toWrite[i + 1] = Output(m, F, c + k + (i + 1))
    BY <1>2, <1>3, <2>1
  <2>3. QED BY <2>1, <2>2
<1>7. \A i : Output(m, F, i)' = Output(m, F, i)
  BY DEF Output
<1>8. CASE IF engine = "qwen" THEN k = 2 * l ELSE c # 2
  <2>1. c + 1 \in 1 .. 2 /\ (engine # "qwen" => k = 0)
    BY <1>1, <1>3, <1>4, <1>8
  <2>2. toWrite[1] = [to |-> "control", piece |-> Piece(<<m>>, c + 1)]
    <3>1. CASE engine = "qwen"
      <4>1. ~(c + k + 1 <= 2 * l) /\ c + k + 1 - 2 * l = c + 1
        BY <1>4, <1>8, <3>1
      <4>2. QED BY <1>5, <3>1, <4>1 DEF Output, l
    <3>2. CASE engine # "qwen"
      <4>1. c + k + 1 <= 2 /\ c + k + 1 = c + 1
        BY <2>1, <3>2
      <4>2. QED BY <1>5, <3>2, <4>1 DEF Output
    <3>3. QED BY <3>1, <3>2
  <2>3. Len(toWrite') = 2 * l + 2 - (c + 1) - k /\ (\A i \in 1 .. Len(toWrite') : c + k + 1 + i = (c + 1) + k + i)
    BY <1>1, <1>2, <1>3, <1>4
  <2>4. \A i \in 1 .. Len(toWrite') : toWrite'[i] = Output(m, F, (c + 1) + k + i)
    BY <1>6, <2>3
  <2>5. IF engine = "qwen" THEN c + 1 = 0 \/ k = 2 * l ELSE c + 1 = 2 \/ k = 0
    BY <1>8, <2>1
  <2>6. Writing(m, F, c + 1, k)'
    BY <1>7, <2>3, <2>4, <2>5 DEF Writing, l
  <2>7. QED BY <1>1, <1>2, <2>1, <2>2, <2>6
<1>9. CASE ~(IF engine = "qwen" THEN k = 2 * l ELSE c # 2)
  <2>1. k < 2 * l /\ (IF engine = "qwen" THEN c = 0 ELSE c = 2)
    BY <1>1, <1>3, <1>4, <1>9
  <2>2. toWrite[1] = [to |-> "audio", piece |-> Piece(F, k + 1)]
    <3>1. CASE engine = "qwen"
      <4>1. c + k + 1 <= 2 * l /\ c + k + 1 = k + 1
        BY <1>4, <2>1, <3>1
      <4>2. QED BY <1>5, <3>1, <4>1 DEF Output, l
    <3>2. CASE engine # "qwen"
      <4>1. ~(c + k + 1 <= 2) /\ c + k + 1 - 2 = k + 1
        BY <2>1, <3>2
      <4>2. QED BY <1>5, <3>2, <4>1 DEF Output
    <3>3. QED BY <3>1, <3>2
  <2>3. Len(toWrite') = 2 * l + 2 - c - (k + 1) /\ (\A i \in 1 .. Len(toWrite') : c + k + 1 + i = c + (k + 1) + i)
    BY <1>1, <1>2, <1>3, <1>4
  <2>4. \A i \in 1 .. Len(toWrite') : toWrite'[i] = Output(m, F, c + (k + 1) + i)
    BY <1>6, <2>3
  <2>5. IF engine = "qwen" THEN c = 0 \/ k + 1 = 2 * l ELSE c = 2 \/ k + 1 = 0
    BY <2>1
  <2>6. Writing(m, F, c, k + 1)'
    BY <1>7, <2>3, <2>4, <2>5 DEF Writing, l
  <2>7. QED BY <1>1, <1>2, <2>1, <2>2, <2>6 DEF l
<1>10. QED BY <1>8, <1>9

\* A piece of the answer goes into its pipe.
Grows(new, pipe) == \E p \in Pieces : p # Junk /\ new = Append(pipe, p)

\* A piece fits into a pipe that is not full.
LEMMA RoomFor ==
  ASSUME NEW pipe \in Seq(Pieces), NEW p \in Pieces, Len(pipe) < Capacity
  PROVE  Append(pipe, p) \in Seq(Pieces) /\ Len(Append(pipe, p)) <= Capacity
<1>1. Append(pipe, p) \in Seq(Pieces) /\ Len(Append(pipe, p)) = Len(pipe) + 1 /\ Len(pipe) \in Nat
  BY AppendProperties, LenProperties
<1>2. Capacity \in Nat
  BY RunnerBounds
<1>3. QED BY <1>1, <1>2

\* The runner's next write is the next piece of its answer, on its pipe.
LEMMA ProcWritesExchange ==
  ASSUME Inv, ProcWrites
  PROVE  /\ Exchange' /\ toWrite' \in Seq(Outputs)
         /\ \/ Grows(control', control) /\ Len(control) < Capacity /\ audio' = audio
            \/ Grows(audio', audio) /\ Len(audio) < Capacity /\ control' = control
<1>1. /\ Data /\ live /\ toWrite # <<>> /\ toWrite' = Tail(toWrite) /\ toWrite \in Seq(Outputs)
      /\ UNCHANGED <<engine, live, method, id, host, outgoing, ctlBuffer, replies, reply, audBuffer, frames,
                     reader, stdin, inBuffer, loaded>>
  BY DEF Inv, Data, ChannelTypes, Calling, ProcWrites, Running, callVars, hostVars, readerVars
<1>2. host # "idle" /\ Answered
  BY <1>1 DEF Data, Exchange, Asked, Quiet
<1>3. PICK m \in Msgs, F \in Seq(AudioFrames), d \in 0 .. 1, c \in 0 .. 2, k \in Nat :
        Answering(m, F, d, c, k)
  BY <1>2 DEF Answered
<1>4. /\ Len(F) \in Nat /\ k <= 2 * Len(F) /\ Writing(m, F, c, k)
      /\ Carries(<<m>>, d, ctlBuffer, control, c) /\ Carries(F, Len(frames), audBuffer, audio, k)
  BY <1>3, LenProperties DEF Answering, Receiving, Streaming, Carries
<1>5. /\ Head(toWrite) = toWrite[1] /\ toWrite[1] \in Outputs /\ toWrite' \in Seq(Outputs)
      /\ \/ /\ toWrite[1] = [to |-> "control", piece |-> Piece(<<m>>, c + 1)]
            /\ c + 1 \in 1 .. 2 /\ Writing(m, F, c + 1, k)'
         \/ /\ toWrite[1] = [to |-> "audio", piece |-> Piece(F, k + 1)]
            /\ k < 2 * Len(F) /\ Writing(m, F, c, k + 1)'
  BY <1>1, <1>4, NextWrite
<1>6. Fits(m, F, loaded)' /\ Unasked'
  BY <1>1, <1>2, <1>3, FitsSame DEF Answering, Answered, Unasked
<1>7. /\ control \in Seq(Pieces) /\ ctlBuffer \in Seq(Pieces) /\ audio \in Seq(Pieces)
      /\ audBuffer \in Seq(Pieces) /\ Len(frames) \in Nat /\ d \in Nat /\ c \in Nat
      /\ c + 1 \in Nat /\ k + 1 \in Nat
  BY <1>1, LenProperties DEF Data, ChannelTypes
<1> DEFINE p == toWrite[1].piece
<1>8. p \in Pieces
  BY <1>5 DEF Outputs
<1>9. CASE toWrite[1] = [to |-> "control", piece |-> Piece(<<m>>, c + 1)]
           /\ c + 1 \in 1 .. 2 /\ Writing(m, F, c + 1, k)'
  <2>1. control' = Append(control, p) /\ audio' = audio /\ Len(control) < Capacity
    BY <1>5, <1>9 DEF ProcWrites
  <2>2. p = Piece(<<m>>, c + 1)
    BY <1>9
  <2> DEFINE M == <<m>>
  <2>3. Len(M) = 1
    BY OneIs
  <2>4. p = Piece(M, c + 1) /\ Carries(M, d, ctlBuffer, control, c)
    BY <1>4, <2>2
  <2> HIDE DEF M, p
  <2>5. p # Junk
    BY <1>7, <2>4, PieceIs
  <2>6. Len(M) \in Nat /\ c < 2 * Len(M)
    BY <1>9, <2>3
  <2>7. Carries(M, d, ctlBuffer, Append(control, p), c + 1)
    BY <1>7, <1>8, <2>4, <2>6, CarriesWrite
  <2>8. Receiving(m, d, c + 1)'
    BY <1>1, <1>3, <2>1, <2>7 DEF Answering, Receiving, M
  <2>9. Streaming(F, k)'
    BY <1>1, <1>3, <2>1, StreamingSame DEF Answering
  <2>10. Answered'
    <3>1. c + 1 \in 0 .. 2
      BY <1>9
    <3>2. Answering(m, F, d, c + 1, k)'
      BY <1>6, <1>9, <2>8, <2>9 DEF Answering
    <3>3. QED BY <1>6, <3>1, <3>2 DEF Answered
  <2>11. QED BY <1>1, <1>2, <1>5, <1>8, <2>1, <2>5, <2>10 DEF Exchange, Grows
<1>10. CASE toWrite[1] = [to |-> "audio", piece |-> Piece(F, k + 1)]
            /\ k < 2 * Len(F) /\ Writing(m, F, c, k + 1)'
  <2>1. audio' = Append(audio, p) /\ control' = control /\ Len(audio) < Capacity
    BY <1>5, <1>10 DEF ProcWrites
  <2>2. p = Piece(F, k + 1)
    BY <1>10
  <2> HIDE DEF p
  <2>3. p # Junk
    BY <1>7, <2>2, PieceIs
  <2>4. Carries(F, Len(frames), audBuffer, Append(audio, p), k + 1)
    BY <1>4, <1>7, <1>8, <1>10, <2>2, CarriesWrite
  <2>5. Streaming(F, k + 1)'
    BY <1>1, <1>3, <2>1, <2>4 DEF Answering, Streaming
  <2>6. Receiving(m, d, c)'
    BY <1>1, <1>3, <2>1, ReceivingSame DEF Answering
  <2>7. Answered'
    <3>1. Answering(m, F, d, c, k + 1)'
      BY <1>6, <1>10, <2>5, <2>6 DEF Answering
    <3>2. QED BY <1>6, <1>7, <3>1 DEF Answered
  <2>8. QED BY <1>1, <1>2, <1>5, <1>8, <2>1, <2>3, <2>7 DEF Exchange, Grows
<1>11. QED BY <1>5, <1>9, <1>10

\* What a faulty process adds is refused before anything behind it.
LEMMA StaysDirty == ASSUME NEW pipe \in Seq(Pieces), Dirty(pipe) PROVE Dirty(Append(pipe, Junk))
<1>1. Junk \in Pieces
  BY DEF Junk, Pieces, NoReply, Message, Things, Msgs, Whats
<1>2. /\ Len(pipe) \in Nat /\ (pipe # <<>> => Len(pipe) # 0) /\ (pipe = <<>> => Len(pipe) = 0)
      /\ \A i \in 1 .. Len(pipe) : Append(pipe, Junk)[i] = pipe[i]
      /\ Append(pipe, Junk)[Len(pipe) + 1] = Junk
  BY <1>1, AppendProperties, LenProperties, EmptySeq
<1>3. CASE pipe = <<>>
  <2>1. Len(pipe) + 1 = 1
    BY <1>2, <1>3
  <2>2. QED BY <1>2, <2>1 DEF Dirty
<1>4. CASE pipe # <<>>
  <2>1. 1 \in 1 .. Len(pipe)
    BY <1>2, <1>4
  <2>2. QED BY <1>2, <1>4, <2>1 DEF Dirty
<1>5. QED BY <1>3, <1>4

\* A faulty runner's junk leaves what was written before it.
LEMMA ProcBabblesExchange ==
  ASSUME Inv, ProcBabbles
  PROVE  /\ Exchange' /\ control' \in Seq(Pieces) /\ audio' \in Seq(Pieces)
         /\ Len(control') <= Capacity /\ Len(audio') <= Capacity
<1>1. /\ Data /\ live /\ control \in Seq(Pieces) /\ audio \in Seq(Pieces)
      /\ Len(control) <= Capacity /\ Len(audio) <= Capacity
      /\ UNCHANGED <<engine, live, method, id, host, outgoing, ctlBuffer, replies, reply, audBuffer, frames,
                     reader, stdin, inBuffer, toWrite, loaded>>
  BY DEF Inv, TypeOK, Data, ChannelTypes, Calling, ProcBabbles, Running, callVars, hostVars, readerVars, procVars
<1>2. /\ control' = control \/ (control' = Append(control, Junk) /\ Len(control) < Capacity)
      /\ audio' = audio \/ (audio' = Append(audio, Junk) /\ Len(audio) < Capacity)
  BY DEF ProcBabbles
<1>3. Junk \in Pieces
  BY DEF Junk, Pieces, NoReply, Message, Things, Msgs, Whats
<1>4. control' \in Seq(Pieces) /\ Len(control') <= Capacity
  BY <1>1, <1>2, <1>3, RoomFor
<1>5. audio' \in Seq(Pieces) /\ Len(audio') <= Capacity
  BY <1>1, <1>2, <1>3, RoomFor
<1>7. (Dirty(control) => Dirty(control')) /\ (Dirty(audio) => Dirty(audio'))
  BY <1>1, <1>2, StaysDirty
<1>8. Quiet => Quiet'
  BY <1>1, <1>7 DEF Quiet
<1>9. Unasked => Unasked'
  BY <1>1 DEF Unasked
<1>10. Asked => Asked'
  BY <1>1, <1>8 DEF Asked
<1>11. ASSUME Answered PROVE Answered'
  <2>1. PICK m \in Msgs, F \in Seq(AudioFrames), d \in 0 .. 1, c \in 0 .. 2, k \in Nat :
          Answering(m, F, d, c, k)
    BY <1>11 DEF Answered
  <2>2. Carries(<<m>>, d, ctlBuffer, control', c)
    <3>1. Carries(<<m>>, d, ctlBuffer, control, c)
      BY <2>1 DEF Answering, Receiving
    <3>2. QED BY <1>1, <1>2, <3>1, CarriesJunk
  <2>3. Carries(F, Len(frames), audBuffer, audio', k)
    <3>1. Carries(F, Len(frames), audBuffer, audio, k)
      BY <2>1 DEF Answering, Streaming
    <3>2. QED BY <1>1, <1>2, <3>1, CarriesJunk
  <2>4. Receiving(m, d, c)'
    BY <1>1, <2>1, <2>2 DEF Answering, Receiving
  <2>5. Streaming(F, k)'
    BY <1>1, <2>1, <2>3 DEF Answering, Streaming
  <2>6. Answering(m, F, d, c, k)'
    BY <1>1, <2>1, <2>4, <2>5, FitsSame, WritingSame DEF Answering
  <2>7. QED BY <1>9, <1>11, <2>6 DEF Answered
<1>12. QED BY <1>1, <1>4, <1>5, <1>8, <1>9, <1>10, <1>11 DEF Data, Exchange

-----------------------------------------------------------------------------
(* The threads: one lemma for each action.                                 *)

\* A call begins.
LEMMA BeginStep ==
  ASSUME Inv, NEW c \in {"prepare", "synthesize", "unload"}, Begin(c)
  PROVE  Inv'
<1>1. /\ host = "idle" /\ call = "none" /\ ~stdinClosed /\ reader = "none" /\ ctlError = "none"
      /\ cause = "none" /\ id \in Nat
      /\ (live => c # "prepare") /\ (~live => c # "unload") /\ (live <=> proc # "none")
      /\ (~faulty => ~late /\ ~abort)
  BY DEF Inv, TypeOK, ChannelTypes, Calling, Waiting, Errs, Sound, Begin
<1>2. /\ call' = c /\ outcome' = "none" /\ spoken' = <<>> /\ cancelled' = FALSE
      /\ UNCHANGED <<engine, faulty, live, ctlBuffer, replies, reply, ctlError, cause, reader, audBuffer,
                     frames, audError, audFirst, stdin, control, audio, stdinClosed, proc, inBuffer,
                     toWrite, loaded>>
  BY DEF Begin, readerVars, procVars
<1>3. \/ /\ live /\ method' = c /\ c # "prepare" /\ id' \in Nat /\ outgoing' \in Seq(Pieces) /\ host' = "write"
         /\ abort' = FALSE /\ late' = FALSE
      \/ ~live /\ host' = "spawn" /\ UNCHANGED <<method, id, outgoing, abort, late>>
  <2>1. CASE live
    <3>1. Request(c, id + 1) /\ id + 1 \in Nat
      BY <1>1, <2>1 DEF Begin
    <3>2. QED BY <1>1, <2>1, <3>1, RequestTypes
  <2>2. CASE ~live
    BY <2>2 DEF Begin
  <2>3. QED BY <2>1, <2>2
<1>4. Exchange'
  BY BeginExchange
<1>5. TypeOK' /\ ChannelTypes'
  BY <1>1, <1>2, <1>3 DEF Inv, TypeOK, ChannelTypes
<1>6. Calling'
  BY <1>1, <1>2, <1>3 DEF Inv, Calling
<1>7. Waiting'
  <2>1. live => reply = NoReply /\ replies = <<>>
    BY <1>1 DEF Inv, Exchange, Quiet
  <2>2. QED BY <1>1, <1>2, <1>3, <2>1 DEF Inv, Waiting
<1>8. Errs'
  BY <1>1, <1>2, <1>3 DEF Inv, Errs
<1>9. Spoke'
  BY <1>2 DEF Spoke, SpokenIsWhole
<1>10. Sound'
  BY <1>1, <1>2, <1>3 DEF Inv, Sound, Running
<1>11. QED BY <1>4, <1>5, <1>6, <1>7, <1>8, <1>9, <1>10 DEF Inv

\* The runner's process is created.
LEMMA SpawnStep ==
  ASSUME Inv, Spawn
  PROVE  Inv'
<1>1. /\ host = "spawn" /\ ~live /\ call \in {"prepare", "synthesize"} /\ ~stdinClosed /\ reader = "none"
      /\ ctlError = "none" /\ cause = "none" /\ id \in Nat /\ reply = NoReply /\ replies = <<>>
  BY DEF Inv, TypeOK, ChannelTypes, Exchange, Quiet, Calling, Waiting, Errs, Spawn
<1>2. /\ live' = TRUE /\ proc' = "running"
      /\ UNCHANGED <<engine, faulty, call, outcome, spoken, ctlBuffer, replies, reply,
                 ctlError, cause, reader, audBuffer, frames, audError, audFirst, cancelled, stdin, control,
                 audio, stdinClosed, inBuffer, toWrite, loaded>>
  BY DEF Spawn, readerVars
<1>3. /\ method' = "initialize" /\ id' \in Nat /\ outgoing' \in Seq(Pieces) /\ host' = "write"
      /\ abort' = FALSE /\ late' = FALSE
  <2>1. Request("initialize", id + 1) /\ id + 1 \in Nat
    BY <1>1 DEF Spawn
  <2>2. QED BY <2>1, RequestTypes
<1>4. Exchange'
  BY SpawnExchange
<1>5. TypeOK' /\ ChannelTypes'
  BY <1>1, <1>2, <1>3 DEF Inv, TypeOK, ChannelTypes
<1>6. Calling'
  BY <1>1, <1>2, <1>3 DEF Inv, Calling
<1>7. Waiting'
  BY <1>1, <1>2, <1>3 DEF Inv, Waiting
<1>8. Errs'
  BY <1>1, <1>2, <1>3 DEF Inv, Errs
<1>9. Spoke'
  BY <1>1, <1>2 DEF Inv, Spoke, SpokenIsWhole
<1>10. Sound'
  BY <1>1, <1>2, <1>3 DEF Inv, Sound, Running
<1>11. QED BY <1>4, <1>5, <1>6, <1>7, <1>8, <1>9, <1>10 DEF Inv

\* It cannot be created.
LEMMA SpawnFailsStep ==
  ASSUME Inv, SpawnFails
  PROVE  Inv'
<1>1. /\ host = "spawn" /\ faulty /\ ~live /\ ~stdinClosed /\ reader = "none" /\ ctlError = "none"
  BY DEF Inv, Calling, Waiting, Errs, SpawnFails
<1>2. /\ call' = "none" /\ outcome' \in {"cancelled", "broken"} /\ spoken' = <<>>
      /\ host' = "idle" /\ reply' = NoReply /\ frames' = <<>>
      /\ UNCHANGED <<engine, faulty, live, method, id, outgoing, ctlBuffer, replies, ctlError, cause,
                 reader, audBuffer, audError, audFirst, abort, late, cancelled, stdin, control, audio,
                 stdinClosed, proc, inBuffer, toWrite, loaded>>
  BY DEF SpawnFails, Return, waitVars, procVars
<1>3. NoReply \in Msgs
  BY DEF NoReply, Message, Msgs, Whats
<1>4. Exchange'
  BY SpawnFailsExchange
<1>5. TypeOK' /\ ChannelTypes'
  BY <1>1, <1>2, <1>3, EmptyIs DEF Inv, TypeOK, ChannelTypes
<1>6. Calling'
  BY <1>1, <1>2 DEF Inv, Calling
<1>7. Waiting'
  BY <1>1, <1>2 DEF Inv, Waiting
<1>8. Errs'
  BY <1>1, <1>2 DEF Inv, Errs
<1>9. Spoke'
  BY <1>2 DEF Spoke, SpokenIsWhole
<1>10. Sound'
  BY <1>1, <1>2 DEF Sound
<1>11. QED BY <1>4, <1>5, <1>6, <1>7, <1>8, <1>9, <1>10 DEF Inv

\* The Host writes half a request.
LEMMA HostWritesStep ==
  ASSUME Inv, HostWrites
  PROVE  Inv'
<1>1. UNCHANGED <<engine, faulty, live, call, method, id, outcome, spoken, host, ctlBuffer, replies, reply,
                  ctlError, cause, reader, audBuffer, frames, audError, audFirst, abort, late, cancelled,
                  control, audio, stdinClosed, proc, inBuffer, toWrite, loaded>>
  BY DEF HostWrites, callVars, readerVars, waitVars, procVars
<1>2. host = "write"
  BY DEF HostWrites
<1>3. Exchange' /\ TypeOK' /\ ChannelTypes'
  BY <1>1, HostWritesExchange DEF Inv, TypeOK, ChannelTypes
<1>4. Calling'
  BY <1>1, <1>2 DEF Inv, Calling
<1>5. Waiting' /\ Errs'
  BY <1>1, <1>2 DEF Inv, Waiting, Errs
<1>6. Spoke' /\ Sound'
  BY <1>1 DEF Inv, Spoke, SpokenIsWhole, Sentence, Sound, Running
<1>7. QED BY <1>3, <1>4, <1>5, <1>6 DEF Inv

\* The Host has written its request and waits, with a reader for audio.
LEMMA StartsWaitingStep ==
  ASSUME Inv, StartsWaiting
  PROVE  Inv'
<1>1. /\ host = "write" /\ outgoing = <<>> /\ host' = "await" /\ reader = "none" /\ live /\ proc # "none"
      /\ reader' = IF method = "synthesize" THEN "reading" ELSE "none"
      /\ UNCHANGED <<engine, faulty, live, call, method, id, outcome, spoken, outgoing, ctlBuffer, replies, reply,
                  ctlError, cause, audBuffer, frames, audError, audFirst, abort, late, cancelled,
                  stdin, control, audio, stdinClosed, proc, inBuffer, toWrite, loaded>>
  BY DEF Inv, Calling, Waiting, StartsWaiting, callVars, waitVars, procVars
<1>2. Exchange' /\ TypeOK' /\ ChannelTypes'
  BY <1>1, StartsWaitingExchange DEF Inv, TypeOK, ChannelTypes
<1>3. Calling'
  BY <1>1 DEF Inv, Calling
<1>4. Waiting' /\ Errs'
  BY <1>1 DEF Inv, Waiting, Errs
<1>5. Spoke' /\ Sound'
  BY <1>1 DEF Inv, Spoke, SpokenIsWhole, Sentence, Sound, Running
<1>6. QED BY <1>2, <1>3, <1>4, <1>5 DEF Inv

\* A session is given up for what happened to it.
LEMMA GiveUpStep ==
  ASSUME Inv, live, host \in {"write", "await", "join"}, reader # "reading",
         UNCHANGED <<engine, faulty>>, NEW why \in Errors \union {"refused", "unloaded"}, GiveUp(why),
         why \notin {"none", "aborted"}, why = "unloaded" <=> call = "unload",
         ~faulty => why \in {"refused", "unloaded"}
  PROVE  Inv'
<1>1. /\ host' = "finish" /\ cause' = why /\ stdinClosed' = TRUE
      /\ UNCHANGED <<live, call, method, id, outcome, spoken, outgoing, ctlBuffer, replies, reply,
                  ctlError, reader, audBuffer, frames, audError, audFirst, abort, late, cancelled,
                  stdin, control, audio, proc, inBuffer, toWrite, loaded>>
  BY DEF GiveUp, callVars, readerVars, waitVars, procVars
<1>2. Exchange'
  BY GivenUp
<1>3. TypeOK' /\ ChannelTypes'
  BY <1>1 DEF Inv, TypeOK, ChannelTypes
<1>4. Calling'
  BY <1>1 DEF Inv, Calling
<1>5. Waiting'
  BY <1>1 DEF Inv, Waiting
<1>6. Errs'
  BY <1>1 DEF Inv, Errs
<1>7. Spoke'
  BY <1>1 DEF Inv, Spoke, SpokenIsWhole, Sentence
<1>8. Sound'
  BY <1>1 DEF Inv, Sound, Running
<1>9. QED BY <1>2, <1>3, <1>4, <1>5, <1>6, <1>7, <1>8 DEF Inv

\* The control channel fails: only a faulty process or an abort makes it.
LEMMA ControlFailsStep ==
  ASSUME Inv, live, faulty, host \in {"write", "await"}, UNCHANGED <<engine, faulty>>,
         NEW e \in Errors \ {"none"}, e = "aborted" => abort, ControlFails(e)
  PROVE  Inv'
<1>1. CASE method = "synthesize" /\ host = "await"
  <2>1. /\ ctlError' = e /\ abort' = TRUE /\ host' = "join"
        /\ UNCHANGED <<live, call, method, id, outcome, spoken, outgoing, ctlBuffer, replies, reply, cause,
                  reader, audBuffer, frames, audError, audFirst, late, cancelled,
                  stdin, control, audio, stdinClosed, proc, inBuffer, toWrite, loaded>>
    BY <1>1 DEF ControlFails, callVars, readerVars, procVars
  <2>2. Exchange'
    BY ControlFailed
  <2>3. TypeOK' /\ ChannelTypes'
    BY <2>1 DEF Inv, TypeOK, ChannelTypes
  <2>4. Calling'
    BY <1>1, <2>1 DEF Inv, Calling
  <2>5. Waiting'
    BY <1>1, <2>1 DEF Inv, Waiting
  <2>6. Errs'
    BY <1>1, <2>1 DEF Inv, Errs
  <2>7. Spoke'
    BY <2>1 DEF Inv, Spoke, SpokenIsWhole, Sentence
  <2>8. Sound'
    BY DEF Sound
  <2>9. QED BY <2>2, <2>3, <2>4, <2>5, <2>6, <2>7, <2>8 DEF Inv
<1>2. CASE ~(method = "synthesize" /\ host = "await")
  <2> DEFINE why == IF method = "unload" THEN "unloaded" ELSE e
  <2>1. GiveUp(why)
    BY <1>2 DEF ControlFails
  <2>2. reader = "none" /\ ~abort
    BY <1>2 DEF Inv, Waiting
  <2>3. /\ why \in Errors \union {"refused", "unloaded"} /\ why \notin {"none", "aborted"}
        /\ why = "unloaded" <=> call = "unload"
    BY <2>2 DEF Inv, Calling, Errors
  <2> HIDE DEF why
  <2>4. QED BY <2>1, <2>2, <2>3, GiveUpStep
<1>3. QED BY <1>1, <1>2

\* The Host's write or wait fails.
LEMMA HostFailsStep ==
  ASSUME Inv, HostFails
  PROVE  Inv'
<1>1. live /\ host \in {"write", "await"} /\ UNCHANGED <<engine, faulty>>
  BY DEF Inv, Calling, HostFails
<1>2. faulty
  BY <1>1 DEF Inv, Sound, HostFails, MayWait
<1>3. CASE ~MayWait /\ ControlFails(Interruption)
  <2>1. Interruption \in Errors \ {"none"} /\ (Interruption = "aborted" => abort)
    BY DEF Interruption, Errors
  <2>2. QED BY <1>1, <1>2, <1>3, <2>1, ControlFailsStep
<1>4. CASE ControlFails("closed")
  <2>1. "closed" \in Errors \ {"none"}
    BY DEF Errors
  <2>2. QED BY <1>1, <1>2, <1>4, <2>1, ControlFailsStep
<1>5. QED BY <1>3, <1>4 DEF HostFails

\* What is read keeps its type.
LEMMA ReadTypes ==
  ASSUME NEW buffer \in Seq(Pieces), NEW pipe \in Seq(Pieces), NEW n \in 0 .. Len(pipe)
  PROVE  /\ Complete(buffer \o First(n, pipe)) \in Seq(Things)
         /\ Kept(buffer \o First(n, pipe)) \in Seq(Pieces)
         /\ After(n, pipe) \in Seq(Pieces) /\ Len(After(n, pipe)) <= Len(pipe)
         /\ Clean(pipe, Len(pipe)) => Clean(After(n, pipe), Len(After(n, pipe)))
<1>1. PICK b \in Seq(Pieces) : b = buffer \o First(n, pipe)
  BY Read
<1>2. Complete(b) \in Seq(Things) /\ Kept(b) \in Seq(Pieces)
  BY Halves
<1>3. /\ After(n, pipe) \in Seq(Pieces) /\ Len(After(n, pipe)) = Len(pipe) - n
      /\ \A i \in 1 .. Len(pipe) - n : After(n, pipe)[i] = pipe[n + i]
  BY AfterOf
<1>4. Len(pipe) \in Nat /\ n \in Nat /\ \A i \in 1 .. Len(pipe) - n : n + i \in 1 .. Len(pipe)
  BY LenProperties
<1>5. Clean(pipe, Len(pipe)) => Clean(After(n, pipe), Len(After(n, pipe)))
  BY <1>3, <1>4 DEF Clean
<1>6. QED BY <1>1, <1>2, <1>3, <1>4, <1>5

\* Nothing but junk is malformed.
LEMMA CleanReply ==
  ASSUME Inv, live, host # "idle", Clean(control, Len(control)), NEW n \in 1 .. Len(control)
  PROVE  ~Malformed(ctlBuffer \o First(n, control))
<1>1. /\ ctlBuffer \in Seq(Pieces) /\ control \in Seq(Pieces) /\ Len(control) \in Nat
      /\ n \in 0 .. Len(control) /\ Clean(control, n) /\ control # <<>> /\ control[1] # Junk
  <2>1. ctlBuffer \in Seq(Pieces) /\ control \in Seq(Pieces) /\ Len(control) \in Nat
    BY LenProperties DEF Inv, ChannelTypes
  <2>2. QED BY <2>1, EmptySeq DEF Clean
<1>2. Answered
  BY <1>1 DEF Inv, Exchange, Asked, Quiet, Dirty
<1>3. PICK m \in Msgs, F \in Seq(AudioFrames), d \in 0 .. 1, c \in 0 .. 2, k \in Nat :
        Answering(m, F, d, c, k)
  BY <1>2 DEF Answered
<1> DEFINE M == <<m>>
<1>4. Len(M) \in Nat /\ Carries(M, d, ctlBuffer, control, c) /\ d \in Nat /\ c \in Nat
  BY <1>3, OneIs DEF Answering, Receiving
<1> HIDE DEF M
<1>5. Reads(M, d, ctlBuffer, control, c, n)
  BY <1>1, <1>4, CarriesRead
<1>6. QED BY <1>5 DEF Reads

\* Without junk in the audio pipe the audio parser refuses nothing.
LEMMA CleanFrames ==
  ASSUME Inv, live, host # "idle", Clean(audio, Len(audio)), NEW n \in 1 .. Len(audio)
  PROVE  ~Malformed(audBuffer \o First(n, audio))
<1>1. /\ audBuffer \in Seq(Pieces) /\ audio \in Seq(Pieces) /\ Len(audio) \in Nat /\ Len(frames) \in Nat
      /\ n \in 0 .. Len(audio) /\ Clean(audio, n) /\ audio # <<>> /\ audio[1] # Junk
  <2>1. audBuffer \in Seq(Pieces) /\ audio \in Seq(Pieces) /\ Len(audio) \in Nat /\ Len(frames) \in Nat
    BY LenProperties DEF Inv, ChannelTypes
  <2>2. QED BY <2>1, EmptySeq DEF Clean
<1>2. Answered
  BY <1>1 DEF Inv, Exchange, Asked, Quiet, Dirty
<1>3. PICK m \in Msgs, F \in Seq(AudioFrames), d \in 0 .. 1, c \in 0 .. 2, k \in Nat :
        Answering(m, F, d, c, k)
  BY <1>2 DEF Answered
<1>4. Len(F) \in Nat /\ Carries(F, Len(frames), audBuffer, audio, k)
  BY <1>3, LenProperties DEF Answering, Streaming
<1>5. Reads(F, Len(frames), audBuffer, audio, k, n)
  BY <1>1, <1>4, CarriesRead
<1>6. QED BY <1>5 DEF Reads

\* The Host reads from the control pipe.
LEMMA HostReadsStep ==
  ASSUME Inv, HostReads
  PROVE  Inv'
<1>1. /\ live /\ host = "await" /\ UNCHANGED <<engine, faulty>>
      /\ ctlBuffer \in Seq(Pieces) /\ control \in Seq(Pieces) /\ Len(control) <= Capacity
  BY DEF Inv, TypeOK, ChannelTypes, Calling, HostReads
<1>2. PICK n \in 1 .. Len(control) :
        LET buffer == ctlBuffer \o First(n, control) IN
        IF Malformed(buffer)
        THEN ControlFails("malformed")
        ELSE /\ control' = After(n, control)
             /\ ctlBuffer' = Kept(buffer) /\ replies' = Complete(buffer)
             /\ UNCHANGED <<callVars, host, outgoing, reply, ctlError, cause, readerVars,
                            waitVars, stdin, audio, stdinClosed, procVars>>
  BY DEF HostReads
<1> DEFINE b == ctlBuffer \o First(n, control)
<1>3. CASE Malformed(b)
  <2>1. faulty
    BY <1>1, <1>3, CleanReply DEF Inv, Sound
  <2>2. ControlFails("malformed") /\ "malformed" \in Errors \ {"none"}
    BY <1>2, <1>3 DEF Errors
  <2>3. QED BY <1>1, <2>1, <2>2, ControlFailsStep
<1>4. CASE ~Malformed(b)
  <2>1. /\ control' = After(n, control) /\ ctlBuffer' = Kept(b) /\ replies' = Complete(b)
        /\ UNCHANGED <<engine, faulty, live, call, method, id, outcome, spoken, host, outgoing, reply,
                  ctlError, cause, reader, audBuffer, frames, audError, audFirst, abort, late, cancelled,
                  stdin, audio, stdinClosed, proc, inBuffer, toWrite, loaded>>
    BY <1>1, <1>2, <1>4 DEF callVars, readerVars, waitVars, procVars
  <2>2. /\ control' \in Seq(Pieces) /\ Len(control') <= Len(control) /\ ctlBuffer' \in Seq(Pieces)
        /\ replies' \in Seq(Things) /\ (Clean(control, Len(control)) => Clean(control', Len(control')))
    <3>1. n \in 0 .. Len(control)
      BY <1>1, LenProperties
    <3>2. QED BY <1>1, <2>1, <3>1, ReadTypes
  <2>3. Len(control') <= Capacity
    <3>1. Capacity \in Nat /\ Len(control') \in Nat /\ Len(control) \in Nat
      BY <1>1, <2>2, LenProperties, RunnerBounds
    <3>2. QED BY <1>1, <2>2, <3>1
  <2>4. Exchange'
    BY HostReadsExchange
  <2>5. TypeOK'
    BY <2>1, <2>3 DEF Inv, TypeOK
  <2>6. ChannelTypes'
    BY <2>1, <2>2 DEF Inv, ChannelTypes
  <2>7. Calling'
    BY <2>1 DEF Inv, Calling
  <2>8. Waiting' /\ Errs'
    BY <1>1, <2>1 DEF Inv, Waiting, Errs
  <2>9. Spoke' /\ Sound'
    BY <2>1, <2>2 DEF Inv, Spoke, SpokenIsWhole, Sentence, Sound, Running
  <2>10. QED BY <2>4, <2>5, <2>6, <2>7, <2>8, <2>9 DEF Inv
<1>5. QED BY <1>3, <1>4

\* The reply to synthesize is taken, and the reader is waited for.
LEMMA TakeSpokenStep ==
  ASSUME Inv, TakeSpoken
  PROVE  Inv'
<1>1. /\ host = "await" /\ host' = "join" /\ method = "synthesize"
      /\ UNCHANGED <<engine, faulty, live, call, method, id, outcome, spoken, outgoing, ctlBuffer,
                  ctlError, cause, reader, audBuffer, frames, audError, audFirst, abort, late, cancelled,
                  stdin, control, audio, stdinClosed, proc, inBuffer, toWrite, loaded>>
  BY DEF TakeSpoken, callVars, readerVars, waitVars, procVars
<1>2. Exchange' /\ reply' # NoReply /\ reply' \in Msgs /\ replies' = <<>>
  BY TakeSpokenExchange
<1>3. TypeOK' /\ ChannelTypes'
  BY <1>1, <1>2, EmptyIs DEF Inv, TypeOK, ChannelTypes
<1>4. Calling'
  BY <1>1 DEF Inv, Calling
<1>5. Waiting' /\ Errs'
  BY <1>1, <1>2 DEF Inv, Waiting, Errs
<1>6. Spoke' /\ Sound'
  BY <1>1 DEF Inv, Spoke, SpokenIsWhole, Sentence, Sound, Running
<1>7. QED BY <1>2, <1>3, <1>4, <1>5, <1>6 DEF Inv

\* The reply to initialize or load is taken.
LEMMA TakeStartedStep ==
  ASSUME Inv, TakeStarted
  PROVE  Inv'
<1>1. /\ live /\ host = "await" /\ reader = "none" /\ ~abort /\ reply = NoReply /\ outgoing = <<>>
      /\ method \in {"initialize", "load"} /\ call \in {"prepare", "synthesize"}
      /\ ctlError = "none" /\ UNCHANGED <<engine, faulty>> /\ id + 1 \in Nat
  BY DEF Inv, ChannelTypes, Calling, Waiting, Errs, TakeStarted
<1>2. CASE Head(replies).what = "error"
  <2>1. GiveUp("refused")
    BY <1>2 DEF TakeStarted
  <2>2. "refused" \in Errors \union {"refused", "unloaded"}
    OBVIOUS
  <2>3. QED BY <1>1, <2>1, <2>2, GiveUpStep
<1>3. CASE Head(replies).what # "error"
  <2>1. Exchange' /\ replies' = <<>>
    BY <1>3, TakeStartedExchange
  <2>2. UNCHANGED <<engine, faulty, live, spoken, ctlBuffer, reply, ctlError, cause, reader, audBuffer,
                    frames, audError, audFirst, cancelled, stdin, control, audio, stdinClosed, proc,
                    inBuffer, toWrite, loaded>>
    BY <1>3 DEF TakeStarted, readerVars, procVars
  <2>3. \/ /\ call' = "none" /\ outcome' = "ok" /\ host' = "idle"
           /\ UNCHANGED <<method, id, outgoing, abort, late>>
        \/ /\ outgoing' \in Seq(Pieces) /\ id' \in Nat /\ host' = "write" /\ abort' = FALSE /\ late' = FALSE
           /\ \/ method' = "load"
              \/ method' = "synthesize" /\ call = "synthesize"
           /\ UNCHANGED <<call, outcome>>
    <3>1. CASE method = "load" /\ call = "prepare"
      BY <1>3, <3>1 DEF TakeStarted
    <3>2. CASE ~(method = "load" /\ call = "prepare")
      <4> DEFINE next == IF method = "initialize" THEN "load" ELSE call
      <4>1. Request(next, id + 1) /\ UNCHANGED <<call, outcome>>
        BY <1>3, <3>2 DEF TakeStarted
      <4>2. next = "load" \/ (next = "synthesize" /\ call = "synthesize")
        BY <1>1, <3>2
      <4> HIDE DEF next
      <4>3. QED BY <1>1, <4>1, <4>2, RequestTypes
    <3>3. QED BY <3>1, <3>2
  <2>4. TypeOK'
    BY <2>2, <2>3 DEF Inv, TypeOK
  <2>5. ChannelTypes'
    BY <2>1, <2>2, <2>3, EmptyIs DEF Inv, ChannelTypes
  <2>6. Calling'
    BY <1>1, <2>2, <2>3 DEF Inv, Calling
  <2>7. Waiting'
    BY <1>1, <2>1, <2>2, <2>3 DEF Inv, Waiting
  <2>8. Errs'
    BY <1>1, <2>2, <2>3 DEF Inv, Errs
  <2>9. Spoke'
    BY <1>1, <2>2 DEF Inv, Spoke, SpokenIsWhole
  <2>10. Sound'
    BY <1>1, <2>2, <2>3 DEF Inv, Sound, Running
  <2>11. QED BY <2>1, <2>4, <2>5, <2>6, <2>7, <2>8, <2>9, <2>10 DEF Inv
<1>4. QED BY <1>2, <1>3

\* The reply to unload is taken.
LEMMA TakeUnloadedStep ==
  ASSUME Inv, TakeUnloaded
  PROVE  Inv'
<1>1. /\ live /\ host = "await" /\ reader = "none" /\ call = "unload" /\ UNCHANGED <<engine, faulty>>
      /\ GiveUp("unloaded")
  BY DEF Inv, Calling, Waiting, TakeUnloaded
<1>2. "unloaded" \in Errors \union {"refused", "unloaded"}
  OBVIOUS
<1>3. QED BY <1>1, <1>2, GiveUpStep

\* Both readers have ended, and synthesize returns or gives the session up.
LEMMA JoinStep ==
  ASSUME Inv, Join
  PROVE  Inv'
<1>1. /\ live /\ host = "join" /\ reader \in {"done", "failed"} /\ method = "synthesize"
      /\ call = "synthesize" /\ ~stdinClosed /\ cause = "none" /\ UNCHANGED <<engine, faulty>>
  BY DEF Inv, Calling, Waiting, Errs, Join
<1>2. CASE FirstError # "none"
  <2>1. GiveUp(FirstError) /\ FirstError \in Errors
    BY <1>2 DEF Join, FirstError, Inv, TypeOK
  <2>2. FirstError # "aborted" /\ FirstError # "unloaded"
    <3>1. FirstError # "unloaded"
      BY <2>1 DEF Errors
    <3>2. FirstError # "aborted"
      BY <1>2 DEF FirstError, Inv, Errs
    <3>3. QED BY <3>1, <3>2
  <2>3. faulty
    BY <1>2 DEF FirstError, Inv, Sound
  <2> DEFINE why == FirstError
  <2>4. why \in Errors \union {"refused", "unloaded"} /\ why \notin {"none", "aborted", "unloaded"} /\ GiveUp(why)
    BY <1>2, <2>1, <2>2
  <2> HIDE DEF why
  <2>5. QED BY <1>1, <2>3, <2>4, GiveUpStep
<1>3. CASE FirstError = "none"
  <2>1. /\ Exchange' /\ (reply.what # "error" => frames = Sentence(id))
        /\ audBuffer = <<>> /\ reader = "done"
    BY <1>3, JoinExchange
  <2>2. audError = "none" /\ ctlError = "none" /\ spoken = <<>>
    BY <1>1, <1>3, <2>1 DEF FirstError, Inv, Errs, Spoke
  <2>3. /\ call' = "none" /\ host' = "idle" /\ abort' = FALSE
        /\ reader' = "none" /\ reply' = NoReply /\ frames' = <<>>
        /\ \/ reply.what = "error" /\ outcome' = "rejected" /\ UNCHANGED spoken
           \/ reply.what # "error" /\ outcome' = "ok" /\ spoken' = frames
        /\ UNCHANGED <<engine, faulty, live, method, id, outgoing, ctlBuffer, replies, ctlError, cause,
                  audBuffer, audError, audFirst, late, cancelled, stdin, control, audio, stdinClosed, proc,
                  inBuffer, toWrite, loaded>>
    BY <1>3 DEF Join, procVars
  <2>4. NoReply \in Msgs
    BY DEF NoReply, Message, Msgs, Whats
  <2>5. TypeOK' /\ ChannelTypes'
    <3>1. TypeOK'
      BY <2>3 DEF Inv, TypeOK
    <3>2. ChannelTypes'
      BY <2>3, <2>4, EmptyIs DEF Inv, ChannelTypes
    <3>3. QED BY <3>1, <3>2
  <2>6. Calling'
    BY <1>1, <2>3 DEF Inv, Calling
  <2>7. Waiting'
    BY <2>1, <2>3 DEF Inv, Waiting
  <2>8. Errs'
    BY <1>1, <2>2, <2>3 DEF Inv, Errs
  <2>9. Spoke'
    <3>1. Sentence(id)' = Sentence(id)
      BY <2>3 DEF Sentence
    <3>2. QED BY <2>1, <2>2, <2>3, <3>1 DEF Spoke, SpokenIsWhole
  <2>10. Sound'
    BY <1>1, <2>3 DEF Inv, Sound, Running
  <2>11. QED BY <2>1, <2>5, <2>6, <2>7, <2>8, <2>9, <2>10 DEF Inv
<1>4. QED BY <1>2, <1>3

\* The process is reaped and the session reset.
LEMMA DroppedStep ==
  ASSUME Inv, Dropped
  PROVE  Inv'
<1>1. host = "finish" /\ cause # "none" /\ spoken = <<>>
  BY DEF Inv, Calling, Errs, Spoke, Dropped
<1>2. /\ call' = "none" /\ host' = "idle" /\ live' = FALSE
      /\ outcome' = Ending /\ cause' = "none"
      /\ outgoing' = <<>> /\ ctlBuffer' = <<>> /\ replies' = <<>> /\ reply' = NoReply
      /\ ctlError' = "none" /\ reader' = "none" /\ audBuffer' = <<>> /\ frames' = <<>>
      /\ audError' = "none" /\ audFirst' = FALSE /\ abort' = FALSE /\ late' = FALSE
      /\ stdin' = <<>> /\ control' = <<>> /\ audio' = <<>> /\ stdinClosed' = FALSE
      /\ proc' = "none" /\ inBuffer' = <<>> /\ toWrite' = <<>> /\ loaded' = FALSE
      /\ UNCHANGED <<engine, faulty, method, id, spoken, cancelled>>
  BY DEF Dropped
<1>3. NoReply \in Msgs
  BY DEF NoReply, Message, Msgs, Whats
<1>4. Exchange'
  BY DroppedExchange
<1>5. TypeOK'
  <2>1. Ending \in {"none", "ok", "rejected", "refused", "broken", "cancelled"}
    BY DEF Ending
  <2>2. 0 <= Capacity
    BY RunnerBounds
  <2>3. QED BY <1>2, <2>1, <2>2, EmptyIs DEF Inv, TypeOK, Errors
<1>6. ChannelTypes'
  BY <1>2, <1>3, EmptyIs DEF Inv, ChannelTypes
<1>7. Calling' /\ Waiting' /\ Errs'
  BY <1>2 DEF Calling, Waiting, Errs
<1>8. Spoke'
  BY <1>1, <1>2 DEF Spoke, SpokenIsWhole
<1>9. Sound'
  <2>1. ~faulty => Ending \in {"ok", "refused"}
    BY <1>1 DEF Ending, Inv, Sound
  <2>2. QED BY <1>2, <2>1, EmptyIs DEF Inv, Sound
<1>10. QED BY <1>4, <1>5, <1>6, <1>7, <1>8, <1>9 DEF Inv

\* The audio thread fails: only a faulty process or an abort makes it.
LEMMA AudioFailsStep ==
  ASSUME Inv, Exchange', faulty, reader = "reading", NEW e \in Errors \ {"none"}, e = "aborted" => abort, AudioFails(e),
         UNCHANGED <<engine, faulty, callVars, hostVars, late, cancelled,
                     stdin, control, stdinClosed, procVars>>
  PROVE  Inv'
<1>1. /\ audError' = e /\ audFirst' = ~abort /\ abort' = TRUE /\ reader' = "failed"
      /\ UNCHANGED <<engine, faulty, live, call, method, id, outcome, spoken, host, outgoing, ctlBuffer,
                  replies, reply, ctlError, cause, audBuffer, frames, late, cancelled, stdin, control,
                  audio, stdinClosed, proc, inBuffer, toWrite, loaded>>
  BY DEF AudioFails, callVars, hostVars, procVars
<1>2. TypeOK'
  BY <1>1 DEF Inv, TypeOK
<1>3. ChannelTypes'
  BY <1>1 DEF Inv, ChannelTypes
<1>4. Calling'
  BY <1>1 DEF Inv, Calling
<1>5. Waiting'
  BY <1>1 DEF Inv, Waiting
<1>6. Errs'
  <2>1. /\ audError = "none" /\ ctlError # "aborted" /\ (abort => ctlError # "none") /\ host # "finish"
        /\ (e = "aborted" => ctlError # "none")
    BY DEF Inv, Waiting, Errs
  <2>2. QED BY <1>1, <2>1 DEF Inv, Errs
<1>7. Spoke' /\ Sound'
  <2>1. Spoke'
    BY <1>1 DEF Inv, Spoke, SpokenIsWhole, Sentence
  <2>2. Sound'
    BY <1>1 DEF Sound
  <2>3. QED BY <2>1, <2>2
<1>8. QED BY <1>2, <1>3, <1>4, <1>5, <1>6, <1>7 DEF Inv

\* The audio reader reads from its pipe.
LEMMA ReaderReadsStep ==
  ASSUME Inv, ReaderReads
  PROVE  Inv'
<1>1. /\ live /\ host \in {"await", "join"} /\ reader = "reading"
      /\ UNCHANGED <<engine, faulty, callVars, hostVars, late, cancelled, stdin, control, stdinClosed, procVars>>
      /\ audBuffer \in Seq(Pieces) /\ audio \in Seq(Pieces) /\ Len(audio) <= Capacity /\ frames \in Seq(Things)
  BY DEF Inv, TypeOK, ChannelTypes, Calling, Waiting, ReaderReads
<1>2. PICK n \in 1 .. Len(audio) :
       LET buffer == audBuffer \o First(n, audio) IN
       IF Malformed(buffer)
       THEN AudioFails("malformed")
       ELSE /\ audio' = After(n, audio)
            /\ audBuffer' = Kept(buffer)
            /\ frames' = frames \o Complete(buffer)
            /\ reader' = IF \E i \in DOMAIN Complete(buffer) : Complete(buffer)[i].last
                         THEN "done" ELSE "reading"
            /\ UNCHANGED <<audError, audFirst, abort>>
  BY DEF ReaderReads
<1> DEFINE b == audBuffer \o First(n, audio)
<1>3. CASE Malformed(b)
  <2>1. faulty
    BY <1>1, <1>3, CleanFrames DEF Inv, Sound
  <2>2. AudioFails("malformed") /\ "malformed" \in Errors \ {"none"}
    BY <1>2, <1>3 DEF Errors
  <2>3. QED BY <1>1, <2>1, <2>2, AudioFailsStep, ReaderReadsExchange
<1>4. CASE ~Malformed(b)
  <2>1. /\ audio' = After(n, audio) /\ audBuffer' = Kept(b) /\ frames' = frames \o Complete(b)
        /\ reader' \in {"done", "reading"}
        /\ UNCHANGED <<engine, faulty, live, call, method, id, outcome, spoken, host, outgoing, ctlBuffer,
                  replies, reply, ctlError, cause, audError, audFirst, abort, late, cancelled, stdin, control,
                  stdinClosed, proc, inBuffer, toWrite, loaded>>
    BY <1>1, <1>2, <1>4 DEF callVars, hostVars, procVars
  <2>2. /\ audio' \in Seq(Pieces) /\ Len(audio') <= Len(audio) /\ audBuffer' \in Seq(Pieces)
        /\ Complete(b) \in Seq(Things) /\ (Clean(audio, Len(audio)) => Clean(audio', Len(audio')))
    <3>1. n \in 0 .. Len(audio)
      BY <1>1, LenProperties
    <3>2. QED BY <1>1, <2>1, <3>1, ReadTypes
  <2>3. Len(audio') <= Capacity
    <3>1. Capacity \in Nat /\ Len(audio') \in Nat /\ Len(audio) \in Nat
      BY <1>1, <2>2, LenProperties, RunnerBounds
    <3>2. QED BY <1>1, <2>2, <3>1
  <2>4. frames' \in Seq(Things)
    <3>1. PICK s \in Seq(Things) : s = Complete(b)
      BY <2>2
    <3>2. frames \o s \in Seq(Things)
      BY <1>1, ConcatProperties
    <3>3. QED BY <2>1, <3>1, <3>2
  <2> HIDE DEF b
  <2>5. Exchange'
    BY ReaderReadsExchange
  <2>6. TypeOK'
    BY <2>1, <2>3 DEF Inv, TypeOK
  <2>7. ChannelTypes'
    BY <2>1, <2>2, <2>4 DEF Inv, ChannelTypes
  <2>8. Calling'
    BY <2>1 DEF Inv, Calling
  <2>9. Waiting'
    BY <1>1, <2>1 DEF Inv, Waiting
  <2>10. Errs'
    BY <1>1, <2>1 DEF Inv, Errs
  <2>11. Spoke' /\ Sound'
    BY <2>1, <2>2 DEF Inv, Spoke, SpokenIsWhole, Sentence, Sound, Running
  <2>12. QED BY <2>5, <2>6, <2>7, <2>8, <2>9, <2>10, <2>11 DEF Inv
<1>5. QED BY <1>3, <1>4

\* The audio reader fails.
LEMMA ReaderFailsStep ==
  ASSUME Inv, ReaderFails
  PROVE  Inv'
<1>1. /\ live /\ host \in {"await", "join"} /\ reader = "reading"
      /\ UNCHANGED <<engine, faulty, callVars, hostVars, late, cancelled, stdin, control, stdinClosed, procVars>>
  BY DEF Inv, Calling, Waiting, ReaderFails
<1>2. faulty
  BY <1>1 DEF Inv, Sound, ReaderFails, MayWait
<1>3. CASE ~MayWait /\ AudioFails(Interruption)
  <2>1. Interruption \in Errors \ {"none"} /\ (Interruption = "aborted" => abort)
    BY DEF Interruption, Errors
  <2>2. QED BY <1>1, <1>2, <1>3, <2>1, AudioFailsStep, ReaderFailsExchange
<1>4. CASE AudioFails("closed")
  <2>1. "closed" \in Errors \ {"none"}
    BY DEF Errors
  <2>2. QED BY <1>1, <1>2, <1>4, <2>1, AudioFailsStep, ReaderFailsExchange
<1>5. QED BY <1>3, <1>4 DEF ReaderFails

\* The process, and what surrounds it.
LEMMA ProcReadsStep ==
  ASSUME Inv, ProcReads
  PROVE  Inv'
<1>1. UNCHANGED <<engine, faulty, live, call, method, id, outcome, spoken, host, outgoing, ctlBuffer,
                  replies, reply, ctlError, cause, reader, audBuffer, frames, audError, audFirst, abort,
                  late, cancelled, control, audio, stdinClosed>>
  BY DEF ProcReads, callVars, hostVars, readerVars, waitVars
<1>2. Exchange' /\ proc' = proc /\ toWrite' \in Seq(Outputs) /\ loaded' \in BOOLEAN
  BY ProcReadsExchange
<1>3. /\ inBuffer \in Seq(Pieces) /\ stdin \in Seq(Pieces) /\ Len(stdin) <= Capacity
  BY DEF Inv, TypeOK, ChannelTypes
<1>4. PICK n \in 1 .. Len(stdin) : stdin' = After(n, stdin) /\ inBuffer' = Kept(inBuffer \o First(n, stdin))
  BY DEF ProcReads
<1>5. stdin' \in Seq(Pieces) /\ Len(stdin') <= Len(stdin) /\ inBuffer' \in Seq(Pieces)
  <2>1. n \in 0 .. Len(stdin)
    BY <1>3, LenProperties
  <2>2. QED BY <1>3, <1>4, <2>1, ReadTypes
<1>6. Len(stdin') <= Capacity
  <2>1. Capacity \in Nat /\ Len(stdin') \in Nat /\ Len(stdin) \in Nat
    BY <1>3, <1>5, LenProperties, RunnerBounds
  <2>2. QED BY <1>3, <1>5, <2>1
<1>7. TypeOK' /\ ChannelTypes'
  BY <1>1, <1>2, <1>5, <1>6 DEF Inv, TypeOK, ChannelTypes
<1>8. Calling'
  BY <1>1, <1>2 DEF Inv, Calling
<1>9. Waiting' /\ Errs'
  BY <1>1 DEF Inv, Waiting, Errs
<1>10. Spoke' /\ Sound'
  BY <1>1, <1>2 DEF Inv, Spoke, SpokenIsWhole, Sentence, Sound, Running
<1>11. QED BY <1>2, <1>7, <1>8, <1>9, <1>10 DEF Inv

\* A process may end: by itself, as told, or killed.
LEMMA ProcEndsStep ==
  ASSUME Inv, ProcEndOfInput \/ ProcDies \/ Kill
  PROVE  Inv'
<1>1. /\ proc = "running" /\ proc' \in {"exited", "killed"} /\ (~faulty => host = "finish")
      /\ UNCHANGED <<engine, faulty, live, call, method, id, outcome, spoken, host, outgoing, ctlBuffer,
                  replies, reply, ctlError, cause, reader, audBuffer, frames, audError, audFirst, abort,
                  late, cancelled, stdin, control, audio, stdinClosed, inBuffer, toWrite, loaded>>
  BY DEF Inv, Calling, ProcEndOfInput, ProcDies, Kill, Running, callVars, hostVars, readerVars, waitVars
<1>2. Exchange'
  BY OtherExchange
<1>3. TypeOK' /\ ChannelTypes'
  BY <1>1 DEF Inv, TypeOK, ChannelTypes
<1>4. Calling'
  BY <1>1 DEF Inv, Calling
<1>5. Waiting' /\ Errs'
  BY <1>1 DEF Inv, Waiting, Errs
<1>6. Spoke' /\ Sound'
  BY <1>1 DEF Inv, Spoke, SpokenIsWhole, Sentence, Sound, Running
<1>7. QED BY <1>2, <1>3, <1>4, <1>5, <1>6 DEF Inv

\* A pipe that gets one more piece.
LEMMA GrowsTo ==
  ASSUME NEW pipe \in Seq(Pieces), NEW new, Grows(new, pipe), Len(pipe) < Capacity
  PROVE  /\ new \in Seq(Pieces) /\ Len(new) <= Capacity
         /\ Clean(pipe, Len(pipe)) => Clean(new, Len(new))
<1>1. PICK p \in Pieces : p # Junk /\ new = Append(pipe, p)
  BY DEF Grows
<1>2. new \in Seq(Pieces) /\ Len(new) <= Capacity
  BY <1>1, RoomFor
<1>3. /\ Len(new) = Len(pipe) + 1 /\ Len(pipe) \in Nat /\ new[Len(pipe) + 1] # Junk
      /\ \A i \in 1 .. Len(pipe) : new[i] = pipe[i]
  BY <1>1, AppendProperties, LenProperties
<1>4. ASSUME Clean(pipe, Len(pipe)), NEW j \in 1 .. Len(new) PROVE new[j] # Junk
  <2>1. j \in 1 .. Len(pipe) \/ j = Len(pipe) + 1
    BY <1>3
  <2>2. CASE j \in 1 .. Len(pipe)
    BY <1>3, <1>4, <2>2 DEF Clean
  <2>3. CASE j = Len(pipe) + 1
    BY <1>3, <2>3
  <2>4. QED BY <2>1, <2>2, <2>3
<1>5. QED BY <1>2, <1>4 DEF Clean

\* The runner writes a piece of its answer.
LEMMA ProcWritesStep ==
  ASSUME Inv, ProcWrites
  PROVE  Inv'
<1>1. UNCHANGED <<engine, faulty, live, call, method, id, outcome, spoken, host, outgoing, ctlBuffer,
                  replies, reply, ctlError, cause, reader, audBuffer, frames, audError, audFirst, abort,
                  late, cancelled, stdin, stdinClosed, proc, inBuffer, loaded>>
  BY DEF ProcWrites, callVars, hostVars, readerVars, waitVars
<1>2. /\ Exchange' /\ toWrite' \in Seq(Outputs)
      /\ \/ Grows(control', control) /\ Len(control) < Capacity /\ audio' = audio
         \/ Grows(audio', audio) /\ Len(audio) < Capacity /\ control' = control
  BY ProcWritesExchange
<1>3. /\ control \in Seq(Pieces) /\ audio \in Seq(Pieces)
      /\ Len(control) <= Capacity /\ Len(audio) <= Capacity
  BY DEF Inv, TypeOK, ChannelTypes
<1>4. /\ control' \in Seq(Pieces) /\ audio' \in Seq(Pieces)
      /\ Len(control') <= Capacity /\ Len(audio') <= Capacity
      /\ Clean(control, Len(control)) => Clean(control', Len(control'))
      /\ Clean(audio, Len(audio)) => Clean(audio', Len(audio'))
  <2>1. CASE Grows(control', control) /\ Len(control) < Capacity /\ audio' = audio
    <3>1. /\ control' \in Seq(Pieces) /\ Len(control') <= Capacity
          /\ Clean(control, Len(control)) => Clean(control', Len(control'))
      BY <1>3, <2>1, GrowsTo
    <3>2. QED BY <1>3, <2>1, <3>1
  <2>2. CASE Grows(audio', audio) /\ Len(audio) < Capacity /\ control' = control
    <3>1. /\ audio' \in Seq(Pieces) /\ Len(audio') <= Capacity
          /\ Clean(audio, Len(audio)) => Clean(audio', Len(audio'))
      BY <1>3, <2>2, GrowsTo
    <3>2. QED BY <1>3, <2>2, <3>1
  <2>3. QED BY <1>2, <2>1, <2>2
<1>5. TypeOK' /\ ChannelTypes'
  BY <1>1, <1>2, <1>4 DEF Inv, TypeOK, ChannelTypes
<1>6. Calling'
  BY <1>1 DEF Inv, Calling
<1>7. Waiting' /\ Errs'
  BY <1>1 DEF Inv, Waiting, Errs
<1>8. Spoke' /\ Sound'
  BY <1>1, <1>4 DEF Inv, Spoke, SpokenIsWhole, Sentence, Sound, Running
<1>9. QED BY <1>2, <1>5, <1>6, <1>7, <1>8 DEF Inv

\* A faulty runner writes junk.
LEMMA ProcBabblesStep ==
  ASSUME Inv, ProcBabbles
  PROVE  Inv'
<1>1. /\ faulty
      /\ UNCHANGED <<engine, faulty, live, call, method, id, outcome, spoken, host, outgoing, ctlBuffer,
                  replies, reply, ctlError, cause, reader, audBuffer, frames, audError, audFirst, abort,
                  late, cancelled, stdin, stdinClosed, proc, inBuffer, toWrite, loaded>>
  BY DEF ProcBabbles, callVars, hostVars, readerVars, waitVars, procVars
<1>2. /\ Exchange' /\ control' \in Seq(Pieces) /\ audio' \in Seq(Pieces)
      /\ Len(control') <= Capacity /\ Len(audio') <= Capacity
  BY ProcBabblesExchange
<1>3. TypeOK' /\ ChannelTypes'
  BY <1>1, <1>2 DEF Inv, TypeOK, ChannelTypes
<1>4. Calling'
  BY <1>1 DEF Inv, Calling
<1>5. Waiting' /\ Errs'
  BY <1>1 DEF Inv, Waiting, Errs
<1>6. Spoke' /\ Sound'
  BY <1>1 DEF Inv, Spoke, SpokenIsWhole, Sentence, Sound
<1>7. QED BY <1>2, <1>3, <1>4, <1>5, <1>6 DEF Inv

\* A deadline expires or the caller cancels.
LEMMA TimePassesStep ==
  ASSUME Inv, Expire \/ Cancel
  PROVE  Inv'
<1>1. /\ faulty /\ late' \in BOOLEAN /\ cancelled' \in BOOLEAN
      /\ UNCHANGED <<engine, faulty, live, call, method, id, outcome, spoken, host, outgoing, ctlBuffer,
                  replies, reply, ctlError, cause, reader, audBuffer, frames, audError, audFirst, abort,
                  stdin, control, audio, stdinClosed, proc, inBuffer, toWrite, loaded>>
  BY DEF Inv, ChannelTypes, Expire, Cancel, callVars, hostVars, readerVars, procVars
<1>2. Exchange'
  BY OtherExchange
<1>3. TypeOK' /\ ChannelTypes'
  BY <1>1 DEF Inv, TypeOK, ChannelTypes
<1>4. Calling'
  BY <1>1 DEF Inv, Calling
<1>5. Waiting' /\ Errs'
  BY <1>1 DEF Inv, Waiting, Errs
<1>6. Spoke' /\ Sound'
  BY <1>1 DEF Inv, Spoke, SpokenIsWhole, Sentence, Sound
<1>7. QED BY <1>2, <1>3, <1>4, <1>5, <1>6 DEF Inv

-----------------------------------------------------------------------------
(* The invariant holds, and what follows.                                  *)

\* The invariant holds at first.
LEMMA InvInit == Init => Inv
<1> SUFFICES ASSUME Init PROVE Inv
  OBVIOUS
<1>1. NoReply \in Msgs
  BY DEF NoReply, Message, Msgs, Whats
<1>2. TypeOK
  <2>1. 0 <= Capacity
    BY RunnerBounds
  <2>2. QED BY <2>1, EmptyIs DEF Init, TypeOK, Errors
<1>3. ChannelTypes
  BY <1>1, EmptyIs DEF Init, ChannelTypes
<1>4. Exchange
  BY EmptyIs DEF Init, Exchange, Unasked, Quiet
<1>5. Calling /\ Waiting /\ Errs
  BY DEF Init, Calling, Waiting, Errs
<1>6. Spoke /\ Sound
  BY EmptyIs DEF Init, Spoke, SpokenIsWhole, Sound
<1>7. QED BY <1>2, <1>3, <1>4, <1>5, <1>6 DEF Inv

\* Every step keeps the invariant.
LEMMA InvStep == Inv /\ [Next]_vars => Inv'
<1> SUFFICES ASSUME Inv, [Next]_vars PROVE Inv'
  OBVIOUS
<1>1. ASSUME NEW c \in {"prepare", "synthesize", "unload"}, Begin(c) PROVE Inv'
  BY <1>1, BeginStep
<1>2. CASE HostStep
  BY <1>2, SpawnStep, SpawnFailsStep, HostWritesStep, StartsWaitingStep, HostFailsStep, HostReadsStep,
    TakeSpokenStep, TakeStartedStep, TakeUnloadedStep, JoinStep, DroppedStep DEF HostStep
<1>3. CASE ReaderStep
  BY <1>3, ReaderReadsStep, ReaderFailsStep DEF ReaderStep
<1>4. CASE ProcStep
  BY <1>4, ProcReadsStep, ProcEndsStep, ProcWritesStep DEF ProcStep
<1>5. CASE ProcDies \/ ProcBabbles \/ Kill \/ Expire \/ Cancel
  BY <1>5, ProcEndsStep, ProcBabblesStep, TimePassesStep
<1>6. CASE UNCHANGED vars
  <2>1. UNCHANGED exchangeVars /\ reader' = reader /\ host' = host
    BY <1>6 DEF vars, exchangeVars, callVars, hostVars, readerVars, procVars
  <2>2. Exchange'
    BY <2>1, ExchangeSame DEF Inv
  <2>3. TypeOK' /\ ChannelTypes'
    BY <1>6 DEF vars, callVars, hostVars, readerVars, waitVars, procVars, Inv, TypeOK, ChannelTypes
  <2>4. Calling' /\ Waiting' /\ Errs'
    BY <1>6 DEF vars, callVars, hostVars, readerVars, waitVars, procVars, Inv, Calling, Waiting, Errs
  <2>5. Spoke' /\ Sound'
    BY <1>6 DEF vars, callVars, hostVars, readerVars, waitVars, procVars, Inv, Spoke, SpokenIsWhole,
      Sentence, Sound, Running
  <2>6. QED BY <2>2, <2>3, <2>4, <2>5 DEF Inv
<1>7. QED BY <1>1, <1>2, <1>3, <1>4, <1>5, <1>6 DEF Next

\* The invariant holds always.
LEMMA Invariance == Spec => []Inv
BY InvInit, InvStep, PTL DEF Spec

\* Every variable of the session keeps its type, and no pipe ever holds more than
\* its capacity.
THEOREM TypeCorrect == Spec => []TypeOK
<1>1. Inv => TypeOK
  BY DEF Inv
<1>2. QED BY <1>1, Invariance, PTL

\* No request gets anything of another one, for sentences of any length, pipes of
\* any capacity and any number of calls: what is spoken is the whole sentence of
\* the request, a reply that is taken answers the request it is taken for, and a
\* session that waits for its next request waits with empty channels, however
\* the writes of the process and the reads of two threads interleave.
\* (send_request, receive_audio_stream, drop_session.)
THEOREM ExchangeStaysClean == Spec => []ExchangeIsClean
<1>1. Inv => RepliesMatch
  <2> SUFFICES ASSUME Inv, NEW r \in {reply} \union {replies[i] : i \in DOMAIN replies}, r # NoReply
               PROVE  r.id = id
    BY DEF RepliesMatch
  <2>1. replies # <<>> \/ reply # NoReply
    <3>1. DOMAIN <<>> = {}
      OBVIOUS
    <3>2. QED BY <3>1
  <2>2. PICK m \in Msgs :
          /\ m.id = id
          /\ \/ replies = <<m>> /\ reply = NoReply
             \/ replies = <<>> /\ reply = m
    BY <2>1, Replied DEF Inv
  <2>3. r = m
    <3>1. CASE replies = <<m>> /\ reply = NoReply
      <4>1. \A i \in DOMAIN <<m>> : <<m>>[i] = m
        OBVIOUS
      <4>2. QED BY <3>1, <4>1
    <3>2. CASE replies = <<>> /\ reply = m
      <4>1. DOMAIN <<>> = {}
        OBVIOUS
      <4>2. QED BY <3>2, <4>1
    <3>3. QED BY <2>2, <3>1, <3>2
  <2>4. QED BY <2>2, <2>3
<1>2. Inv => AlignedWhenIdle
  <2> SUFFICES ASSUME Inv, live, host = "idle"
               PROVE  /\ replies = <<>> /\ ctlBuffer = <<>> /\ audBuffer = <<>>
                      /\ ~faulty => control = <<>> /\ audio = <<>> /\ toWrite = <<>>
    BY DEF AlignedWhenIdle
  <2>1. Quiet
    BY DEF Inv, Exchange
  <2>2. \A pipe \in Seq(Pieces) : Dirty(pipe) /\ Clean(pipe, Len(pipe)) => pipe = <<>>
    <3> SUFFICES ASSUME NEW pipe \in Seq(Pieces), Dirty(pipe), Clean(pipe, Len(pipe)), pipe # <<>> PROVE FALSE
      OBVIOUS
    <3>1. 1 \in 1 .. Len(pipe)
      BY EmptySeq, LenProperties
    <3>2. QED BY <3>1 DEF Dirty, Clean
  <2>3. QED BY <2>1, <2>2 DEF Quiet, Inv, ChannelTypes, Sound
<1>3. Inv => ExchangeIsClean
  BY <1>1, <1>2 DEF Inv, Spoke, ExchangeIsClean
<1>4. QED BY <1>3, Invariance, PTL

\* The error a session is given up for is never the interruption of the other
\* reader that it caused; and a process that does nothing wrong is never taken
\* for a broken one, whatever blocks on the two bounded pipes meanwhile.
\* (send_request, check_wait.)
THEOREM FailuresStayReal == Spec => []FailuresAreReal
<1>1. Inv => FailuresAreReal
  BY DEF Inv, Errs, Sound, FailuresAreReal, OriginalErrorReported, SoundRunnerServes
<1>2. QED BY <1>1, Invariance, PTL

-----------------------------------------------------------------------------
(* The refinement.                                                         *)

\* What the caller of a session sees.
callerVars == <<live, call, outcome>>

\* A call that ends as the contract allows is a step of the contract.
LEMMA Ends ==
  ASSUME call # "none", call' = "none",
         \/ outcome' \in Contract!Keeps[call] /\ live'
         \/ outcome' \in Contract!Loses[call] /\ ~live',
         live' \in BOOLEAN
  PROVE  Contract!Next
<1>1. Contract!End
  BY DEF Contract!End
<1>2. QED BY <1>1 DEF Contract!Next

\* A step of the calling thread ends its call as the contract allows, or is
\* none of the caller's business.
LEMMA HostStepEnds ==
  ASSUME Inv, HostStep
  PROVE  Contract!Next \/ UNCHANGED Contract!vars
<1>1. live \in BOOLEAN /\ (host # "idle" => call # "none") /\ call \in {"none", "prepare", "synthesize", "unload"}
  BY DEF Inv, TypeOK, Calling
<1>2. CASE UNCHANGED callerVars
  BY <1>2 DEF callerVars, Contract!vars
<1>3. CASE Spawn
  BY <1>1, <1>3 DEF Spawn, Contract!vars
<1>4. CASE SpawnFails
  <2>1. /\ call' = "none" /\ ~live' /\ outcome' \in {"cancelled", "broken"} /\ live' = live
        /\ call \in {"prepare", "synthesize"}
    BY <1>1, <1>4 DEF SpawnFails, Return, Inv, Calling
  <2>2. outcome' \in Contract!Loses[call]
    BY <2>1 DEF Contract!Loses
  <2>3. QED BY <1>1, <2>1, <2>2, Ends
<1>5. CASE TakeStarted
  <2>1. CASE UNCHANGED callerVars
    BY <2>1 DEF callerVars, Contract!vars
  <2>2. CASE method = "load" /\ call = "prepare" /\ Head(replies).what # "error"
    <3>1. call' = "none" /\ outcome' = "ok" /\ live' = live /\ live
      BY <1>5, <2>2 DEF TakeStarted, Inv, Calling
    <3>2. outcome' \in Contract!Keeps[call]
      BY <2>2, <3>1 DEF Contract!Keeps
    <3>3. QED BY <1>1, <2>2, <3>1, <3>2, Ends
  <2>3. QED BY <1>5, <2>1, <2>2 DEF TakeStarted, GiveUp, callVars, callerVars
<1>6. CASE Join
  <2>1. CASE UNCHANGED callerVars
    BY <2>1 DEF callerVars, Contract!vars
  <2>2. CASE FirstError = "none"
    <3>1. /\ call' = "none" /\ outcome' \in {"ok", "rejected"} /\ live' = live /\ live
          /\ call = "synthesize"
      BY <1>6, <2>2 DEF Join, Inv, Calling, Waiting
    <3>2. outcome' \in Contract!Keeps[call]
      BY <3>1 DEF Contract!Keeps
    <3>3. QED BY <1>1, <3>1, <3>2, Ends
  <2>3. QED BY <1>6, <2>1, <2>2 DEF Join, GiveUp, callVars, callerVars
<1>7. CASE Dropped
  <2>1. call' = "none" /\ outcome' = Ending /\ live' = FALSE /\ call # "none"
        /\ (cause = "unloaded" <=> call = "unload")
    BY <1>1, <1>7 DEF Dropped, Inv, Errs
  <2>2. outcome' \in Contract!Loses[call]
    <3>1. CASE call = "unload"
      <4>1. cause = "unloaded"
        BY <2>1, <3>1
      <4>2. Ending = "ok"
        BY <4>1 DEF Ending
      <4>3. QED BY <2>1, <3>1, <4>2 DEF Contract!Loses
    <3>2. CASE call \in {"prepare", "synthesize"}
      <4>1. cause # "unloaded"
        BY <2>1, <3>2
      <4>2. Ending \in {"refused", "broken", "cancelled"}
        BY <4>1 DEF Ending
      <4>3. QED BY <2>1, <3>2, <4>2 DEF Contract!Loses
    <3>3. QED BY <1>1, <2>1, <3>1, <3>2
  <2>3. QED BY <2>1, <2>2, Ends
<1>8. CASE HostWrites \/ StartsWaiting \/ HostFails \/ HostReads \/ TakeSpoken \/ TakeUnloaded
  <2>1. UNCHANGED callerVars
    BY <1>8 DEF HostWrites, StartsWaiting, HostFails, HostReads, TakeSpoken, TakeUnloaded, ControlFails, GiveUp,
      callVars, callerVars
  <2>2. QED BY <1>2, <2>1
<1>9. QED BY <1>3, <1>4, <1>5, <1>6, <1>7, <1>8 DEF HostStep

\* The safety of the refinement: a session starts as the contract does, and each
\* of its steps is one of the contract or none of the caller's business.  A call
\* that ends says by its outcome whether a loaded runner is left.
THEOREM SessionImplementsContract ==
  Spec => Contract!Init /\ [][Contract!Next]_(Contract!vars)
<1>1. Init => Contract!Init
  BY DEF Init, Contract!Init
<1>2. Inv /\ [Next]_vars => [Contract!Next]_(Contract!vars)
  <2> SUFFICES ASSUME Inv, [Next]_vars PROVE Contract!Next \/ UNCHANGED Contract!vars
    OBVIOUS
  <2>1. ASSUME NEW c \in {"prepare", "synthesize", "unload"}, Begin(c) PROVE Contract!Next
    <3>1. Contract!Begin(c)
      BY <2>1 DEF Begin, Contract!Begin, Inv, TypeOK
    <3>2. c \in DOMAIN Contract!Keeps
      BY DEF Contract!Keeps
    <3>3. QED BY <3>1, <3>2 DEF Contract!Next
  <2>2. CASE HostStep
    BY <2>2, HostStepEnds
  <2>3. CASE ReaderStep \/ ProcStep \/ ProcDies \/ ProcBabbles \/ Kill \/ Expire \/ Cancel \/ UNCHANGED vars
    <3>1. UNCHANGED callerVars
      BY <2>3 DEF ReaderStep, ReaderReads, ReaderFails, ProcStep, ProcReads, ProcEndOfInput, ProcWrites, ProcDies,
        ProcBabbles, Kill, Expire, Cancel, vars, callVars, callerVars
    <3>2. QED BY <3>1 DEF callerVars, Contract!vars
  <2>4. QED BY <2>1, <2>2, <2>3 DEF Next
<1>3. QED BY <1>1, <1>2, Invariance, PTL DEF Spec

==============================================================================
