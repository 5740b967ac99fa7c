--------------------------- MODULE TextNormalizer ---------------------------
(***************************************************************************)
(* What of a text is spoken (src/src/text_normalizer.cpp), and where it is *)
(* cut (src/src/text_splitter.cpp, src/src/kokoro_batching.cpp).           *)
(*                                                                         *)
(* A line of Markdown, an inline token and an HTML tag are each one symbol. *)
(* The rules return positions of their input, so that a property can tell   *)
(* what was spoken, in which order and how often; a marker that announces   *)
(* a skipped block is the negated position of the block.                   *)
(***************************************************************************)
EXTENDS Integers, Sequences, SequencesExt, FiniteSetsExt

-----------------------------------------------------------------------------
(* Blocks.                                                                 *)

\* BlockBuilder: finished blocks, and the one that still takes lines.
NoBlocks == [done |-> <<>>, open |-> <<>>]

Flushed(b) ==
  IF b.open = <<>> THEN b ELSE [done |-> Append(b.done, b.open), open |-> <<>>]
Appended(b, items) == [b EXCEPT !.open = @ \o items]
Literal(b, item) == [done |-> Append(Flushed(b).done, <<item>>), open |-> <<>>]
Blocks(b) == Flushed(b).done

-----------------------------------------------------------------------------
(* Markdown, line by line, block quotes already stripped.  "delimiter" and *)
(* "row" hold a bar; "tick" and "tilde" are the two code fences.           *)

Lines == {"blank", "tick", "tilde", "break", "delimiter", "row", "heading", "item", "text"}
Fences == {"tick", "tilde"}
Barred == {"delimiter", "row"}

\* The first line at or after i that is in the set, or the end of the text.
FirstLine(lines, i, set) ==
  Min({j \in i .. Len(lines) : lines[j] \in set} \union {Len(lines) + 1})

\* Mutant: the row after the table is skipped with it.
AfterTableOne(lines, i) == FirstLine(lines, i + 2, Lines \ Barred) + 1

\* The line after a table whose header is line i.
AfterTable(lines, i) == FirstLine(lines, i + 2, Lines \ Barred)

\* The line after the code block that opens with line i: only a fence of the
\* same kind closes it, and without one the rest of the text is code.
AfterFence(lines, i) == FirstLine(lines, i + 1, {lines[i]}) + 1

StartsTable(lines, i) ==
  lines[i] \in Barred /\ i < Len(lines) /\ lines[i + 1] = "delimiter"

\* A line outside code and tables.
BlockLine(b, line, i) ==
  CASE line \in {"blank", "break"} -> Flushed(b)
    [] line = "heading" -> Flushed(Appended(Flushed(b), <<i>>))
    [] line = "item" -> Appended(Flushed(b), <<i>>)
    [] OTHER -> Appended(b, <<i>>)

RECURSIVE MarkdownFrom(_, _, _)
MarkdownFrom(lines, i, b) ==
  IF i > Len(lines)
  THEN Blocks(b)
  ELSE CASE lines[i] \in Fences ->
              MarkdownFrom(lines, AfterFence(lines, i), Literal(b, -i))
         [] StartsTable(lines, i) ->
              MarkdownFrom(lines, AfterTable(lines, i), Literal(b, -i))
         [] OTHER -> MarkdownFrom(lines, i + 1, BlockLine(b, lines[i], i))

\* normalize_markdown()
Markdown(lines) == MarkdownFrom(lines, 1, NoBlocks)

-----------------------------------------------------------------------------
(* Inline Markdown: the positions in lo .. hi that are read out.           *)

InlineTokens == {"word", "space", "escape", "quote", "bang", "[", "]", "(", ")", "_", "*"}

\* The ']' that closes the '[' at k, or 0; an escaped bracket does not count.
RECURSIVE LabelEnd(_, _, _, _)
LabelEnd(t, k, hi, depth) ==
  IF k > hi THEN 0
  ELSE CASE t[k] = "escape" -> LabelEnd(t, k + 2, hi, depth)
         [] t[k] = "["  -> LabelEnd(t, k + 1, hi, depth + 1)
         [] t[k] = "]"  -> IF depth = 1 THEN k ELSE LabelEnd(t, k + 1, hi, depth - 1)
         [] OTHER -> LabelEnd(t, k + 1, hi, depth)

Closer(opener) == IF opener = "(" THEN ")" ELSE "]"

\* skip_link_target(): the position after the target at p, or 0.
AfterTarget(t, p, hi) ==
  IF p <= hi /\ t[p] \in {"(", "["}
  THEN LET ends == {q \in p + 1 .. hi : t[q] = Closer(t[p])} IN
       IF ends = {} THEN 0 ELSE Min(ends) + 1
  ELSE 0

\* A label and a target that begin with the '[' at k: render_bracketed().
Label(t, k, hi) ==
  LET end == LabelEnd(t, k, hi, 0)
  IN  [end |-> end, after |-> IF end = 0 THEN 0 ELSE AfterTarget(t, end + 1, hi)]
Bracketed(t, k, hi) == k <= hi /\ t[k] = "[" /\ Label(t, k, hi).after # 0

\* The length of the run of backticks at k, and where the same run comes again.
TickRun(t, k, hi) == Min({n \in 1 .. hi - k + 1 : k + n > hi \/ t[k + n] # "quote"})
SpanEnds(t, k, hi) ==
  {p \in k + TickRun(t, k, hi) .. hi - TickRun(t, k, hi) + 1 :
     \A q \in p .. p + TickRun(t, k, hi) - 1 : t[q] = "quote"}

\* An emphasis mark is kept inside a word ('_') or between spaces ('*').
Spoken(t, k, lo, hi) ==
  CASE t[k] = "_" -> k > lo /\ t[k - 1] = "word" /\ k < hi /\ t[k + 1] = "word"
    [] t[k] = "*" -> (k = lo \/ t[k - 1] = "space") /\ (k = hi \/ t[k + 1] = "space")
    [] OTHER -> TRUE

Interval(a, b) == [n \in 1 .. b - a + 1 |-> a + n - 1]

\* render_inline()
RECURSIVE InlineFrom(_, _, _, _)
InlineFrom(t, k, lo, hi) ==
  IF k > hi THEN <<>>
  ELSE CASE t[k] = "escape" /\ k < hi ->
              <<k + 1>> \o InlineFrom(t, k + 2, lo, hi)
         [] t[k] = "quote" /\ SpanEnds(t, k, hi) # {} ->
              LET run == TickRun(t, k, hi)
                  close == Min(SpanEnds(t, k, hi))
              IN  Interval(k + run, close - 1) \o InlineFrom(t, close + run, lo, hi)
         [] t[k] = "bang" /\ Bracketed(t, k + 1, hi) ->
              LET label == Label(t, k + 1, hi)
              IN  InlineFrom(t, k + 2, k + 2, label.end - 1)
                    \o InlineFrom(t, label.after, lo, hi)
         [] t[k] = "[" /\ Bracketed(t, k, hi) ->
              LET label == Label(t, k, hi)
              IN  InlineFrom(t, k + 1, k + 1, label.end - 1)
                    \o InlineFrom(t, label.after, lo, hi)
         [] OTHER ->
              (IF Spoken(t, k, lo, hi) THEN <<k>> ELSE <<>>)
                \o InlineFrom(t, k + 1, lo, hi)
Inline(t) == InlineFrom(t, 1, 1, Len(t))

-----------------------------------------------------------------------------
(* HTML: each tag, comment mark and stretch of text is one token; "img" is *)
(* an image with an alternative text.                                      *)

Elements == {"pre", "table", "h1", "code", "a", "p"}
Open == [e \in Elements |-> CASE e = "pre" -> "<pre>" [] e = "table" -> "<table>"
  [] e = "h1" -> "<h1>" [] e = "code" -> "<code>" [] e = "a" -> "<a>"
  [] e = "p" -> "<p>"]
Close == [e \in Elements |-> CASE e = "pre" -> "</pre>" [] e = "table" -> "</table>"
  [] e = "h1" -> "</h1>" [] e = "code" -> "</code>" [] e = "a" -> "</a>"
  [] e = "p" -> "</p>"]
HtmlTokens == {Open[e] : e \in Elements} \union {Close[e] : e \in Elements}
                \union {"text", "img", "br", "<!--", "-->"}
SpokenTokens == {"text", "img", "-->"}

\* find_closing_tag(): the first, or the end of the span.
ClosingTag(h, k, end, name) ==
  LET found == {q \in k .. end - 1 : h[q] = name}
  IN  IF found = {} THEN end ELSE Min(found)

\* advance_past_closing()
Past(close, end) == IF close >= end THEN end ELSE close + 1

\* A run of inline text joins the open block; flush_run.
RunFlushed(s) == [s EXCEPT !.b = Appended(@, s.run), !.run = <<>>]
BlockFlushed(s) == [s EXCEPT !.b = Flushed(@)]
RunAppended(s, items) == [s EXCEPT !.run = @ \o items]

\* A heading is a block of its own.
Heading(s, items) ==
  BlockFlushed(RunFlushed(RunAppended(BlockFlushed(RunFlushed(s)), items)))

\* scan_html() on h[k .. end - 1].
RECURSIVE HtmlFrom(_, _, _, _)
RECURSIVE Span(_, _, _)
HtmlFrom(h, k, end, s) ==
  IF k >= end THEN RunFlushed(s)
  ELSE
    LET close(e) == ClosingTag(h, k + 1, end, Close[e])
        after(e) == Past(close(e), end)
    IN CASE h[k] = "<!--" -> HtmlFrom(h, Past(ClosingTag(h, k + 1, end, "-->"), end), end, s)
         [] h[k] \in {Open.pre, Open.table} ->
              LET e == IF h[k] = Open.pre THEN "pre" ELSE "table"
                  flushed == RunFlushed(s)
              IN  HtmlFrom(h, after(e), end, [flushed EXCEPT !.b = Literal(@, -k)])
         [] h[k] = Open.h1 ->
              HtmlFrom(h, after("h1"), end, Heading(s, Span(h, k + 1, close("h1"))))
         [] h[k] = Open.code ->
              HtmlFrom(h, after("code"), end,
                       RunAppended(s, Interval(k + 1, close("code") - 1)))
         [] h[k] = Open.a ->
              HtmlFrom(h, after("a"), end, RunAppended(s, Span(h, k + 1, close("a"))))
         [] h[k] \in SpokenTokens -> HtmlFrom(h, k + 1, end, RunAppended(s, <<k>>))
         [] h[k] \in {"br", Open.p, Close.p} ->
              HtmlFrom(h, k + 1, end, BlockFlushed(RunFlushed(s)))
         [] OTHER -> HtmlFrom(h, k + 1, end, s)

\* render_span(): the blocks of a span, read as one phrase.
Span(h, k, end) == FlattenSeq(Blocks(HtmlFrom(h, k, end, [b |-> NoBlocks, run |-> <<>>]).b))

\* normalize_html()
Html(h) == Blocks(HtmlFrom(h, 1, Len(h) + 1, [b |-> NoBlocks, run |-> <<>>]).b)

-----------------------------------------------------------------------------
(* Sentences: split_into_sentences().  "dot" is any terminator.            *)

Characters == {"letter", "dot", "space"}

IsCut(t, i) == t[i] = "dot" /\ (i = Len(t) \/ t[i + 1] = "space")

\* A chunk is the trimmed text from after one cut to the next.
Trimmed(t, a, b) ==
  LET kept == {i \in a .. b : t[i] # "space"}
  IN  IF kept = {} THEN <<>> ELSE Interval(Min(kept), Max(kept))

Sentences(t) ==
  LET cuts == SetToSortSeq({0} \union {i \in 1 .. Len(t) : IsCut(t, i)}, <)
      upTo(n) == IF n = Len(cuts) THEN Len(t) ELSE cuts[n + 1]
      chunks == [n \in 1 .. Len(cuts) |-> Trimmed(t, cuts[n] + 1, upTo(n))]
  IN  SelectSeq(chunks, LAMBDA c : c # <<>>)

-----------------------------------------------------------------------------
(* Phonemes: split_kokoro_phoneme_ids(), batches of at most limit.         *)

\* A batch ends with its last punctuation, if it has any and is not the last.
BatchEnd(t, begin, limit) ==
  LET last == Min({begin + limit, Len(t)})
      stops == {i \in begin + 1 .. last : t[i] = "stop"}
  IN  IF last = Len(t) \/ stops = {} THEN last ELSE Max(stops)

RECURSIVE BatchesFrom(_, _, _)
BatchesFrom(t, begin, limit) ==
  IF begin >= Len(t) THEN <<>>
  ELSE LET end == BatchEnd(t, begin, limit)
       IN  <<Interval(begin + 1, end)>> \o BatchesFrom(t, end, limit)

=============================================================================
