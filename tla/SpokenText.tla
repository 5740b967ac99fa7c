----------------------------- MODULE SpokenText -----------------------------
(***************************************************************************)
(* The rules of TextNormalizer applied to every short text: a text grows    *)
(* by one symbol at a time, and what is spoken of it is compared with what  *)
(* a listener must and must not hear.                                      *)
(***************************************************************************)
EXTENDS TextNormalizer

CONSTANTS
  MaxText,   \* for each kind of text, the bound on its length
  Batch      \* the runner's bound on the phonemes of a batch

VARIABLES
  kind,   \* what sort of text it is
  text    \* its symbols

textVars == <<kind, text>>

Alphabet ==
  [markdown |-> Lines, inline |-> InlineTokens, html |-> HtmlTokens,
   sentences |-> Characters, phonemes |-> {"sound", "stop"}]

ASSUME TextBounds == MaxText \in [DOMAIN Alphabet -> Nat] /\ Batch \in Nat \ {0}

TextInit == kind \in DOMAIN Alphabet /\ text = <<>>

Grow ==
  /\ Len(text) < MaxText[kind]
  /\ \E symbol \in Alphabet[kind] : text' = Append(text, symbol)
  /\ UNCHANGED kind

-----------------------------------------------------------------------------

Abs(i) == IF i < 0 THEN -i ELSE i
Increasing(s) == \A i \in 1 .. Len(s) - 1 : Abs(s[i]) < Abs(s[i + 1])
Heard(blocks) == ToSet(FlattenSeq(blocks))
None(set, a, b) == \A i \in a .. b : text[i] \notin set

\* The symbol that hides k: it is announced, and nothing closes it before k.
HidesLine(m, k) ==
  /\ m < k
  /\ IF text[m] \in Fences
     THEN None({text[m]}, m + 1, k - 1)
     ELSE None(Lines \ Barred, m, k)

\* Every line of Markdown with something to read is read once and in order,
\* unless an announced table or code block is still open there; and nothing
\* inside one is read.  (normalize_markdown's index, advanced at five places.)
MarkdownIsReadOnce ==
  kind = "markdown" =>
    LET blocks == Markdown(text)
        heard == Heard(blocks)
        hidden(k) == \E m \in 1 .. k - 1 : -m \in heard /\ HidesLine(m, k)
    IN /\ Increasing(FlattenSeq(blocks))
       /\ \A k \in DOMAIN text :
            text[k] \in {"text", "item", "heading", "row", "delimiter"} =>
              IF hidden(k) THEN k \notin heard
              ELSE k \in heard \/ -k \in heard

\* Two lines are read without a pause only when they continue one paragraph or
\* item: no blank line, rule, heading, item or skipped block lies between.
\* (BlockBuilder's flushes.)
PausesAreKept ==
  kind = "markdown" =>
    \A b \in ToSet(Markdown(text)) : \A n \in 1 .. Len(b) - 1 :
      /\ text[b[n]] # "heading"
      /\ None({"blank", "break", "heading", "item"} \union Fences, b[n] + 1, b[n + 1])

\* The position is in a link's target, from the bracket or parenthesis that
\* follows a label to the first that closes it.
InTarget(k) ==
  \E p \in 2 .. k - 1 : \E q \in k + 1 .. Len(text) :
    /\ text[p - 1] = "]" /\ text[p] \in {"(", "["}
    /\ text[q] = Closer(text[p])
    /\ \A r \in p + 1 .. q - 1 : text[r] # Closer(text[p])

\* Inline marks never cost a word: every word is read once and in order, unless
\* it is part of a link's target.  (render_inline and render_bracketed, which
\* move one index through the same text.)
WordsSurviveMarkup ==
  kind = "inline" =>
    LET heard == Inline(text)
    IN  /\ Increasing(heard)
        /\ \A k \in DOMAIN text :
             text[k] = "word" /\ k \notin ToSet(heard) => InTarget(k)

\* The tag or comment that hides a position of HTML, and what ends it.
Ends(m) == CASE text[m] = Open.pre -> Close.pre [] text[m] = Open.table -> Close.table
             [] OTHER -> "-->"
HidesText(m, k) ==
  text[m] \in {Open.pre, Open.table, "<!--"} /\ None({Ends(m)}, m + 1, k - 1)

\* Text of a page is read once and in order.  It is left out only inside a
\* comment, or a preformatted block or table that was announced, and it is left
\* out there as long as no closing tag was met.  (scan_html, render_span and
\* find_closing_tag, which cut nested spans out of one string.)
PageIsReadOnce ==
  kind = "html" =>
    LET blocks == Html(text)
        heard == Heard(blocks)
    IN /\ Increasing(FlattenSeq(blocks))
       /\ \A k \in DOMAIN text : text[k] \in {"text", "img"} =>
            /\ k \notin heard =>
                 \E m \in 1 .. k - 1 :
                   HidesText(m, k) /\ (text[m] = "<!--" \/ -m \in heard)
            /\ k \in heard =>
                 \A m \in 1 .. k - 1 :
                   -m \in heard =>
                     ~None({Close[e] : e \in Elements}, m + 1, k - 1)

\* Splitting into sentences loses nothing but spaces, keeps the order, and cuts
\* exactly at a terminator that ends a word.  (split_into_sentences.)
SentencesCoverText ==
  kind = "sentences" =>
    LET chunks == Sentences(text)
        flat == FlattenSeq(chunks)
    IN /\ Increasing(flat)
       /\ {k \in DOMAIN text : text[k] # "space"} \subseteq ToSet(flat)
       /\ \A c \in ToSet(chunks) : \A n \in 1 .. Len(c) - 1 :
            ~(text[c[n]] = "dot" /\ text[c[n + 1]] = "space")
       /\ \A n \in 1 .. Len(chunks) - 1 :
            text[Last(chunks[n])] = "dot" /\ text[Last(chunks[n]) + 1] = "space"

\* Batches of phonemes join to the whole, none is empty or longer than the
\* runner takes, and a phrase is cut only when it does not fit in one.
\* (split_kokoro_phoneme_ids.)
BatchesFit ==
  kind = "phonemes" =>
    LET batches == BatchesFrom(text, 0, Batch)
    IN /\ FlattenSeq(batches) = Interval(1, Len(text))
       /\ \A n \in DOMAIN batches :
            /\ Len(batches[n]) \in 1 .. Batch
            /\ n < Len(batches) =>
                 \/ text[Last(batches[n])] = "stop"
                 \/ Len(batches[n]) = Batch
                    /\ \A i \in DOMAIN batches[n] : text[batches[n][i]] = "sound"

\* Whatever the text is written in, it is read once, in order, with its pauses,
\* and nothing is left out but what was announced.
TextIsReadOnce ==
  /\ MarkdownIsReadOnce /\ PausesAreKept
  /\ WordsSurviveMarkup
  /\ PageIsReadOnce
  /\ SentencesCoverText
  /\ BatchesFit

=============================================================================
