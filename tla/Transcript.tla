------------------------------ MODULE Transcript ------------------------------
(***************************************************************************)
(* What the text provider may do to a transcript (post_processing.rs):       *)
(* suspicious_error analyses what was said and what the provider wrote, and  *)
(* accepts only the same items in the same order with the same values.       *)
(*                                                                           *)
(* A token is a tuple: <<"note">> is a word; <<"#", 25>>, <<"#.", 2, <<5>>>>,*)
(* <<"#:", 5, 30>> and <<"#th", 3>> are numbers as canonicalize_numbers      *)
(* writes them, <<"$", "#", 5>> an amount.  What was said is a sequence of   *)
(* [word, gap], gap being "", a comma or a full stop before the word; what   *)
(* the provider wrote is a sequence of segments [mark, words].               *)
(***************************************************************************)
EXTENDS Integers, Sequences, SequencesExt

Said(words, i) == IF i \in DOMAIN words THEN words[i][1] ELSE ""

-----------------------------------------------------------------------------
(* Number words.                                                             *)

AtomOf ==
  [zero |-> 0, one |-> 1, two |-> 2, three |-> 3, four |-> 4, five |-> 5, six |-> 6,
   seven |-> 7, eight |-> 8, nine |-> 9, ten |-> 10, eleven |-> 11, twelve |-> 12,
   thirteen |-> 13, fourteen |-> 14, fifteen |-> 15, sixteen |-> 16, seventeen |-> 17,
   eighteen |-> 18, nineteen |-> 19, twenty |-> 20, thirty |-> 30, forty |-> 40,
   fifty |-> 50, sixty |-> 60, seventy |-> 70, eighty |-> 80, ninety |-> 90]
OrdinalOf ==
  [first |-> 1, second |-> 2, third |-> 3, fourth |-> 4, fifth |-> 5, sixth |-> 6,
   seventh |-> 7, eighth |-> 8, ninth |-> 9, tenth |-> 10, eleventh |-> 11,
   twelfth |-> 12, thirteenth |-> 13, fourteenth |-> 14, fifteenth |-> 15,
   sixteenth |-> 16, seventeenth |-> 17, eighteenth |-> 18, nineteenth |-> 19,
   twentieth |-> 20, thirtieth |-> 30, fortieth |-> 40, fiftieth |-> 50,
   sixtieth |-> 60, seventieth |-> 70, eightieth |-> 80, ninetieth |-> 90]
ScaleOf == [thousand |-> 1000, million |-> 1000000, billion |-> 1000000000]
Tens == {20, 30, 40, 50, 60, 70, 80, 90}

IsAtom(words, i) == Said(words, i) \in DOMAIN AtomOf
IsOrdinal(words, i) == Said(words, i) \in DOMAIN OrdinalOf
IsScale(words, i) == Said(words, i) \in DOMAIN ScaleOf
Atom(words, i) == AtomOf[Said(words, i)]
IsNumberWord(words, i) ==
  IsAtom(words, i) \/ IsOrdinal(words, i) \/ IsScale(words, i) \/ Said(words, i) = "hundred"
IsLiteral(words, i) == Said(words, i) \in {"#", "#.", "#:", "#th"}
IsDollar(words, i) == Said(words, i) \in {"dollar", "dollars"}

(* A parser at position i gives what it read and the next position, 0 if it  *)
(* reads nothing.                                                            *)
Parsed(value, next) == [value |-> value, next |-> next]
Nothing == Parsed(0, 0)

ParseUnderHundred(words, i) ==
  IF ~IsAtom(words, i) THEN Nothing
  ELSE IF Atom(words, i) \in Tens /\ IsAtom(words, i + 1) /\ Atom(words, i + 1) \in 1 .. 9
    THEN Parsed(Atom(words, i) + Atom(words, i + 1), i + 2)
    ELSE Parsed(Atom(words, i), i + 1)

ParseUnderThousand(words, i) ==
  LET hundreds == IsAtom(words, i) /\ Atom(words, i) \in 1 .. 9 /\ Said(words, i + 1) = "hundred"
      rest == IF Said(words, i + 2) = "and" THEN i + 3 ELSE i + 2
      remainder == ParseUnderHundred(words, rest)
  IN IF Said(words, i) = "hundred" THEN Parsed(100, i + 1)
     ELSE IF ~hundreds THEN ParseUnderHundred(words, i)
     ELSE IF remainder.value > 0 THEN Parsed(Atom(words, i) * 100 + remainder.value, remainder.next)
     ELSE Parsed(Atom(words, i) * 100, rest)

(* The loop of parse_cardinal, as a function of where it is, of the total so  *)
(* far and of the last scale: the groups that are left.                      *)
Loop == [i : Nat, total : Nat, lastScale : Nat]
Group(words, i) == IF IsScale(words, i) THEN Parsed(1, i) ELSE ParseUnderThousand(words, i)
AfterScale(words, i) == IF Said(words, i + 1) = "and" THEN i + 2 ELSE i + 1
ScaleAt(words, i) == IF IsScale(words, i) THEN ScaleOf[Said(words, i)] ELSE 0
(* After one group, and the scale that may follow it; Groups goes on.        *)
GroupRead(words, start, loop, group, scale, Groups) ==
  IF group.next = 0 THEN Nothing
  ELSE IF group.value = 0 /\ (loop.total > 0 \/ scale > 0)
    THEN Parsed(loop.total, IF loop.i = start THEN start + 1 ELSE loop.i)
  ELSE IF scale = 0 \/ scale >= loop.lastScale THEN Parsed(loop.total + group.value, group.next)
  ELSE IF ~IsNumberWord(words, AfterScale(words, group.next))
    THEN Parsed(loop.total + group.value * scale, AfterScale(words, group.next))
  ELSE Groups[[i |-> AfterScale(words, group.next), total |-> loop.total + group.value * scale,
               lastScale |-> scale]]
ReadGroup(words, start, loop, Groups) ==
  LET Read(group) == GroupRead(words, start, loop, group, ScaleAt(words, group.next), Groups)
  IN Read(Group(words, loop.i))
ParseCardinal(words, start) ==
  LET Groups[loop \in Loop] == ReadGroup(words, start, loop, Groups)
  IN Groups[[i |-> start, total |-> 0, lastScale |-> 2000000000]]

(* The ordinal at position at, alone or after the cardinal read up to it.    *)
Compound(tens, ordinal) == (tens = 0 /\ ordinal < 100) \/ (tens \in Tens /\ ordinal < 10)
OrdinalToken(i, at, prefixEnd, prefix, ordinal) ==
  IF at = i THEN Parsed(<<"#th", ordinal>>, i + 1)
  ELSE IF prefixEnd >= i /\ prefix.next = prefixEnd + 1 /\ Compound(prefix.value % 100, ordinal)
    THEN Parsed(<<"#th", prefix.value + ordinal>>, at + 1)
  ELSE Nothing
OrdinalUpTo(words, i, at, prefixEnd) ==
  OrdinalToken(i, at, prefixEnd, ParseCardinal(SubSeq(words, 1, prefixEnd), i),
               OrdinalOf[Said(words, at)])
OrdinalFrom(words, i, later) ==
  IF later = {} THEN Nothing
  ELSE LET at == Min(later)
       IN OrdinalUpTo(words, i, at, IF Said(words, at - 1) = "and" THEN at - 2 ELSE at - 1)
ParseSpokenOrdinal(words, i) ==
  OrdinalFrom(words, i, {k \in i .. Len(words) : IsOrdinal(words, k)})

IsDigit(words, k) == IsAtom(words, k) /\ Atom(words, k) <= 9
DecimalToken(words, value, point, end) ==
  Parsed(<<"#.", value, [d \in 1 .. end - point - 1 |-> Atom(words, point + d)]>>,
         IF IsDollar(words, end) THEN end + 1 ELSE end)
DecimalAfter(words, whole) ==
  IF Said(words, whole.next) # "point" \/ ~IsDigit(words, whole.next + 1) THEN Nothing
  ELSE DecimalToken(words, whole.value, whole.next,
         Min({k \in whole.next + 1 .. Len(words) + 1 : ~IsDigit(words, k)}))
ParseSpokenDecimal(words, i) == DecimalAfter(words, ParseCardinal(words, i))

TimeToken(hour, minute) ==
  IF /\ hour.next > 0 /\ hour.value <= 23
     /\ minute.next > 0 /\ minute.value \in 10 .. 59
  THEN Parsed(<<"#:", hour.value, minute.value>>, minute.next)
  ELSE Nothing
TimeAfter(words, hour) == TimeToken(hour, ParseCardinal(words, hour.next))
ParseSpokenTime(words, i) ==
  IF Said(words, i - 1) = "at" THEN TimeAfter(words, ParseCardinal(words, i)) ELSE Nothing

CurrencyToken(words, whole, cents) ==
  IF whole.next = 0 THEN Nothing
  ELSE IF IsDollar(words, whole.next) THEN Parsed(<<"$", "#", whole.value>>, whole.next + 1)
  ELSE IF cents.next > 0 /\ cents.value \in 10 .. 99 /\ IsDollar(words, cents.next)
    THEN Parsed(<<"$", "#.", whole.value, <<cents.value \div 10, cents.value % 10>>>>,
                cents.next + 1)
  ELSE Nothing
CurrencyAfter(words, whole) == CurrencyToken(words, whole, ParseCardinal(words, whole.next))
ParseSpokenCurrency(words, i) == CurrencyAfter(words, ParseCardinal(words, i))

(* canonicalize_numbers: the token at i, and where the next one starts.      *)
CardinalToken(cardinal) == Parsed(<<"#", cardinal.value>>, cardinal.next)
FirstRead(readings) == readings[SelectInSeq(readings, LAMBDA reading : reading.next > 0)]
CanonicalNumber(words, i) ==
  FirstRead(<<ParseSpokenOrdinal(words, i), ParseSpokenDecimal(words, i),
              ParseSpokenTime(words, i), ParseSpokenCurrency(words, i),
              CardinalToken(ParseCardinal(words, i))>>)

CanonicalAt(words, i) ==
  IF Said(words, i) = "$" /\ Len(words[i]) = 1 /\ IsLiteral(words, i + 1)
    THEN Parsed(<<"$">> \o words[i + 1], i + 2)
  ELSE IF IsNumberWord(words, i) THEN CanonicalNumber(words, i)
  ELSE Parsed(words[i], i + 1)
CanonicalizeNumbers(words) ==
  LET From[i \in Nat] ==
        LET Then(read) == <<read.value>> \o From[read.next]
        IN IF i > Len(words) THEN <<>> ELSE Then(CanonicalAt(words, i))
  IN From[1]

CanonicalLength(words) == Len(CanonicalizeNumbers(words))
CanonicalSpan(kind, start, length) == [kind |-> kind, start |-> start, end |-> start + length]
CanonicalFormatting(words, formatting) ==
  [k \in DOMAIN formatting |->
     LET span == formatting[k]
     IN CanonicalSpan(span.kind, CanonicalLength(SubSeq(words, 1, span.start)),
                      CanonicalLength(SubSeq(words, span.start + 1, span.end)))]

-----------------------------------------------------------------------------
(* analyze_raw.                                                              *)

PairTriggers ==
  {<<"no", "wait">>, <<"wait", "no">>, <<"no", "actually">>, <<"scratch", "that">>,
   <<"delete", "that">>, <<"never", "mind">>, <<"cancel", "that">>}
CommaTriggers == {"actually", "sorry", "oops"}
ProtectingWords ==
  {"a", "an", "the", "my", "your", "his", "her", "our", "their", "this", "that", "word",
   "literal", "say"}
Fillers == {"um", "uh", "erm", "hmm"}
FillerPairs == {<<"you", "know">>, <<"i", "mean">>}
EmojiPairs == {<<"smiley", "face">>, <<"thumbs", "up">>, <<"heart", "emoji">>, <<"fire", "emoji">>}
PunctuationPairs ==
  {<<"new", "line">>, <<"new", "paragraph">>, <<"question", "mark">>, <<"exclamation", "mark">>}
PunctuationWords == {"newline", "period", "comma"}
Expansion == [thx |-> <<"thanks">>, pls |-> <<"please">>, u |-> <<"you">>, ur |-> <<"your">>,
              gonna |-> <<"going", "to">>]

WordsOf(said) == [k \in DOMAIN said |-> said[k].word]
PairAt(words, i) == <<Said(words, i), Said(words, i + 1)>>
ClauseStarts(said, i) == i > 1 /\ said[i].gap = "."

(* The corrections: which tokens they remove and where they end.             *)
Corrected(state, words, i, start, comma) ==
  LET pair == PairAt(words, i) \in PairTriggers
      sorry == /\ Said(words, i) \in CommaTriggers /\ comma
               /\ i > start /\ i < Len(words)
      cancel == Said(words, i) = "cancel" /\ i = Len(words) /\ i > start
      end == IF pair THEN i + 2 ELSE i + 1
  IN IF pair \/ sorry \/ cancel
     THEN [start |-> end, removed |-> state.removed \cup start .. end - 1,
           corrected |-> state.corrected \cup {end}]
     ELSE [state EXCEPT !.start = start]
NoCorrection == [start |-> 1, removed |-> {}, corrected |-> {}]

\* (Mutant: a correction reaches back into earlier clauses.)
ScanCorrectionsOfText(said) ==
  LET Scan(state, i) == Corrected(state, WordsOf(said), i, state.start, said[i].gap = ",")
  IN FoldLeftDomain(Scan, NoCorrection, said)

ScanCorrections(said) ==
  LET Start(state, i) == IF ClauseStarts(said, i) THEN i ELSE state.start
      Scan(state, i) ==
        Corrected(state, WordsOf(said), i, Start(state, i), said[i].gap = ",")
  IN FoldLeftDomain(Scan, NoCorrection, said)

FormattingCommand(words, i) ==
  CASE Said(words, i) \in {"bold", "italic"} -> [kind |-> Said(words, i), length |-> 1]
    [] Said(words, i) \in {"header", "heading"} -> [kind |-> "heading", length |-> 1]
    [] PairAt(words, i) = <<"bullet", "point">> -> [kind |-> "bullet", length |-> 2]
    [] OTHER -> [kind |-> "none", length |-> 0]

PunctuationLength(words, i) ==
  CASE PairAt(words, i) \in PunctuationPairs -> 2
    [] Said(words, i) \in PunctuationWords -> 1
    [] OTHER -> 0

CloseFormatting(state) ==
  LET open == SelectSeq(state.active, LAMBDA span : span.start < Len(state.words))
      closed == [k \in DOMAIN open |-> [open[k] EXCEPT !.end = Len(state.words)]]
  IN [state EXCEPT !.active = <<>>, !.formatting = @ \o closed]

(* append_expanded: an immediately repeated word is dropped, a number not.   *)
AppendExpanded(state, words, i) ==
  LET Push(before, word) ==
        [before EXCEPT !.last = word,
           !.words = IF word = before.last /\ ~IsNumberWord(<<word>>, 1) /\ ~IsLiteral(<<word>>, 1)
                     THEN @ ELSE Append(@, word)]
      full == IF Said(words, i) \in DOMAIN Expansion
              THEN [k \in DOMAIN Expansion[Said(words, i)] |-> <<Expansion[Said(words, i)][k]>>]
              ELSE <<words[i]>>
  IN FoldLeft(Push, [state EXCEPT !.atStart = FALSE], full)

(* One token that was neither removed nor skipped.                           *)
ReadToken(state, words, i) ==
  LET format == FormattingCommand(words, i)
      protected == state.words # <<>> /\ Last(state.words)[1] \in ProtectingWords
      punctuation == IF protected THEN 0 ELSE PunctuationLength(words, i)
  IN IF state.atStart /\ format.length > 0
     THEN [state EXCEPT !.skip = format.length - 1,
             !.active = <<[kind |-> format.kind, start |-> Len(state.words), end |-> 0]>>]
     ELSE IF punctuation > 0
     THEN [CloseFormatting(state) EXCEPT !.last = <<>>, !.atStart = TRUE,
                                         !.skip = punctuation - 1]
     ELSE IF PairAt(words, i) \in EmojiPairs
     THEN [state EXCEPT !.words = Append(@, <<"@emoji", Said(words, i)>>),
                        !.last = <<"@emoji", Said(words, i)>>,
                        !.atStart = FALSE, !.skip = 1]
     ELSE IF Said(words, i) \in Fillers THEN state
     ELSE IF PairAt(words, i) \in FillerPairs THEN [state EXCEPT !.skip = 1]
     ELSE AppendExpanded(state, words, i)

Emojis(words) == SelectSeq(words, LAMBDA word : word[1] = "@emoji")

(* The pass over the tokens, with what the corrections removed.              *)
OpenClause(state) == [CloseFormatting(state) EXCEPT !.last = <<>>, !.atStart = TRUE]
Passed(said, words, scan) ==
  LET Step(state, i) ==
        IF state.skip > 0 THEN [state EXCEPT !.skip = @ - 1]
        ELSE IF i \in scan.removed THEN state
        ELSE ReadToken(IF i \in scan.corrected \/ ClauseStarts(said, i)
                       THEN OpenClause(state) ELSE state, words, i)
  IN FoldLeftDomain(Step, [words |-> <<>>, formatting |-> <<>>, active |-> <<>>,
                           last |-> <<>>, atStart |-> TRUE, skip |-> 0], said)

Analysis(words, formatting) ==
  [words |-> CanonicalizeNumbers(words), emoji |-> Emojis(words),
   formatting |-> CanonicalFormatting(words, formatting)]
AnalyzeRaw(said) ==
  LET Analyzed(end) == Analysis(end.words, end.formatting)
  IN Analyzed(CloseFormatting(Passed(said, WordsOf(said), ScanCorrections(said))))

-----------------------------------------------------------------------------
(* analyze_processed and suspicious_error.                                   *)

Formats == {"bold", "italic", "heading", "bullet"}
(* Segments that are refused for their characters or their markup alone:     *)
(* unsafe characters, unsupported markup, unmatched or nested markers, deep  *)
(* headings and marks within a word.                                         *)
Refused == {"unsafe", "markup", "unmatched", "nested", "partial"}

StripSupportedFormatting(written) ==
  LET Strip(state, segment) ==
        LET words == state.words \o segment.words
            span == [kind |-> segment.mark, start |-> Len(state.words), end |-> Len(words)]
        IN [words |-> words, formatting |-> IF segment.mark \in Formats
                                            THEN Append(state.formatting, span)
                                            ELSE state.formatting]
  IN FoldLeft(Strip, [words |-> <<>>, formatting |-> <<>>], written)

CurrencyMentions(words) ==
  Len(SelectSeq(words, LAMBDA word : word[1] \in {"$", "dollar", "dollars"}))

Suspicious(said, raw, plain) ==
  \/ CurrencyMentions(WordsOf(said)) # CurrencyMentions(plain.words)
  \/ \E k \in DOMAIN plain.formatting : plain.formatting[k].start = plain.formatting[k].end
  \/ raw # Analysis(plain.words, plain.formatting)

SuspiciousError(said, written) ==
  \/ \E k \in DOMAIN written : written[k].mark \in Refused
  \/ Suspicious(said, AnalyzeRaw(said), StripSupportedFormatting(written))
===============================================================================
