----------------------------- MODULE Instructions -----------------------------
(***************************************************************************)
(* What a dictation means, after the INSTRUCTIONS the provider is given      *)
(* (post_processing.rs): the reference that the analysis of Transcript is    *)
(* held against.  A script is a sequence of clauses, a clause a format and   *)
(* a sequence of items, an item a tuple that starts with its kind.  Spoken   *)
(* says how the recogniser hears the script, Written what the provider is    *)
(* to make of it.                                                            *)
(***************************************************************************)
EXTENDS Transcript

NameOf(values, n) == CHOOSE name \in DOMAIN values : values[name] = n

SpellUnderHundred(n) ==
  IF n \in Tens \cup 0 .. 19 THEN <<NameOf(AtomOf, n)>>
  ELSE <<NameOf(AtomOf, n - (n % 10)), NameOf(AtomOf, n % 10)>>
SpellUnderThousand(n) ==
  IF n < 100 THEN SpellUnderHundred(n)
  ELSE <<NameOf(AtomOf, n \div 100), "hundred">> \o
       (IF n % 100 = 0 THEN <<>> ELSE <<"and">> \o SpellUnderHundred(n % 100))
Scaled(n, scale, name) ==
  IF (n \div scale) % 1000 = 0 THEN <<>> ELSE Append(SpellUnderThousand((n \div scale) % 1000), name)
Spell(n) ==
  LET scaled == Scaled(n, 1000000000, "billion") \o Scaled(n, 1000000, "million")
                  \o Scaled(n, 1000, "thousand")
  IN IF n % 1000 = 0 /\ n > 0 THEN scaled ELSE scaled \o SpellUnderThousand(n % 1000)
SpellOrdinal(n) ==
  LET last == IF n % 100 \in Tens \cup 1 .. 19 THEN n % 100 ELSE n % 10
  IN (IF n = last THEN <<>> ELSE Spell(n - last)) \o <<NameOf(OrdinalOf, last)>>

-----------------------------------------------------------------------------
(* The items.                                                                *)

Numeric(item) == item[1] \in {"number", "ordinal", "decimal", "time", "dollars", "amount"}

(* The words of an item.                                                     *)
WordsSaid(item) ==
  CASE item[1] \in {"word", "short", "sorry"} -> <<item[2]>>
    [] item[1] \in {"filler", "mark", "emoji", "correction"} -> item[2]
    [] item[1] = "number" -> Spell(item[2])
    [] item[1] = "ordinal" -> SpellOrdinal(item[2])
    [] item[1] = "decimal" -> Spell(item[2]) \o <<"point">> \o
                              [k \in DOMAIN item[3] |-> NameOf(AtomOf, item[3][k])]
    [] item[1] = "time" -> <<"at">> \o Spell(item[2]) \o Spell(item[3])
    [] item[1] = "dollars" -> Append(Spell(item[2]), "dollars")
    [] item[1] = "amount" -> Append(Spell(item[2]) \o Spell(item[3]), "dollars")

Tokens(words) == [k \in DOMAIN words |-> <<words[k]>>]
SayItem(item) == IF item[1] = "digits" THEN <<<<"#", item[2]>>>> ELSE Tokens(WordsSaid(item))

(* A numeric item as digits or as the words it was said with.                *)
WriteNumeric(item, digits) ==
  IF ~digits THEN Tokens(WordsSaid(item))
  ELSE CASE item[1] = "number" -> <<<<"#", item[2]>>>>
         [] item[1] = "ordinal" -> <<<<"#th", item[2]>>>>
         [] item[1] = "decimal" -> <<<<"#.", item[2], item[3]>>>>
         [] item[1] = "time" -> <<<<"at">>, <<"#:", item[2], item[3]>>>>
         [] item[1] = "dollars" -> <<<<"$">>, <<"#", item[2]>>>>
         [] item[1] = "amount" ->
              <<<<"$">>, <<"#.", item[2], <<item[3] \div 10, item[3] % 10>>>>>>

(* A comma correction needs something to take back, which there is not right *)
(* after another correction, and something after it; a punctuation command   *)
(* after an article is a word.                                               *)
Corrects(script, c, i) ==
  LET items == script[c].items
      Triggers[k \in 1 .. i] ==
        \/ items[k][1] = "correction"
        \/ /\ items[k][1] = "sorry" /\ k > 1 /\ ~Triggers[k - 1]
           /\ k < Len(items) \/ c < Len(script)
  IN Triggers[i]
Protects(item) == item[1] = "word" /\ item[2] \in ProtectingWords
Punctuates(script, c, i) ==
  LET items == script[c].items
  IN items[i][1] = "mark" /\ (i > 1 => ~Protects(items[i - 1]))

(* The items that a correction after them takes back: it removes the current  *)
(* clause, never an earlier one, and a punctuation command ends a clause.    *)
TakenBack(script, c) ==
  {i \in DOMAIN script[c].items :
     \E j \in i .. Len(script[c].items) :
        Corrects(script, c, j) /\ \A k \in i .. j : ~Punctuates(script, c, k)}
Remaining(script, c) ==
  FlattenSeq([i \in DOMAIN script[c].items |->
                IF i \in TakenBack(script, c) THEN <<>> ELSE <<script[c].items[i]>>])

Collapse(written, token) ==
  IF written # <<>> /\ Last(written) = token THEN written ELSE Append(written, token)

(* What is written so far, after one more item; <<"|">> is where a            *)
(* punctuation command starts a new part.                                    *)
WriteItem(written, item, digits) ==
  LET literal == item[1] = "mark" /\ written # <<>> /\ Last(written)[1] \in ProtectingWords
  IN CASE item[1] = "filler" -> written
       [] item[1] = "word" \/ item[1] = "sorry" -> Collapse(written, <<item[2]>>)
       [] item[1] = "short" -> FoldLeft(Collapse, written, Tokens(Expansion[item[2]]))
       [] item[1] = "emoji" -> Append(written, <<"@emoji", item[2][1]>>)
       [] item[1] = "digits" -> Append(written, <<"#", item[2]>>)
       [] Numeric(item) -> written \o WriteNumeric(item, digits)
       [] literal -> written \o Tokens(item[2])
       [] item[1] = "mark" /\ ~literal -> Append(written, <<"|">>)

WriteClause(script, c, digits) ==
  LET Write(written, item) == WriteItem(written, item, digits)
      words == FoldLeft(Write, <<>>, Remaining(script, c))
      part == SelectInSeq(words, LAMBDA token : token = <<"|">>)
      formatted == IF part = 0 THEN words ELSE SubSeq(words, 1, part - 1)
      rest == IF part = 0 THEN <<>> ELSE SubSeq(words, part, Len(words))
      mark == IF 1 \in TakenBack(script, c) THEN "none" ELSE script[c].format
  IN <<[mark |-> mark, words |-> formatted],
       [mark |-> "none", words |-> SelectSeq(rest, LAMBDA token : token # <<"|">>)]>>

Written(script, digits) ==
  SelectSeq(FlattenSeq([c \in DOMAIN script |-> WriteClause(script, c, digits)]),
            LAMBDA segment : segment.words # <<>>)

CommandOf ==
  [none |-> <<>>, bold |-> <<"bold">>, italic |-> <<"italic">>, heading |-> <<"heading">>,
   bullet |-> <<"bullet", "point">>]

SpokenClause(script, c) ==
  LET items == script[c].items
      words == Tokens(CommandOf[script[c].format]) \o
               FlattenSeq([i \in DOMAIN items |-> SayItem(items[i])])
      Gap(k) == CASE k = 1 /\ c > 1 -> "."
                  [] k > 1 /\ words[k] = <<"sorry">> -> ","
                  [] OTHER -> ""
  IN [k \in DOMAIN words |-> [word |-> words[k], gap |-> Gap(k)]]

Spoken(script) == FlattenSeq([c \in DOMAIN script |-> SpokenClause(script, c)])

(* Two scripts mean the same when the same is to be written.                 *)
Meaning(script) == Written(script, TRUE)

-----------------------------------------------------------------------------
(* Where the analysis does not read what the instructions say.               *)

(* A correction takes back what a punctuation command before it has ended.   *)
OverreachesBack(script) ==
  \E c \in DOMAIN script : \E i, j \in DOMAIN script[c].items :
     1 < i /\ i < j /\ Punctuates(script, c, i) /\ Corrects(script, c, j)

(* A punctuation command that opens a clause after an article is a word.     *)
ProtectsAcross(script) ==
  \E c \in 2 .. Len(script) :
     LET before == Remaining(script, c - 1)
         after == Remaining(script, c)
     IN before # <<>> /\ Protects(Last(before)) /\ after # <<>> /\ Head(after)[1] = "mark"

(* A number runs on into the next one, whatever is said to part them.        *)
RunsOn(script) ==
  LET items == FlattenSeq([c \in DOMAIN script |->
                 SelectSeq(Remaining(script, c), LAMBDA item : item[1] \notin {"filler", "mark"})])
  IN \E k \in 1 .. Len(items) - 1 :
        /\ items[k][1] \in {"number", "decimal", "time"}
        /\ items[k + 1][1] \in {"number", "ordinal", "decimal", "dollars", "amount"}

Misread(script) == OverreachesBack(script) \/ ProtectsAcross(script) \/ RunsOn(script)

(* An amount of money that is taken back; currency_mentions still counts it. *)
TakesMoneyBack(script) ==
  \E c \in DOMAIN script : \E i \in TakenBack(script, c) :
     script[c].items[i][1] \in {"dollars", "amount"}
===============================================================================
