----------------------------- MODULE MCDictation ------------------------------
(* A dictation on a small instance.  At one frame a sample a word is said     *)
(* three times in a row, at two none is said again.  The scripts have at most *)
(* two items, in one clause or in two, or a correction between two items, or  *)
(* are one number of a list with its carries and gaps; what a provider may    *)
(* take a script for differs from it in one item or in its format.            *)
EXTENDS Dictation

Words == {<<"word", "note">>, <<"word", "the">>, <<"short", "gonna">>,
          <<"filler", <<"um">>>>, <<"filler", <<"you", "know">>>>}
Commands == {<<"sorry", "sorry">>, <<"correction", <<"no", "wait">>>>, <<"mark", <<"period">>>>,
             <<"emoji", <<"fire", "emoji">>>>}
Values == {<<"number", 2105>>, <<"digits", 7>>, <<"ordinal", 21>>,
           <<"decimal", 2, <<0, 5>>>>, <<"time", 5, 30>>, <<"dollars", 40>>, <<"amount", 3, 99>>}
Items == Words \cup Commands \cup Values
Numbers == {0, 7, 13, 20, 21, 100, 101, 110, 999, 1000, 1010, 1100, 12345, 100000, 1000001,
            1002003, 1000000000}

Clause(format, items) == [format |-> format, items |-> items]

Single == {<<Clause("none", <<item>>)>> : item \in Items}
Together == {<<Clause("none", pair)>> : pair \in Items \X Items}
Apart == {<<Clause("none", <<pair[1]>>), Clause("none", <<pair[2]>>)>> : pair \in Items \X Items}
Corrections == {<<"sorry", "sorry">>, <<"correction", <<"no", "wait">>>>}
Revisions == {<<"word", "note">>, <<"dollars", 40>>}
Revised ==
  UNION {{<<Clause("none", <<item, correction, next>>)>>,
          <<Clause("none", <<<<"word", "note">>, item, correction, next>>)>>,
          <<Clause("none", <<item>>), Clause("none", <<correction, next>>)>>} :
           item \in Items, correction \in Corrections, next \in Revisions}
Formatted == {<<Clause(format, <<item>>)>> : format \in Formats, item \in Words \cup {<<"number", 2105>>}}
Counted == {<<Clause("none", <<<<"number", n>>>>)>> : n \in Numbers}
MCScripts == {<<>>} \cup Single \cup Together \cup Apart \cup Revised \cup Formatted \cup Counted

MCSpeech == [sample \in 0 .. MaxFrames |->
               <<"", "ask", "go", "go", "go", "now", "um", "then">>[sample + 1]]

Differ(script, c, i, item) == [script EXCEPT ![c].items[i] = item]
MCNear ==
  [script \in MCScripts |->
     MCScripts \cap
       ({script, <<>>}
        \cup (IF script \in Counted THEN Counted ELSE {})
        \cup {[script EXCEPT ![c].format = format] : c \in DOMAIN script, format \in Formats}
        \cup {[script EXCEPT ![c].items = <<item>>] : c \in DOMAIN script, item \in Words}
        \cup UNION {{Differ(script, c, i, item) : i \in DOMAIN script[c].items, item \in Items} :
                      c \in DOMAIN script})]
===============================================================================
