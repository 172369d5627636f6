----------------------------- MODULE TextFormat -----------------------------
(***************************************************************************)
(* chatwootToWhatsApp (cmd/server/format.go): an agent's Markdown becomes  *)
(* WhatsApp marks.  A text is a sequence of characters; "x" stands for a   *)
(* letter and Sentinel for the mark of a bold already translated.          *)
(***************************************************************************)
EXTENDS Naturals, Sequences, SequencesExt

Sentinel == "boldSentinel"
Blank == {" ", "newline"}
Times(c, n) == [i \in 1 .. n |-> c]

\* the end of the run without mark and newline that starts at i
runEnd(s, mark, i) ==
  CHOOSE j \in i .. Len(s) + 1 : /\ j = Len(s) + 1 \/ s[j] \in {mark, "newline"}
                                 /\ \A k \in i .. j - 1 : s[k] \notin {mark, "newline"}

\* The regular expressions: a non-empty run between two groups of width marks
matches(s, mark, width) ==
  LET end == runEnd(s, mark, width + 1)
      group(i) == Len(s) >= i + width - 1 /\ \A k \in i .. i + width - 1 : s[k] = mark
  IN  Len(s) > 2 * width /\ group(1) /\ end > width + 1 /\ group(end)

\* ReplaceAllString: leftmost matches, none overlapping
RECURSIVE replaceAll(_, _, _, _)
replaceAll(s, mark, width, by) ==
  IF s = <<>> THEN <<>>
  ELSE IF ~matches(s, mark, width) THEN <<Head(s)>> \o replaceAll(Tail(s), mark, width, by)
  ELSE LET end == runEnd(s, mark, width + 1)
       IN  <<by>> \o SubSeq(s, width + 1, end - 1) \o <<by>>
             \o replaceAll(SubSeq(s, end + width, Len(s)), mark, width, by)

TrimSpace(s) ==
  LET solid == {i \in DOMAIN s : s[i] \notin Blank}
      first == CHOOSE i \in solid : \A j \in solid : i <= j
      last == CHOOSE i \in solid : \A j \in solid : j <= i
  IN  IF solid = {} THEN <<>> ELSE SubSeq(s, first, last)

boldDirect(text) == replaceAll(replaceAll(text, "*", 2, "*"), "_", 2, "*")
\* a translated bold is set aside, so that the italic rule does not meet its asterisks
bold(text) == replaceAll(replaceAll(text, "*", 2, Sentinel), "_", 2, Sentinel)

chatwootToWhatsApp(text) ==
  LET out == replaceAll(bold(text), "*", 1, "_")
  IN  TrimSpace([i \in DOMAIN out |-> IF out[i] = Sentinel THEN "*" ELSE out[i]])

-----------------------------------------------------------------------------
\* Reference: a message as its author means it, a sequence of styled pieces, and how
\* Markdown and WhatsApp write each

Unmarked == {"plain", "space", "newline"}
Styles == Unmarked \cup {"bold", "boldUnders", "italic", "italicUnder", "both"}
Between(marks, body) == marks \o body \o Reverse(marks)
Markdown(style) ==
  CASE style = "plain" -> <<"x">>
    [] style = "bold" -> Between(<<"*", "*">>, <<"x", "x">>)
    [] style = "boldUnders" -> Between(<<"_", "_">>, <<"x">>)
    [] style = "italic" -> Between(<<"*">>, <<"x", "x">>)
    [] style = "italicUnder" -> Between(<<"_">>, <<"x">>)
    [] style = "both" -> Between(<<"*", "*", "*">>, <<"x">>)
    [] style = "space" -> <<" ">>
    [] style = "newline" -> <<"newline">>
WhatsApp(style) ==
  CASE style = "bold" -> Between(<<"*">>, <<"x", "x">>)
    [] style = "boldUnders" -> Between(<<"*">>, <<"x">>)
    [] style = "italic" -> Between(<<"_">>, <<"x", "x">>)
    [] style = "both" -> Between(<<"_", "*">>, <<"x">>)
    [] OTHER -> Markdown(style)
=============================================================================
