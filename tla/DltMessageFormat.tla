-------------------------- MODULE DltMessageFormat --------------------------
(***************************************************************************)
(* Parser.format_message (src/public/doc/DltParser.py 416-442): the raw    *)
(* message text of a DLT call is split on quoted strings, the spans        *)
(* between them are cleaned into variable names, and literals and          *)
(* variables are rendered in pairs.                                        *)
(*                                                                         *)
(* A message is a sequence of lexemes, each standing for the characters    *)
(* the regular expressions of format_message tell apart:                   *)
(*   QUOTE  a double quote                                                 *)
(*   WORD   an identifier (a run of \w characters)                         *)
(*   FUNC   one of the names of msg_func: toString, strerror, ...          *)
(*   DOT    "."      PLUS  "+"     SEP  one of ",", "(", ")", " "           *)
(*   NL     a newline (continuation lines are joined with their "\n")      *)
(* Two identifiers are never adjacent: they would be one identifier.       *)
(***************************************************************************)
EXTENDS Integers, Sequences, SequencesExt

CONSTANT Messages   \* the raw texts parse_error_message may return

QUOTE == "\""
WORD  == "w"
FUNC  == "toString"
DOT   == "."
PLUS  == "+"
SEP   == ","
NL    == "nl"
Lexemes == {QUOTE, WORD, FUNC, DOT, PLUS, SEP, NL}

\* The rendered text: literal characters, and a variable as
\* " &lt;" + name + "&gt; " (438).
Text(t) == [i \in DOMAIN t |-> [text |-> t[i]]]
Placeholder(v) == <<[name |-> v]>>

-----------------------------------------------------------------------------
(* The code: re.split / re.findall with "\".+?\"" (417, 423).  A match   *)
(* starts at a quote and ends at the first quote at least two places      *)
(* later; "." does not match a newline.                                     *)

LiteralEnd(s, i) ==
  LET ends == {j \in i + 2..Len(s) :
                 s[j] = QUOTE /\ \A k \in i + 1..j - 1 : s[k] # NL}
  IN  IF s[i] = QUOTE /\ ends # {} THEN Min(ends) ELSE 0

\* The matches, left to right and not overlapping, as [from, to] pairs.
RECURSIVE Matches(_, _)
Matches(s, i) ==
  IF i > Len(s) THEN <<>>
  ELSE IF LiteralEnd(s, i) > 0
         THEN <<[from |-> i, to |-> LiteralEnd(s, i)]>>
                \o Matches(s, LiteralEnd(s, i) + 1)
         ELSE Matches(s, i + 1)

\* re.split: the text around the matches (one more span than matches).
Spans(s) ==
  LET M == Matches(s, 1)
  IN  [k \in 1..Len(M) + 1 |->
         SubSeq(s, IF k = 1 THEN 1 ELSE M[k - 1].to + 1,
                   IF k <= Len(M) THEN M[k].from - 1 ELSE Len(s))]

\* re.findall: the matched texts, quotes included.
Literals(s) ==
  LET M == Matches(s, 1) IN [k \in DOMAIN M |-> SubSeq(s, M[k].from, M[k].to)]

\* re.search("\w+", variable) (419).
HasWord(v) == \E i \in DOMAIN v : v[i] \in {WORD, FUNC}

\* re.sub(msg_func + "|,|\(|\)| |\n", "", variable) (431).  At each
\* position the alternatives are tried in order: the names of msg_func
\* first, then "\w+\." (an identifier and the dot after it), then the
\* separators.  A dot after a name stays: "\w+\." starts at the name.
RECURSIVE Strip(_)
Strip(v) ==
  IF v = <<>> THEN <<>>
  ELSE IF Head(v) = FUNC \/ Head(v) \in {SEP, NL} THEN Strip(Tail(v))
  ELSE IF Head(v) = WORD /\ Len(v) > 1 /\ v[2] = DOT
    THEN Strip(Tail(Tail(v)))
  ELSE <<Head(v)>> \o Strip(Tail(v))

\* variable.upper(): identifiers change case, punctuation does not.
Upper(v) == [i \in DOMAIN v |-> IF v[i] = WORD THEN "W" ELSE v[i]]

\* The stripping pass runs twice, then the result is upper-cased (429-432).
CleanVariable(v) == Upper(Strip(Strip(v)))

\* Mutation: spans are tested for a word character after cleaning.
Variables_filter_after_clean(s) ==
  SelectSeq([i \in DOMAIN Spans(s) |-> CleanVariable(Spans(s)[i])],
            LAMBDA v : v # <<>>)

\* Lines 417-421 and 429-432: spans without a word character are dropped.
Variables(s) == [i \in 1..Len(SelectSeq(Spans(s), HasWord)) |->
                   CleanVariable(SelectSeq(Spans(s), HasWord)[i])]

\* Mutation: literals are upper-cased along with the variables.
Strings_upper(s) == [k \in DOMAIN Literals(s) |->
                       Upper(SelectSeq(Literals(s)[k], LAMBDA c : c # QUOTE))]

\* Lines 423-427: every quote of a literal is removed.
Strings(s) == [k \in DOMAIN Literals(s) |->
                 SelectSeq(Literals(s)[k], LAMBDA c : c # QUOTE)]

\* The loop of 434-440: pop a literal (stop if none), then pop a variable
\* (stop if none, without appending).
RECURSIVE PopPairs(_, _)
PopPairs(strings, variables) ==
  IF strings = <<>> THEN <<>>
  ELSE IF variables = <<>> THEN Text(Head(strings))
  ELSE Text(Head(strings)) \o Placeholder(Head(variables))
         \o PopPairs(Tail(strings), Tail(variables))

format_message(s) == PopPairs(Strings(s), Variables(s))

-----------------------------------------------------------------------------
(* The rendering spec.md 4.5 describes, written independently of the code: *)
(* a left-to-right lexer that alternates spans and quoted strings, noise   *)
(* stripped from every variable, and literal/variable pairs up to the      *)
(* shorter list (plus one literal).  Spec 8 fixes the noise by example:    *)
(* "prefix " + x.toString() + " suffix" renders as "prefix  <X> suffix ", *)
(* so member access, stringification and concatenation are all noise.     *)

\* Length of the quoted string at the head of s, or 0.
QuotedHead(s) ==
  LET closing == {j \in 3..Len(s) :
                    s[j] = QUOTE /\ \A k \in 2..j - 1 : s[k] # NL}
  IN  IF s # <<>> /\ Head(s) = QUOTE /\ closing # {} THEN Min(closing) ELSE 0

\* Lex(s, span): the pieces of s, "span" being the text read since the
\* last quoted string.  Pieces alternate: span, quoted, span, ..., span.
RECURSIVE Lex(_, _)
Lex(s, span) ==
  IF s = <<>> THEN <<span>>
  ELSE IF QuotedHead(s) > 0
    THEN <<span, SubSeq(s, 1, QuotedHead(s))>>
           \o Lex(SubSeq(s, QuotedHead(s) + 1, Len(s)), <<>>)
  ELSE Lex(Tail(s), Append(span, Head(s)))

SpecNoise == {FUNC, DOT, PLUS, SEP, NL}

SpecLiterals(s) ==
  LET P == Lex(s, <<>>)
  IN  [k \in 1..(Len(P) - 1) \div 2 |-> SubSeq(P[2 * k], 2, Len(P[2 * k]) - 1)]

SpecVariables(s) ==
  LET P == Lex(s, <<>>)
      spans == [k \in 1..(Len(P) + 1) \div 2 |-> P[2 * k - 1]]
      kept == SelectSeq(spans, HasWord)
  IN  [k \in DOMAIN kept |->
         Upper(SelectSeq(kept[k], LAMBDA c : c \notin SpecNoise))]

SpecRender(s) ==
  LET L == SpecLiterals(s)
      V == SpecVariables(s)
  IN  FlattenSeq([i \in 1..Min({Len(L), Len(V) + 1}) |->
                    Text(L[i]) \o (IF i <= Len(V) THEN Placeholder(V[i]) ELSE <<>>)])

-----------------------------------------------------------------------------
(* write_dlt_message calls format_message once on the message (398).       *)

VARIABLES message, formatted, done
vars == <<message, formatted, done>>

Init ==
  /\ message \in Messages
  /\ formatted = <<>>
  /\ done = FALSE

Format ==
  /\ ~done
  /\ formatted' = format_message(message)
  /\ done' = TRUE
  /\ UNCHANGED message

Finished == done /\ UNCHANGED vars

Next == Format \/ Finished

Spec == Init /\ [][Next]_vars /\ WF_vars(Format)

-----------------------------------------------------------------------------
TypeOK ==
  /\ message \in Seq(Lexemes)
  /\ done \in BOOLEAN
  /\ formatted \in Seq([text : Lexemes] \cup [name : Seq(Lexemes \cup {"W"})])

\* format_message renders every message the way spec 4.5 describes: the
\* same literals, the same variable names, paired literal first and cut
\* at the shorter list.
FormatMatchesSpec == done => formatted = SpecRender(message)
=============================================================================
