----------------------------- MODULE ScriptText -----------------------------
(***************************************************************************)
(* script::interpreter and script::executor: what a line of a script says. *)
(* Comment and white space are cut off, the rest is taken apart into words,*)
(* the first word that names a command begins it, and the words after it   *)
(* are its arguments.                                                      *)
(*                                                                         *)
(* Text is a sequence of characters; a run of characters that is never     *)
(* taken apart ("data") may stand as one.  Definitions ending in _Slip are *)
(* used by no specification.                                               *)
(***************************************************************************)
EXTENDS Integers, SequencesExt

Quote == "\""
Backslash == "\\"
Hash == "#"
White == {" ", "\t", "\r", "\n"}

\* The commands of the executor, all of them with any number of arguments.
\* start has a handler and is not one of them.
Table == {"echo", "disp", "exec", "load", "rem"}

At(text, chars) == {i \in DOMAIN text : text[i] \in chars}

TrimComments(text) ==
  LET comment == At(text, {Hash}) IN
  IF comment = {} THEN text ELSE SubSeq(text, 1, Min(comment) - 1)

TrimWhite(text) ==
  LET ink == DOMAIN text \ At(text, White) IN
  IF ink = {} THEN <<>> ELSE SubSeq(text, Min(ink), Max(ink))

\* Every quote closes.
Closing_Slip(text, p) == {q \in At(text, {Quote}) : q > p}

\* The quotes that close the one at p: not those behind a backslash, even
\* where that backslash is itself behind one.
Closing(text, p) ==
  {q \in At(text, {Quote}) : q > p /\ (q > p + 1 => text[q - 1] # Backslash)}

\* The words from each place on.  With a quote that nothing closes the line
\* ends, and the words before it stand.
Words(text) ==
  LET end == Len(text) + 1
      from[p \in 1..end] ==
        IF p = end THEN <<>>
        ELSE IF text[p] \in White THEN from[p + 1]
        ELSE IF text[p] # Quote
        THEN LET q == Min({end} \cup {i \in At(text, White) : i > p})
             IN  <<SubSeq(text, p, q - 1)>> \o from[q]
        ELSE IF Closing(text, p) = {} THEN <<>>
        ELSE LET q == Min(Closing(text, p))
             IN  <<SubSeq(text, p + 1, q - 1)>> \o from[q + 1]
  IN  from[1]

\* bounce_string: what a backslash makes of the character behind it.
Escaped ==
  [n |-> "\n", r |-> "\r", t |-> "\t", v |-> "vertical tab", b |-> "backspace",
   f |-> "\f", a |-> "bell"]

Bounced(text) ==
  LET end == Len(text) + 1
      from[p \in 1..end] ==
        IF p = end THEN <<>>
        ELSE IF text[p] # Backslash THEN <<text[p]>> \o from[p + 1]
        ELSE IF p + 1 = end THEN <<Backslash>>
        ELSE LET c == text[p + 1]
             IN  <<IF c \in DOMAIN Escaped THEN Escaped[c] ELSE c>> \o from[p + 2]
  IN  from[1]

Blank == [op |-> "blank", args |-> <<>>]
NoCommand == [op |-> "no command", args |-> <<>>]

\* Only the arguments of echo are strings of its own; others remain as they
\* are written.
Converted(op, word) == IF op = "echo" THEN Bounced(word) ELSE word

\* As many as there are: m_args grows with them.
Arguments(op, words) == [i \in DOMAIN words |-> Converted(op, words[i])]

\* The words that name a command, by their places.
Named(words) == {i \in DOMAIN words : \E op \in Table : words[i] = <<op>>}

\* The words emitted, in order: those before the command are refused, each
\* with a message; those after it are its arguments.
Emitted(words) ==
  LET first == Min(Named(words))
      op    == words[first][1]
  IN  IF Named(words) = {} THEN NoCommand
      ELSE [op |-> op, args |-> Arguments(op, SubSeq(words, first + 1, Len(words)))]

\* What the executor has got at the end of a line.
Command(text) ==
  LET line == TrimWhite(TrimComments(text)) IN
  IF line = <<>> THEN Blank ELSE Emitted(Words(line))

-----------------------------------------------------------------------------
(* Commands of other hosts, with arguments of other kinds and a number of  *)
(* their own of them.                                                      *)

Fmt == INSTANCE TextFormat

Value(v) == [ok |-> TRUE, value |-> v]
NoValue == [ok |-> FALSE]

Truths ==
  {<<"t", "r", "u", "e">>, <<"T", "r", "u", "e">>, <<"T", "R", "U", "E">>}
Falsehoods ==
  {<<"f", "a", "l", "s", "e">>, <<"F", "a", "l", "s", "e">>, <<"F", "A", "L", "S", "E">>}

IntLeast == -2147483647 - 1
IntLargest == 2147483647

\* The longest number in front, of which there must be some and not more than the
\* type holds; what is behind it is ignored.
FromChars(text, least, largest) ==
  LET minus == least < 0 /\ text # <<>> /\ Head(text) = "-"
      digits == Fmt!Numeral(IF minus THEN Tail(text) ELSE text)
      value == IF minus THEN -Fmt!Valued(digits) ELSE Fmt!Valued(digits)
  IN  IF digits # <<>> /\ value \in least..largest THEN Value(value) ELSE NoValue

\* convert_arg, of one word.
ConvertArg(type, word) ==
  CASE type.kind = "string" -> Value(Bounced(word))
    [] type.kind = "view"   -> Value(word)
    [] type.kind = "number" -> FromChars(word, type.least, type.largest)
    [] type.kind = "truth"  ->
         IF word \in Truths THEN Value(TRUE)
         ELSE IF word \in Falsehoods THEN Value(FALSE)
         ELSE LET number == FromChars(word, IntLeast, IntLargest)
              IN  IF number.ok THEN Value(number.value # 0) ELSE NoValue

\* A word too many is refused, with a message; one that is missing is empty.  The
\* command is executed if all of its arguments can be converted.
Done(types, words) ==
  LET argument(i) == ConvertArg(types[i], IF i <= Len(words) THEN words[i] ELSE <<>>)
  IN  IF \A i \in DOMAIN types : argument(i).ok
      THEN Value([i \in DOMAIN types |-> argument(i).value]) ELSE NoValue

-----------------------------------------------------------------------------
(* How to write a value so that it is read again.                          *)

Quoted(value) ==
  LET escape(c) ==
        IF \E e \in DOMAIN Escaped : Escaped[e] = c
        THEN <<Backslash, CHOOSE e \in DOMAIN Escaped : Escaped[e] = c>>
        ELSE IF c \in {Quote, Backslash} THEN <<Backslash, c>> ELSE <<c>>
  IN  <<Quote>> \o FlattenSeq([i \in DOMAIN value |-> escape(value[i])]) \o <<Quote>>

\* There is no way to write a hash, and none to end a value with a backslash:
\* a comment begins inside quotes too, and the quote behind the backslash
\* does not close.
Writable(value) ==
  Hash \notin ToSet(value) /\ (value # <<>> => Last(value) # Backslash)

\* Values in quotes, with every quote, backslash and control character in them
\* behind a backslash, reach echo as they were, however many there are and
\* whatever white space and comment stand around them.
ReadAsWritten(values) ==
  \A v, w \in {u \in values : Writable(u)} :
    LET line == <<"\t", "echo", " ">> \o Quoted(v) \o <<" ", " ">> \o Quoted(w) \o <<" ", Hash, Quote>>
    IN  Command(line) = [op |-> "echo", args |-> <<v, w>>]

\* What is printed of a number or truth value is read as that number or value,
\* whatever a word goes on with and whatever words follow, unless the type does
\* not hold it; a number that is missing is not read.
Truth == [kind |-> "truth"]

ReadsTruth(b, word) == Done(<<Truth>>, <<word>>) = Value(<<b>>)

ReadsNumber(type, n, word) ==
  Done(<<type, Truth>>, <<word, word, word>>) =
    IF n \in type.least..type.largest THEN Value(<<n, n # 0>>) ELSE NoValue

ReadAsPrinted(numbers, least, largest) ==
  LET number == [kind |-> "number", least |-> least, largest |-> largest]
  IN  /\ \A types \in {<<>>, <<number>>} : Done(types, <<>>).ok = (types = <<>>)
      /\ \A b \in BOOLEAN, option \in {"d", "s"} :
           ReadsTruth(b, Fmt!FormatAs(Fmt!Asking(option), <<[kind |-> "boolean", is |-> b]>>))
      /\ \A n \in numbers :
           ReadsNumber(number, n, Fmt!FormatAs(Fmt!Asking("d"), <<Fmt!Number(n)>>) \o <<"x">>)
=============================================================================
