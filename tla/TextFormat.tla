----------------------------- MODULE TextFormat -----------------------------
(***************************************************************************)
(* textio::fmt and textio::logger: how the program makes a line of text.   *)
(* A format string is taken apart into nodes, text that stands for itself  *)
(* and insertions; an insertion's options say how its argument is          *)
(* converted; a line has its module and its level in front.                *)
(*                                                                         *)
(* Text is a sequence of characters; words of a message that are never     *)
(* taken apart stand as one.  A conversion answers the text and an error.  *)
(* Definitions ending in _Slip are used by no specification.               *)
(***************************************************************************)
EXTENDS Integers, SequencesExt

LBrace == "{"
RBrace == "}"
Space == " "

Digits == <<"0", "1", "2", "3", "4", "5", "6", "7", "8", "9">>
Letters ==
  [lower |-> <<"a", "b", "c", "d", "e", "f">>, upper |-> <<"A", "B", "C", "D", "E", "F">>]

Digit == ToSet(Digits)
DigitValue(c) == CHOOSE n \in 0..9 : Digits[n + 1] = c
Valued(text) == FoldLeft(LAMBDA n, c : 10 * n + DigitValue(c), 0, text)

Error(what) == [text |-> <<>>, error |-> what]
Put(text) == [text |-> text, error |-> "none"]

-----------------------------------------------------------------------------
(* The options of an insertion: [fill]align sign # 0 width .precision type *)

Directions == [right |-> ">", center |-> "^", left |-> "<"]
Direction(c) == CHOOSE d \in DOMAIN Directions : Directions[d] = c
IsDirection(c) == \E d \in DOMAIN Directions : Directions[d] = c

Binary  == {"b", "B"}
Octal   == {"o", "O"}
Decimal == {"d", "D"}
Pointer == {"p", "P"}
Hexadecimal == {"x", "X"}
Float   == {"a", "A", "e", "E", "f", "F", "g", "G"}
Integral == Binary \cup Octal \cup Decimal \cup Pointer \cup Hexadecimal
Types   == Integral \cup Float \cup {"c", "s"}
Upper   == {"B", "O", "D", "X", "P", "A", "E", "F", "G"}

Base(type) ==
  CASE type \in Hexadecimal \cup Pointer -> 16
    [] type \in Octal -> 8
    [] type \in Binary -> 2
    [] OTHER -> 10

Prefix(type) ==
  CASE type = "p" -> <<"0", "x">>
    [] type = "P" -> <<"0", "X">>
    [] type \in Integral \ Pointer -> <<"0", type>>
    [] OTHER -> <<"0", "d">>

Starts(text, chars) == text # <<>> /\ Head(text) \in chars
Skip(text, chars) == IF Starts(text, chars) THEN Tail(text) ELSE text

\* The digits a text begins with.
Numeral(text) ==
  SubSeq(text, 1, Max({n \in 0..Len(text) : \A i \in 1..n : text[i] \in Digit}))
Behind(text, part) == SubSeq(text, Len(part) + 1, Len(text))

\* Every field is taken off the front of what the one before it has left; one
\* that is missing keeps its default.  Anything left at the end is refused.
Options(text) ==
  LET filled == Len(text) > 1 /\ IsDirection(text[2])
      aligned == filled \/ (text # <<>> /\ IsDirection(text[1]))
      align == SubSeq(text, 1, IF filled THEN 2 ELSE IF aligned THEN 1 ELSE 0)
      sign == Behind(text, align)
      pound == Skip(sign, {"+", "-"})
      zero == Skip(pound, {"#"})
      wide == Skip(zero, {"0"})
      dot == Behind(wide, Numeral(wide))
      exact == Len(dot) > 1 /\ dot[1] = "." /\ dot[2] \in Digit
      type == IF exact THEN Behind(Tail(dot), Numeral(Tail(dot))) ELSE dot
  IN  [fill      |-> IF filled THEN text[1] ELSE Space,
       direction |-> IF aligned THEN Direction(Last(align)) ELSE "none",
       plus      |-> Starts(sign, {"+"}),
       prefix    |-> Starts(pound, {"#"}),
       zeros     |-> Starts(zero, {"0"}),
       width     |-> Min({255, Valued(Numeral(wide))}),
       type      |-> IF Starts(type, Types) THEN Head(type) ELSE "none",
       valid     |-> Skip(type, Types) = <<>>]

-----------------------------------------------------------------------------
(* Conversions.                                                            *)

Repeat(c, n) == [i \in 1..n |-> c]

\* The padding goes to the wrong side.
Aligned_Slip(text, o) ==
  LET padding == o.width - Len(text)
  IN  IF padding <= 0 \/ o.direction = "none" THEN text
      ELSE IF o.direction = "right" THEN text \o Repeat(o.fill, padding)
      ELSE Repeat(o.fill, padding) \o text

\* put_string: a text wider than the width is put as it is.
Aligned(text, o) ==
  LET padding == o.width - Len(text)
      left == padding \div 2
  IN  IF padding <= 0 \/ o.direction = "none" THEN text
      ELSE CASE o.direction = "left"   -> text \o Repeat(o.fill, padding)
             [] o.direction = "right"  -> Repeat(o.fill, padding) \o text
             [] o.direction = "center" -> Repeat(o.fill, left) \o text
                                            \o Repeat(o.fill, padding - left)

InBase(value, type) ==
  LET numerals == Digits \o (IF type \in Upper THEN Letters.upper ELSE Letters.lower)
      base == Base(type)
      digits[n \in Nat] ==
        IF n < base THEN <<numerals[n + 1]>>
        ELSE Append(digits[n \div base], numerals[(n % base) + 1])
  IN  digits[value]

\* The prefix is not counted.
Zeros_Slip(o, front, digits) == o.width - Len(digits)

Zeros(o, front, digits) == o.width - (Len(front) + Len(digits))

\* put_numeric.  The number of zeros is computed without a sign: one that is
\* already wider than the width asks for more than a string can hold, and the
\* program dies of it.
Numeric(value, o, negative) ==
  LET sign == IF negative THEN <<"-">> ELSE IF o.plus THEN <<"+">> ELSE <<>>
      front == sign \o (IF o.prefix THEN Prefix(o.type) ELSE <<>>)
      digits == InBase(value, o.type)
      zeros == Zeros(o, front, digits)
  IN  IF ~o.zeros THEN Put(Aligned(front \o digits, o))
      ELSE IF zeros < 0 THEN Error("length_error")
      ELSE Put(Aligned(front \o Repeat("0", zeros) \o digits, o))

\* put_integer, of a number that is a character itself or fits into one.
Integer(value, o, character) ==
  IF (o.type \in {"c", "s"} /\ value \in -128..127) \/ (character /\ o.type = "none")
  THEN Put(Aligned(<<ToString(value)>>, o))
  ELSE IF o.type \in Float THEN Error("not_implemented")
  ELSE IF o.type \in Integral \cup {"none"}
  THEN Numeric(IF value < 0 THEN -value ELSE value, o, value < 0)
  ELSE Error("invalid_format")

Boolean(value, o) ==
  IF o.type = "s" THEN Put(Aligned(IF value THEN <<"t", "r", "u", "e">>
                                   ELSE <<"f", "a", "l", "s", "e">>, o))
  ELSE Numeric(IF value THEN 1 ELSE 0, [o EXCEPT !.type = "d"], FALSE)

\* put_pointer, of a pointer to anything but characters.
Address(value, o) ==
  LET as == CASE o.type \in Integral \ Pointer -> o.type
              [] o.type \in {"p", "none"} -> "x"
              [] o.type = "P" -> "X"
              [] OTHER -> "refused"
  IN  IF as = "refused" THEN Error("invalid_format")
      ELSE Numeric(value, [o EXCEPT !.type = as], FALSE)

\* put_pointer, of a string.
CString(value, o) ==
  IF o.type \in {"s", "none"} THEN Put(Aligned(value, o)) ELSE Error("invalid_format")

Number(n)  == [kind |-> "number", is |-> n]
Pointing(n) == [kind |-> "pointer", is |-> n]
String(s)  == [kind |-> "string", is |-> s]
Size(n)    == [kind |-> "size", is |-> n]

\* data_size: in units of 1024, the largest first, none of them zero.  A size
\* of 32 bits has no part in the units above G.
Sized(value) ==
  LET units == <<"G", "M", "K", "">>
      part(i) == (value \div (1024 ^ (4 - i))) % 1024
      unit(i) == IF units[i] = "" THEN <<>> ELSE <<units[i]>>
      put(text, i) ==
        IF part(i) = 0 THEN text
        ELSE text \o (IF text = <<>> THEN <<>> ELSE <<Space>>) \o InBase(part(i), "d") \o unit(i)
  IN  IF value = 0 THEN <<"0">> ELSE FoldLeft(put, <<>>, <<1, 2, 3, 4>>)

ConvertOne(value, o) ==
  CASE value.kind = "number"    -> Integer(value.is, o, FALSE)
    [] value.kind = "character" -> Integer(value.is, o, TRUE)
    [] value.kind = "boolean"   -> Boolean(value.is, o)
    [] value.kind = "pointer"   -> Address(value.is, o)
    [] value.kind = "string"    -> CString(value.is, o)
    [] value.kind = "float"     -> Error("not_implemented")
    [] value.kind = "size"      -> Put(Sized(value.is))

\* One after the other; the first that fails ends it, and what has been put stays.
Then(done, more) ==
  IF done.error # "none" THEN done
  ELSE [text |-> done.text \o more.text, error |-> more.error]

\* repeat_value: a value that stands for another one, a number of times, with or
\* without something between.
NoGlue == [kind |-> "nothing"]
Repeated(count, value, glue) ==
  [kind |-> "repeat", count |-> count, value |-> value, glue |-> glue]

Repeating(repeat) ==
  LET values ==
        IF repeat.glue = NoGlue THEN [i \in 1..repeat.count |-> repeat.value]
        ELSE [i \in 1..(2 * repeat.count - 1) |-> IF i % 2 = 1 THEN repeat.value ELSE repeat.glue]
  IN  FoldLeft(LAMBDA done, value : Then(done, ConvertOne(value, Options(<<>>))), Put(<<>>), values)

\* A value that formats itself is not told the options.
Convert(value, o) == IF value.kind = "repeat" THEN Repeating(value) ELSE ConvertOne(value, o)

-----------------------------------------------------------------------------
(* Format strings.                                                         *)

Static(text) == [insert |-> FALSE, text |-> text]

\* format_variable: an argument by its number, or the next in turn.
Insertion(text, default) ==
  LET colon == Min({i \in DOMAIN text : text[i] = ":"} \cup {Len(text) + 1})
      index == SubSeq(text, 1, colon - 1)
  IN  [insert |-> TRUE, argument |-> IF index = <<>> THEN default ELSE Valued(index),
       options |-> Options(SubSeq(text, colon + 1, Len(text)))]

First(text, p, c) == Min({i \in p..Len(text) : text[i] = c} \cup {Len(text) + 1})

\* format_static and format_insert: the nodes from each place on, with the
\* number of the argument that is next in turn.
Nodes(text) ==
  LET end == Len(text) + 1
      from[p \in 1..end] == [turn \in Nat |->
        LET open == First(text, p, LBrace)
            close == First(text, p, RBrace)
            double == open < Len(text) /\ text[open + 1] = LBrace
        IN  IF p = end THEN <<>>
            ELSE IF open = end /\ close = end THEN <<Static(SubSeq(text, p, Len(text)))>>
            ELSE IF close < open
            THEN <<Static(SubSeq(text, p, close))>> \o from[Min({close + 2, end})][turn]
            ELSE IF double
            THEN <<Static(SubSeq(text, p, open))>> \o from[open + 2][turn]
            ELSE IF open = Len(text) THEN <<Static(SubSeq(text, p, open - 1))>>
            ELSE LET stop == First(text, open + 1, RBrace)
                     next == IF text[open + 1] \in {":", RBrace} THEN turn + 1 ELSE turn
                 IN  <<Static(SubSeq(text, p, open - 1)),
                       Insertion(SubSeq(text, open + 1, stop - 1), turn)>>
                       \o from[Min({stop + 1, end})][next]]
  IN  from[1][0]

\* format_optimize_merge, format_optimize_empty: one text in place of several, and
\* none that is empty.
Optimized(nodes) ==
  LET put(done, n) ==
        IF ~n.insert /\ n.text = <<>> THEN done
        ELSE IF done # <<>> /\ ~Last(done).insert /\ ~n.insert
        THEN Append(Front(done), Static(Last(done).text \o n.text)) ELSE Append(done, n)
  IN  FoldLeft(put, <<>>, nodes)

\* format_to_impl
Format(text, args) ==
  LET put(done, n) ==
        Then(done, IF n.insert THEN Convert(args[n.argument + 1], n.options) ELSE Put(n.text))
  IN  FoldLeft(put, Put(<<>>), Optimized(Nodes(text)))

\* statement::to and format_to, of a string: behind what is in it already.
FormatTo(string, text, args) == Then(Put(string), Format(text, args))

\* format_as: a text that cannot be made is empty, and nobody is told.
TextOf(done) == IF done.error = "none" THEN done.text ELSE <<>>

FormatAs(text, args) == TextOf(Format(text, args))

\* vconvert_iterator_range: one character after the other, up to the end of the
\* range.
CutOff(room, done) ==
  LET put(kept, c) ==
        Then(kept, IF Len(kept.text) = room THEN Error("too_large") ELSE Put(<<c>>))
  IN  Then(FoldLeft(put, Put(<<>>), done.text), [done EXCEPT !.text = <<>>])

FormatInto(room, text, args) == CutOff(room, Format(text, args))

-----------------------------------------------------------------------------
(* The log.                                                                *)

Levels == <<"fatal", "error", "warning", "info", "debug", "trace", "all">>
LevelNames ==
  [fatal |-> "FATAL", error |-> "ERROR", warning |-> "WARNING", debug |-> "DEBUG",
   trace |-> "TRACE"]

LevelCheck(current, level) ==
  \E i, j \in DOMAIN Levels : Levels[i] = level /\ Levels[j] = current /\ i <= j

\* A line of a module's log, if both levels let it pass.
Log(level, current, of, module, text, args) ==
  IF level # "none" /\ ~(LevelCheck(current, level) /\ LevelCheck(of, level)) THEN <<>>
  ELSE (IF module = "" THEN <<>> ELSE <<"(", module, ") ">>)
         \o (IF level \in {"none", "info"} THEN <<>> ELSE <<LevelNames[level], ": ">>)
         \o Format(text, args).text \o <<"\n">>

-----------------------------------------------------------------------------
(* What a text must be.                                                    *)

Hex == Digits \o Letters.lower
HEX == Digits \o Letters.upper
IsHex(c) == c \in ToSet(Hex \o HEX)
HexValue(c) == CHOOSE n \in 0..15 : Hex[n + 1] = c \/ HEX[n + 1] = c

\* The number that digits stand for.
ReadIn(base, digits) == FoldLeft(LAMBDA n, c : base * n + HexValue(c), 0, digits)

\* Between l and r characters of padding, placed as asked, the text is a sign, a
\* prefix and digits of the number, and it is no wider than it must be.
ReadsAs(text, value, o, l, r) ==
  LET body == SubSeq(text, l + 1, Len(text) - r)
      front == (IF value < 0 THEN <<"-">> ELSE IF o.plus THEN <<"+">> ELSE <<>>)
                 \o (IF o.prefix THEN Prefix(o.type) ELSE <<>>)
      digits == Behind(body, front)
  IN  /\ \A i \in 1..l : text[i] = o.fill
      /\ \A i \in 1..r : text[Len(text) + 1 - i] = o.fill
      /\ IsPrefix(front, body) /\ digits # <<>> /\ \A i \in DOMAIN digits : IsHex(digits[i])
      /\ ReadIn(Base(o.type), digits) \in {value, -value}
      /\ Len(digits) > 1 /\ Head(digits) = "0" => o.zeros /\ Len(body) = o.width
      /\ l + r > 0 => Len(text) = o.width
      /\ CASE o.direction = "none"   -> l = 0 /\ r = 0 /\ (o.zeros => Len(text) >= o.width)
           [] o.direction = "left"   -> l = 0 /\ Len(text) >= o.width
           [] o.direction = "right"  -> r = 0 /\ Len(text) >= o.width
           [] o.direction = "center" -> r - l \in {0, 1} /\ Len(text) >= o.width

ReadsBack(text, value, o) ==
  \E l, r \in 0..Len(text) : l + r <= Len(text) /\ ReadsAs(text, value, o, l, r)

\* A format string that asks for one argument, put as its type says.
Asking(type) == <<LBrace, ":", type, RBrace>>

\* A text as a format string that has nothing in it to insert.
Doubled(text) ==
  FlattenSeq([i \in DOMAIN text |-> IF text[i] \in {LBrace, RBrace} THEN <<text[i], text[i]>>
                                    ELSE <<text[i]>>])
=============================================================================
