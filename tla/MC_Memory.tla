----------------------------- MODULE MC_Memory ------------------------------
EXTENDS Memory

\* Two ranges that start off a boundary, with a hole between them; one that
\* overlaps the second from below, one too small for a block, and one at
\* address zero, as the first entry of a memory map is.
Low     == [data |-> 1,  size |-> 9]
Middle  == [data |-> 4,  size |-> 6]
High    == [data |-> 11, size |-> 7]
Short   == [data |-> 11, size |-> 5]
Overlap == [data |-> 10, size |-> 4]
Small   == [data |-> 15, size |-> 3]
Zero    == [data |-> 0,  size |-> 6]

MCRanges == {Low, Middle, High, Short, Overlap, Small, Zero}

Entry(r, t) == [data |-> r.data, size |-> r.size, type |-> t]

\* A word higher: what is left of it is where r is.
Above(r) == Entry([r EXCEPT !.data = @ + WordSize], 1)

\* In address order with memory that is in use between; from above, with an
\* entry that overlaps, and one that the cut brings down to zero and so over the
\* others; with one at zero and one that is too small; and two entries that make
\* one block, with another that is cut to a range inside it.
MCMaps == {
  <<Entry(Low, 1), Entry(Overlap, 2), Above(High)>>,
  <<Entry(High, 1), Entry(Overlap, 1), Entry(Low, 1), Above(Zero)>>,
  <<Entry(Zero, 1), Entry(Short, 1), Entry(Small, 2), Entry(Overlap, 1), Entry(Low, 1)>>,
  <<Entry(Small, 1), Entry(Overlap, 1), Entry(Middle, 1), Above([data |-> 6, size |-> 6])>>}

\* The last one takes two units to print, and is never served.
MCRequests == {0, 3, 1030}

\* Every combination of the fields of an insertion's options, with widths that
\* are too small, even and odd.
MCOptions ==
  {f.align \o f.sign \o f.pound \o f.zero \o f.width \o f.type :
     f \in [align : {<<>>, <<">">>, <<"*", "<">>, <<"<", "^">>}, sign : {<<>>, <<"+">>, <<"-">>},
            pound : {<<>>, <<"#">>}, zero : {<<>>, <<"0">>}, width : {<<>>, <<"4">>, <<"1", "1">>},
            type : {<<>>, <<"b">>, <<"o">>, <<"D">>, <<"X">>}]}

MCNumbers == {0, 1, 29, -6}

\* A number is printed so that it can be read back, padded to the width asked
\* for on the side asked for, unless zeros are asked for and the number is too
\* wide already (see Numeric); and any text can be printed, its braces doubled.
ReadBack(done, bare, n, o) ==
  /\ o.valid
  /\ \/ done.error = "none" /\ ReadsBack(done.text, n, o)
     \/ done.error # "none" /\ o.zeros /\ Len(bare.text) > o.width

NumbersReadBack ==
  \A s \in MCOptions, n \in MCNumbers :
    ReadBack(Format(<<"{", ":">> \o s \o <<"}">>, <<Number(n)>>),
             Format(<<"{", ":">> \o SelectSeq(s, LAMBDA c : c # "0") \o <<"}">>, <<Number(n)>>),
             n, Options(s))

TextsPrint ==
  \A t \in BoundedSeq({"{", "}", ":", "1"}, 4) :
    Format(Doubled(t) \o <<"{", "}">>, <<Number(1)>>) = Put(t \o <<"1">>)

\* A text that is asked for whole is whole or empty; one that has too little room
\* is cut where the room ends, however it came about, and its writer is told.
\* What is repeated can be taken apart again at its glue.
Comma == <<",">>
Repeats(n, count) == <<Repeated(count, Number(n), String(Comma))>>
RepeatText == <<"n", "{", "}">>
RefusedText == RepeatText \o <<"{", "0", ":", "e", "}">>

CutAt(room, whole, cut) ==
  /\ cut.text = SubSeq(whole.text, 1, Min({room, Len(whole.text)}))
  /\ cut.error = IF room < Len(whole.text) THEN "too_large" ELSE "none"

TakenApart(count, text, one) ==
  /\ \A i \in 1..count : SubSeq(text, 2 + (i - 1) * (Len(one) + 1), i * (Len(one) + 1)) = one
  /\ Len(SelectSeq(text, LAMBDA c : c \in ToSet(Comma))) = Max({0, count - 1})

RepeatsAndFits ==
  \A n \in MCNumbers :
    /\ \A count \in 0..3 :
         /\ TakenApart(count, FormatTo(<<"n">>, <<"{", "}">>, Repeats(n, count)).text,
                       FormatAs(<<"{", ":", "d", "}">>, <<Number(n)>>))
         /\ \A room \in 0..6 :
              CutAt(room, Format(RepeatText, Repeats(n, count)),
                    FormatInto(room, RepeatText, Repeats(n, count)))
    /\ FormatAs(RefusedText, <<Number(n)>>) = <<>>
    /\ Format(RefusedText, <<Number(n)>>) =
         [text |-> <<"n">> \o FormatAs(<<"{", "}">>, <<Number(n)>>), error |-> "not_implemented"]

PrintsAsAsked ==
  Ready /\ listed = {} => NumbersReadBack /\ TextsPrint /\ RepeatsAndFits
=============================================================================
