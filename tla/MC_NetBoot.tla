----------------------------- MODULE MC_NetBoot -----------------------------
EXTENDS PxeStart

Text(line) == [tag |-> "line", text |-> line]
Script(lines) == [i \in DOMAIN lines |-> Text(lines[i])]
Bytes(v, k) == [i \in 1..k |-> [tag |-> "byte", version |-> v, at |-> i]]

Boot == <<"boot">>
Sub == <<"sub">>
Leaf == <<"leaf">>
Data == <<"data">>
DirData == <<"dir", "/", "data">>
Missing == <<"missing">>

\* The first script shows a file, executes two others, the second one from
\* within the first too, and loads what is there already.  The file changes on
\* the server; so do the scripts, into ones that fail: by a command that there
\* is not, a name with a slash in it, for being empty, and by a quote that is
\* never closed, behind which nothing is left of the command.
MCNames == {Boot, Sub, Leaf, Data, DirData, Missing}

MCFiles ==
  [n \in MCNames |->
     CASE n = Boot -> << Script(<<
              <<"disp", " ", Quote, "data", Quote>>,
              <<" ", Hash, "exec", " ", "data">>,
              <<"exec", " ", "sub", "\t", Quote, "leaf", Quote>>,
              <<"start", " ", "load", " ", "data">>,
              <<"rem", " ", "dir", "/", "data", "\r">>,
              <<"disp", " ", Quote, "data", Quote, "data", " ", Quote, "missing">> >>) >>
       [] n = Sub -> <<
            Script(<< <<"echo", " ", "x">>, <<"exec", " ", "leaf">>,
                      <<"echo", " ", Quote, "y", " ", Backslash, Quote, "y", Quote, Hash, "x">> >>),
            Script(<< <<"start", " ", Quote, "data", Quote>> >>),
            Script(<< <<"echo", " ", "x">>, <<"exec", " ", "missing">> >>) >>
       [] n = Leaf -> <<
            Script(<< <<"echo", " ", "z", Backslash, "n">> >>),
            Script(<< <<"disp", " ", "dir", "/", "data">> >>),
            <<>>,
            Script(<< <<Quote, "disp", " ", "data">> >>) >>
       [] n = Data -> << Bytes(1, 3), Bytes(2, 2), Bytes(3, 4) >>
       [] n = DirData -> << Bytes(1, 1) >>
       [] n = Missing -> << >>]

\* config/netboot32.cmd and the files it names.
ShippedScript == <<"netboot32.cmd">>
Banner == <<"netboot32.asc">>
Core == <<"os99", "/", "os99core.exe">>
ShippedNames == {ShippedScript, Banner, Core}

ShippedFiles ==
  [n \in ShippedNames |->
     CASE n = ShippedScript -> << Script(<<
              <<>>,
              <<"disp", " ", Quote, "netboot32.asc", Quote>>,
              <<>>,
              <<"rem", " ", "load", " ", Quote, "os99", "/", "drivers", "/", "usb.sys", Quote>>,
              <<>>,
              <<"start", " ", Quote, "os99", "/", "os99core.exe", Quote>> >>) >>
       [] n = Banner -> << Bytes(1, 2) >>
       [] n = Core -> << Bytes(1, 3) >>]

\* The same with the file named to a command that the executor has.
ShownFiles ==
  [ShippedFiles EXCEPT ![ShippedScript] =
     << Script(<< <<"disp", " ", Quote, "os99", "/", "os99core.exe", Quote>> >>) >>]

\* Up to three characters: one that is always itself, one that is not behind a
\* backslash, white space, and those that have a meaning.  Numbers around the
\* ends of a type with a sign and one without.
ValuesReadBack ==
  /\ ReadAsWritten(BoundedSeq({"x", "n", "\n", " ", Quote, Backslash, Hash}, 3))
  /\ ReadAsPrinted(-20..20, -16, 15) /\ ReadAsPrinted(-20..20, 0, 15)

\* Whoever writes the lines of a script has a way to have echo print what is
\* meant: every value in quotes, with each quote, backslash and control
\* character in it behind a backslash, is read as it was, however the values
\* follow each other (unless there is a hash in it or a backslash at its end).
\* A command that asks for a number or a truth value reads what the log prints.
ReadsWhatIsWritten == AtLine => ValuesReadBack
=============================================================================
