------------------------------ MODULE NetBoot -------------------------------
(***************************************************************************)
(* netboot::Netboot: the command host.  It executes the script of a fixed  *)
(* name; a script is fetched from the ram disk, and downloaded into it     *)
(* first when it is not there; its commands are interpreted line by line   *)
(* and fetch, download, show and execute other files, scripts among them,  *)
(* on the one executor.  A script stops at its first command that fails,   *)
(* and so does the one that executed it.                                   *)
(*                                                                         *)
(* A byte of a script is a line of text.  The ram disk is what Archive     *)
(* shows it to be: complete entries in order, the first of a name found,   *)
(* and at most one being written.                                          *)
(*                                                                         *)
(* Definitions ending in _Slip are used by no specification (README, "What *)
(* each property is sensitive to").                                        *)
(***************************************************************************)
EXTENDS TftpDownload, ScriptText

CONSTANTS
  Autoexec     (* G_autoexec                                               *)

\* What the lines say; other bytes are no command.
Commands == [line \in Byte |-> IF line.tag = "line" THEN Command(line.text) ELSE NoCommand]
Op(line) == Commands[line].op
Args(line) == Commands[line].args

\* Lines are text, and scripts name files; a name is a sequence of characters.
ASSUME NetBootAssumption ==
  /\ Autoexec \in Names /\ <<>> \notin Names
  /\ \A line \in Byte : line.tag = "line" => line.text \in Seq(STRING)
  /\ \A line \in Byte :
       Op(line) \in {"exec", "disp", "load"} => Args(line) \in Seq(Names)

VARIABLES
  disk,        (* the complete entries of the archive                      *)
  entry,       (* the name of the open entry, or NoEntry                   *)
  frames,      (* the scripts being executed, innermost last               *)
  fetching,    (* the call of fetch in progress                            *)
  log,         (* auxiliary: what has been printed, in order               *)
  failed       (* auxiliary: something has failed                          *)

ramdisk  == <<disk, entry>>
host     == <<frames, fetching>>
netVars  == <<tftpVars, ramdisk, host, log, failed>>

NoEntry == <<>>

\* What a command ends with: zero, another number, or nothing at all.
Ok == "ok"
Error == "error"
Nothing == "nothing"

Frame == Last(frames)
AtEnd == Frame.at > Len(Frame.text)
Line == Frame.text[Frame.at]
HasArg == Frame.arg <= Len(Args(Line))
Arg == Args(Line)[Frame.arg]

SetTop(fs, frame) == [fs EXCEPT ![Len(fs)] = frame]
NextLine(frame, status) == [frame EXCEPT !.at = frame.at + 1, !.status = status]
NextArg(fs) == SetTop(fs, [Last(fs) EXCEPT !.arg = @ + 1])

-----------------------------------------------------------------------------
(* The ram disk.                                                           *)

\* find takes a path apart at its slashes and looks for a directory; an entry
\* is stored under its whole name, and none is a directory.
Hits(n) == {i \in DOMAIN disk : "/" \notin ToSet(n) /\ disk[i].name = n}
OnDisk(n) == Hits(n) # {}
Contents(n) == disk[CHOOSE i \in Hits(n) : \A j \in Hits(n) : i <= j].data

\* The archive refuses while a file is open, and the refusal is ignored.
OpenEntry(n) ==
  /\ Start(n)
  /\ IF entry = NoEntry
     THEN entry' = n /\ out' = <<>> /\ offset' = 0
     ELSE UNCHANGED <<entry, out, offset>>
  /\ UNCHANGED disk

CloseEntry ==
  /\ disk' = Append(disk, [name |-> entry, data |-> out, steady |-> steady])
  /\ entry' = NoEntry
  /\ UNCHANGED <<server, transfer, written, steady>>

-----------------------------------------------------------------------------
(* fetch and download.                                                     *)

NewFrame(text) == [text |-> text, at |-> 1, arg |-> 1, status |-> Nothing]

\* Goes on after a command that failed.
EndCommand_Slip(fs, status) ==
  /\ frames' = SetTop(fs, NextLine(Last(fs), status))
  /\ pc' = "line"
  /\ failed' = (failed \/ status # Ok)

\* A command of the innermost script has ended, in status; the script goes on
\* with its next line only if that is zero.
EndCommand(fs, status) ==
  /\ frames' = SetTop(fs, NextLine(Last(fs), status))
  /\ pc' = IF status = Ok THEN "line" ELSE "return"
  /\ failed' = (failed \/ status # Ok)

\* What was asked for cannot be had: the command fails, or, when it was the
\* first script, the program.
GiveUp ==
  /\ \/ frames # <<>> /\ EndCommand(frames, Error)
     \/ frames = <<>> /\ pc' = "aborted" /\ failed' = TRUE /\ UNCHANGED frames
  /\ UNCHANGED <<server, transfer, written, steady, ramdisk, fetching, log>>

BeginFetch(why, n) ==
  /\ pc' = "fetch" /\ name' = n
  /\ fetching' = [why |-> why, retry |-> 0]
  /\ UNCHANGED <<server, rom, fileSize, bytesRead, lastPacket, written, steady>>
  /\ UNCHANGED <<ramdisk, frames, log, failed>>

FetchFound ==
  /\ pc = "fetch" /\ OnDisk(name)
  /\ \/ /\ fetching.why = "exec"
        /\ frames' = Append(frames, NewFrame(Contents(name)))
        /\ pc' = "line"
        /\ UNCHANGED log
     \/ /\ fetching.why = "disp"
        /\ log' = Append(log, name)
        /\ frames' = NextArg(frames)
        /\ pc' = "command"
  /\ UNCHANGED <<server, transfer, written, steady, ramdisk, fetching, failed>>

FetchMissing ==
  /\ pc = "fetch" /\ ~OnDisk(name)
  /\ fetching.retry = 0
  /\ OpenEntry(name)
  /\ UNCHANGED <<host, log, failed>>

\* It has been downloaded and is still not found.
FetchFailed ==
  /\ pc = "fetch" /\ ~OnDisk(name)
  /\ fetching.retry > 0
  /\ GiveUp

Downloaded ==
  /\ pc = "downloaded"
  /\ CloseEntry
  /\ \/ /\ fetching.why = "load"
        /\ frames' = NextArg(frames)
        /\ pc' = "command"
        /\ UNCHANGED fetching
     \/ /\ fetching.why # "load"
        /\ fetching' = [fetching EXCEPT !.retry = @ + 1]
        /\ pc' = "fetch"
        /\ UNCHANGED frames
  /\ UNCHANGED <<log, failed>>

\* The entry stays open, and the connection if there is one.
DownloadFailed ==
  /\ pc = "download_failed"
  /\ GiveUp

-----------------------------------------------------------------------------
(* The interpreter and its executor.                                       *)

AtLine == pc = "line" /\ ~AtEnd

BlankLine ==
  /\ AtLine /\ Op(Line) = "blank"
  /\ frames' = SetTop(frames, NextLine(Frame, Frame.status))
  /\ UNCHANGED <<tftpVars, ramdisk, fetching, log, failed>>

BeginCommand ==
  /\ AtLine /\ Op(Line) \in Table
  /\ frames' = SetTop(frames, [Frame EXCEPT !.arg = 1])
  /\ pc' = "command"
  /\ UNCHANGED <<server, transfer, written, steady, ramdisk, fetching, log, failed>>

\* No command: the executor's status has no value.
UnknownCommand ==
  /\ AtLine /\ Op(Line) \notin Table \cup {"blank"}
  /\ EndCommand(frames, Nothing)
  /\ UNCHANGED <<server, transfer, written, steady, ramdisk, fetching, log>>

AtCommand(op) == pc = "command" /\ Op(Line) = op

\* Callers write something after echo.
Echo ==
  /\ AtCommand("echo")
  /\ log' = log \o Args(Line)
  /\ EndCommand(frames, Ok)
  /\ UNCHANGED <<server, transfer, written, steady, ramdisk, fetching>>

Rem ==
  /\ AtCommand("rem")
  /\ EndCommand(frames, Ok)
  /\ UNCHANGED <<server, transfer, written, steady, ramdisk, fetching, log>>

\* exec and disp fetch their arguments one after the other.
NextFile ==
  /\ \E op \in {"exec", "disp"} : AtCommand(op) /\ HasArg /\ BeginFetch(op, Arg)

NextLoad ==
  /\ AtCommand("load") /\ HasArg
  /\ OpenEntry(Arg)
  /\ fetching' = [why |-> "load", retry |-> 0]
  /\ UNCHANGED <<frames, log, failed>>

NoMoreFiles ==
  /\ \E op \in {"exec", "disp", "load"} : AtCommand(op)
  /\ ~HasArg
  /\ EndCommand(frames, Ok)
  /\ UNCHANGED <<server, transfer, written, steady, ramdisk, fetching, log>>

EndOfScript ==
  /\ pc = "line" /\ AtEnd
  /\ pc' = "return"
  /\ UNCHANGED <<server, transfer, written, steady, ramdisk, host, log, failed>>

\* The script that executed this one goes on with its next argument, whatever
\* this one's status.
Return_Slip ==
  LET outer == Front(frames) IN
  /\ pc = "return"
  /\ \/ outer # <<>> /\ frames' = NextArg(outer) /\ pc' = "command" /\ UNCHANGED failed
     \/ /\ outer = <<>>
        /\ frames' = outer
        /\ pc' = IF Frame.status = Ok THEN "done" ELSE "aborted"
        /\ failed' = (failed \/ Frame.status # Ok)
  /\ UNCHANGED <<server, transfer, written, steady, ramdisk, fetching, log>>

\* A script in which no command has been executed has failed.
Return ==
  LET outer == Front(frames)
      ok == Frame.status = Ok
  IN
  /\ pc = "return"
  /\ \/ outer # <<>> /\ ok /\ frames' = NextArg(outer) /\ pc' = "command" /\ UNCHANGED failed
     \/ outer # <<>> /\ ~ok /\ EndCommand(outer, Error)
     \/ outer = <<>> /\ frames' = outer /\ pc' = (IF ok THEN "done" ELSE "aborted")
                     /\ failed' = (failed \/ ~ok)
  /\ UNCHANGED <<server, transfer, written, steady, ramdisk, fetching, log>>

-----------------------------------------------------------------------------
Init ==
  /\ version = [n \in Names |-> IF Files[n] = <<>> THEN 0 ELSE 1]
  /\ rom = NoConnection
  /\ pc = "fetch" /\ name = Autoexec
  /\ fileSize = 0 /\ bytesRead = 0 /\ lastPacket = 0
  /\ out = <<>> /\ offset = 0 /\ steady = TRUE
  /\ disk = <<>> /\ entry = NoEntry
  /\ frames = <<>> /\ fetching = [why |-> "exec", retry |-> 0]
  /\ log = <<>> /\ failed = FALSE

HostStep ==
  \/ FetchFound \/ FetchMissing \/ FetchFailed \/ Downloaded \/ DownloadFailed
  \/ BlankLine \/ BeginCommand \/ UnknownCommand
  \/ Echo \/ Rem \/ NextFile \/ NextLoad \/ NoMoreFiles
  \/ EndOfScript \/ Return

ProgramStep == HostStep \/ (DownloadStep /\ UNCHANGED <<ramdisk, host, log, failed>>)

Next ==
  \/ ProgramStep
  \/ \E n \in Names : Publish(n) /\ UNCHANGED <<ramdisk, host, log, failed>>

\* The one program runs, and every call to the ROM returns.
Spec == Init /\ [][Next]_netVars /\ WF_netVars(ProgramStep)

-----------------------------------------------------------------------------
(* What must hold.                                                         *)

InDownload == pc \in {"get_fsize", "tftp_open", "tftp_read", "tftp_close", "downloaded"}

\* Where the program is, and how deep, fits what it has on its hands.
TypeOK ==
  /\ TftpTypeOK
  /\ entry \in Names \cup {NoEntry}
  /\ fetching.why \in {"exec", "disp", "load"} /\ fetching.retry \in {0, 1}
  /\ \A i \in DOMAIN frames : frames[i].at \in 1..(Len(frames[i].text) + 1)
  /\ pc \in {"line", "command", "return"} => frames # <<>>
  /\ fetching.why # "exec" /\ (pc = "fetch" \/ InDownload) => frames # <<>>

\* Nobody searches the ram disk, or begins another download, while an entry
\* or a connection that a failed download has left is open: find would read
\* that entry's header for ever, open would be refused without notice, and
\* the next file would be written into it.
NothingLeftOpen ==
  /\ pc \in {"fetch", "line", "command"} => entry = NoEntry /\ ~rom.open
  /\ pc = "get_fsize" => ~rom.open
  /\ InDownload => entry = name

\* A complete entry is, byte for byte, a version of the file of that name,
\* unless the server changed it while it was being downloaded.
RamDiskServed ==
  \A i \in DOMAIN disk :
    disk[i].steady => \E v \in DOMAIN Files[disk[i].name] :
                        disk[i].data = Files[disk[i].name][v]

\* After the first failure nothing more is printed or stored.
StopsAtFailure == [][failed => UNCHANGED <<log, disk>>]_netVars

\* What a reading of the scripts gives: the arguments of every echo and disp,
\* with those of an executed script in the place of its name.
Output ==
  LET output[n \in Names] ==
        IF Files[n] = <<>> THEN <<>>
        ELSE LET text == Files[n][1]
                 of[i \in DOMAIN text] ==
                   IF Op(text[i]) \in {"echo", "disp"} THEN Args(text[i])
                   ELSE IF Op(text[i]) = "exec"
                   THEN FlattenSeq([k \in DOMAIN Args(text[i]) |-> output[Args(text[i])[k]]])
                   ELSE <<>>
             IN  FlattenSeq(of)
  IN  output[Autoexec]

\* The commands take effect in the order of the scripts, each once, up to the
\* first that fails; a program that ends well has executed them all.
RunsTheScripts ==
  /\ IsPrefix(log, Output)
  /\ pc = "done" => log = Output /\ ~failed

\* config/netboot32.cmd is executed by the program it is written for: each of
\* its commands is one.
CommandsKnown == pc = "line" /\ ~AtEnd => Op(Line) \in Table \cup {"blank"}

\* A file that has just been downloaded is found.
DownloadIsFound == pc = "fetch" /\ fetching.retry > 0 => OnDisk(name)
=============================================================================
