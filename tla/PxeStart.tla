------------------------------ MODULE PxeStart ------------------------------
(***************************************************************************)
(* pxenv::initialize and pxenv::dhcp::info: the command host before and    *)
(* under NetBoot.  At the start the program asks the BIOS for the PXE ROM, *)
(* chooses between the two entry points the ROM offers and gets the reply  *)
(* of the DHCP server that the ROM has kept; every download asks for that  *)
(* reply again, to know the server, and it is kept once it has been got.   *)
(*                                                                         *)
(* Every call answers twice, with the code in a register and the status in *)
(* the parameters, and the two need not agree.                             *)
(***************************************************************************)
EXTENDS NetBoot

VARIABLES
  phase,       (* how far the start has come                               *)
  context,     (* G_PXENV_context: the entry point, and whose it is        *)
  reply,       (* s_cached_info: the packet, and whether it is whole       *)
  options      (* the server the download in progress asks                 *)

startVars == <<netVars, phase, context, reply, options>>

NoEntryPoint == [entry |-> "none", bang |-> FALSE]
NoReply == [data |-> FALSE, whole |-> FALSE]
NoServer == "none"

\* What the ROM's structures may say, and what a call may answer.
PxenvPlus == [signed : BOOLEAN, version : {512, 513}, bang : {"null", "unsigned", "signed"}]
Replies == [code : BOOLEAN, status : BOOLEAN, whole : BOOLEAN]

-----------------------------------------------------------------------------
(* The start.                                                              *)

StartOver(next) == phase' = next /\ UNCHANGED <<netVars, options>>

InstallationCheck ==
  /\ phase = "check"
  /\ StartOver("initialize") \/ StartOver("aborted")
  /\ UNCHANGED <<context, reply>>

\* PXENV_initialize: the newer structure if the older one tells of it and it is
\* as it should be, or else, with a warning, the older one.
Initialize(pxenv) ==
  LET bang == pxenv.version >= 513 /\ pxenv.bang = "signed" IN
  /\ phase = "initialize"
  /\ \/ /\ pxenv.signed
        /\ context' = [entry |-> IF bang THEN "!PXE" ELSE "PXENV+", bang |-> bang]
        /\ StartOver("reply")
     \/ ~pxenv.signed /\ StartOver("aborted") /\ UNCHANGED context
  /\ UNCHANGED reply

\* Asks the ROM with a packet of its own, which it keeps whatever comes back.
Cached_Slip(answer) ==
  IF answer.code /\ answer.status THEN [data |-> TRUE, whole |-> answer.whole]
  ELSE IF answer.status THEN NoReply ELSE reply

\* info::cached: what is kept after an answer of the ROM, which is asked only
\* for want of a whole packet.  A call that fails by its code alone is a success
\* that leaves the packet as it was.
Cached(answer) ==
  IF ~reply.whole /\ answer.code /\ answer.status
  THEN [data |-> TRUE, whole |-> answer.whole] ELSE reply

\* The server of a reply; that of one that never came is read from address
\* zero, and that of one cut short from wherever the packet ends.
ServersOf(packet) ==
  IF packet.whole THEN {"server"}
  ELSE {"nobody"} \cup (IF packet.data THEN {"server"} ELSE {})

\* A reply that cannot be had, or is not whole, is called fatal, and the
\* program goes on.
GrabReply(answer) ==
  /\ phase = "reply"
  /\ reply' = Cached(answer)
  /\ StartOver("main")
  /\ UNCHANGED context

-----------------------------------------------------------------------------
(* The downloads.                                                          *)

\* download: the reply first, and if the ROM refuses it, the ROM's status.
AskReply(answer) ==
  /\ phase = "main" /\ pc = "get_fsize" /\ options = NoServer
  /\ reply' = Cached(answer)
  /\ \/ /\ reply.whole \/ answer.status
        /\ options' \in ServersOf(reply')
        /\ UNCHANGED netVars
     \/ /\ ~(reply.whole \/ answer.status)
        /\ Refused
        /\ UNCHANGED <<ramdisk, host, log, failed, options>>
  /\ UNCHANGED <<phase, context>>

\* Nobody answers at any other address.
MainStep ==
  /\ phase = "main"
  /\ pc = "get_fsize" => options # NoServer
  /\ ProgramStep
  /\ options = "nobody" => pc' # "tftp_open"
  /\ options' = IF pc' \in {"tftp_open", "tftp_read", "tftp_close"} THEN options ELSE NoServer
  /\ UNCHANGED <<phase, context, reply>>

StartInit ==
  /\ Init
  /\ phase = "check"
  /\ context = NoEntryPoint /\ reply = NoReply /\ options = NoServer

StartProgram ==
  \/ InstallationCheck
  \/ \E pxenv \in PxenvPlus : Initialize(pxenv)
  \/ \E answer \in Replies : GrabReply(answer) \/ AskReply(answer)
  \/ MainStep

StartNext ==
  \/ StartProgram
  \/ \E n \in Names : Publish(n) /\ UNCHANGED <<ramdisk, host, log, failed>>
                       /\ UNCHANGED <<phase, context, reply, options>>

\* The one program runs, and every call to the ROM returns.
StartSpec == StartInit /\ [][StartNext]_startVars /\ WF_startVars(StartProgram)

-----------------------------------------------------------------------------
(* What must hold.                                                         *)

\* A whole reply is kept for good, whatever the ROM answers later, and from
\* then on every download asks its server.
WholeReplyKept ==
  [][reply.whole => /\ reply' = reply
                    /\ options' \in {NoServer, options, "server"}]_startVars

\* The program ends, whatever the server and the ROM do.
ProgramEnds == <>(phase = "aborted" \/ pc \in {"done", "aborted"})
=============================================================================
