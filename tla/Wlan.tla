-------------------------------- MODULE Wlan --------------------------------
(***************************************************************************)
(* The driver of the WLAN module, src/wifi: a thread sends it commands and *)
(* waits for the answers, and the thread wlan_rx_thread is woken by its    *)
(* interrupt, reads answers and packets over SPI, and hands the packets to *)
(* the thread eth_rx_thread of src/rt-thread/components/net/lwip.  After   *)
(* start-up one thread sends commands, the shell.                          *)
(*                                                                         *)
(* The interrupt line is low while a cause the host has not masked is set, *)
(* and only its falling edge interrupts.  The module is outside of src/:   *)
(* what is assumed of it is that it answers each command once and in       *)
(* order, and keeps an answer and a packet until they have been read.  It  *)
(* raises a cause at any moment, masked or not.  Its packets have a SNAP   *)
(* header: the node of any other is linked after it has been freed.        *)
(*                                                                         *)
(* wlan_rx_thread outranks the other threads here.  They run when it waits *)
(* for its event, for the SPI or for the heap, so its steps are those      *)
(* between two such points: a read or a write of a register of the module  *)
(* is a step of its own, and so is the transfer of a packet or an answer.  *)
(***************************************************************************)
EXTENDS Integers

CONSTANTS
    MboxSize,   \* RT_LWIP_ETHTHREAD_MBOX_SIZE
    MaxPackets  \* bound: the packets that wait for eth_rx_thread

ASSUME WlanAssumption == MboxSize \in Nat \ {0} /\ MaxPackets \in Nat

VARIABLES
    status, mask,      \* HOST_INT_STATUS_REG, and whether the host has masked it
    exti, nvic,        \* the interrupt: its pending bit, and whether it is enabled
    command, answer,   \* a command the module works on, an answer not read yet
    packet,            \* it holds a packet not read yet
    wake,              \* WakeUpINT of WlanRxWakeUp
    rxpc, ireg,        \* where wlan_rx_thread is, its variable ireg
    HisRegCpy, CurCmd, CmdResBuf,
    cmdwait,           \* CmdWaitQWoken of cmdwaitevent
    copy,              \* what the caller has read of HisRegCpy
    answered,          \* the last answer processed (history)
    RxQueueCount, mbox, erxpc

chipVars == <<status, mask, exti, nvic, command, answer, packet>>
rxVars == <<wake, rxpc, ireg, CmdResBuf>>
cmdVars == <<HisRegCpy, CurCmd, cmdwait, copy, answered>>
ethVars == <<RxQueueCount, mbox, erxpc>>
wlanVars == <<chipVars, rxVars, cmdVars, ethVars>>

Cause == {"CmdUp", "RxUp", "CardEvent"}

\* Of an answer we remember whether it is that of the last command sent.
Age(a) == IF a = "own" THEN "earlier" ELSE a

\* After WlanInitPhase1 and 2 and eth_device_init: the interrupt is enabled.
WlanInit ==
    /\ status = {} /\ mask = FALSE /\ exti = FALSE /\ nvic = TRUE
    /\ command = "none" /\ answer = "none" /\ packet = FALSE
    /\ wake = FALSE /\ rxpc = "wait" /\ ireg = {}
    /\ HisRegCpy = {} /\ CurCmd = FALSE /\ CmdResBuf = "none"
    /\ cmdwait = FALSE /\ copy = {} /\ answered = "none"
    /\ RxQueueCount = 0 /\ mbox = 0 /\ erxpc = "wait"

-----------------------------------------------------------------------------
(* The module and the interrupt. *)

LineLow == status # {} /\ ~ mask

\* A falling edge of the line sets the pending bit.
Edge == exti' = (exti \/ (~ LineLow /\ LineLow'))

Raise(c) ==
    /\ status' = status \cup {c}
    /\ UNCHANGED <<mask, nvic>>
    /\ Edge

ChipAnswers ==
    /\ command # "none" /\ answer = "none"
    /\ answer' = command
    /\ command' = "none"
    /\ Raise("CmdUp")
    /\ UNCHANGED <<packet, rxVars, cmdVars, ethVars>>

ChipReceives ==
    /\ ~ packet /\ RxQueueCount < MaxPackets
    /\ packet' = TRUE
    /\ Raise("RxUp")
    /\ UNCHANGED <<command, answer, rxVars, cmdVars, ethVars>>

ChipEvent ==
    /\ Raise("CardEvent")
    /\ UNCHANGED <<command, answer, packet, rxVars, cmdVars, ethVars>>

\* EXTI9_5_IRQHandler
Interrupt ==
    /\ exti /\ nvic
    /\ wake' = TRUE
    /\ nvic' = FALSE
    /\ exti' = FALSE
    /\ UNCHANGED <<status, mask, command, answer, packet, rxpc, ireg, CmdResBuf,
                   cmdVars, ethVars>>

-----------------------------------------------------------------------------
(* wlan_rx_thread: rt_event_recv, then sbi_get_int_status. *)

RxWakes ==
    /\ rxpc = "wait" /\ wake
    /\ wake' = FALSE
    /\ rxpc' = "mask"
    /\ UNCHANGED <<chipVars, ireg, CmdResBuf, cmdVars, ethVars>>

RxMask ==
    /\ rxpc = "mask"
    /\ mask' = TRUE
    /\ rxpc' = "read"
    /\ UNCHANGED <<status, exti, nvic, command, answer, packet, wake, ireg, CmdResBuf,
                   cmdVars, ethVars>>

RxRead ==
    /\ rxpc = "read"
    /\ ireg' = status
    /\ rxpc' = "clear"
    /\ UNCHANGED <<chipVars, wake, CmdResBuf, cmdVars, ethVars>>

\* HOST_INT_STATUS_REG = 0: every cause is cleared, read or not.
RxClear ==
    /\ rxpc = "clear"
    /\ status' = {}
    /\ rxpc' = "pending"
    /\ UNCHANGED <<mask, nvic, command, answer, packet, wake, ireg, CmdResBuf, cmdVars, ethVars>>
    /\ Edge

\* gspi_irq_clear
RxIrqClear ==
    /\ rxpc = "pending"
    /\ exti' = FALSE
    /\ rxpc' = "enable"
    /\ UNCHANGED <<status, mask, nvic, command, answer, packet, wake, ireg, CmdResBuf,
                   cmdVars, ethVars>>

\* Mutant of RxEnable: the interrupt stays disabled.
RxEnableNot ==
    /\ rxpc = "enable"
    /\ rxpc' = "packet"
    /\ UNCHANGED <<chipVars, wake, ireg, CmdResBuf, cmdVars, ethVars>>

\* enable_wlan_interrupt
RxEnable ==
    /\ rxpc = "enable"
    /\ nvic' = TRUE
    /\ rxpc' = "packet"
    /\ UNCHANGED <<status, mask, exti, command, answer, packet, wake, ireg, CmdResBuf,
                   cmdVars, ethVars>>

\* ProcessRxedPacket links the packet, or drops it: it is too short, or there is
\* no memory for its node or its pbuf.
RxPacket ==
    /\ rxpc = "packet"
    /\ IF "RxUp" \in ireg
       THEN packet' = FALSE /\ RxQueueCount' \in {RxQueueCount, RxQueueCount + 1}
       ELSE UNCHANGED <<packet, RxQueueCount>>
    /\ rxpc' = "answer"
    /\ UNCHANGED <<status, mask, exti, nvic, command, answer, wake, ireg, CmdResBuf,
                   cmdVars, mbox, erxpc>>

RxAnswer ==
    /\ rxpc = "answer"
    /\ IF "CmdUp" \in ireg
       THEN CmdResBuf' = answer /\ answer' = "none"
       ELSE UNCHANGED <<CmdResBuf, answer>>
    /\ rxpc' = "unmask"
    /\ UNCHANGED <<status, mask, exti, nvic, command, packet, wake, ireg,
                   cmdVars, ethVars>>

RxUnmask ==
    /\ rxpc = "unmask"
    /\ mask' = FALSE
    /\ UNCHANGED status /\ Edge
    /\ rxpc' = "work"
    /\ UNCHANGED <<nvic, command, answer, packet, wake, ireg, CmdResBuf,
                   cmdVars, ethVars>>

\* Mutant of CommandAnswered: an answer that reports an error wakes nobody.
CommandAnsweredGood(his) ==
    IF "CmdUp" \in his /\ CurCmd
    THEN cmdwait' \in {TRUE, cmdwait} /\ answered' = CmdResBuf
    ELSE UNCHANGED <<cmdwait, answered>>

\* wlan_process_rx_command wakes the caller for an answer good or bad.
CommandAnswered(his) ==
    IF "CmdUp" \in his /\ CurCmd
    THEN cmdwait' = TRUE /\ answered' = CmdResBuf
    ELSE UNCHANGED <<cmdwait, answered>>

\* eth_device_ready, which gives up when the mailbox is full.
NotifyEth(his) ==
    mbox' = IF "RxUp" \in his /\ RxQueueCount = 1 /\ mbox < MboxSize THEN mbox + 1 ELSE mbox

\* The rest of the pass: nothing in it waits before the event cause is read.
\* Then ireg is not read again before it is assigned.
RxWork ==
    /\ rxpc = "work"
    /\ LET his == HisRegCpy \cup ireg
       IN  /\ CommandAnswered(his)
           /\ NotifyEth(his)
           /\ HisRegCpy' = his \ Cause
           /\ rxpc' = IF "CardEvent" \in his THEN "event" ELSE "wait"
    /\ ireg' = {}
    /\ UNCHANGED <<chipVars, wake, CmdResBuf, CurCmd, copy,
                   RxQueueCount, erxpc>>

\* sbi_read_event_cause reads the cause of the event, ...
RxEvent ==
    /\ rxpc = "event"
    /\ rxpc' = "eventclear"
    /\ UNCHANGED <<chipVars, wake, ireg, CmdResBuf, cmdVars, ethVars>>

\* Mutant of RxEventClear: the mask is written, and not its complement.
RxEventClearOthers ==
    /\ rxpc = "eventclear"
    /\ status' = status \cap {"CardEvent"}
    /\ rxpc' = "hostevent"
    /\ UNCHANGED <<mask, nvic, command, answer, packet, wake, ireg, CmdResBuf, cmdVars, ethVars>>
    /\ Edge

\* ... clears CardEvent, with no cause masked, ...
RxEventClear ==
    /\ rxpc = "eventclear"
    /\ status' = status \ {"CardEvent"}
    /\ rxpc' = "hostevent"
    /\ UNCHANGED <<mask, nvic, command, answer, packet, wake, ireg, CmdResBuf, cmdVars, ethVars>>
    /\ Edge

\* ... and tells the module; wlan_process_event changes a flag of the application.
RxHostEvent ==
    /\ rxpc = "hostevent"
    /\ rxpc' = "wait"
    /\ UNCHANGED <<chipVars, wake, ireg, CmdResBuf, cmdVars, ethVars>>

RxThread ==
    \/ RxWakes \/ RxMask \/ RxRead \/ RxClear \/ RxIrqClear \/ RxEnable
    \/ RxPacket \/ RxAnswer \/ RxUnmask \/ RxWork
    \/ RxEvent \/ RxEventClear \/ RxHostEvent

-----------------------------------------------------------------------------
(* eth_rx_thread_entry, and rt_wlan_dev_rx, which it calls until nothing is left.  *)

EthWakes ==
    /\ erxpc = "wait" /\ mbox > 0
    /\ mbox' = mbox - 1
    /\ erxpc' = "drain"
    /\ UNCHANGED <<chipVars, rxVars, cmdVars, RxQueueCount>>

\* Mutant of EthTakes: one packet is taken for each message.
EthTakesOne ==
    /\ erxpc = "drain"
    /\ RxQueueCount' = IF RxQueueCount = 0 THEN 0 ELSE RxQueueCount - 1
    /\ erxpc' = "wait"
    /\ UNCHANGED <<chipVars, rxVars, cmdVars, mbox>>

EthTakes ==
    /\ erxpc = "drain"
    /\ IF RxQueueCount = 0
       THEN erxpc' = "wait" /\ UNCHANGED RxQueueCount
       ELSE RxQueueCount' = RxQueueCount - 1 /\ UNCHANGED erxpc
    /\ UNCHANGED <<chipVars, rxVars, cmdVars, mbox>>

EthThread == EthWakes \/ EthTakes

-----------------------------------------------------------------------------
(* The steps of WlanExecuteCommand; where its caller is between them is the     *)
(* caller's business.                                                          *)

Download ==
    /\ CurCmd' = TRUE
    /\ command' = "own"
    /\ answer' = Age(answer) /\ CmdResBuf' = Age(CmdResBuf) /\ answered' = Age(answered)
    /\ UNCHANGED <<status, mask, exti, nvic, packet, wake, rxpc, ireg,
                   HisRegCpy, cmdwait, copy, ethVars>>

\* HisRegCpy &= ~HIS_TxDnLdRdy: no other bit of the copy is changed.
LoadHis ==
    /\ copy' = HisRegCpy
    /\ UNCHANGED <<chipVars, rxVars, HisRegCpy, CurCmd, cmdwait, answered, ethVars>>

StoreHis ==
    /\ HisRegCpy' = copy
    /\ UNCHANGED <<chipVars, rxVars, CurCmd, cmdwait, copy, answered, ethVars>>

\* Mutant of Answered: the flag is not cleared.
AnsweredKeeps ==
    /\ cmdwait
    /\ UNCHANGED wlanVars

\* rt_event_recv with RT_EVENT_FLAG_CLEAR
Answered ==
    /\ cmdwait
    /\ cmdwait' = FALSE
    /\ UNCHANGED <<chipVars, rxVars, HisRegCpy, CurCmd, copy, answered, ethVars>>

-----------------------------------------------------------------------------
\* While the line is low, the driver is going to look at the causes: no edge is
\* missed for good by masking, clearing and enabling in sbi_get_int_status, or by
\* the clearing of sbi_read_event_cause, which masks nothing.
NoLostInterrupt == LineLow => (exti /\ nvic) \/ wake \/ rxpc = "mask"

\* The module holds an answer or a packet, and no cause says so any more: nobody
\* is going to read it.
AnswerLost == answer # "none" /\ "CmdUp" \notin status \cup ireg
PacketLost == packet /\ "RxUp" \notin status \cup ireg

\* The driver loses a cause in one place only: when it clears causes that it has
\* not read, for they were raised after it had read them.
LostOnlyWhenClearing ==
    [][(AnswerLost' /\ ~ AnswerLost) \/ (PacketLost' /\ ~ PacketLost) => rxpc = "clear"]_wlanVars

\* While packets wait, eth_rx_thread is at work, a message of eth_device_ready
\* is on its way to it, or wlan_rx_thread is going to send one: to notify only at
\* a count of 1 leaves no packet behind, also with a full mailbox.
NoStrandedPacket ==
    RxQueueCount > 0 =>
        \/ mbox > 0 \/ erxpc = "drain"
        \/ rxpc \in {"answer", "unmask", "work"} /\ "RxUp" \in ireg /\ RxQueueCount = 1
=============================================================================
