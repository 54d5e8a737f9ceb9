---------------------------- MODULE ConsoleProofs ---------------------------
(***************************************************************************)
(* The safety properties of Console, for every size of the ring, of the   *)
(* mailbox and of the characters one interrupt finds, and any number of    *)
(* packets.  Each follows from an inductive invariant: InterruptInv is     *)
(* about the interrupt and its mask, PacketInv about the packets, IregInv  *)
(* about the causes that have been read, RingInv about the characters and  *)
(* CommandInv about the way of a command and its answer, which may be lost. *)
(***************************************************************************)
EXTENDS Console, TLAPS

RxPC == {"wait", "mask", "read", "clear", "pending", "enable", "packet", "answer", "unmask",
         "work", "event", "eventclear", "hostevent"}
ShellPC == {"take", "read", "cr", "load", "store", "wait", "back"}

TypeInv ==
    /\ status \in SUBSET Cause /\ ireg \in SUBSET Cause
    /\ mask \in BOOLEAN /\ exti \in BOOLEAN /\ nvic \in BOOLEAN /\ wake \in BOOLEAN
    /\ cmdwait \in BOOLEAN /\ CurCmd \in BOOLEAN
    /\ rxpc \in RxPC /\ pc \in ShellPC
    /\ RxQueueCount \in Nat /\ mbox \in Nat
    /\ HisRegCpy = {} /\ copy = {}
    /\ ring \in Seq(Char) /\ rx_sem \in Nat /\ behind \in Nat

\* The causes are masked from before the read to the end of sbi_get_int_status, and the
\* interrupt is disabled only while wlan_rx_thread has been called for.
InterruptInv ==
    /\ mask <=> rxpc \in {"read", "clear", "pending", "enable", "packet", "answer",
                          "unmask"}
    /\ ~ nvic => wake \/ rxpc \in {"mask", "read", "clear", "pending", "enable"}
    /\ NoLostInterrupt

PacketInv == NoStrandedPacket

\* Each character of the ring has a unit of the semaphore or has come behind
\* another; the unit the shell has taken last stands for the character it is
\* going to read.
RingInv ==
    /\ Len(ring) < RingSize
    /\ Len(ring) <= (IF pc = "read" THEN rx_sem + 1 ELSE rx_sem) + behind

\* No command and no answer is under way.
Quiet == command = "none" /\ answer = "none" /\ "CmdUp" \notin status /\ "CmdUp" \notin ireg

\* Where a command and its answer are, from the download to the return.
AtModule == /\ command = "own" /\ answer = "none" /\ ~ cmdwait
            /\ "CmdUp" \notin status /\ "CmdUp" \notin ireg
Announced == /\ command = "none" /\ answer = "own" /\ ~ cmdwait
             /\ "CmdUp" \in status /\ "CmdUp" \notin ireg
Noticed == /\ command = "none" /\ answer = "own" /\ ~ cmdwait /\ "CmdUp" \in ireg
           /\ rxpc \in {"clear", "pending", "enable", "packet", "answer"}
           /\ "CmdUp" \in status => rxpc = "clear"
Lost == /\ command = "none" /\ answer = "own" /\ ~ cmdwait
        /\ "CmdUp" \notin status /\ "CmdUp" \notin ireg
InBuffer == /\ command = "none" /\ answer = "none" /\ ~ cmdwait /\ CmdResBuf = "own"
            /\ "CmdUp" \notin status /\ "CmdUp" \in ireg /\ rxpc \in {"unmask", "work"}
Processed == Quiet /\ cmdwait /\ answered = "own"

CommandInv ==
    IF pc \in {"load", "store", "wait"}
    THEN CurCmd /\ (AtModule \/ Announced \/ Noticed \/ Lost \/ InBuffer \/ Processed)
    ELSE Quiet /\ ~ cmdwait /\ (pc = "back" => answered = "own")

\* From the end of a pass to the next read ireg is empty.  A packet that came after
\* the one of this pass was read has a cause of its own.
IregInv ==
    /\ rxpc \in {"wait", "mask", "read", "event", "eventclear", "hostevent"} => ireg = {}
    /\ rxpc \in {"answer", "unmask", "work"} /\ packet /\ "RxUp" \in ireg => "RxUp" \in status

Inv == TypeInv /\ InterruptInv /\ PacketInv /\ RingInv /\ IregInv /\ CommandInv

USE WlanAssumption, ConsoleAssumption

-----------------------------------------------------------------------------
LEMMA InitOK == Init => Inv
<1> SUFFICES ASSUME Init PROVE Inv
  OBVIOUS
<1> USE DEF Init, WlanInit
<1>1. ring \in Seq(Char) /\ Len(ring) = 0
  OBVIOUS
<1>2. TypeInv
  BY <1>1 DEF TypeInv, RxPC, ShellPC
<1>3. InterruptInv /\ PacketInv /\ IregInv
  BY DEF InterruptInv, NoLostInterrupt, LineLow, PacketInv, NoStrandedPacket, IregInv
<1>4. RingInv
  BY <1>1 DEF RingInv
<1>5. CommandInv
  BY DEF CommandInv, Quiet
<1> QED
  BY <1>2, <1>3, <1>4, <1>5 DEF Inv

\* A character is put into the ring, and the oldest one may leave it.
LEMMA SerialOK == Inv /\ SerialInterrupt => Inv'
<1> SUFFICES ASSUME Inv, SerialInterrupt PROVE Inv'
  OBVIOUS
<1> USE DEF Inv, TypeInv, SerialInterrupt, wlanVars, chipVars, rxVars, cmdVars, ethVars
<1>1. PICK burst \in Bursts : Put(burst) /\ behind' = Behind(Len(burst))
  OBVIOUS
<1> DEFINE n == Len(burst)
<1>a. n \in Nat \ {0} /\ burst \in Seq(Char)
  BY DEF Bursts
<1>b. ring \o burst \in Seq(Char) /\ Len(ring \o burst) = Len(ring) + n
  BY <1>a
<1>2. ring' \in Seq(Char) /\ Len(ring') <= Len(ring) + n /\ Len(ring') < RingSize
  <2> DEFINE s == ring \o burst
  <2>1. ring' = Newest(s)
    BY <1>1 DEF Put
  <2>2. CASE Len(s) < RingSize
    BY <1>b, <2>1, <2>2 DEF Newest
  <2>3. CASE ~ Len(s) < RingSize
    <3>1. ring' = SubSeq(s, Len(s) - RingSize + 2, Len(s))
      BY <2>1, <2>3 DEF Newest
    <3>2. ring' \in Seq(Char) /\ Len(ring') = RingSize - 1
      <4> HIDE DEF s
      <4>1. s \in Seq(Char) /\ Len(s) \in Nat
        BY <1>b DEF s
      <4>2. Len(s) - RingSize + 2 \in 1..Len(s)
        BY <4>1, <2>3
      <4> QED
        BY <4>1, <4>2, <3>1
    <3> QED
      BY <1>b, <2>3, <3>2
  <2> QED
    BY <2>2, <2>3
<1>3. RingInv' /\ behind' \in Nat
  <2>1. /\ n \in Nat \ {0} /\ Len(ring) \in Nat /\ Len(ring') \in Nat
        /\ Len(ring') <= Len(ring) + n /\ Len(ring') < RingSize
    BY <1>2, <1>a
  <2>2. rx_sem \in Nat /\ rx_sem' = rx_sem + 1 /\ pc' = pc /\ behind \in Nat /\ behind' = Behind(n)
    BY <1>1
  <2>3. Len(ring) <= (IF pc = "read" THEN rx_sem + 1 ELSE rx_sem) + behind
    BY DEF RingInv
  <2> HIDE DEF n, Inv, SerialInterrupt
  <2> QED
    BY <2>1, <2>2, <2>3 DEF RingInv, Behind
<1>4. (InterruptInv /\ PacketInv /\ IregInv)'
  BY DEF InterruptInv, NoLostInterrupt, LineLow, PacketInv, NoStrandedPacket, IregInv
<1>5. CommandInv'
  BY DEF CommandInv, Quiet, AtModule, Announced, Noticed, Lost, InBuffer, Processed
<1> QED
  BY <1>2, <1>3, <1>4, <1>5, <1>a

\* The shell moves its own variables, until it sends a command.
LEMMA ShellOK == Inv /\ ShellReads => Inv'
<1> SUFFICES ASSUME Inv, ShellReads PROVE Inv'
  OBVIOUS
<1> USE DEF Inv, TypeInv, wlanVars, chipVars, rxVars, cmdVars, ethVars, consoleVars, Goto, ShellPC
<1>1. ASSUME NEW C, Gets(C)
      PROVE  /\ ring' \in Seq(Char) /\ Len(ring') \in Nat /\ Len(ring) = Len(ring') + 1
             /\ behind' \in Nat /\ (behind' = behind \/ Len(ring') = 0)
  BY <1>1 DEF Gets
<1>2. Len(ring) \in Nat
  OBVIOUS
<1>3. ring' \in Seq(Char) /\ rx_sem' \in Nat /\ behind' \in Nat /\ RingInv'
  <2>1. CASE ShellTakes
    BY <2>1, <1>2 DEF ShellTakes, RingInv
  <2>2. CASE ReadNothing
    <3>1. Len(ring) = 0
      BY <2>2 DEF ReadNothing
    <3> QED
      BY <2>2, <3>1 DEF ReadNothing, RingInv
  <2>3. CASE ReadKey
    BY <2>3, <1>1 DEF ReadKey, RingInv
  <2>4. CASE ReadCR
    BY <2>4, <1>1 DEF ReadCR, RingInv
  <2>5. CASE EndOfLine /\ UNCHANGED rx_sem /\ pc' # "read"
    <3>1. CASE \E C \in SUBSET Char : Gets(C)
      BY <2>5, <3>1, <1>1 DEF RingInv
    <3>2. CASE ring = << >> /\ UNCHANGED <<ring, behind>>
      <4>1. Len(ring) = 0 /\ Len(ring') = 0
        BY <3>2
      <4> QED
        BY <2>5, <3>2, <4>1 DEF RingInv
    <3> QED
      BY <2>5, <3>1, <3>2 DEF EndOfLine, Char
  <2> QED
    BY <2>1, <2>2, <2>3, <2>4, <2>5 DEF ShellReads, RunOther, RunCommand
<1>4. CASE ShellTakes \/ ReadNothing \/ ReadKey \/ ReadCR \/ RunOther
  <2>1. UNCHANGED wlanVars /\ pc \in {"take", "read", "cr"} /\ pc' \in {"take", "read", "cr"}
    BY <1>4 DEF ShellTakes, ReadNothing, ReadKey, ReadCR, RunOther, EndOfLine
  <2>2. TypeInv'
    BY <1>3, <2>1
  <2>3. (InterruptInv /\ PacketInv /\ IregInv)'
    BY <2>1 DEF InterruptInv, NoLostInterrupt, LineLow, PacketInv, NoStrandedPacket, IregInv
  <2>4. CommandInv'
    BY <2>1 DEF CommandInv, Quiet
  <2> QED
    BY <1>3, <2>2, <2>3, <2>4
<1>5. CASE RunCommand
  <2>1. TypeInv'
    BY <1>3, <1>5 DEF RunCommand, Download
  <2>2. (InterruptInv /\ PacketInv /\ IregInv)'
    BY <1>5 DEF RunCommand, Download, InterruptInv, NoLostInterrupt, LineLow, PacketInv,
       NoStrandedPacket, IregInv
  <2>3. CommandInv'
    BY <1>5 DEF RunCommand, EndOfLine, Download, CommandInv, Quiet, AtModule, Age
  <2> QED
    BY <1>3, <2>1, <2>2, <2>3
<1> QED
  BY <1>4, <1>5 DEF ShellReads

\* A command from the download on.
LEMMA CommandOK == Inv /\ CommandStep => Inv'
<1> SUFFICES ASSUME Inv, CommandStep PROVE Inv'
  OBVIOUS
<1> USE DEF Inv, TypeInv, wlanVars, chipVars, rxVars, cmdVars, ethVars, consoleVars, Goto, ShellPC,
        CommandStep, ClearTxBit, CommandReturns, Back, LoadHis, StoreHis, Answered
<1>1. TypeInv'
  OBVIOUS
<1>2. RingInv'
  BY DEF RingInv
<1>3. (InterruptInv /\ PacketInv /\ IregInv)'
  BY DEF InterruptInv, NoLostInterrupt, LineLow, PacketInv, NoStrandedPacket, IregInv
<1>4. CommandInv'
  BY DEF CommandInv, Quiet, AtModule, Announced, Noticed, Lost, InBuffer, Processed
<1> QED
  BY <1>1, <1>2, <1>3, <1>4

\* The module, the interrupt and the two threads of the driver.
LEMMA WlanOK == Inv /\ WlanStep /\ UNCHANGED <<consoleVars, pc>> => Inv'
<1> SUFFICES ASSUME Inv, WlanStep, UNCHANGED <<consoleVars, pc>> PROVE Inv'
  OBVIOUS
<1> USE DEF Inv, wlanVars, chipVars, rxVars, cmdVars, ethVars, consoleVars
<1>0. RingInv'
  BY DEF RingInv
<1>1. CASE ChipAnswers
  <2>1. TypeInv'
    BY <1>1 DEF TypeInv, Cause, RxPC, ChipAnswers, Raise, Edge, LineLow
  <2>2. InterruptInv'
    BY <1>1 DEF TypeInv, InterruptInv, NoLostInterrupt, LineLow, ChipAnswers, Raise, Edge
  <2>3. PacketInv'
    BY <1>1 DEF TypeInv, PacketInv, NoStrandedPacket, IregInv, ChipAnswers, Raise, Edge, LineLow
  <2>4. IregInv'
    BY <1>1 DEF TypeInv, IregInv, ChipAnswers, Raise, Edge, LineLow
  <2>5. CommandInv'
    BY <1>1 DEF TypeInv, InterruptInv, IregInv, CommandInv, Quiet, AtModule, Announced, Noticed,
       Lost, InBuffer, Processed, ChipAnswers, Raise, Edge, LineLow
  <2> QED
    BY <1>0, <2>1, <2>2, <2>3, <2>4, <2>5
<1>2. CASE ChipReceives
  <2>1. TypeInv'
    BY <1>2 DEF TypeInv, Cause, RxPC, ChipReceives, Raise, Edge, LineLow
  <2>2. InterruptInv'
    BY <1>2 DEF TypeInv, InterruptInv, NoLostInterrupt, LineLow, ChipReceives, Raise, Edge
  <2>3. PacketInv'
    BY <1>2 DEF TypeInv, PacketInv, NoStrandedPacket, IregInv, ChipReceives, Raise, Edge, LineLow
  <2>4. IregInv'
    BY <1>2 DEF TypeInv, IregInv, ChipReceives, Raise, Edge, LineLow
  <2>5. CommandInv'
    BY <1>2 DEF TypeInv, InterruptInv, IregInv, CommandInv, Quiet, AtModule, Announced, Noticed,
       Lost, InBuffer, Processed, ChipReceives, Raise, Edge, LineLow
  <2> QED
    BY <1>0, <2>1, <2>2, <2>3, <2>4, <2>5
<1>3. CASE ChipEvent
  <2>1. TypeInv'
    BY <1>3 DEF TypeInv, Cause, RxPC, ChipEvent, Raise, Edge, LineLow
  <2>2. InterruptInv'
    BY <1>3 DEF TypeInv, InterruptInv, NoLostInterrupt, LineLow, ChipEvent, Raise, Edge
  <2>3. PacketInv'
    BY <1>3 DEF TypeInv, PacketInv, NoStrandedPacket, IregInv, ChipEvent, Raise, Edge, LineLow
  <2>4. IregInv'
    BY <1>3 DEF TypeInv, IregInv, ChipEvent, Raise, Edge, LineLow
  <2>5. CommandInv'
    BY <1>3 DEF TypeInv, InterruptInv, IregInv, CommandInv, Quiet, AtModule, Announced, Noticed,
       Lost, InBuffer, Processed, ChipEvent, Raise, Edge, LineLow
  <2> QED
    BY <1>0, <2>1, <2>2, <2>3, <2>4, <2>5
<1>4. CASE Interrupt
  <2>1. TypeInv'
    BY <1>4 DEF TypeInv, Cause, RxPC, Interrupt
  <2>2. InterruptInv'
    BY <1>4 DEF TypeInv, InterruptInv, NoLostInterrupt, LineLow, Interrupt
  <2>3. PacketInv'
    BY <1>4 DEF TypeInv, PacketInv, NoStrandedPacket, IregInv, Interrupt
  <2>4. IregInv'
    BY <1>4 DEF TypeInv, IregInv, Interrupt
  <2>5. CommandInv'
    BY <1>4 DEF TypeInv, InterruptInv, IregInv, CommandInv, Quiet, AtModule, Announced, Noticed,
       Lost, InBuffer, Processed, Interrupt
  <2> QED
    BY <1>0, <2>1, <2>2, <2>3, <2>4, <2>5
<1>5. CASE RxWakes
  <2>1. TypeInv'
    BY <1>5 DEF TypeInv, Cause, RxPC, RxWakes
  <2>2. InterruptInv'
    BY <1>5 DEF TypeInv, InterruptInv, NoLostInterrupt, LineLow, RxWakes
  <2>3. PacketInv'
    BY <1>5 DEF TypeInv, PacketInv, NoStrandedPacket, IregInv, RxWakes
  <2>4. IregInv'
    BY <1>5 DEF TypeInv, IregInv, RxWakes
  <2>5. CommandInv'
    BY <1>5 DEF TypeInv, InterruptInv, IregInv, CommandInv, Quiet, AtModule, Announced, Noticed,
       Lost, InBuffer, Processed, RxWakes
  <2> QED
    BY <1>0, <2>1, <2>2, <2>3, <2>4, <2>5
<1>6. CASE RxMask
  <2>1. TypeInv'
    BY <1>6 DEF TypeInv, Cause, RxPC, RxMask
  <2>2. InterruptInv'
    BY <1>6 DEF TypeInv, InterruptInv, NoLostInterrupt, LineLow, RxMask
  <2>3. PacketInv'
    BY <1>6 DEF TypeInv, PacketInv, NoStrandedPacket, IregInv, RxMask
  <2>4. IregInv'
    BY <1>6 DEF TypeInv, IregInv, RxMask
  <2>5. CommandInv'
    BY <1>6 DEF TypeInv, InterruptInv, IregInv, CommandInv, Quiet, AtModule, Announced, Noticed,
       Lost, InBuffer, Processed, RxMask
  <2> QED
    BY <1>0, <2>1, <2>2, <2>3, <2>4, <2>5
<1>7. CASE RxRead
  <2>1. TypeInv'
    BY <1>7 DEF TypeInv, Cause, RxPC, RxRead
  <2>2. InterruptInv'
    BY <1>7 DEF TypeInv, InterruptInv, NoLostInterrupt, LineLow, RxRead
  <2>3. PacketInv'
    BY <1>7 DEF TypeInv, PacketInv, NoStrandedPacket, IregInv, RxRead
  <2>4. IregInv'
    BY <1>7 DEF TypeInv, IregInv, RxRead
  <2>5. CommandInv'
    BY <1>7 DEF TypeInv, InterruptInv, IregInv, CommandInv, Quiet, AtModule, Announced, Noticed,
       Lost, InBuffer, Processed, RxRead
  <2> QED
    BY <1>0, <2>1, <2>2, <2>3, <2>4, <2>5
<1>8. CASE RxClear
  <2>1. TypeInv'
    BY <1>8 DEF TypeInv, Cause, RxPC, RxClear, Edge, LineLow
  <2>2. InterruptInv'
    BY <1>8 DEF TypeInv, InterruptInv, NoLostInterrupt, LineLow, RxClear, Edge
  <2>3. PacketInv'
    BY <1>8 DEF TypeInv, PacketInv, NoStrandedPacket, IregInv, RxClear, Edge, LineLow
  <2>4. IregInv'
    BY <1>8 DEF TypeInv, IregInv, RxClear, Edge, LineLow
  <2>5. CommandInv'
    BY <1>8 DEF TypeInv, InterruptInv, IregInv, CommandInv, Quiet, AtModule, Announced, Noticed,
       Lost, InBuffer, Processed, RxClear, Edge, LineLow
  <2> QED
    BY <1>0, <2>1, <2>2, <2>3, <2>4, <2>5
<1>9. CASE RxIrqClear
  <2>1. TypeInv'
    BY <1>9 DEF TypeInv, Cause, RxPC, RxIrqClear
  <2>2. InterruptInv'
    BY <1>9 DEF TypeInv, InterruptInv, NoLostInterrupt, LineLow, RxIrqClear
  <2>3. PacketInv'
    BY <1>9 DEF TypeInv, PacketInv, NoStrandedPacket, IregInv, RxIrqClear
  <2>4. IregInv'
    BY <1>9 DEF TypeInv, IregInv, RxIrqClear
  <2>5. CommandInv'
    BY <1>9 DEF TypeInv, InterruptInv, IregInv, CommandInv, Quiet, AtModule, Announced, Noticed,
       Lost, InBuffer, Processed, RxIrqClear
  <2> QED
    BY <1>0, <2>1, <2>2, <2>3, <2>4, <2>5
<1>10. CASE RxEnable
  <2>1. TypeInv'
    BY <1>10 DEF TypeInv, Cause, RxPC, RxEnable
  <2>2. InterruptInv'
    BY <1>10 DEF TypeInv, InterruptInv, NoLostInterrupt, LineLow, RxEnable
  <2>3. PacketInv'
    BY <1>10 DEF TypeInv, PacketInv, NoStrandedPacket, IregInv, RxEnable
  <2>4. IregInv'
    BY <1>10 DEF TypeInv, IregInv, RxEnable
  <2>5. CommandInv'
    BY <1>10 DEF TypeInv, InterruptInv, IregInv, CommandInv, Quiet, AtModule, Announced, Noticed,
       Lost, InBuffer, Processed, RxEnable
  <2> QED
    BY <1>0, <2>1, <2>2, <2>3, <2>4, <2>5
<1>11. CASE RxPacket
  <2>1. TypeInv'
    BY <1>11 DEF TypeInv, Cause, RxPC, RxPacket
  <2>2. InterruptInv'
    BY <1>11 DEF TypeInv, InterruptInv, NoLostInterrupt, LineLow, RxPacket
  <2>3. PacketInv'
    BY <1>11 DEF TypeInv, PacketInv, NoStrandedPacket, IregInv, RxPacket
  <2>4. IregInv'
    BY <1>11 DEF TypeInv, IregInv, RxPacket
  <2>5. CommandInv'
    BY <1>11 DEF TypeInv, InterruptInv, IregInv, CommandInv, Quiet, AtModule, Announced, Noticed,
       Lost, InBuffer, Processed, RxPacket
  <2> QED
    BY <1>0, <2>1, <2>2, <2>3, <2>4, <2>5
<1>12. CASE RxAnswer
  <2>1. TypeInv'
    BY <1>12 DEF TypeInv, Cause, RxPC, RxAnswer
  <2>2. InterruptInv'
    BY <1>12 DEF TypeInv, InterruptInv, NoLostInterrupt, LineLow, RxAnswer
  <2>3. PacketInv'
    BY <1>12 DEF TypeInv, PacketInv, NoStrandedPacket, IregInv, RxAnswer
  <2>4. IregInv'
    BY <1>12 DEF TypeInv, IregInv, RxAnswer
  <2>5. CommandInv'
    BY <1>12 DEF TypeInv, InterruptInv, IregInv, CommandInv, Quiet, AtModule, Announced, Noticed,
       Lost, InBuffer, Processed, RxAnswer
  <2> QED
    BY <1>0, <2>1, <2>2, <2>3, <2>4, <2>5
<1>13. CASE RxUnmask
  <2>1. TypeInv'
    BY <1>13 DEF TypeInv, Cause, RxPC, RxUnmask, Edge, LineLow
  <2>2. InterruptInv'
    BY <1>13 DEF TypeInv, InterruptInv, NoLostInterrupt, LineLow, RxUnmask, Edge
  <2>3. PacketInv'
    BY <1>13 DEF TypeInv, PacketInv, NoStrandedPacket, IregInv, RxUnmask, Edge, LineLow
  <2>4. IregInv'
    BY <1>13 DEF TypeInv, IregInv, RxUnmask, Edge, LineLow
  <2>5. CommandInv'
    BY <1>13 DEF TypeInv, InterruptInv, IregInv, CommandInv, Quiet, AtModule, Announced, Noticed,
       Lost, InBuffer, Processed, RxUnmask, Edge, LineLow
  <2> QED
    BY <1>0, <2>1, <2>2, <2>3, <2>4, <2>5
<1>14. CASE RxWork
  <2>1. TypeInv'
    <3>1. HisRegCpy' = {}
      BY <1>14 DEF TypeInv, RxWork
    <3>2. mbox' \in Nat
      BY <1>14 DEF TypeInv, RxWork, NotifyEth
    <3>3. cmdwait' \in BOOLEAN
      BY <1>14 DEF TypeInv, RxWork, CommandAnswered
    <3> QED
      BY <1>14, <3>1, <3>2, <3>3 DEF TypeInv, RxPC, RxWork
  <2>2. InterruptInv'
    BY <1>14 DEF TypeInv, InterruptInv, NoLostInterrupt, LineLow, RxWork, CommandAnswered, NotifyEth
  <2>3. PacketInv'
    BY <1>14 DEF TypeInv, PacketInv, NoStrandedPacket, IregInv, RxWork, CommandAnswered, NotifyEth
  <2>4. IregInv'
    BY <1>14 DEF TypeInv, IregInv, RxWork, CommandAnswered, NotifyEth
  <2>5. CommandInv'
    BY <1>14 DEF TypeInv, InterruptInv, IregInv, CommandInv, Quiet, AtModule, Announced, Noticed,
       Lost, InBuffer, Processed, RxWork, CommandAnswered, NotifyEth
  <2> QED
    BY <1>0, <2>1, <2>2, <2>3, <2>4, <2>5
<1>15. CASE RxEvent
  <2>1. TypeInv'
    BY <1>15 DEF TypeInv, Cause, RxPC, RxEvent
  <2>2. InterruptInv'
    BY <1>15 DEF TypeInv, InterruptInv, NoLostInterrupt, LineLow, RxEvent
  <2>3. PacketInv'
    BY <1>15 DEF TypeInv, PacketInv, NoStrandedPacket, IregInv, RxEvent
  <2>4. IregInv'
    BY <1>15 DEF TypeInv, IregInv, RxEvent
  <2>5. CommandInv'
    BY <1>15 DEF TypeInv, InterruptInv, IregInv, CommandInv, Quiet, AtModule, Announced, Noticed,
       Lost, InBuffer, Processed, RxEvent
  <2> QED
    BY <1>0, <2>1, <2>2, <2>3, <2>4, <2>5
<1>16. CASE RxEventClear
  <2>1. TypeInv'
    BY <1>16 DEF TypeInv, Cause, RxPC, RxEventClear, Edge, LineLow
  <2>2. InterruptInv'
    BY <1>16 DEF TypeInv, InterruptInv, NoLostInterrupt, LineLow, RxEventClear, Edge
  <2>3. PacketInv'
    BY <1>16 DEF TypeInv, PacketInv, NoStrandedPacket, IregInv, RxEventClear, Edge, LineLow
  <2>4. IregInv'
    BY <1>16 DEF TypeInv, IregInv, RxEventClear, Edge, LineLow
  <2>5. CommandInv'
    BY <1>16 DEF TypeInv, InterruptInv, IregInv, CommandInv, Quiet, AtModule, Announced, Noticed,
       Lost, InBuffer, Processed, RxEventClear, Edge, LineLow
  <2> QED
    BY <1>0, <2>1, <2>2, <2>3, <2>4, <2>5
<1>17. CASE RxHostEvent
  <2>1. TypeInv'
    BY <1>17 DEF TypeInv, Cause, RxPC, RxHostEvent
  <2>2. InterruptInv'
    BY <1>17 DEF TypeInv, InterruptInv, NoLostInterrupt, LineLow, RxHostEvent
  <2>3. PacketInv'
    BY <1>17 DEF TypeInv, PacketInv, NoStrandedPacket, IregInv, RxHostEvent
  <2>4. IregInv'
    BY <1>17 DEF TypeInv, IregInv, RxHostEvent
  <2>5. CommandInv'
    BY <1>17 DEF TypeInv, InterruptInv, IregInv, CommandInv, Quiet, AtModule, Announced, Noticed,
       Lost, InBuffer, Processed, RxHostEvent
  <2> QED
    BY <1>0, <2>1, <2>2, <2>3, <2>4, <2>5
<1>18. CASE EthWakes
  <2>1. TypeInv'
    BY <1>18 DEF TypeInv, Cause, RxPC, EthWakes
  <2>2. InterruptInv'
    BY <1>18 DEF TypeInv, InterruptInv, NoLostInterrupt, LineLow, EthWakes
  <2>3. PacketInv'
    BY <1>18 DEF TypeInv, PacketInv, NoStrandedPacket, IregInv, EthWakes
  <2>4. IregInv'
    BY <1>18 DEF TypeInv, IregInv, EthWakes
  <2>5. CommandInv'
    BY <1>18 DEF TypeInv, InterruptInv, IregInv, CommandInv, Quiet, AtModule, Announced, Noticed,
       Lost, InBuffer, Processed, EthWakes
  <2> QED
    BY <1>0, <2>1, <2>2, <2>3, <2>4, <2>5
<1>19. CASE EthTakes
  <2>1. TypeInv'
    BY <1>19 DEF TypeInv, Cause, RxPC, EthTakes
  <2>2. InterruptInv'
    BY <1>19 DEF TypeInv, InterruptInv, NoLostInterrupt, LineLow, EthTakes
  <2>3. PacketInv'
    BY <1>19 DEF TypeInv, PacketInv, NoStrandedPacket, IregInv, EthTakes
  <2>4. IregInv'
    BY <1>19 DEF TypeInv, IregInv, EthTakes
  <2>5. CommandInv'
    BY <1>19 DEF TypeInv, InterruptInv, IregInv, CommandInv, Quiet, AtModule, Announced, Noticed,
       Lost, InBuffer, Processed, EthTakes
  <2> QED
    BY <1>0, <2>1, <2>2, <2>3, <2>4, <2>5
<1> QED
  BY <1>1, <1>2, <1>3, <1>4, <1>5, <1>6, <1>7, <1>8, <1>9,
     <1>10, <1>11, <1>12, <1>13, <1>14, <1>15, <1>16, <1>17, <1>18, <1>19
     DEF WlanStep, RxThread, EthThread

LEMMA StutterOK == Inv /\ UNCHANGED vars => Inv'
<1> SUFFICES ASSUME Inv, UNCHANGED vars PROVE Inv'
  OBVIOUS
<1> USE DEF Inv, vars, wlanVars, chipVars, rxVars, cmdVars, ethVars, consoleVars
<1>1. TypeInv'
  BY DEF TypeInv
<1>2. (InterruptInv /\ PacketInv /\ RingInv /\ IregInv)'
  BY DEF InterruptInv, NoLostInterrupt, LineLow, PacketInv, NoStrandedPacket, RingInv, IregInv
<1>3. CommandInv'
  BY DEF CommandInv, Quiet, AtModule, Announced, Noticed, Lost, InBuffer, Processed
<1> QED
  BY <1>1, <1>2, <1>3

LEMMA StepOK == Inv /\ [Next]_vars => Inv'
  BY SerialOK, ShellOK, CommandOK, WlanOK, StutterOK DEF Next

LEMMA Invariant == Spec => []Inv
<1>1. Init => Inv
  BY InitOK
<1>2. Inv /\ [Next]_vars => Inv'
  BY StepOK
<1> QED
  BY <1>1, <1>2, PTL DEF Spec

-----------------------------------------------------------------------------
\* A falling edge of the module's line that comes while wlan_rx_thread masks,
\* reads and clears the causes and enables the interrupt, or while it clears the
\* cause of an event, is not lost, whatever the module raises when.
THEOREM NoLostInterruptHolds == Spec => []NoLostInterrupt
<1>1. Inv => NoLostInterrupt
  BY DEF Inv, InterruptInv
<1> QED
  BY Invariant, <1>1, PTL

\* Whatever the module raises when, the driver forgets the cause of an answer or of
\* a packet nowhere but where it clears what it has not read.
THEOREM LostOnlyWhenClearingHolds == Spec => LostOnlyWhenClearing
<1> DEFINE New == (AnswerLost' /\ ~ AnswerLost) \/ (PacketLost' /\ ~ PacketLost)
<1>1. Inv /\ [Next]_vars => [New => rxpc = "clear"]_wlanVars
  <2> SUFFICES ASSUME Inv, Next, New, rxpc # "clear", ~ UNCHANGED wlanVars PROVE FALSE
    BY DEF vars, wlanVars
  <2> USE DEF Inv, AnswerLost, PacketLost, wlanVars, chipVars, rxVars, cmdVars, ethVars
  <2>1. CASE SerialInterrupt
    BY <2>1 DEF SerialInterrupt
  <2>2. CASE ShellReads
    BY <2>2 DEF ShellReads, ShellTakes, ReadNothing, ReadKey, ReadCR, RunOther, RunCommand,
       EndOfLine, Gets, Download, Age, CommandInv, Quiet
  <2>3. CASE CommandStep
    BY <2>3 DEF CommandStep, ClearTxBit, CommandReturns, Back, LoadHis, StoreHis, Answered
  <2>4. CASE ChipAnswers \/ ChipReceives \/ ChipEvent
    BY <2>4 DEF ChipAnswers, ChipReceives, ChipEvent, Raise
  <2>5. CASE RxPacket
    BY <2>5 DEF RxPacket
  <2>6. CASE RxAnswer
    BY <2>6 DEF RxAnswer
  <2>7. CASE RxWork
    BY <2>7 DEF RxWork, IregInv, CommandInv, Quiet, AtModule, Announced, Noticed, Lost, InBuffer,
       Processed
  <2>8. CASE RxEventClear
    BY <2>8 DEF RxEventClear
  <2>9. CASE RxRead
    BY <2>9 DEF RxRead, IregInv
  <2>10. CASE Interrupt \/ RxWakes \/ RxMask \/ RxIrqClear \/ RxEnable \/ RxUnmask
    BY <2>10 DEF Interrupt, RxWakes, RxMask, RxIrqClear, RxEnable, RxUnmask
  <2>11. CASE RxEvent \/ RxHostEvent \/ EthWakes \/ EthTakes
    BY <2>11 DEF RxEvent, RxHostEvent, EthWakes, EthTakes
  <2>12. CASE RxClear
    BY <2>12 DEF RxClear
  <2> QED
    BY <2>1, <2>2, <2>3, <2>4, <2>5, <2>6, <2>7, <2>8, <2>9, <2>10, <2>11, <2>12
       DEF Next, WlanStep, RxThread, EthThread
<1> QED
  BY Invariant, <1>1, PTL DEF Spec, LostOnlyWhenClearing

\* rt_wlan_dev_rx and eth_device_ready leave no packet behind, for a mailbox of
\* any size and any number of packets.
THEOREM NoStrandedPacketHolds == Spec => []NoStrandedPacket
<1>1. Inv => NoStrandedPacket
  BY DEF Inv, PacketInv
<1> QED
  BY Invariant, <1>1, PTL

\* WlanExecuteCommand returns with the answer to the command it sent.
THEOREM AnswerIsOwnHolds == Spec => []AnswerIsOwn
<1>1. Inv => AnswerIsOwn
  BY DEF Inv, CommandInv, AnswerIsOwn
<1> QED
  BY Invariant, <1>1, PTL

\* A caller of WlanExecuteCommand that waits is going to be woken, or the cause of
\* its answer has been cleared unread.
THEOREM AnswerIsComingHolds == Spec => []AnswerIsComing
<1>1. Inv => AnswerIsComing
  BY DEF Inv, CommandInv, Quiet, AtModule, Announced, Noticed, Lost, InBuffer, Processed,
     AnswerIsComing, AnswerLost
<1> QED
  BY Invariant, <1>1, PTL

\* For a ring of any size and any number of characters in one interrupt, the shell
\* never waits while the ring holds more characters than have come behind another.
THEOREM NoStrandedCharacterHolds == Spec => []NoStrandedCharacter
<1>1. Inv => NoStrandedCharacter
  BY DEF Inv, RingInv, TypeInv, NoStrandedCharacter
<1> QED
  BY Invariant, <1>1, PTL
=============================================================================
