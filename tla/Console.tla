------------------------------ MODULE Console -------------------------------
(***************************************************************************)
(* The shell and what it sets going: the serial interrupt puts characters  *)
(* into the ring of src/rt-thread/components/drivers/serial/serial.c, the  *)
(* shell of src/rt-thread/components/finsh/shell.c reads them, and a line  *)
(* it runs may send the WLAN module a command (wlan_rssi, wlan_pm_exit,    *)
(* wlan_log_get), which keeps it from reading until the answer is there.   *)
(***************************************************************************)
EXTENDS Wlan, Sequences

CONSTANTS
    RingSize,   \* SERIAL_RBUFFER_SIZE
    MaxBurst,   \* bound: the characters one interrupt finds
    SemMax      \* bound: the units of rx_sem, 16 bits wide in the code

ASSUME ConsoleAssumption ==
    RingSize \in Nat /\ RingSize > 1 /\ MaxBurst \in Nat \ {0} /\ SemMax \in Nat

VARIABLES
    ring,      \* int_rx: the characters from get_index to put_index
    rx_sem,
    behind,    \* the characters that came in an interrupt after another one of it,
               \* since the ring was last empty, at most its size (history)
    line,      \* the shell's line is not empty
    pc         \* where the shell is

consoleVars == <<ring, rx_sem, behind, line>>
vars == <<wlanVars, consoleVars, pc>>

Char == {"key", "cr", "lf"}

Goto(l) == pc' = l

Init ==
    /\ WlanInit
    /\ ring = << >> /\ rx_sem = 0 /\ behind = 0 /\ line = FALSE
    /\ pc = "take"

-----------------------------------------------------------------------------
(* rt_hw_serial_isr: it takes characters until there is none, then calls        *)
(* finsh_rx_ind, which releases the semaphore of the shell.                     *)

\* serial_ringbuffer_putc: a full ring loses its oldest character.
Newest(s) == IF Len(s) < RingSize THEN s ELSE SubSeq(s, Len(s) - RingSize + 2, Len(s))

Put(burst) == ring' = Newest(ring \o burst)

Bursts == UNION {[1..n -> Char] : n \in 1..MaxBurst}

Behind(n) == IF behind + n < RingSize THEN behind + n - 1 ELSE RingSize - 1

\* Mutant of SerialInterrupt: only the first character of a ring is announced.
SerialInterruptOnce ==
    /\ rx_sem < SemMax
    /\ \E burst \in Bursts : Put(burst) /\ behind' = Behind(Len(burst))
    /\ rx_sem' = IF ring = << >> THEN rx_sem + 1 ELSE rx_sem
    /\ UNCHANGED <<wlanVars, line, pc>>

SerialInterrupt ==
    /\ rx_sem < SemMax
    /\ \E burst \in Bursts : Put(burst) /\ behind' = Behind(Len(burst))
    /\ rx_sem' = rx_sem + 1
    /\ UNCHANGED <<wlanVars, line, pc>>

-----------------------------------------------------------------------------
(* finsh_thread_entry *)

\* One character, of the kinds of C, leaves the ring.
Gets(C) ==
    /\ ring # << >> /\ Head(ring) \in C
    /\ ring' = Tail(ring)
    /\ behind' = IF Len(ring) = 1 THEN 0 ELSE behind

ShellTakes ==
    /\ pc = "take" /\ rx_sem > 0
    /\ rx_sem' = rx_sem - 1
    /\ Goto("read")
    /\ UNCHANGED <<wlanVars, ring, behind, line>>

ReadNothing ==
    /\ pc = "read" /\ ring = << >>
    /\ Goto("take")
    /\ UNCHANGED <<wlanVars, consoleVars>>

\* An ordinary key makes the line longer; backspace, tab and the history keys
\* change it in other ways.
ReadKey ==
    /\ pc \in {"read", "cr"} /\ Gets({"key"})
    /\ line' \in BOOLEAN
    /\ Goto("read")
    /\ UNCHANGED <<wlanVars, rx_sem>>

\* After a CR the next character counts in its place, if there is one by now.
ReadCR ==
    /\ pc = "read" /\ Gets({"cr"})
    /\ Goto("cr")
    /\ UNCHANGED <<wlanVars, rx_sem, line>>

\* The end of a line: the line is run, and the loop over the characters left.
EndOfLine ==
    \/ pc = "read" /\ Gets({"lf"})
    \/ pc = "cr" /\ Gets({"cr", "lf"})
    \/ pc = "cr" /\ ring = << >> /\ UNCHANGED <<ring, behind>>

RunOther ==
    /\ EndOfLine
    /\ line' = FALSE
    /\ Goto("take")
    /\ UNCHANGED <<wlanVars, rx_sem>>

RunCommand ==
    /\ EndOfLine
    /\ line /\ line' = FALSE
    /\ Download
    /\ Goto("load")
    /\ UNCHANGED rx_sem

-----------------------------------------------------------------------------
(* A command, from the download on. *)

ClearTxBit ==
    /\ \/ pc = "load" /\ LoadHis /\ Goto("store")
       \/ pc = "store" /\ StoreHis /\ Goto("wait")
    /\ UNCHANGED consoleVars

CommandReturns ==
    /\ pc = "wait"
    /\ Answered
    /\ Goto("back")
    /\ UNCHANGED consoleVars

Back ==
    /\ pc = "back"
    /\ Goto("take")
    /\ UNCHANGED <<wlanVars, consoleVars>>

-----------------------------------------------------------------------------
ShellReads == ShellTakes \/ ReadNothing \/ ReadKey \/ ReadCR \/ RunOther \/ RunCommand

CommandStep == ClearTxBit \/ CommandReturns \/ Back

WlanStep ==
    \/ ChipAnswers \/ ChipReceives \/ ChipEvent \/ Interrupt
    \/ RxThread \/ EthThread

Next ==
    \/ SerialInterrupt
    \/ ShellReads
    \/ CommandStep
    \/ WlanStep /\ UNCHANGED <<consoleVars, pc>>

Spec == Init /\ [][Next]_vars

-----------------------------------------------------------------------------
\* A command that has returned was answered: no answer of another command or of
\* an earlier one is taken for its own.
AnswerIsOwn == pc = "back" => answered = "own"

\* When the shell waits, no more characters are in the ring than have shared an
\* interrupt with one before them: leaving the loop at the end of a line is made
\* up for by the units of rx_sem, one for each interrupt.
NoStrandedCharacter == (pc = "take" /\ rx_sem = 0) => Len(ring) <= behind

\* A caller that waits for its answer is not forgotten: the module has the command,
\* or holds the answer and says so, or the pass that has seen the cause is under
\* way, or the event is set.  The one exception is a cause that has been lost.
AnswerIsComing ==
    pc \in {"load", "store", "wait"} =>
        \/ command # "none"
        \/ answer # "none" /\ "CmdUp" \in status
        \/ "CmdUp" \in ireg /\ CurCmd
        \/ cmdwait
        \/ AnswerLost
=============================================================================
