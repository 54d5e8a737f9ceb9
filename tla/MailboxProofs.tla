--------------------------- MODULE MailboxProofs ---------------------------
(***************************************************************************)
(* The safety of module Mailbox for every size of the ring, every number   *)
(* of threads and words, both flags and all waiting times: neither a       *)
(* message nor a free word is ever left behind while a thread waits for    *)
(* it, and the ring with its wrapping offsets is a bounded queue.          *)
(*                                                                         *)
(* A resumed thread is given nothing, so the two properties count the      *)
(* resumed threads that have not run yet.  They are inductive only with    *)
(* CallersWait (a resumed receiver comes off the list of the receivers)    *)
(* and with the invariant of the threads, by which a resumed thread is     *)
(* counted once and stays resumed until it runs.                           *)
(***************************************************************************)
EXTENDS Mailbox, ThreadsProofs, SequenceTheorems

RingType ==
    /\ pool \in [0 .. Size - 1 -> Msg]
    /\ in_offset \in 0 .. Size - 1 /\ out_offset \in 0 .. Size - 1
    /\ entry \in 0 .. Size

TimeType == left \in [Thread -> Int] /\ since \in [Thread -> Int]

LocalType ==
    /\ call \in [Thread -> {"none", "send", "recv"}]
    /\ value \in [Thread -> Msg]
    /\ TimeType

BoxType == RingType /\ LocalType

\* in_offset is where the words from out_offset on end.
OffsetsMatch == in_offset = (out_offset + entry) % Size

\* The threads on a list are in the call that waits there; the idle thread,
\* which must not be suspended, is in none.
CallersWait ==
    /\ \A t \in Range(k.wait[RecvList]) : call[t] = "recv"
    /\ \A t \in Range(k.wait[SendList]) : call[t] = "send"
    /\ call[Idle] = "none"

IInv ==
    /\ ThreadInv
    /\ BoxType
    /\ OffsetsMatch
    /\ CallersWait
    /\ NoStrandedMessage
    /\ NoStrandedRoom

-----------------------------------------------------------------------------
LEMMA Lists == RecvList \in WaitList /\ SendList \in WaitList /\ RecvList # SendList
BY MailboxAssumption

LEMMA Around ==
  ASSUME NEW a \in 0 .. 2 * Size - 1
  PROVE  a % Size = IF a < Size THEN a ELSE a - Size
<1>1. Size \in Nat \ {0}
  BY MailboxAssumption
<1>. QED
  BY <1>1

LEMMA WokenInFinite ==
  ASSUME NEW c
  PROVE  /\ IsFiniteSet(WokenIn(c)) /\ Cardinality(WokenIn(c)) \in Nat
         /\ Cardinality(WokenIn(c)') \in Nat
<1>1. WokenIn(c) \in SUBSET Thread /\ WokenIn(c)' \in SUBSET Thread
  BY DEF WokenIn, Woken
<1>2. \A S \in SUBSET Thread : IsFiniteSet(S) /\ Cardinality(S) \in Nat
  BY FS_Subset, FS_CardinalityType, KernelAssumption
<1>. QED
  BY <1>1, <1>2

LEMMA InitInv == Init => IInv
<1>. SUFFICES ASSUME Init PROVE IInv
  OBVIOUS
<1>. DEFINE any == CHOOSE m \in Msg : TRUE
<1>1. /\ ThreadsInit /\ pool = [i \in 0 .. Size - 1 |-> any]
      /\ in_offset = 0 /\ out_offset = 0 /\ entry = 0
      /\ call = [t \in Thread |-> "none"] /\ value = [t \in Thread |-> any]
      /\ left = [t \in Thread |-> 0] /\ since = [t \in Thread |-> 0]
  BY DEF Init
<1>2. ThreadInv /\ \A w \in WaitList : k.wait[w] = << >> /\ Range(k.wait[w]) = {}
  BY <1>1, ThreadsInitInv, WaitingType DEF ThreadInv, ThreadsOK
<1>3. any \in Msg /\ Size \in Nat \ {0}
  BY MailboxAssumption
<1>. HIDE DEF any
<1>4. BoxType
  BY <1>1, <1>3 DEF BoxType, RingType, LocalType, TimeType
<1>5. OffsetsMatch
  BY <1>1, <1>3 DEF OffsetsMatch
<1>6. CallersWait
  BY <1>1, <1>2, Lists, KernelAssumption DEF CallersWait
<1>7. NoStrandedMessage /\ NoStrandedRoom
  BY <1>2, Lists DEF NoStrandedMessage, NoStrandedRoom
<1>. QED
  BY <1>2, <1>4, <1>5, <1>6, <1>7 DEF IInv

\* A step of the threads that leaves the ring and the calls alone.
LEMMA FrameInv ==
  ASSUME IInv, UNCHANGED <<boxVars, call, value>>, TimeType',
         ThreadInv', Woken' = Woken,
         \A w \in WaitList : Range(k'.wait[w]) \subseteq Range(k.wait[w])
  PROVE  IInv'
<1>1. /\ pool' = pool /\ in_offset' = in_offset /\ out_offset' = out_offset /\ entry' = entry
      /\ call' = call /\ value' = value
  BY DEF boxVars
<1>2. BoxType' /\ OffsetsMatch'
  BY <1>1 DEF IInv, BoxType, RingType, LocalType, OffsetsMatch
<1>3. CallersWait'
  BY <1>1, Lists DEF IInv, CallersWait
<1>4. \A w \in WaitList : k'.wait[w] # << >> => k.wait[w] # << >>
  <2>1. /\ \A w \in WaitList : k.wait[w] = << >> <=> Range(k.wait[w]) = {}
        /\ \A w \in WaitList : k'.wait[w] = << >> <=> Range(k'.wait[w]) = {}
    <3>1. \A w \in WaitList : k.wait[w] \in Seq(Thread) /\ k'.wait[w] \in Seq(Thread)
      BY KernelTypeFields DEF IInv, ThreadInv, ThreadsOK
    <3>. QED
      BY <3>1, ListRange
  <2>. QED
    BY <2>1
<1>5. NoStrandedMessage' /\ NoStrandedRoom'
  <2>1. \A c : WokenIn(c)' = WokenIn(c)
    BY <1>1 DEF WokenIn
  <2>. QED
    BY <1>1, <1>4, <2>1, Lists DEF IInv, NoStrandedMessage, NoStrandedRoom
<1>. QED
  BY <1>2, <1>3, <1>5 DEF IInv

-----------------------------------------------------------------------------
(* The ring. *)

LEMMA StoreOK ==
  ASSUME RingType, OffsetsMatch, NEW m \in Msg, Store(m)
  PROVE  RingType' /\ OffsetsMatch' /\ entry' = entry + 1
<1>1. Size \in Nat \ {0}
  BY MailboxAssumption
<1>2. /\ entry # Size /\ pool' = [pool EXCEPT ![in_offset] = m]
      /\ in_offset' = IF in_offset + 1 >= Size THEN 0 ELSE in_offset + 1
      /\ entry' = entry + 1 /\ out_offset' = out_offset
  BY DEF Store, NextOffset
<1>3. RingType'
  BY <1>1, <1>2 DEF RingType
<1>4. in_offset' = (out_offset + (entry + 1)) % Size
  <2>1. /\ out_offset + entry \in 0 .. 2 * Size - 1
        /\ out_offset + (entry + 1) \in 0 .. 2 * Size - 1
    BY <1>1, <1>2 DEF RingType
  <2>. DEFINE a == out_offset + entry
              b == out_offset + (entry + 1)
  <2>2. /\ in_offset = IF a < Size THEN a ELSE a - Size
        /\ b % Size = IF b < Size THEN b ELSE b - Size
    <3>1. a \in 0 .. 2 * Size - 1 /\ b \in 0 .. 2 * Size - 1 /\ in_offset = a % Size
      BY <2>1 DEF OffsetsMatch
    <3>. HIDE DEF a, b
    <3>. QED
      BY <3>1, Around
  <2>3. in_offset' = IF b < Size THEN b ELSE b - Size
    <3>1. /\ in_offset = IF out_offset + entry < Size THEN out_offset + entry
                                                     ELSE out_offset + entry - Size
          /\ entry \in 0 .. Size - 1 /\ out_offset \in 0 .. Size - 1
      BY <1>1, <1>2, <2>2 DEF RingType
    <3>. QED
      BY <1>1, <1>2, <3>1
  <2>. HIDE DEF a, b
  <2>. QED
    BY <2>2, <2>3 DEF b
<1>. QED
  BY <1>2, <1>3, <1>4 DEF OffsetsMatch

LEMMA FetchOK ==
  ASSUME RingType, OffsetsMatch, Fetch
  PROVE  RingType' /\ OffsetsMatch' /\ entry' = entry - 1
<1>1. Size \in Nat \ {0}
  BY MailboxAssumption
<1>2. /\ entry # 0 /\ pool' = pool /\ in_offset' = in_offset
      /\ out_offset' = IF out_offset + 1 >= Size THEN 0 ELSE out_offset + 1
      /\ entry' = entry - 1
  BY DEF Fetch, NextOffset
<1>3. RingType'
  BY <1>1, <1>2 DEF RingType
<1>4. in_offset = (out_offset' + (entry - 1)) % Size
  <2>1. /\ out_offset + entry \in 0 .. 2 * Size - 1
        /\ out_offset' + (entry - 1) \in 0 .. 2 * Size - 1
    BY <1>1, <1>2 DEF RingType
  <2>. DEFINE a == out_offset + entry
              b == out_offset' + (entry - 1)
  <2>2. /\ in_offset = IF a < Size THEN a ELSE a - Size
        /\ b % Size = IF b < Size THEN b ELSE b - Size
    <3>1. a \in 0 .. 2 * Size - 1 /\ b \in 0 .. 2 * Size - 1 /\ in_offset = a % Size
      BY <2>1 DEF OffsetsMatch
    <3>. HIDE DEF a, b
    <3>. QED
      BY <3>1, Around
  <2>3. in_offset = IF b < Size THEN b ELSE b - Size
    <3>1. /\ in_offset = IF out_offset + entry < Size THEN out_offset + entry
                                                     ELSE out_offset + entry - Size
          /\ entry \in 1 .. Size /\ out_offset \in 0 .. Size - 1
      BY <1>1, <1>2, <2>2 DEF RingType
    <3>. QED
      BY <1>1, <1>2, <3>1
  <2>. HIDE DEF a, b
  <2>. QED
    BY <2>2, <2>3 DEF b
<1>. QED
  BY <1>2, <1>3, <1>4 DEF OffsetsMatch

LEMMA EndCallOK ==
  ASSUME LocalType, NEW t \in Thread, EndCall(t)
  PROVE  LocalType' /\ call' = [call EXCEPT ![t] = "none"]
<1>1. (CHOOSE m \in Msg : TRUE) \in Msg
  BY MailboxAssumption
<1>. DEFINE any == CHOOSE m \in Msg : TRUE
<1>2. /\ any \in Msg /\ call' = [call EXCEPT ![t] = "none"]
      /\ value' = [value EXCEPT ![t] = any] /\ left' = [left EXCEPT ![t] = 0]
      /\ since' = [since EXCEPT ![t] = 0]
  BY <1>1 DEF EndCall
<1>. HIDE DEF any
<1>. QED
  BY <1>2 DEF LocalType, TimeType

-----------------------------------------------------------------------------
(* The threads of the two calls. *)

Other(c) == IF c = "recv" THEN "send" ELSE "recv"

\* A caller: outside, or resumed in call c.
CallerOf(t, c) == Running(k, t) /\ (pc[t] = "run" \/ (pc[t] = "back" /\ call[t] = c))

LEMMA CallersInLists ==
  ASSUME IInv, NEW c \in {"send", "recv"}
  PROVE  ListOf(c) \in WaitList /\ \A t \in Range(k.wait[ListOf(c)]) : call[t] = c
BY Lists DEF ListOf, IInv, CallersWait

\* A caller in the other call resumes the first thread that waits in call c.
LEMMA WakeCounts ==
  ASSUME IInv, NEW c \in {"send", "recv"}, NEW t \in Thread, CallerOf(t, Other(c)),
         Wake(t, ListOf(c)), call' = [call EXCEPT ![t] = "none"]
  PROVE  /\ ThreadInv' /\ CallersWait'
         /\ k'.wait[ListOf(c)] # << >> =>
               Cardinality(WokenIn(c)') = Cardinality(WokenIn(c)) + 1
         /\ k'.wait[ListOf(Other(c))] # << >> =>
               /\ k.wait[ListOf(Other(c))] # << >>
               /\ Cardinality(WokenIn(Other(c))') >= Cardinality(WokenIn(Other(c))) - 1
<1>. DEFINE w == ListOf(c)
            d == Other(c)
            x == Head(k.wait[w])
<1>1. /\ ThreadsOK /\ w \in WaitList /\ d \in {"send", "recv"} /\ d # c
      /\ Running(k, t) /\ pc[t] \in {"run", "back"}
      /\ call \in [Thread -> {"none", "send", "recv"}]
  BY CallersInLists DEF IInv, ThreadInv, BoxType, LocalType, Other, CallerOf
<1>2. /\ ThreadInv'
      /\ k.wait[w] = << >> => k' = k /\ Woken' = Woken \ {t}
      /\ k.wait[w] # << >> =>
              /\ x \in Range(k.wait[w]) /\ x \in Thread /\ x # t /\ x \notin Woken
              /\ Woken' = (Woken \ {t}) \cup {x}
              /\ \A v \in WaitList : Range(k'.wait[v]) = Range(k.wait[v]) \ {x}
  BY <1>1, WakeInv DEF IInv, ThreadInv
<1>. HIDE DEF x, w, d
<1>3. \A u \in Thread : call'[u] = IF u = t THEN "none" ELSE call[u]
  BY <1>1
<1>4. t \notin WokenIn(c)
  BY <1>1 DEF CallerOf, WokenIn, Woken, d
<1>5. \A u : u \in Woken => u \in Thread
  BY DEF Woken
<1>6. /\ \A v \in WaitList : Range(k'.wait[v]) \subseteq Range(k.wait[v])
      /\ \A v \in WaitList : k'.wait[v] # << >> => k.wait[v] # << >>
  <2>1. \A v \in WaitList : Range(k'.wait[v]) \subseteq Range(k.wait[v])
    BY <1>2
  <2>2. \A v \in WaitList : k.wait[v] \in Seq(Thread) /\ k'.wait[v] \in Seq(Thread)
    BY <1>2, KernelTypeFields DEF IInv, ThreadInv, ThreadsOK
  <2>3. /\ \A v \in WaitList : k.wait[v] = << >> <=> Range(k.wait[v]) = {}
        /\ \A v \in WaitList : k'.wait[v] = << >> <=> Range(k'.wait[v]) = {}
    BY <2>2, ListRange
  <2>. QED
    BY <2>1, <2>3
<1>7. CallersWait'
  <2>1. t \notin Waiting
    BY <1>1, CallerReady
  <2>2. \A v \in WaitList : t \notin Range(k.wait[v]) /\ Range(k.wait[v]) \in SUBSET Thread
    BY <1>1, <2>1, WaitingType DEF Waiting, ThreadsOK
  <2>3. \A v \in WaitList : \A u \in Range(k'.wait[v]) : u \in Range(k.wait[v]) /\ call'[u] = call[u]
    BY <1>3, <1>6, <2>2
  <2>4. call'[Idle] = "none"
    BY <1>3, KernelAssumption DEF IInv, CallersWait
  <2>. QED
    BY <2>3, <2>4, Lists DEF IInv, CallersWait
<1>8. ASSUME k.wait[w] # << >>
      PROVE  Cardinality(WokenIn(c)') = Cardinality(WokenIn(c)) + 1
  <2>1. call[x] = c
    BY <1>2, <1>8, CallersInLists DEF w
  <2>2. WokenIn(c)' = WokenIn(c) \cup {x} /\ x \notin WokenIn(c)
    BY <1>2, <1>3, <1>4, <1>5, <1>8, <2>1 DEF WokenIn
  <2>. QED
    BY <2>2, WokenInFinite, FS_AddElement
<1>9. Cardinality(WokenIn(d)') >= Cardinality(WokenIn(d)) - 1
  <2>1. WokenIn(d)' = WokenIn(d) \ {t}
    <3>1. CASE k.wait[w] = << >>
      BY <1>1, <1>2, <1>3, <1>5, <3>1 DEF WokenIn
    <3>2. CASE k.wait[w] # << >>
      <4>1. call[x] = c
        BY <1>2, <3>2, CallersInLists DEF w
      <4>. QED
        BY <1>1, <1>2, <1>3, <1>5, <3>2, <4>1 DEF WokenIn
    <3>. QED
      BY <3>1, <3>2
  <2>. QED
    <3>. DEFINE S == WokenIn(d)
    <3>1. IsFiniteSet(S) /\ Cardinality(S) \in Nat
      BY WokenInFinite
    <3>. HIDE DEF S
    <3>2. Cardinality(S \ {t}) = IF t \in S THEN Cardinality(S) - 1 ELSE Cardinality(S)
      BY <3>1, FS_RemoveElement
    <3>3. Cardinality(S \ {t}) >= Cardinality(S) - 1
      BY <3>1, <3>2
    <3>. QED
      BY <2>1, <3>3 DEF S
<1>. QED
  BY <1>1, <1>2, <1>6, <1>7, <1>8, <1>9, CallersInLists DEF w, d

\* A caller goes to the list of its call.
LEMMA SuspendCounts ==
  ASSUME IInv, NEW c \in {"send", "recv"}, NEW t \in Thread, t # Idle, CallerOf(t, c),
         NEW m \in Msg, NEW time \in Int, Suspended(t, c, m, time)
  PROVE  /\ ThreadInv' /\ BoxType' /\ OffsetsMatch' /\ CallersWait' /\ entry' = entry
         /\ k'.wait[ListOf(Other(c))] # << >> => k.wait[ListOf(Other(c))] # << >>
         /\ WokenIn(Other(c))' = WokenIn(Other(c))
<1>. DEFINE w == ListOf(c)
            d == Other(c)
<1>1. /\ ThreadsOK /\ w \in WaitList /\ d \in {"send", "recv"} /\ d # c
      /\ t \in Thread \ {Idle} /\ Running(k, t) /\ pc[t] \in {"run", "back"}
  BY CallersInLists DEF IInv, ThreadInv, Other, CallerOf
<1>2. /\ Wait(t, w, Flag, time) /\ call' = [call EXCEPT ![t] = c]
      /\ value' = [value EXCEPT ![t] = m] /\ left' = [left EXCEPT ![t] = time]
      /\ since' = [since EXCEPT ![t] = 0]
      /\ pool' = pool /\ in_offset' = in_offset /\ out_offset' = out_offset /\ entry' = entry
  BY DEF Suspended, boxVars
<1>. HIDE DEF w, d
<1>3. /\ ThreadInv' /\ Woken' = Woken \ {t}
      /\ \A v \in WaitList : Range(k'.wait[v]) = IF v = w THEN Range(k.wait[v]) \cup {t}
                                                          ELSE Range(k.wait[v])
  BY <1>1, <1>2, WaitInv DEF IInv, ThreadInv
<1>4. \A u \in Thread : call'[u] = IF u = t THEN c ELSE call[u]
  BY <1>2 DEF IInv, BoxType, LocalType
<1>5. BoxType' /\ OffsetsMatch'
  BY <1>2 DEF IInv, BoxType, RingType, LocalType, TimeType, OffsetsMatch
<1>6. CallersWait'
  <2>1. t \notin Waiting
    BY <1>1, CallerReady
  <2>2. \A v \in WaitList : t \notin Range(k.wait[v]) /\ Range(k.wait[v]) \in SUBSET Thread
    BY <1>1, <2>1, WaitingType DEF Waiting, ThreadsOK
  <2>3. \A v \in WaitList : \A u \in Range(k'.wait[v]) :
           IF u = t THEN v = w /\ call'[u] = c ELSE u \in Range(k.wait[v]) /\ call'[u] = call[u]
    BY <1>3, <1>4, <2>2
  <2>4. call'[Idle] = "none"
    BY <1>4, KernelAssumption DEF IInv, CallersWait
  <2>5. \A v \in {RecvList, SendList} : v = w => v = ListOf(c)
    BY DEF w
  <2>. QED
    BY <2>3, <2>4, Lists DEF IInv, CallersWait, w, ListOf
<1>7. k'.wait[ListOf(d)] # << >> => k.wait[ListOf(d)] # << >>
  <2>1. ListOf(d) \in WaitList /\ ListOf(d) # w
    BY <1>1, Lists DEF ListOf, w
  <2>2. k.wait[ListOf(d)] \in Seq(Thread) /\ k'.wait[ListOf(d)] \in Seq(Thread)
    BY <1>3, <2>1, KernelTypeFields DEF IInv, ThreadInv, ThreadsOK
  <2>3. Range(k'.wait[ListOf(d)]) = Range(k.wait[ListOf(d)])
    BY <1>3, <2>1
  <2>. QED
    BY <2>2, <2>3, ListRange
<1>8. WokenIn(d)' = WokenIn(d)
  <2>1. t \notin WokenIn(d)
    BY <1>1 DEF CallerOf, WokenIn, Woken
  <2>2. \A u : u \in Woken => u \in Thread
    BY DEF Woken
  <2>. QED
    BY <1>1, <1>3, <1>4, <2>1, <2>2 DEF WokenIn
<1>. QED
  BY <1>2, <1>3, <1>5, <1>6, <1>7, <1>8 DEF d

-----------------------------------------------------------------------------
(* The actions. *)

LEMMA SendNowInv ==
  ASSUME IInv, NEW t \in Thread, NEW m \in Msg, CallerOf(t, "send"), SendNow(t, m)
  PROVE  IInv'
<1>1. /\ Store(m) /\ Wake(t, RecvList) /\ EndCall(t) /\ RingType /\ LocalType /\ OffsetsMatch
      /\ entry \in 0 .. Size /\ Size \in Nat
  BY MailboxAssumption DEF SendNow, IInv, BoxType, RingType
<1>2. RingType' /\ LocalType' /\ OffsetsMatch' /\ entry' = entry + 1
      /\ call' = [call EXCEPT ![t] = "none"]
  BY <1>1, StoreOK, EndCallOK
<1>3. /\ ThreadInv' /\ CallersWait'
      /\ k'.wait[RecvList] # << >> =>
            Cardinality(WokenIn("recv")') = Cardinality(WokenIn("recv")) + 1
      /\ k'.wait[SendList] # << >> =>
            /\ k.wait[SendList] # << >>
            /\ Cardinality(WokenIn("send")') >= Cardinality(WokenIn("send")) - 1
  BY <1>1, <1>2, WakeCounts DEF ListOf, Other
<1>4. k'.wait[RecvList] # << >> => k.wait[RecvList] # << >>
  BY <1>1 DEF Wake
<1>5. /\ Cardinality(WokenIn("recv")) \in Nat /\ Cardinality(WokenIn("send")) \in Nat
      /\ Cardinality(WokenIn("recv")') \in Nat /\ Cardinality(WokenIn("send")') \in Nat
  BY WokenInFinite
<1>6. NoStrandedMessage' /\ NoStrandedRoom'
  BY <1>1, <1>2, <1>3, <1>4, <1>5 DEF IInv, NoStrandedMessage, NoStrandedRoom
<1>. QED
  BY <1>2, <1>3, <1>6 DEF IInv, BoxType

LEMMA RecvNowInv ==
  ASSUME IInv, NEW t \in Thread, CallerOf(t, "recv"), RecvNow(t)
  PROVE  IInv'
<1>1. /\ Fetch /\ Wake(t, SendList) /\ EndCall(t) /\ RingType /\ LocalType /\ OffsetsMatch
      /\ entry \in 0 .. Size /\ Size \in Nat
  BY MailboxAssumption DEF RecvNow, IInv, BoxType, RingType
<1>2. RingType' /\ LocalType' /\ OffsetsMatch' /\ entry' = entry - 1
      /\ call' = [call EXCEPT ![t] = "none"]
  BY <1>1, FetchOK, EndCallOK
<1>3. /\ ThreadInv' /\ CallersWait'
      /\ k'.wait[SendList] # << >> =>
            Cardinality(WokenIn("send")') = Cardinality(WokenIn("send")) + 1
      /\ k'.wait[RecvList] # << >> =>
            /\ k.wait[RecvList] # << >>
            /\ Cardinality(WokenIn("recv")') >= Cardinality(WokenIn("recv")) - 1
  BY <1>1, <1>2, WakeCounts DEF ListOf, Other
<1>4. k'.wait[SendList] # << >> => k.wait[SendList] # << >>
  BY <1>1 DEF Wake
<1>5. /\ Cardinality(WokenIn("recv")) \in Nat /\ Cardinality(WokenIn("send")) \in Nat
      /\ Cardinality(WokenIn("recv")') \in Nat /\ Cardinality(WokenIn("send")') \in Nat
  BY WokenInFinite
<1>6. NoStrandedMessage' /\ NoStrandedRoom'
  BY <1>1, <1>2, <1>3, <1>4, <1>5 DEF IInv, NoStrandedMessage, NoStrandedRoom
<1>. QED
  BY <1>2, <1>3, <1>6 DEF IInv, BoxType

LEMMA SendWaitInv ==
  ASSUME IInv, NEW t \in Thread, t # Idle, NEW m \in Msg, NEW time \in Int,
         CallerOf(t, "send"), SendWait(t, m, time)
  PROVE  IInv'
<1>1. entry = Size /\ Suspended(t, "send", m, time) /\ Size \in Nat
  BY MailboxAssumption DEF SendWait
<1>2. /\ ThreadInv' /\ BoxType' /\ OffsetsMatch' /\ CallersWait' /\ entry' = entry
      /\ k'.wait[RecvList] # << >> => k.wait[RecvList] # << >>
      /\ WokenIn("recv")' = WokenIn("recv")
  BY <1>1, SuspendCounts DEF ListOf, Other
<1>3. NoStrandedMessage'
  BY <1>2 DEF IInv, NoStrandedMessage
<1>4. NoStrandedRoom'
  BY <1>1, <1>2, WokenInFinite DEF NoStrandedRoom
<1>. QED
  BY <1>2, <1>3, <1>4 DEF IInv

LEMMA RecvWaitInv ==
  ASSUME IInv, NEW t \in Thread, t # Idle, NEW time \in Int,
         CallerOf(t, "recv"), RecvWait(t, time)
  PROVE  IInv'
<1>1. entry = 0 /\ Suspended(t, "recv", value[t], time) /\ value[t] \in Msg
  BY DEF RecvWait, IInv, BoxType, LocalType
<1>2. /\ ThreadInv' /\ BoxType' /\ OffsetsMatch' /\ CallersWait' /\ entry' = entry
      /\ k'.wait[SendList] # << >> => k.wait[SendList] # << >>
      /\ WokenIn("send")' = WokenIn("send")
  BY <1>1, SuspendCounts DEF ListOf, Other
<1>3. NoStrandedRoom'
  BY <1>2 DEF IInv, NoStrandedRoom
<1>4. NoStrandedMessage'
  BY <1>1, <1>2, WokenInFinite DEF NoStrandedMessage
<1>. QED
  BY <1>2, <1>3, <1>4 DEF IInv

\* A resumed caller gives up only when there is nothing to be had.
LEMMA CallFailsInv ==
  ASSUME IInv, NEW t \in Thread, CallFails(t)
  PROVE  IInv'
<1>1. /\ Running(k, t) /\ pc[t] = "back" /\ Goto(t, "run") /\ EndCall(t) /\ k \in KernelType
      /\ pool' = pool /\ in_offset' = in_offset /\ out_offset' = out_offset /\ entry' = entry
  BY DEF CallFails, Resumed, boxVars, IInv, ThreadInv, ThreadsOK
<1>2. PICK e \in Error : k' = [k EXCEPT !.error[t] = e]
  <2>1. k.error \in [Thread -> Error]
    BY <1>1, KernelTypeFields
  <2>2. k = [k EXCEPT !.error[t] = k.error[t]]
    BY <1>1, <2>1 DEF KernelType
  <2>3. CASE k' = k
    BY <2>1, <2>2, <2>3
  <2>. QED
    BY <2>3 DEF CallFails, Error
<1>3. ThreadInv' /\ Woken' = Woken \ {t} /\ k'.wait = k.wait
  BY <1>1, <1>2, FailReturnInv DEF IInv, ThreadInv
<1>4. LocalType' /\ RingType' /\ OffsetsMatch' /\ call' = [call EXCEPT ![t] = "none"]
  BY <1>1, EndCallOK DEF IInv, BoxType, RingType, OffsetsMatch
<1>5. \A u \in Thread : call'[u] = IF u = t THEN "none" ELSE call[u]
  BY <1>4 DEF IInv, BoxType, LocalType
<1>6. CallersWait'
  <2>1. t \notin Waiting /\ ThreadsOK
    BY <1>1, CallerReady DEF IInv, ThreadInv
  <2>2. \A w \in WaitList : \A u \in Range(k.wait[w]) : u \in Thread /\ u # t
    BY <1>1, <2>1, WaitingType DEF Waiting
  <2>. QED
    BY <1>3, <1>5, <2>2, Lists, KernelAssumption DEF IInv, CallersWait
<1>7. \A c \in {"send", "recv"} : WokenIn(c)' = WokenIn(c) \ {t}
  <2>1. \A u : u \in Woken => u \in Thread
    BY DEF Woken
  <2>. QED
    BY <1>3, <1>5, <2>1 DEF WokenIn
<1>8. NoStrandedMessage'
  <2>1. CASE t \in WokenIn("recv")
    <3>1. entry' = 0
      BY <1>1, <2>1 DEF CallFails, WokenIn, Woken
    <3>. QED
      BY <3>1, WokenInFinite DEF NoStrandedMessage
  <2>2. CASE t \notin WokenIn("recv")
    <3>1. WokenIn("recv")' = WokenIn("recv")
      BY <1>7, <2>2
    <3>. QED
      BY <1>1, <1>3, <3>1 DEF IInv, NoStrandedMessage
  <2>. QED
    BY <2>1, <2>2
<1>9. NoStrandedRoom'
  <2>1. CASE t \in WokenIn("send")
    <3>1. entry' = Size /\ Size \in Nat
      BY <1>1, <2>1, MailboxAssumption DEF CallFails, WokenIn, Woken
    <3>. QED
      BY <3>1, WokenInFinite DEF NoStrandedRoom
  <2>2. CASE t \notin WokenIn("send")
    <3>1. WokenIn("send")' = WokenIn("send")
      BY <1>7, <2>2
    <3>. QED
      BY <1>1, <1>3, <3>1 DEF IInv, NoStrandedRoom
  <2>. QED
    BY <2>1, <2>2
<1>. QED
  BY <1>3, <1>4, <1>6, <1>8, <1>9 DEF IInv, BoxType

LEMMA IsrSendInv ==
  ASSUME IInv, IsrSend
  PROVE  IInv'
<1>. DEFINE x == Head(k.wait[RecvList])
<1>1. /\ \E m \in Msg : Store(m)
      /\ k.due = {} /\ IsrWake(RecvList) /\ call' = call /\ value' = value /\ left' = left
      /\ since' = since /\ ThreadsOK /\ TopRuns /\ RingType /\ LocalType /\ OffsetsMatch
      /\ entry \in 0 .. Size /\ Size \in Nat
  BY MailboxAssumption
     DEF IsrSend, Interruptible, localVars, IInv, ThreadInv, BoxType, RingType
<1>2. RingType' /\ OffsetsMatch' /\ entry' = entry + 1 /\ LocalType'
  BY <1>1, StoreOK DEF LocalType, TimeType
<1>3. /\ ThreadInv'
      /\ k.wait[RecvList] = << >> => k' = k /\ Woken' = Woken
      /\ k.wait[RecvList] # << >> =>
            /\ x \in Range(k.wait[RecvList]) /\ x \in Thread /\ x \notin Woken
            /\ Woken' = Woken \cup {x}
            /\ \A v \in WaitList : Range(k'.wait[v]) = Range(k.wait[v]) \ {x}
  BY <1>1, Lists, IsrWakeInv DEF ThreadInv
<1>. HIDE DEF x
<1>4. CallersWait' /\ (k'.wait[SendList] # << >> => k.wait[SendList] # << >>)
  <2>1. \A v \in WaitList : Range(k'.wait[v]) \subseteq Range(k.wait[v])
    BY <1>3
  <2>2. k.wait[SendList] \in Seq(Thread) /\ k'.wait[SendList] \in Seq(Thread)
    BY <1>1, <1>3, Lists, KernelTypeFields DEF ThreadInv, ThreadsOK
  <2>3. k'.wait[SendList] # << >> => k.wait[SendList] # << >>
    <3>1. /\ k.wait[SendList] # << >> <=> Range(k.wait[SendList]) # {}
          /\ k'.wait[SendList] # << >> <=> Range(k'.wait[SendList]) # {}
      BY <2>2, ListRange
    <3>2. Range(k'.wait[SendList]) \subseteq Range(k.wait[SendList])
      BY <2>1, Lists
    <3>. QED
      BY <3>1, <3>2
  <2>. QED
    BY <1>1, <2>1, <2>3, Lists DEF IInv, CallersWait
<1>5. WokenIn("send") \subseteq WokenIn("send")' /\ WokenIn("recv") \subseteq WokenIn("recv")'
  BY <1>1, <1>3 DEF WokenIn
<1>6. Cardinality(WokenIn("send")') >= Cardinality(WokenIn("send"))
  <2>1. IsFiniteSet(WokenIn("send")')
    BY FS_Subset, KernelAssumption DEF WokenIn, Woken
  <2>. QED
    BY <1>5, <2>1, FS_Subset
<1>7. k.wait[RecvList] # << >> =>
          Cardinality(WokenIn("recv")') = Cardinality(WokenIn("recv")) + 1
  <2>. SUFFICES ASSUME k.wait[RecvList] # << >>
                PROVE  Cardinality(WokenIn("recv")') = Cardinality(WokenIn("recv")) + 1
    OBVIOUS
  <2>1. call[x] = "recv"
    BY <1>3 DEF IInv, CallersWait
  <2>2. WokenIn("recv")' = WokenIn("recv") \cup {x} /\ x \notin WokenIn("recv")
    BY <1>1, <1>3, <2>1 DEF WokenIn
  <2>. QED
    BY <2>2, WokenInFinite, FS_AddElement
<1>8. /\ Cardinality(WokenIn("recv")) \in Nat /\ Cardinality(WokenIn("send")) \in Nat
      /\ Cardinality(WokenIn("recv")') \in Nat /\ Cardinality(WokenIn("send")') \in Nat
  BY WokenInFinite
<1>9. k'.wait[RecvList] # << >> => k.wait[RecvList] # << >>
  BY <1>3
<1>10. NoStrandedMessage' /\ NoStrandedRoom'
  BY <1>1, <1>2, <1>4, <1>6, <1>7, <1>8, <1>9 DEF IInv, NoStrandedMessage, NoStrandedRoom
<1>. QED
  BY <1>2, <1>3, <1>4, <1>10 DEF IInv, BoxType

LEMMA ResetInv ==
  ASSUME IInv, NEW t \in Thread, ResetBegin(t) \/ ResetTurn(t) \/ ResetEnd(t)
  PROVE  IInv'
<1>0. /\ ThreadsOK /\ TopRuns /\ TimeType
      /\ RecvList \in WaitList /\ SendList \in WaitList
  BY Lists DEF IInv, ThreadInv, BoxType, LocalType
<1>1. CASE ResetBegin(t)
  <2>1. ThreadInv' /\ Woken' = Woken /\ k'.wait = k.wait
    BY <1>0, <1>1, EnterSectionInv DEF ResetBegin, MayCall, ThreadInv
  <2>2. UNCHANGED <<boxVars, call, value>> /\ TimeType'
    BY <1>0, <1>1 DEF ResetBegin, localVars, TimeType
  <2>. QED
    BY <2>1, <2>2, FrameInv
<1>2. CASE ResetTurn(t)
  <2>1. UNCHANGED <<boxVars, call, value>> /\ TimeType'
    BY <1>0, <1>2 DEF ResetTurn, localVars, TimeType
  <2>2. ResumeAllTurn(t, RecvList) \/ ResumeAllTurn(t, SendList)
    BY <1>2 DEF ResetTurn
  <2>. QED
    BY <1>0, <2>1, <2>2, ResumeAllTurnInv, FrameInv DEF ThreadInv
<1>3. CASE ResetEnd(t)
  <2>1. /\ Running(k, t) /\ pc[t] = "section" /\ LeaveSection(t)
        /\ k.wait[RecvList] = << >> /\ k.wait[SendList] = << >>
        /\ in_offset' = 0 /\ out_offset' = 0 /\ entry' = 0
        /\ pool' = pool /\ call' = call /\ value' = value
        /\ left' = left /\ since' = since
    BY <1>3 DEF ResetEnd, localVars
  <2>2. ThreadInv' /\ Woken' = Woken /\ k'.wait = k.wait
    BY <1>0, <2>1, LeaveSectionInv DEF ThreadInv
  <2>3. Size \in Nat \ {0}
    BY MailboxAssumption
  <2>4. BoxType' /\ OffsetsMatch'
    BY <2>1, <2>3 DEF IInv, BoxType, RingType, LocalType, TimeType, OffsetsMatch
  <2>5. CallersWait' /\ NoStrandedMessage' /\ NoStrandedRoom'
    BY <2>1, <2>2 DEF IInv, CallersWait, NoStrandedMessage, NoStrandedRoom
  <2>. QED
    BY <2>2, <2>4, <2>5 DEF IInv
<1>. QED
  BY <1>1, <1>2, <1>3

\* What is left of a timeout is a timeout.
LEMMA RemainingType ==
  ASSUME IInv, NEW t \in Thread
  PROVE  Remaining(t) \in Int
<1>1. left[t] \in Int /\ since[t] \in Int
  BY DEF IInv, BoxType, LocalType, TimeType
<1>. QED
  BY <1>1 DEF Remaining

\* The two calls, from their start and from a retry.
LEMMA CallInv ==
  ASSUME IInv, NEW t \in Thread, Send(t) \/ Recv(t) \/ SendRetries(t) \/ RecvRetries(t)
  PROVE  IInv'
<1>1. Times \subseteq Int
  BY MailboxAssumption
<1>2. CASE Send(t)
  <2>1. t # Idle /\ CallerOf(t, "send")
    BY <1>2 DEF Send, MayCall, CallerOf
  <2>. QED
    BY <1>1, <1>2, <2>1, SendNowInv, SendWaitInv DEF Send
<1>3. CASE Recv(t)
  <2>1. t # Idle /\ CallerOf(t, "recv")
    BY <1>3 DEF Recv, MayCall, CallerOf
  <2>. QED
    BY <1>1, <1>3, <2>1, RecvNowInv, RecvWaitInv DEF Recv
<1>4. CASE SendRetries(t)
  <2>1. t # Idle /\ CallerOf(t, "send") /\ value[t] \in Msg /\ Remaining(t) \in Int
    BY <1>4, RemainingType DEF SendRetries, Resumed, CallerOf, IInv, CallersWait, BoxType, LocalType
  <2>. QED
    BY <1>4, <2>1, SendNowInv, SendWaitInv DEF SendRetries
<1>5. CASE RecvRetries(t)
  <2>1. t # Idle /\ CallerOf(t, "recv") /\ Remaining(t) \in Int
    BY <1>5, RemainingType DEF RecvRetries, Resumed, CallerOf, IInv, CallersWait, BoxType, LocalType
  <2>. QED
    BY <1>5, <2>1, RecvNowInv, RecvWaitInv DEF RecvRetries
<1>. QED
  BY <1>2, <1>3, <1>4, <1>5

\* Every step of every thread, interrupt handler and tick keeps the invariant.
LEMMA NextInv ==
  ASSUME IInv, [Next]_vars
  PROVE  IInv'
<1>1. ASSUME (\E t \in Thread : ThreadStep(t)) \/ Tick \/ TimerFires,
             UNCHANGED <<boxVars, call, value>>, TimeType'
      PROVE  IInv'
  <2>1. ThreadsOK /\ TopRuns
    BY DEF IInv, ThreadInv
  <2>. QED
    BY <1>1, <2>1, SystemStepInv, FrameInv DEF ThreadInv
<1>2. TimeType
  BY DEF IInv, BoxType, LocalType
<1>3. CASE UNCHANGED vars
  <2>1. k' = k /\ pc' = pc /\ UNCHANGED <<boxVars, call, value>>
        /\ left' = left /\ since' = since
    BY <1>3 DEF vars, localVars
  <2>2. ThreadInv' /\ Woken' = Woken
    BY <2>1 DEF IInv, ThreadInv, ThreadsOK, WaitersWait, CurrentReady, TopRuns, Waiting, Woken
  <2>. QED
    BY <1>2, <2>1, <2>2, FrameInv DEF TimeType
<1>4. CASE TickStep
  <2>1. Tick /\ UNCHANGED <<boxVars, call, value>>
    BY <1>4 DEF TickStep
  <2>2. TimeType'
    BY <1>2, <1>4 DEF TickStep, TimeType
  <2>. QED
    BY <1>1, <2>1, <2>2
<1>5. CASE FireStep
  BY <1>1, <1>2, <1>5 DEF FireStep, localVars, TimeType
<1>6. ASSUME NEW t \in Thread, Call(t) \/ Continue(t) PROVE IInv'
  <2>1. CASE ThreadStep(t) /\ UNCHANGED <<boxVars, localVars>>
    BY <1>1, <1>2, <2>1 DEF localVars, TimeType
  <2>. QED
    BY <1>6, <2>1, CallInv, CallFailsInv, ResetInv DEF Call, Continue, ThreadStep
<1>. QED
  BY <1>3, <1>4, <1>5, <1>6, IsrSendInv DEF Next

\* The inductive invariant holds in every behaviour of the mailbox.
THEOREM InductiveInvariant == Spec => []IInv
<1>1. Init => IInv
  BY InitInv
<1>2. IInv /\ [Next]_vars => IInv'
  BY NextInv
<1>. QED
  BY <1>1, <1>2, PTL DEF Spec

\* rt_mb_send_wait, rt_mb_recv, the send of an interrupt handler, the reset
\* and the tick keep the threads, their lists and the ring consistent, and each
\* ends in the rt_schedule that its resumed threads need.
THEOREM KernelConsistentHolds == Spec => [](BoxType /\ KernelConsistent /\ HighestRuns)
<1>1. IInv => BoxType /\ KernelConsistent /\ HighestRuns
  BY DEF IInv, KernelConsistent, ThreadInv, ThreadsOK, TopRuns, HighestRuns
<1>. QED
  BY <1>1, InductiveInvariant, PTL

\* rt_mb_send_wait resumes one receiver for every word, whatever the timeouts
\* and the retries of resumed receivers do in between.
THEOREM NoStrandedMessageHolds == Spec => []NoStrandedMessage
<1>1. IInv => NoStrandedMessage
  BY DEF IInv
<1>. QED
  BY <1>1, InductiveInvariant, PTL

\* rt_mb_recv does the same for the senders of a full mailbox.
THEOREM NoStrandedRoomHolds == Spec => []NoStrandedRoom
<1>1. IInv => NoStrandedRoom
  BY DEF IInv
<1>. QED
  BY <1>1, InductiveInvariant, PTL

-----------------------------------------------------------------------------
(* The ring implements a bounded queue. *)

\* Where the i-th word from offset o on is.
Slot(o, i) == IF o + i - 1 < Size THEN o + i - 1 ELSE o + i - 1 - Size

RingContent(p, o, n) == [i \in 1 .. n |-> p[(o + i - 1) % Size]]

LEMMA RingElements ==
  ASSUME NEW p \in [0 .. Size - 1 -> Msg], NEW o \in 0 .. Size - 1, NEW n \in 0 .. Size
  PROVE  LET c == RingContent(p, o, n) IN
         /\ c \in Seq(Msg) /\ Len(c) = n
         /\ \A i \in 1 .. n : c[i] = p[Slot(o, i)] /\ Slot(o, i) \in 0 .. Size - 1
<1>. DEFINE c == RingContent(p, o, n)
<1>1. Size \in Nat \ {0}
  BY MailboxAssumption
<1>2. ASSUME NEW i \in 1 .. n
      PROVE  (o + i - 1) % Size = Slot(o, i) /\ Slot(o, i) \in 0 .. Size - 1
  <2>. DEFINE a == o + i - 1
  <2>1. a \in 0 .. 2 * Size - 1 /\ Slot(o, i) = IF a < Size THEN a ELSE a - Size
    BY <1>1 DEF Slot
  <2>. HIDE DEF a
  <2>2. a % Size = Slot(o, i)
    BY <2>1, Around
  <2>3. Slot(o, i) \in 0 .. Size - 1
    BY <1>1, <2>1
  <2>. QED
    BY <2>2, <2>3 DEF a
<1>3. c \in [1 .. n -> Msg]
  BY <1>2 DEF RingContent
<1>4. c \in Seq(Msg) /\ Len(c) = n
  BY <1>1, <1>3
<1>. QED
  BY <1>2, <1>4 DEF RingContent

LEMMA ContentElements ==
  /\ RingType => /\ Content \in Seq(Msg) /\ Len(Content) = entry
                 /\ \A i \in 1 .. entry : Content[i] = pool[Slot(out_offset, i)]
  /\ RingType' => /\ Content' \in Seq(Msg) /\ Len(Content') = entry'
                  /\ \A i \in 1 .. entry' : Content'[i] = pool'[Slot(out_offset', i)]
<1>1. ASSUME RingType
      PROVE  /\ Content \in Seq(Msg) /\ Len(Content) = entry
             /\ \A i \in 1 .. entry : Content[i] = pool[Slot(out_offset, i)]
  <2>1. Content = RingContent(pool, out_offset, entry)
    BY DEF Content, RingContent
  <2>. QED
    BY <1>1, <2>1, RingElements DEF RingType
<1>2. ASSUME RingType'
      PROVE  /\ Content' \in Seq(Msg) /\ Len(Content') = entry'
             /\ \A i \in 1 .. entry' : Content'[i] = pool'[Slot(out_offset', i)]
  <2>1. Content' = RingContent(pool', out_offset', entry')
    BY DEF Content, RingContent
  <2>. QED
    BY <1>2, <2>1, RingElements DEF RingType
<1>. QED
  BY <1>1, <1>2

\* Storing never overwrites a word that is still to be received.
LEMMA StoreContent ==
  ASSUME RingType, OffsetsMatch, NEW m \in Msg, Store(m)
  PROVE  Len(Content) < Size /\ Content' = Append(Content, m)
<1>1. Size \in Nat \ {0} /\ entry \in 0 .. Size - 1 /\ out_offset \in 0 .. Size - 1
  BY MailboxAssumption DEF RingType, Store
<1>2. /\ pool' = [pool EXCEPT ![in_offset] = m] /\ pool \in [0 .. Size - 1 -> Msg]
      /\ in_offset \in 0 .. Size - 1
      /\ entry' = entry + 1 /\ out_offset' = out_offset
  BY DEF Store, RingType
<1>3. in_offset = Slot(out_offset, entry + 1)
  <2>. DEFINE a == out_offset + entry
  <2>1. a \in 0 .. 2 * Size - 1 /\ in_offset = a % Size
    BY <1>1 DEF OffsetsMatch
  <2>2. Slot(out_offset, entry + 1) = IF a < Size THEN a ELSE a - Size
    BY <1>1 DEF Slot
  <2>. HIDE DEF a
  <2>3. in_offset = IF a < Size THEN a ELSE a - Size
    BY <2>1, Around
  <2>. QED
    BY <2>2, <2>3
<1>4. ASSUME NEW i \in 1 .. entry
      PROVE  Slot(out_offset, i) \in 0 .. Size - 1 /\ Slot(out_offset, i) # in_offset
  BY <1>1, <1>3 DEF Slot
<1>5. /\ Content \in Seq(Msg) /\ Len(Content) = entry
      /\ \A i \in 1 .. entry : Content[i] = pool[Slot(out_offset, i)]
  BY ContentElements
<1>6. /\ Content' \in Seq(Msg) /\ Len(Content') = entry + 1
      /\ \A i \in 1 .. entry + 1 : Content'[i] = pool'[Slot(out_offset, i)]
  BY <1>2, StoreOK, ContentElements
<1>7. /\ Append(Content, m) \in Seq(Msg) /\ Len(Append(Content, m)) = entry + 1
      /\ \A i \in 1 .. entry : Append(Content, m)[i] = Content[i]
      /\ Append(Content, m)[entry + 1] = m
  BY <1>5, AppendProperties
<1>8. ASSUME NEW i \in 1 .. entry + 1 PROVE Content'[i] = Append(Content, m)[i]
  <2>1. CASE i = entry + 1
    BY <1>2, <1>3, <1>6, <1>7, <2>1
  <2>2. CASE i # entry + 1
    <3>1. i \in 1 .. entry
      BY <1>1, <2>2
    <3>. QED
      BY <1>2, <1>4, <1>5, <1>6, <1>7, <3>1
  <2>. QED
    BY <2>1, <2>2
<1>9. Content' = Append(Content, m)
  BY <1>6, <1>7, <1>8, SeqEqual
<1>. QED
  BY <1>1, <1>5, <1>9

LEMMA FetchContent ==
  ASSUME RingType, OffsetsMatch, Fetch
  PROVE  Content # << >> /\ Content' = Tail(Content)
<1>1. Size \in Nat \ {0} /\ entry \in 1 .. Size /\ out_offset \in 0 .. Size - 1
  BY MailboxAssumption DEF RingType, Fetch
<1>2. /\ pool' = pool /\ entry' = entry - 1
      /\ out_offset' = IF out_offset + 1 >= Size THEN 0 ELSE out_offset + 1
  BY DEF Fetch, NextOffset
<1>3. ASSUME NEW i \in 1 .. entry - 1 PROVE Slot(out_offset', i) = Slot(out_offset, i + 1)
  BY <1>1, <1>2 DEF Slot
<1>4. /\ Content \in Seq(Msg) /\ Len(Content) = entry
      /\ \A i \in 1 .. entry : Content[i] = pool[Slot(out_offset, i)]
  BY ContentElements
<1>5. /\ Content' \in Seq(Msg) /\ Len(Content') = entry - 1
      /\ \A i \in 1 .. entry - 1 : Content'[i] = pool[Slot(out_offset', i)]
  BY <1>2, FetchOK, ContentElements
<1>6. Content # << >>
  BY <1>1, <1>4
<1>7. /\ Tail(Content) \in Seq(Msg) /\ Len(Tail(Content)) = entry - 1
      /\ \A i \in 1 .. entry - 1 : Tail(Content)[i] = Content[i + 1]
  BY <1>4, <1>6, HeadTailProperties
<1>8. ASSUME NEW i \in 1 .. entry - 1 PROVE Content'[i] = Tail(Content)[i]
  <2>1. i + 1 \in 1 .. entry
    BY <1>1
  <2>. QED
    BY <1>3, <1>4, <1>5, <1>7, <2>1
<1>9. Content' = Tail(Content)
  BY <1>5, <1>7, <1>8, SeqEqual
<1>. QED
  BY <1>6, <1>9

\* What a step of the mailbox does to the ring.
LEMMA RingStep ==
  ASSUME IInv, [Next]_vars
  PROVE  (\E m \in Msg : Store(m)) \/ Fetch \/ entry' = 0 \/ UNCHANGED boxVars
<1>1. value \in [Thread -> Msg]
  BY DEF IInv, BoxType, LocalType
<1>2. ASSUME NEW t \in Thread, Call(t) \/ Continue(t)
      PROVE  (\E m \in Msg : Store(m)) \/ Fetch \/ entry' = 0 \/ UNCHANGED boxVars
  BY <1>1, <1>2 DEF Call, Continue, Send, SendNow, SendWait, Recv, RecvNow, RecvWait, Suspended,
                    SendRetries, RecvRetries, CallFails, ResetBegin, ResetTurn, ResetEnd
<1>. QED
  BY <1>2 DEF Next, IsrSend, TickStep, FireStep, vars

\* rt_mb_send_wait, rt_mb_recv and the reset implement a bounded queue.
THEOREM Implementation == Spec => ImplementsFifo
<1>1. Init => Queue!Init
  <2>. SUFFICES ASSUME Init PROVE Content = << >>
    BY DEF Queue!Init
  <2>1. RingType /\ entry = 0
    BY InitInv DEF Init, IInv, BoxType
  <2>. QED
    BY <2>1, ContentElements
<1>2. IInv /\ [Next]_vars => [Queue!Next]_Content
  <2>. SUFFICES ASSUME IInv, [Next]_vars PROVE [Queue!Next]_Content
    OBVIOUS
  <2>1. RingType /\ OffsetsMatch
    BY DEF IInv, BoxType
  <2>2. CASE \E m \in Msg : Store(m)
    BY <2>1, <2>2, StoreContent DEF Queue!Next, Queue!Put
  <2>3. CASE Fetch
    BY <2>1, <2>3, FetchContent DEF Queue!Next, Queue!Get
  <2>4. CASE entry' = 0
    <3>1. RingType'
      BY NextInv DEF IInv, BoxType
    <3>2. Content' = << >>
      BY <2>4, <3>1, ContentElements
    <3>. QED
      BY <3>2 DEF Queue!Next, Queue!Clear
  <2>5. CASE UNCHANGED boxVars
    BY <2>5 DEF boxVars, Content
  <2>. QED
    BY <2>2, <2>3, <2>4, <2>5, RingStep
<1>. QED
  BY <1>1, <1>2, InductiveInvariant, PTL DEF Spec, ImplementsFifo, Queue!Spec
=============================================================================
