---------------------------- MODULE MirrorProofs ----------------------------
(***************************************************************************)
(* Proofs about Mirror, for any number of notifications, callers, events,  *)
(* calls, faults and seconds.                                              *)
(***************************************************************************)
EXTENDS Mirror, FiniteSetTheorems, SequenceTheorems, TLAPS

(***************************************************************************)
(* Sequences.                                                              *)
(***************************************************************************)

\* Appending adds one element, at the end.
LEMMA Appended ==
    ASSUME NEW S, NEW s \in Seq(S), NEW x \in S
    PROVE  /\ Append(s, x) \in Seq(S) /\ Len(Append(s, x)) = Len(s) + 1
           /\ DOMAIN s = 1..Len(s) /\ DOMAIN Append(s, x) = 1..(Len(s) + 1)
           /\ \A i \in 1..Len(s) : Append(s, x)[i] = s[i]
           /\ Append(s, x)[Len(s) + 1] = x
  OBVIOUS

\* The rest of a sequence has its elements but the first.
LEMMA Rest ==
    ASSUME NEW S, NEW s \in Seq(S), s # <<>>
    PROVE  /\ Tail(s) \in Seq(S) /\ Len(Tail(s)) = Len(s) - 1 /\ Len(s) \in Nat \ {0}
           /\ DOMAIN s = 1..Len(s) /\ DOMAIN Tail(s) = 1..(Len(s) - 1)
           /\ Head(s) = s[1] /\ Head(s) \in S
           /\ \A i \in 1..(Len(s) - 1) : Tail(s)[i] = s[i + 1]
  OBVIOUS

\* The first n elements.
LEMMA Prefix ==
    ASSUME NEW S, NEW s \in Seq(S), NEW n \in 0..Len(s)
    PROVE  /\ SubSeq(s, 1, n) \in Seq(S) /\ Len(SubSeq(s, 1, n)) = n
           /\ \A i \in 1..n : SubSeq(s, 1, n)[i] = s[i]
  OBVIOUS

\* Without takes out the element with the id, if there is one.
LEMMA TakenOut ==
    ASSUME NEW S, NEW s \in Seq(S), NEW id,
           \A i, j \in 1..Len(s) : s[i].id = s[j].id => i = j
    PROVE  /\ Without(s, id) \in Seq(S)
           /\ \E k \in 1..(Len(s) + 1) :
                /\ Len(Without(s, id)) = IF k = Len(s) + 1 THEN Len(s) ELSE Len(s) - 1
                /\ \A i \in 1..Len(Without(s, id)) :
                     Without(s, id)[i] = s[IF i < k THEN i ELSE i + 1]
           /\ \A i \in 1..Len(Without(s, id)) : Without(s, id)[i].id # id
  <1>1. DOMAIN s = 1..Len(s) /\ Len(s) \in Nat
    OBVIOUS
  <1>2. CASE \E j \in 1..Len(s) : s[j].id = id
    <2> DEFINE k == CHOOSE i \in DOMAIN s : s[i].id = id
    <2>1. k \in 1..Len(s) /\ s[k].id = id
      BY <1>1, <1>2
    <2>2. Without(s, id) = SubSeq(s, 1, k - 1) \o SubSeq(s, k + 1, Len(s))
      BY <1>1, <1>2, Zenon DEF Without
    <2> HIDE DEF k
    <2> DEFINE a == SubSeq(s, 1, k - 1)
               b == SubSeq(s, k + 1, Len(s))
    <2>3. /\ a \in Seq(S) /\ Len(a) = k - 1 /\ \A i \in 1..(k - 1) : a[i] = s[i]
      BY <1>1, <2>1
    <2>4. /\ b \in Seq(S) /\ Len(b) = Len(s) - k /\ \A i \in 1..(Len(s) - k) : b[i] = s[i + k]
      <3>1. k + 1 \in Int /\ Len(s) \in Int /\ \A i \in (k + 1)..Len(s) : s[i] \in S
        BY <1>1, <2>1
      <3>2. /\ b \in Seq(S) /\ Len(b) = IF k + 1 <= Len(s) THEN Len(s) - (k + 1) + 1 ELSE 0
            /\ \A i \in 1..(Len(s) - (k + 1) + 1) : b[i] = s[(k + 1) + i - 1]
        BY <3>1, SubSeqProperties
      <3> HIDE DEF b
      <3>3. Len(b) = Len(s) - k
        <4>1. CASE k + 1 <= Len(s)
          <5>1. Len(b) = Len(s) - (k + 1) + 1
            BY <3>2, <4>1
          <5> QED BY <1>1, <2>1, <5>1
        <4>2. CASE ~(k + 1 <= Len(s))
          <5>1. Len(b) = 0
            BY <3>2, <4>2
          <5>2. k \in Int /\ Len(s) \in Int /\ k <= Len(s)
            BY <1>1, <2>1
          <5>3. k = Len(s)
            BY <4>2, <5>2
          <5> QED BY <5>1, <5>2, <5>3
        <4> QED BY <4>1, <4>2
      <3>4. \A i \in 1..(Len(s) - k) : b[i] = s[i + k]
        <4> TAKE i \in 1..(Len(s) - k)
        <4>1. i \in 1..(Len(s) - (k + 1) + 1) /\ (k + 1) + i - 1 = i + k
          BY <1>1, <2>1
        <4> QED BY <3>2, <4>1
      <3> QED BY <3>2, <3>3, <3>4
    <2> HIDE DEF a, b
    <2>5. /\ a \o b \in Seq(S) /\ Len(a \o b) = Len(s) - 1
          /\ \A i \in 1..(Len(s) - 1) : (a \o b)[i] = s[IF i < k THEN i ELSE i + 1]
      <3>1. a \o b \in Seq(S) /\ Len(a \o b) = Len(s) - 1
        <4>1. a \o b \in Seq(S) /\ Len(a \o b) = Len(a) + Len(b)
          BY <2>3, <2>4, ConcatProperties
        <4> QED BY <1>1, <2>1, <2>3, <2>4, <4>1
      <3>2. ASSUME NEW i \in 1..(Len(s) - 1) PROVE (a \o b)[i] = s[IF i < k THEN i ELSE i + 1]
        <4>1. CASE i < k
          BY <1>1, <2>1, <2>3, <2>4, <4>1
        <4>2. CASE ~(i < k)
          <5>1. (a \o b)[i] = b[i - (k - 1)] /\ i - (k - 1) \in 1..(Len(s) - k)
            BY <1>1, <2>1, <2>3, <2>4, <4>2
          <5>2. (i - (k - 1)) + k = i + 1
            BY <1>1, <2>1
          <5> QED BY <2>4, <4>2, <5>1, <5>2
        <4> QED BY <4>1, <4>2
      <3> QED BY <3>1, <3>2
    <2>6. ASSUME NEW i \in 1..(Len(s) - 1) PROVE (a \o b)[i].id # id
      <3>1. (IF i < k THEN i ELSE i + 1) \in 1..Len(s) /\ (IF i < k THEN i ELSE i + 1) # k
        BY <1>1, <2>1
      <3> QED BY <2>1, <2>5, <3>1
    <2> DEFINE w == a \o b
    <2>7. /\ w \in Seq(S) /\ Len(w) = Len(s) - 1 /\ k # Len(s) + 1 /\ k \in 1..(Len(s) + 1)
          /\ \A i \in 1..Len(w) : w[i] = s[IF i < k THEN i ELSE i + 1]
          /\ \A i \in 1..Len(w) : w[i].id # id
      BY <1>1, <2>1, <2>5, <2>6
    <2>8. Without(s, id) = w
      BY <2>2 DEF a, b
    <2> HIDE DEF w
    <2> QED BY <2>7, <2>8
  <1>3. CASE ~\E j \in 1..Len(s) : s[j].id = id
    <2>1. Without(s, id) = s
      BY <1>1, <1>3, Zenon DEF Without
    <2>2. \A i \in 1..Len(s) : s[i] = s[IF i < Len(s) + 1 THEN i ELSE i + 1]
      BY <1>1
    <2>3. Len(s) + 1 \in 1..(Len(s) + 1)
      BY <1>1
    <2> QED BY <1>1, <1>3, <2>1, <2>2, <2>3
  <1> QED BY <1>2, <1>3

\* What is left is a part of what there was, no longer, and ids stay distinct.
LEMMA LeftOver ==
    ASSUME NEW S, NEW s \in Seq(S), NEW id,
           \A i, j \in 1..Len(s) : s[i].id = s[j].id => i = j
    PROVE  /\ Without(s, id) \in Seq(S) /\ Len(Without(s, id)) <= Len(s)
           /\ \A i \in 1..Len(Without(s, id)) : Without(s, id)[i].id # id
           /\ \A i, j \in 1..Len(Without(s, id)) : i < j =>
                \E k, l \in 1..Len(s) :
                  k < l /\ Without(s, id)[i] = s[k] /\ Without(s, id)[j] = s[l]
           /\ \A i, j \in 1..Len(Without(s, id)) :
                Without(s, id)[i].id = Without(s, id)[j].id => i = j
  <1> DEFINE w == Without(s, id)
  <1>1. /\ w \in Seq(S) /\ Len(w) \in Nat /\ Len(s) \in Nat
        /\ \A i \in 1..Len(w) : w[i].id # id
    BY TakenOut
  <1>2. PICK k \in 1..(Len(s) + 1) :
          /\ Len(w) = IF k = Len(s) + 1 THEN Len(s) ELSE Len(s) - 1
          /\ \A i \in 1..Len(w) : w[i] = s[IF i < k THEN i ELSE i + 1]
    BY TakenOut
  <1> HIDE DEF w
  <1>3. ASSUME NEW i \in 1..Len(w), NEW j \in 1..Len(w), i < j
        PROVE  \E m, l \in 1..Len(s) : m < l /\ w[i] = s[m] /\ w[j] = s[l]
    <2> DEFINE m == IF i < k THEN i ELSE i + 1
               l == IF j < k THEN j ELSE j + 1
    <2>1. m \in 1..Len(s) /\ l \in 1..Len(s) /\ m < l
      BY <1>1, <1>2, <1>3
    <2>2. w[i] = s[m] /\ w[j] = s[l]
      BY <1>2
    <2> QED BY <2>1, <2>2
  <1>4. ASSUME NEW i \in 1..Len(w), NEW j \in 1..Len(w), w[i].id = w[j].id, i < j
        PROVE  FALSE
    <2>1. PICK m, l \in 1..Len(s) : m < l /\ w[i] = s[m] /\ w[j] = s[l]
      BY <1>3, <1>4
    <2> QED BY <1>4, <2>1
  <1>5. \A i, j \in 1..Len(w) : w[i].id = w[j].id => i = j
    BY <1>1, <1>4
  <1>6. Len(w) <= Len(s)
    BY <1>1, <1>2
  <1> QED BY <1>1, <1>3, <1>5, <1>6 DEF w

(***************************************************************************)
(* Types.                                                                  *)
(***************************************************************************)

Dnds == [type : {"dnd"}, on : OnOff, at : 1..MaxTime]

CountOK ==
  now \in 1..MaxTime /\ events \in 0..MaxEvents /\ calls \in 0..MaxCalls /\ faults \in 0..MaxFaults

SetOK == st \in AllSettings /\ offBy \in {"mac", "android"}

ItemsOK ==
  /\ items \in Seq(Rows) /\ Len(items) <= MaxItems
  /\ \A i, j \in 1..Len(items) : items[i].id = items[j].id => i = j
  /\ unseen \in Nat

QueueOK == queue \in Seq(Ids) /\ Len(queue) <= MaxQueue /\ owed \subseteq Ids

\* What is shown of the player and of the switch; no state comes from the future.
ShowOK == playback \in 0..MaxEvents /\ dnd \in [on : OnOff, at : 0..MaxTime] /\ dnd.at <= now

Timely(m) == m.type \in {"post", "dnd"} => m.at <= now

ToMacOK ==
  /\ toMac \in Seq(FromPhone)
  /\ \A i \in 1..Len(toMac) : Timely(toMac[i])
  /\ ~ws => /\ \A i \in 1..Len(toMac) : toMac[i] \in Posts
            /\ \A i, j \in 1..Len(toMac) :
                 i < j => toMac[i].at <= toMac[j].at /\ toMac[i].id # toMac[j].id

ToPhoneOK == ws \in BOOLEAN /\ toPhone \in Seq(FromMac) /\ (~ws => toPhone = <<>>)

\* What the phone has sent of its player is not newer than what it plays.
PhoneOK ==
  /\ shade \in [Ids -> 0..MaxEvents]
  /\ track \in [cur : 0..MaxEvents, sent : 0..MaxEvents]
  /\ track.sent <= track.cur /\ track.cur <= events
  /\ pdnd \in [on : OnOff, sending : OnOff \cup {"none"}, sent : OnOff]

\* Where each goroutine is, and what it holds there.
PlaceOK(p) ==
  /\ proc[p].pc \in {"idle", "flush", "dismissing"}
                      \cup IF p = Reader THEN {"post", "play"} ELSE {"clear", "clearplay", "dnd"}
  /\ At(p, "post") => proc[p].arg[1] \in Posts
  /\ At(p, "play") => proc[p].arg[1] \in Plays
  /\ At(p, "dnd") => proc[p].arg[1] \in OnOff
  /\ At(p, "dismissing") => proc[p].arg \in Seq(Ids) \ {<<>>}

ProcOK == DOMAIN proc = Procs /\ \A p \in Procs : PlaceOK(p)

TypeInv ==
  CountOK /\ SetOK /\ ItemsOK /\ QueueOK /\ ShowOK /\ ToMacOK /\ ToPhoneOK /\ PhoneOK /\ ProcOK

\* The parts make up TypeOK.
LEMMA TypesFit == TypeInv => TypeOK
  <1> SUFFICES ASSUME TypeInv PROVE TypeOK
    OBVIOUS
  <1>1. /\ DOMAIN items = 1..Len(items) /\ DOMAIN toMac = 1..Len(toMac)
    BY DEF TypeInv, ItemsOK, ToMacOK
  <1>2. ~ws => OutboxOK
    BY <1>1 DEF TypeInv, ToMacOK, OutboxOK
  <1>3. \A p \in Procs : At(p, "dismissing") => proc[p].arg \in Seq(Ids) \ {<<>>}
    BY DEF TypeInv, ProcOK, PlaceOK
  <1>4. \A i, j \in DOMAIN items : items[i].id = items[j].id => i = j
    BY <1>1 DEF TypeInv, ItemsOK
  <1> QED
    BY <1>2, <1>3, <1>4 DEF TypeInv, CountOK, SetOK, ItemsOK, QueueOK, ShowOK, ToMacOK, ToPhoneOK,
                            PhoneOK, TypeOK

\* The start.
LEMMA InitTypeInv == Init => TypeInv
  <1> SUFFICES ASSUME Init PROVE TypeInv
    OBVIOUS
  <1>1. CountOK /\ ShowOK /\ PhoneOK
    BY BoundsAssumption DEF Init, CountOK, ShowOK, PhoneOK, OnOff
  <1>3. SetOK
    BY DEF Init, SetOK, AllSettings, DefaultAppSettings
  <1>4. ItemsOK /\ QueueOK
    BY BoundsAssumption DEF Init, ItemsOK, QueueOK
  <1>5. ToMacOK /\ ToPhoneOK
    <2>1. toMac = <<>> /\ toPhone = <<>> /\ ws \in BOOLEAN
      BY DEF Init
    <2>2. toMac \in Seq(FromPhone) /\ toPhone \in Seq(FromMac) /\ Len(toMac) = 0
      BY <2>1
    <2>3. \A i : i \notin 1..Len(toMac)
      BY <2>2
    <2> QED BY <2>1, <2>2, <2>3, Zenon DEF ToMacOK, ToPhoneOK
  <1>2. ProcOK
    BY DEF Init, ProcOK, PlaceOK, At, Idle
  <1> QED BY <1>1, <1>2, <1>3, <1>4, <1>5 DEF TypeInv

\* A goroutine that moves leaves the others where they are.
LEMMA Moved ==
    ASSUME ProcOK, NEW p \in Procs, NEW pc, NEW arg, Goto(p, pc, arg)
    PROVE  /\ DOMAIN proc' = Procs
           /\ proc'[p].pc = pc /\ proc'[p].arg = arg
           /\ \A q \in Procs : q # p => proc'[q] = proc[q]
  <1>1. proc' = [proc EXCEPT ![p] = [pc |-> pc, arg |-> arg]] /\ DOMAIN proc = Procs
    BY DEF Goto, ProcOK
  <1> QED BY <1>1

\* ... and all stay well placed if it is.
LEMMA MovedOK ==
    ASSUME ProcOK, NEW p \in Procs, NEW pc, NEW arg, Goto(p, pc, arg),
           \/ pc \in {"idle", "flush"}
           \/ pc = "dismissing" /\ arg \in Seq(Ids) \ {<<>>}
           \/ p = Reader /\ pc = "post" /\ arg[1] \in Posts
           \/ p = Reader /\ pc = "play" /\ arg[1] \in Plays
           \/ p # Reader /\ pc \in {"clear", "clearplay"}
           \/ p # Reader /\ pc = "dnd" /\ arg[1] \in OnOff
    PROVE  ProcOK'
  <1>1. /\ DOMAIN proc' = Procs /\ proc'[p].pc = pc /\ proc'[p].arg = arg
        /\ \A q \in Procs : q # p => proc'[q] = proc[q]
    BY Moved
  <1>2. PlaceOK(p)'
    BY <1>1 DEF PlaceOK, At
  <1>3. \A q \in Procs : q # p => PlaceOK(q)'
    BY <1>1 DEF ProcOK, PlaceOK, At
  <1> QED BY <1>1, <1>2, <1>3 DEF ProcOK

\* A goroutine that ends its work is idle.
LEMMA Finished == \A p : Finish(p) => Goto(p, "idle", <<>>)
  BY DEF Finish, Goto, Idle

LEMMA FinishOK == ASSUME ProcOK, NEW p \in Procs, Finish(p) PROVE ProcOK'
  BY MovedOK, Finished

\* The first frame of the phone.
LEMMA FirstFrame ==
    ASSUME ToMacOK, toMac # <<>>
    PROVE  /\ Head(toMac) \in FromPhone /\ Timely(Head(toMac))
           /\ Head(toMac).type = "post" => Head(toMac) \in Posts
           /\ Head(toMac).type = "play" => Head(toMac) \in Plays
           /\ Head(toMac).type = "dnd" => Head(toMac) \in Dnds /\ Head(toMac).at <= now
           /\ Head(toMac).type = "dismiss" => Head(toMac).id \in Ids
  <1>1. Head(toMac) \in FromPhone /\ Head(toMac) = toMac[1] /\ 1 \in 1..Len(toMac)
    BY Rest DEF ToMacOK
  <1>2. Timely(Head(toMac))
    BY <1>1 DEF ToMacOK
  <1> QED BY <1>1, <1>2 DEF FromPhone, Posts, Plays, Dnds, Timely

\* The Mac takes a frame.
LEMMA TakenFrame ==
    ASSUME ToMacOK, ws, toMac # <<>>, toMac' = Tail(toMac), UNCHANGED <<ws, now>>
    PROVE  ToMacOK'
  <1>1. /\ Tail(toMac) \in Seq(FromPhone) /\ Len(Tail(toMac)) = Len(toMac) - 1
        /\ Len(toMac) \in Nat \ {0}
        /\ \A i \in 1..(Len(toMac) - 1) : Tail(toMac)[i] = toMac[i + 1]
    BY Rest DEF ToMacOK
  <1>2. \A i \in 1..Len(Tail(toMac)) : i + 1 \in 1..Len(toMac) /\ Tail(toMac)[i] = toMac[i + 1]
    BY <1>1
  <1> QED BY <1>1, <1>2 DEF ToMacOK, Timely

\* The phone sends a frame over the socket.
LEMMA SentFrame ==
    ASSUME ToMacOK, ws, NEW m \in FromPhone, Timely(m),
           toMac' = Append(toMac, m), UNCHANGED <<ws, now>>
    PROVE  ToMacOK'
  <1>1. /\ Append(toMac, m) \in Seq(FromPhone) /\ Len(Append(toMac, m)) = Len(toMac) + 1
        /\ \A i \in 1..Len(toMac) : Append(toMac, m)[i] = toMac[i]
        /\ Append(toMac, m)[Len(toMac) + 1] = m
    BY Appended DEF ToMacOK
  <1>2. Len(toMac) \in Nat
    BY DEF ToMacOK
  <1>3. \A i \in 1..Len(Append(toMac, m)) :
          (i \in 1..Len(toMac) /\ Append(toMac, m)[i] = toMac[i]) \/ Append(toMac, m)[i] = m
    BY <1>1, <1>2
  <1> QED BY <1>1, <1>3 DEF ToMacOK, Timely

\* The mirror without one row.
LEMMA ItemsWithout ==
    ASSUME ItemsOK, NEW id
    PROVE  /\ Without(items, id) \in Seq(Rows) /\ Len(Without(items, id)) <= MaxItems
           /\ Len(Without(items, id)) <= Len(items)
           /\ \A i, j \in 1..Len(Without(items, id)) :
                Without(items, id)[i].id = Without(items, id)[j].id => i = j
  <1>1. items \in Seq(Rows) /\ \A i, j \in 1..Len(items) : items[i].id = items[j].id => i = j
    BY DEF ItemsOK
  <1>2. /\ Without(items, id) \in Seq(Rows) /\ Len(Without(items, id)) <= Len(items)
        /\ \A i, j \in 1..Len(Without(items, id)) :
             Without(items, id)[i].id = Without(items, id)[j].id => i = j
    BY <1>1, LeftOver
  <1>3. Len(items) \in Nat /\ Len(Without(items, id)) \in Nat
    BY <1>1, <1>2
  <1> QED BY <1>2, <1>3, BoundsAssumption DEF ItemsOK

\* What none of a frame's handlers on the Mac touches.
LEMMA ReaderTypeInv ==
    ASSUME TypeInv, IngestPost \/ IngestDismiss \/ IngestPlayback \/ IngestDND
    PROVE  TypeInv'
  <1> USE DEF TypeInv
  <1>0. ws /\ toMac # <<>> /\ toMac' = Tail(toMac) /\ Reader \in Procs
    BY DEF IngestPost, IngestDismiss, IngestPlayback, IngestDND, Frame, Procs
  <1>1. CASE IngestPost
    <2>1. ToMacOK' /\ Head(toMac) \in Posts
      BY <1>0, <1>1, TakenFrame, FirstFrame DEF IngestPost, Frame, boundVars
    <2>2. ProcOK'
      <3>1. Goto(Reader, "post", <<Head(toMac)>>) \/ UNCHANGED proc
        BY <1>1 DEF IngestPost
      <3>2. CASE Goto(Reader, "post", <<Head(toMac)>>)
        <4>1. <<Head(toMac)>>[1] \in Posts
          BY <2>1
        <4> QED BY <1>0, <3>2, <4>1, MovedOK
      <3> QED BY <3>1, <3>2 DEF ProcOK, PlaceOK, At
    <2>3. CountOK' /\ SetOK' /\ ItemsOK' /\ QueueOK' /\ ShowOK' /\ ToPhoneOK' /\ PhoneOK'
      BY <1>1 DEF IngestPost, boundVars, notifVars, phoneVars, CountOK, SetOK, ItemsOK, QueueOK,
                  ShowOK, ToPhoneOK, PhoneOK
    <2> QED BY <2>1, <2>2, <2>3
  <1>2. CASE IngestDismiss
    <2>1. ToMacOK'
      BY <1>0, <1>2, TakenFrame DEF IngestDismiss, boundVars
    <2>2. ItemsOK'
      <3>1. items' = Without(items, Head(toMac).id) /\ unseen' = unseen
        BY <1>2 DEF IngestDismiss
      <3> QED BY <3>1, ItemsWithout DEF ItemsOK
    <2>3. CountOK' /\ SetOK' /\ QueueOK' /\ ShowOK' /\ ToPhoneOK' /\ PhoneOK' /\ ProcOK'
      BY <1>2 DEF IngestDismiss, boundVars, phoneVars, CountOK, SetOK, QueueOK,
                  ShowOK, ToPhoneOK, PhoneOK, ProcOK, PlaceOK, At
    <2> QED BY <2>1, <2>2, <2>3
  <1>3. CASE IngestPlayback
    <2>1. ToMacOK' /\ Head(toMac) \in Plays
      BY <1>0, <1>3, TakenFrame, FirstFrame DEF IngestPlayback, Frame, boundVars
    <2>2. ProcOK'
      <3>1. Goto(Reader, "play", <<Head(toMac)>>) \/ UNCHANGED proc
        BY <1>3 DEF IngestPlayback
      <3>2. CASE Goto(Reader, "play", <<Head(toMac)>>)
        <4>1. <<Head(toMac)>>[1] \in Plays
          BY <2>1
        <4> QED BY <1>0, <3>2, <4>1, MovedOK
      <3> QED BY <3>1, <3>2 DEF ProcOK, PlaceOK, At
    <2>3. CountOK' /\ SetOK' /\ ItemsOK' /\ QueueOK' /\ ShowOK' /\ ToPhoneOK' /\ PhoneOK'
      BY <1>3 DEF IngestPlayback, boundVars, notifVars, phoneVars, CountOK, SetOK, ItemsOK, QueueOK,
                  ShowOK, ToPhoneOK, PhoneOK
    <2> QED BY <2>1, <2>2, <2>3
  <1>4. CASE IngestDND
    <2>1. ToMacOK' /\ Head(toMac) \in Dnds /\ Head(toMac).at <= now
      BY <1>0, <1>4, TakenFrame, FirstFrame DEF IngestDND, Frame, boundVars
    <2>2. ShowOK'
      BY <1>4, <2>1 DEF IngestDND, ShowOK, Dnds, boundVars
    <2>3. CountOK' /\ SetOK' /\ ItemsOK' /\ QueueOK' /\ ToPhoneOK' /\ PhoneOK' /\ ProcOK'
      BY <1>4 DEF IngestDND, boundVars, notifVars, phoneVars, CountOK, SetOK, ItemsOK, QueueOK,
                  ToPhoneOK, PhoneOK, ProcOK, PlaceOK, At
    <2> QED BY <2>1, <2>2, <2>3
  <1> QED BY <1>1, <1>2, <1>3, <1>4

\* Post puts one row to the front, in place of the older one of its id.
LEMMA PostItems ==
    ASSUME ItemsOK, NEW row \in Rows,
           NEW next, next = <<row>> \o Without(items, row.id)
    PROVE  LET cut == SubSeq(next, 1, IF Len(next) > MaxItems THEN MaxItems ELSE Len(next))
           IN  /\ cut \in Seq(Rows) /\ Len(cut) <= MaxItems
               /\ Len(cut) <= Len(items) + 1
               /\ \A i, j \in 1..Len(cut) : cut[i].id = cut[j].id => i = j
  <1> DEFINE w == Without(items, row.id)
             n == IF Len(next) > MaxItems THEN MaxItems ELSE Len(next)
             cut == SubSeq(next, 1, n)
  <1>1. /\ w \in Seq(Rows) /\ Len(w) <= Len(items)
        /\ \A i \in 1..Len(w) : w[i].id # row.id
        /\ \A i, j \in 1..Len(w) : w[i].id = w[j].id => i = j
    BY LeftOver DEF ItemsOK
  <1>2. next = <<row>> \o w
    OBVIOUS
  <1> HIDE DEF w
  <1>3. /\ next \in Seq(Rows) /\ Len(next) = Len(w) + 1 /\ Len(w) \in Nat
        /\ \A i \in 1..Len(next) : next[i] = IF i = 1 THEN row ELSE w[i - 1]
    <2>1. <<row>> \in Seq(Rows) /\ Len(<<row>>) = 1 /\ <<row>>[1] = row
      OBVIOUS
    <2> DEFINE r == <<row>>
    <2>2. r \in Seq(Rows) /\ w \in Seq(Rows) /\ next = r \o w
      BY <1>1, <1>2
    <2>3. Len(r) = 1 /\ r[1] = row
      OBVIOUS
    <2> HIDE DEF r
    <2>4. /\ r \o w \in Seq(Rows) /\ Len(r \o w) = Len(r) + Len(w)
          /\ \A i \in 1..(Len(r) + Len(w)) : (r \o w)[i] = IF i <= Len(r) THEN r[i] ELSE w[i - Len(r)]
      BY <2>2, ConcatProperties, Zenon
    <2>5. Len(w) \in Nat /\ Len(r \o w) = Len(w) + 1
      BY <1>1, <2>3, <2>4
    <2>6. \A i \in 1..Len(r \o w) : (r \o w)[i] = IF i = 1 THEN row ELSE w[i - 1]
      <3> TAKE i \in 1..Len(r \o w)
      <3>1. (r \o w)[i] = IF i <= 1 THEN r[i] ELSE w[i - 1]
        BY <2>3, <2>4
      <3> QED BY <2>3, <2>5, <3>1
    <2> QED BY <2>2, <2>4, <2>5, <2>6
  <1>4. n \in Nat /\ n <= MaxItems /\ n <= Len(next) /\ MaxItems \in Nat
    BY <1>3, BoundsAssumption
  <1>5. /\ cut \in Seq(Rows) /\ Len(cut) = n
        /\ \A i \in 1..n : cut[i] = next[i]
    <2>1. next \in Seq(Rows) /\ n \in 0..Len(next)
      BY <1>3, <1>4
    <2> HIDE DEF n
    <2> QED BY <2>1, Prefix
  <1> HIDE DEF n, cut
  <1>6. ASSUME NEW i \in 1..n, NEW j \in 1..n, cut[i].id = cut[j].id
        PROVE  i = j
    <2>1. i \in 1..Len(next) /\ j \in 1..Len(next) /\ next[i].id = next[j].id
      BY <1>3, <1>4, <1>5, <1>6
    <2>2. ASSUME NEW k \in 1..Len(next), NEW l \in 1..Len(next), k = 1, l # 1
          PROVE  next[k].id # next[l].id
      <3>1. l - 1 \in 1..Len(w) /\ next[k] = row /\ next[l] = w[l - 1]
        BY <1>3, <2>2
      <3> QED BY <1>1, <3>1
    <2>3. CASE i # 1 /\ j # 1
      <3>1. i - 1 \in 1..Len(w) /\ j - 1 \in 1..Len(w) /\ w[i - 1].id = w[j - 1].id
        BY <1>3, <2>1, <2>3
      <3>2. i - 1 = j - 1
        BY <1>1, <3>1
      <3> QED BY <3>2
    <2> QED BY <2>1, <2>2, <2>3
  <1>7. Len(items) \in Nat
    BY DEF ItemsOK
  <1> QED BY <1>1, <1>3, <1>4, <1>5, <1>6, <1>7 DEF cut, n

LEMMA PostTypeInv == ASSUME TypeInv, Post PROVE TypeInv'
  <1> USE DEF TypeInv
  <1> DEFINE m == proc[Reader].arg[1]
             row == [id |-> m.id, ver |-> m.ver]
             next == <<row>> \o Without(items, m.id)
  <1>1. At(Reader, "post") /\ Finish(Reader) /\ Reader \in Procs
    BY DEF Post, Procs
  <1>2. m \in Posts /\ row \in Rows /\ row.id = m.id
    BY <1>1 DEF ProcOK, PlaceOK, Posts, Rows
  <1>3. ItemsOK'
    <2>1. \/ UNCHANGED <<items, unseen>>
          \/ /\ items' = SubSeq(next, 1, IF Len(next) > MaxItems THEN MaxItems ELSE Len(next))
             /\ unseen' \in {unseen, unseen + 1}
      BY DEF Post
    <2>2. next = <<row>> \o Without(items, row.id)
      BY <1>2
    <2> HIDE DEF row, next
    <2>3. CASE UNCHANGED <<items, unseen>>
      BY <2>3 DEF ItemsOK
    <2>4. CASE /\ items' = SubSeq(next, 1, IF Len(next) > MaxItems THEN MaxItems ELSE Len(next))
               /\ unseen' \in {unseen, unseen + 1}
      <3> DEFINE cut == SubSeq(next, 1, IF Len(next) > MaxItems THEN MaxItems ELSE Len(next))
      <3>1. /\ cut \in Seq(Rows) /\ Len(cut) <= MaxItems
            /\ \A i, j \in 1..Len(cut) : cut[i].id = cut[j].id => i = j
        BY <1>2, <2>2, PostItems
      <3>2. items' = cut /\ unseen' \in Nat
        BY <2>4 DEF ItemsOK
      <3> HIDE DEF cut
      <3> QED BY <3>1, <3>2 DEF ItemsOK
    <2> QED BY <2>1, <2>3, <2>4
  <1>4. ProcOK'
    BY <1>1, FinishOK
  <1>5. CountOK' /\ SetOK' /\ QueueOK' /\ ShowOK' /\ ToMacOK' /\ ToPhoneOK' /\ PhoneOK'
    BY DEF Post, boundVars, phoneVars, wireVars, CountOK, SetOK, QueueOK, ShowOK, ToMacOK, Timely,
           ToPhoneOK, PhoneOK
  <1> QED BY <1>3, <1>4, <1>5

LEMMA ApplyTypeInv == ASSUME TypeInv, ApplyPlayback PROVE TypeInv'
  <1> USE DEF TypeInv
  <1>1. At(Reader, "play") /\ Finish(Reader) /\ Reader \in Procs
    BY DEF ApplyPlayback, Procs
  <1>2. proc[Reader].arg[1].ver \in 1..MaxEvents
    BY <1>1 DEF ProcOK, PlaceOK, Plays
  <1>3. ShowOK'
    BY <1>2 DEF ApplyPlayback, ShowOK, boundVars
  <1>4. ProcOK'
    BY <1>1, FinishOK
  <1>5. CountOK' /\ SetOK' /\ ItemsOK' /\ QueueOK' /\ ToMacOK' /\ ToPhoneOK' /\ PhoneOK'
    BY DEF ApplyPlayback, boundVars, notifVars, phoneVars, wireVars, CountOK, SetOK, ItemsOK, QueueOK,
           ToMacOK, Timely, ToPhoneOK, PhoneOK
  <1> QED BY <1>3, <1>4, <1>5

\* The clock.
LEMMA TickTypeInv == ASSUME TypeInv, Tick PROVE TypeInv'
  <1> USE DEF TypeInv
  <1>1. now \in Nat /\ now' = now + 1 /\ now' \in 1..MaxTime
    BY BoundsAssumption DEF Tick, CountOK
  <1>2. CountOK' /\ ShowOK'
    BY <1>1 DEF Tick, CountOK, ShowOK
  <1>3. ToMacOK'
    <2>1. toMac' = toMac /\ ws' = ws
      BY DEF Tick, wireVars
    <2>2. \A i \in 1..Len(toMac) : Timely(toMac[i])'
      <3> TAKE i \in 1..Len(toMac)
      <3>1. toMac[i] \in FromPhone /\ Timely(toMac[i])
        BY DEF ToMacOK
      <3>2. toMac[i].type \in {"post", "dnd"} => toMac[i].at \in Nat
        BY <3>1, BoundsAssumption DEF FromPhone, Posts, Plays
      <3> QED BY <1>1, <2>1, <3>1, <3>2 DEF Timely
    <2> QED BY <2>1, <2>2 DEF ToMacOK
  <1>4. SetOK' /\ ItemsOK' /\ QueueOK' /\ ToPhoneOK' /\ PhoneOK' /\ ProcOK'
    BY DEF Tick, notifVars, phoneVars, wireVars, SetOK, ItemsOK, QueueOK, ToPhoneOK, PhoneOK,
           ProcOK, PlaceOK, At
  <1> QED BY <1>2, <1>3, <1>4

(* The calls of the panes. *)

LEMMA Caller == ASSUME NEW c \in Callers PROVE c \in Procs /\ c # Reader
  BY ProcsAssumption DEF Procs

\* The Mac sends a frame over the socket.
LEMMA SentToPhone ==
    ASSUME ToPhoneOK, ws, NEW m \in FromMac, toPhone' = Append(toPhone, m), UNCHANGED ws
    PROVE  ToPhoneOK'
  <1>1. Append(toPhone, m) \in Seq(FromMac)
    BY Appended DEF ToPhoneOK
  <1> QED BY <1>1 DEF ToPhoneOK

\* The queue with one more id.
LEMMA QueuedOK ==
    ASSUME QueueOK, NEW id \in Ids
    PROVE  /\ Queued(id) \in Seq(Ids) /\ Len(Queued(id)) <= MaxQueue
           /\ DOMAIN queue = 1..Len(queue) /\ Len(queue) \in Nat /\ Dropped(id) \subseteq Ids
           /\ DOMAIN Queued(id) = 1..Len(Queued(id)) /\ Queued(id)[Len(Queued(id))] = id
           /\ Len(Queued(id)) \in 1..Len(Queued(id))
           /\ \A i \in 1..Len(queue) :
                queue[i] \in Dropped(id) \/ \E j \in 1..Len(Queued(id)) : Queued(id)[j] = queue[i]
  <1> DEFINE q == Append(queue, id)
  <1>1. /\ q \in Seq(Ids) /\ Len(q) = Len(queue) + 1 /\ DOMAIN q = 1..(Len(queue) + 1)
        /\ \A i \in 1..Len(queue) : q[i] = queue[i]
        /\ q[Len(queue) + 1] = id
        /\ DOMAIN queue = 1..Len(queue)
    BY Appended DEF QueueOK
  <1>2. Len(queue) \in Nat /\ Len(queue) <= MaxQueue /\ MaxQueue \in Nat \ {0}
    BY BoundsAssumption DEF QueueOK
  <1>3. Queued(id) = IF Len(q) > MaxQueue THEN Tail(q) ELSE q
    BY DEF Queued
  <1> HIDE DEF q
  <1>4. CASE Len(q) > MaxQueue
    <2>1. /\ Tail(q) \in Seq(Ids) /\ Len(Tail(q)) = Len(queue)
          /\ DOMAIN Tail(q) = 1..Len(queue)
          /\ \A i \in 1..Len(queue) : Tail(q)[i] = q[i + 1]
      <3>1. q # <<>>
        BY <1>1, <1>2
      <3>2. /\ Tail(q) \in Seq(Ids) /\ Len(Tail(q)) = Len(q) - 1
            /\ DOMAIN Tail(q) = 1..(Len(q) - 1)
            /\ \A i \in 1..(Len(q) - 1) : Tail(q)[i] = q[i + 1]
        BY <1>1, <3>1, Rest
      <3>3. Len(q) - 1 = Len(queue)
        BY <1>1, <1>2
      <3> QED BY <3>2, <3>3
    <2>2. Queued(id) = Tail(q)
      BY <1>3, <1>4
    <2>3. Len(queue) = MaxQueue /\ Dropped(id) = {queue[1]} /\ queue[1] \in Ids
      <3>1. Len(queue) = MaxQueue /\ 1 \in 1..Len(queue)
        <4>1. Len(q) = Len(queue) + 1
          BY <1>1
        <4> QED BY <1>2, <1>4, <4>1
      <3>2. queue[1] \in Ids
        BY <3>1 DEF QueueOK
      <3> QED BY <1>2, <3>1, <3>2 DEF Dropped
    <2>4. ASSUME NEW i \in 1..Len(queue)
          PROVE  queue[i] \in Dropped(id) \/ \E j \in 1..Len(Tail(q)) : Tail(q)[j] = queue[i]
      <3>1. CASE i = 1
        BY <2>3, <3>1
      <3>2. CASE i # 1
        <4>1. i - 1 \in 1..Len(Tail(q)) /\ (i - 1) + 1 = i
          BY <1>2, <2>1, <3>2
        <4> QED BY <1>1, <2>1, <4>1
      <3> QED BY <3>1, <3>2
    <2>5. Tail(q)[Len(Tail(q))] = id
      BY <1>1, <1>2, <2>1, <2>3
    <2> QED BY <1>1, <1>2, <2>1, <2>2, <2>3, <2>4, <2>5
  <1>5. CASE ~(Len(q) > MaxQueue)
    <2>1. Queued(id) = q
      BY <1>3, <1>5
    <2>2. Dropped(id) = {}
      BY <1>1, <1>2, <1>5 DEF Dropped
    <2> QED BY <1>1, <1>2, <1>5, <2>1, <2>2
  <1> QED BY <1>4, <1>5

\* An emptied mirror.
LEMMA NoItems == ASSUME items' = <<>>, unseen' = 0 PROVE ItemsOK'
  <1>1. items' \in Seq(Rows) /\ Len(items') = 0
    OBVIOUS
  <1>2. \A i : i \notin 1..Len(items')
    BY <1>1
  <1>3. Len(items') <= MaxItems /\ unseen' \in Nat
    BY <1>1, BoundsAssumption
  <1> QED BY <1>1, <1>2, <1>3, Zenon DEF ItemsOK

LEMMA ChangeSettingsTypeInv ==
    ASSUME TypeInv, NEW c \in Callers, NEW s \in Settings, ChangeSettings(c, s)
    PROVE  TypeInv'
  <1> USE DEF TypeInv
  <1>1. Goto(c, "clear", <<>>) \/ Goto(c, "clearplay", <<>>) \/ Goto(c, "flush", <<>>)
    BY DEF ChangeSettings
  <1>2. ProcOK'
    BY <1>1, Caller, MovedOK
  <1>3. CountOK' /\ SetOK'
    BY SettingsAssumption, BoundsAssumption DEF ChangeSettings, Call, CountOK, SetOK
  <1>4. ItemsOK' /\ QueueOK' /\ ShowOK' /\ ToMacOK' /\ ToPhoneOK' /\ PhoneOK'
    BY DEF ChangeSettings, notifVars, phoneVars, wireVars, ItemsOK, QueueOK, ShowOK, ToMacOK, Timely,
           ToPhoneOK, PhoneOK
  <1> QED BY <1>2, <1>3, <1>4

LEMMA ClearTypeInv ==
    ASSUME TypeInv, NEW c \in Callers, Clear(c) \/ ClearPlayback(c)
    PROVE  TypeInv'
  <1> USE DEF TypeInv
  <1>1. ProcOK'
    BY Caller, MovedOK DEF Clear, ClearPlayback
  <1>2. ItemsOK'
    <2>1. (items' = <<>> /\ unseen' = 0) \/ UNCHANGED <<items, unseen>>
      BY DEF Clear, ClearPlayback, notifVars
    <2>2. CASE UNCHANGED <<items, unseen>>
      BY <2>2 DEF ItemsOK
    <2> QED BY <2>1, <2>2, NoItems
  <1>3. ShowOK'
    BY BoundsAssumption DEF Clear, ClearPlayback, ShowOK, boundVars
  <1>4. CountOK' /\ SetOK' /\ QueueOK' /\ ToMacOK' /\ ToPhoneOK' /\ PhoneOK'
    BY DEF Clear, ClearPlayback, boundVars, notifVars, phoneVars, wireVars, CountOK, SetOK, QueueOK,
           ToMacOK, Timely, ToPhoneOK, PhoneOK
  <1> QED BY <1>1, <1>2, <1>3, <1>4

LEMMA PaneTypeInv ==
    ASSUME TypeInv, NEW c \in Callers, ClearNotifications(c) \/ MarkSeen(c)
    PROVE  TypeInv'
  <1> USE DEF TypeInv
  <1>1. ItemsOK'
    <2>1. (items' = <<>> \/ items' = items) /\ unseen' = 0
      BY DEF ClearNotifications, MarkSeen
    <2>2. CASE items' = items
      BY <2>1, <2>2 DEF ItemsOK
    <2> QED BY <2>1, <2>2, NoItems
  <1>2. CountOK' /\ ProcOK'
    BY BoundsAssumption DEF ClearNotifications, MarkSeen, Call, CountOK, ProcOK, PlaceOK, At
  <1>3. SetOK' /\ QueueOK' /\ ShowOK' /\ ToMacOK' /\ ToPhoneOK' /\ PhoneOK'
    BY DEF ClearNotifications, MarkSeen, phoneVars, wireVars, SetOK, QueueOK, ShowOK, ToMacOK, Timely,
           ToPhoneOK, PhoneOK
  <1> QED BY <1>1, <1>2, <1>3

LEMMA DismissTypeInv ==
    ASSUME TypeInv, NEW c \in Callers, NEW id \in Ids, Dismiss(c, id)
    PROVE  TypeInv'
  <1> USE DEF TypeInv
  <1>1. ProcOK'
    BY Caller, MovedOK DEF Dismiss
  <1>2. ItemsOK'
    <2>1. items' = Without(items, id) /\ unseen' = unseen
      BY DEF Dismiss
    <2> QED BY <2>1, ItemsWithout DEF ItemsOK
  <1>3. QueueOK'
    BY QueuedOK DEF Dismiss, QueueOK
  <1>4. CountOK' /\ SetOK' /\ ShowOK' /\ ToMacOK' /\ ToPhoneOK' /\ PhoneOK'
    BY BoundsAssumption
       DEF Dismiss, Call, phoneVars, wireVars, CountOK, SetOK, ShowOK, ToMacOK, Timely, ToPhoneOK, PhoneOK
  <1> QED BY <1>1, <1>2, <1>3, <1>4

LEMMA CommandTypeInv ==
    ASSUME TypeInv, NEW c \in Callers, SendPlaybackCmd(c)
    PROVE  TypeInv'
  <1> USE DEF TypeInv
  <1>1. SetOK'
    BY DEF SendPlaybackCmd, SetOK, AllSettings
  <1>2. ToPhoneOK'
    <2> DEFINE m == [type |-> "cmd"]
    <2>1. m \in FromMac
      BY DEF FromMac
    <2>2. UNCHANGED ws /\ (UNCHANGED toPhone \/ (ws /\ toPhone' = Append(toPhone, m)))
      BY DEF SendPlaybackCmd, ToPhoneOK
    <2> HIDE DEF m
    <2>3. CASE UNCHANGED toPhone
      BY <2>2, <2>3 DEF ToPhoneOK
    <2> QED BY <2>1, <2>2, <2>3, SentToPhone
  <1>3. /\ UNCHANGED <<now, events, faults, proc, notifVars, playback, dnd, ws, toMac, phoneVars>>
        /\ calls' = calls + 1 /\ calls < MaxCalls
    BY DEF SendPlaybackCmd, Call
  <1>4. CountOK'
    BY <1>3, BoundsAssumption DEF CountOK
  <1>5. ItemsOK' /\ QueueOK' /\ ShowOK' /\ ToMacOK' /\ PhoneOK' /\ ProcOK'
    BY <1>3 DEF notifVars, phoneVars, ItemsOK, QueueOK, ShowOK, ToMacOK, Timely, PhoneOK, ProcOK,
                PlaceOK, At
  <1> QED BY <1>1, <1>2, <1>4, <1>5

LEMMA WishTypeInv ==
    ASSUME TypeInv, NEW c \in Callers, NEW on \in OnOff, SetDND(c, on)
    PROVE  TypeInv'
  <1> USE DEF TypeInv
  <1>1. ProcOK'
    BY Caller, MovedOK DEF SetDND
  <1>2. CountOK' /\ ShowOK'
    BY BoundsAssumption DEF SetDND, Call, CountOK, ShowOK
  <1>3. SetOK' /\ ItemsOK' /\ QueueOK' /\ ToMacOK' /\ ToPhoneOK' /\ PhoneOK'
    BY DEF SetDND, notifVars, phoneVars, wireVars, SetOK, ItemsOK, QueueOK, ToMacOK, Timely,
           ToPhoneOK, PhoneOK
  <1> QED BY <1>1, <1>2, <1>3

LEMMA SendWishTypeInv ==
    ASSUME TypeInv, NEW c \in Callers, SendDND(c)
    PROVE  TypeInv'
  <1> USE DEF TypeInv
  <1>1. At(c, "dnd") /\ Finish(c) /\ c \in Procs
    BY Caller DEF SendDND
  <1>2. ProcOK'
    BY <1>1, FinishOK
  <1>3. ToPhoneOK'
    <2> DEFINE m == [type |-> "dnd", on |-> proc[c].arg[1]]
    <2>1. m \in FromMac
      BY <1>1 DEF FromMac, ProcOK, PlaceOK
    <2>2. UNCHANGED ws /\ (UNCHANGED toPhone \/ (ws /\ toPhone' = Append(toPhone, m)))
      BY DEF SendDND, ToPhoneOK
    <2> HIDE DEF m
    <2>3. CASE UNCHANGED toPhone
      BY <2>2, <2>3 DEF ToPhoneOK
    <2> QED BY <2>1, <2>2, <2>3, SentToPhone
  <1>4. CountOK' /\ SetOK' /\ ItemsOK' /\ QueueOK' /\ ShowOK' /\ ToMacOK' /\ PhoneOK'
    BY DEF SendDND, boundVars, notifVars, phoneVars, CountOK, SetOK, ItemsOK, QueueOK, ShowOK,
           ToMacOK, Timely, PhoneOK
  <1> QED BY <1>2, <1>3, <1>4

LEMMA AdoptTypeInv ==
    ASSUME TypeInv, NEW s \in Settings, AdoptSettings(s)
    PROVE  TypeInv'
  <1> USE DEF TypeInv
  <1>1. CountOK' /\ SetOK'
    BY SettingsAssumption, BoundsAssumption DEF AdoptSettings, CountOK, SetOK
  <1> DEFINE m == [type |-> "play", ver |-> track.cur]
  <1>2. /\ ws /\ UNCHANGED <<ws, now>>
        /\ \/ UNCHANGED <<toMac, track>>
           \/ /\ track.cur # track.sent
              /\ toMac' = Append(toMac, m) /\ track' = [track EXCEPT !.sent = track.cur]
    BY DEF AdoptSettings
  <1>3. PhoneOK'
    <2>1. events' = events + 1 /\ UNCHANGED <<shade, pdnd>> /\ events \in Nat
      BY BoundsAssumption DEF AdoptSettings, CountOK
    <2> QED BY <1>2, <2>1, BoundsAssumption DEF PhoneOK
  <1>4. ToMacOK'
    <2>1. CASE UNCHANGED <<toMac, track>>
      BY <1>2, <2>1 DEF ToMacOK, Timely
    <2>2. CASE toMac' = Append(toMac, m) /\ track.cur # track.sent
      <3>1. m \in FromPhone /\ Timely(m)
        BY <2>2, BoundsAssumption DEF PhoneOK, FromPhone, Plays, Timely
      <3> HIDE DEF m
      <3> QED BY <1>2, <2>2, <3>1, SentFrame
    <2> QED BY <1>2, <2>1, <2>2
  <1>5. ItemsOK' /\ QueueOK' /\ ShowOK' /\ ToPhoneOK' /\ ProcOK'
    BY DEF AdoptSettings, notifVars, ItemsOK, QueueOK, ShowOK, ToPhoneOK, ProcOK, PlaceOK, At
  <1> QED BY <1>1, <1>3, <1>4, <1>5

LEMMA FlushTypeInv ==
    ASSUME TypeInv, NEW p \in Procs, FlushNothing(p) \/ TakePendingDismissals(p)
    PROVE  TypeInv'
  <1> USE DEF TypeInv
  <1>1. ProcOK' /\ QueueOK'
    <2>1. CASE FlushNothing(p)
      BY <2>1, FinishOK DEF FlushNothing, notifVars, QueueOK
    <2>2. CASE TakePendingDismissals(p)
      <3>1. queue \in Seq(Ids) \ {<<>>} /\ queue' = <<>> /\ UNCHANGED owed
        BY <2>2 DEF TakePendingDismissals, QueueOK
      <3> QED BY <2>2, <3>1, MovedOK, BoundsAssumption DEF TakePendingDismissals, QueueOK
    <2> QED BY <2>1, <2>2
  <1>2. CountOK' /\ SetOK' /\ ItemsOK' /\ ShowOK' /\ ToMacOK' /\ ToPhoneOK' /\ PhoneOK'
    BY DEF FlushNothing, TakePendingDismissals, boundVars, notifVars, phoneVars, wireVars, CountOK,
           SetOK, ItemsOK, ShowOK, ToMacOK, Timely, ToPhoneOK, PhoneOK
  <1> QED BY <1>1, <1>2

LEMMA SendDismissalTypeInv ==
    ASSUME TypeInv, NEW p \in Procs, SendDismissal(p)
    PROVE  TypeInv'
  <1> USE DEF TypeInv
  <1> DEFINE a == proc[p].arg
             id == Head(a)
             m == [type |-> "dismiss", id |-> id]
  <1>1. a \in Seq(Ids) /\ a # <<>>
    BY DEF SendDismissal, ProcOK, PlaceOK
  <1>2. Tail(a) \in Seq(Ids) /\ Len(Tail(a)) = Len(a) - 1 /\ Len(a) \in Nat \ {0} /\ id \in Ids
    BY <1>1, Rest
  <1>3. ProcOK'
    <2>1. Finish(p) \/ (Len(a) # 1 /\ Goto(p, "dismissing", Tail(a)))
      BY DEF SendDismissal
    <2>2. Len(a) # 1 => Tail(a) # <<>>
      <3> DEFINE t == Tail(a)
      <3>1. Len(a) # 1 => Len(t) # 0
        BY <1>2
      <3> HIDE DEF t
      <3>2. Len(a) # 1 => t # <<>>
        BY <3>1
      <3> QED BY <3>2 DEF t
    <2> HIDE DEF a
    <2> QED BY <1>2, <2>1, <2>2, FinishOK, MovedOK
  <1>4. /\ UNCHANGED ws
        /\ \/ ws /\ toPhone' = Append(toPhone, m) /\ UNCHANGED <<items, queue, owed>>
           \/ /\ items' = Without(items, id) /\ queue' = Queued(id)
              /\ owed' = owed \ (Dropped(id) \ {id}) /\ UNCHANGED toPhone
    BY DEF SendDismissal
  <1>5. m \in FromMac
    BY <1>2 DEF FromMac
  <1>6. ToPhoneOK'
    <2>1. CASE UNCHANGED toPhone
      BY <1>4, <2>1 DEF ToPhoneOK
    <2>2. CASE ws /\ toPhone' = Append(toPhone, m)
      <3> HIDE DEF m
      <3> QED BY <1>4, <1>5, <2>2, SentToPhone
    <2> QED BY <1>4, <2>1, <2>2
  <1>7. UNCHANGED unseen
    BY DEF SendDismissal
  <1> HIDE DEF id
  <1>8. ItemsOK' /\ QueueOK'
    <2>1. CASE UNCHANGED <<items, queue, owed>>
      BY <1>7, <2>1 DEF ItemsOK, QueueOK
    <2>2. CASE items' = Without(items, id) /\ queue' = Queued(id) /\ owed' = owed \ (Dropped(id) \ {id})
      BY <1>2, <1>7, <2>2, ItemsWithout, QueuedOK DEF ItemsOK, QueueOK
    <2> QED BY <1>4, <2>1, <2>2
  <1>9. CountOK' /\ SetOK' /\ ShowOK' /\ ToMacOK' /\ PhoneOK'
    BY DEF SendDismissal, boundVars, phoneVars, CountOK, SetOK, ShowOK, ToMacOK, Timely, PhoneOK
  <1> QED BY <1>3, <1>6, <1>8, <1>9

(* The phone. *)

\* The phone's outbox, where a post of the same id is replaced.
LEMMA WaitingFrame ==
    ASSUME ToMacOK, ~ws, ws' = ws, now' = now, NEW m \in Posts, m.at = now, now \in Nat,
           toMac' = Append(Without(toMac, m.id), m)
    PROVE  ToMacOK'
  <1> DEFINE w == Without(toMac, m.id)
  <1>1. /\ toMac \in Seq(FromPhone) /\ \A i \in 1..Len(toMac) : toMac[i] \in Posts /\ Timely(toMac[i])
        /\ \A i, j \in 1..Len(toMac) : i < j => toMac[i].at <= toMac[j].at /\ toMac[i].id # toMac[j].id
    BY DEF ToMacOK
  <1>2. \A i, j \in 1..Len(toMac) : toMac[i].id = toMac[j].id => i = j
    <2> TAKE i, j \in 1..Len(toMac)
    <2>1. i < j \/ j < i \/ i = j
      OBVIOUS
    <2> QED BY <1>1, <2>1
  <1> DEFINE Cut(k) == /\ Len(w) = IF k = Len(toMac) + 1 THEN Len(toMac) ELSE Len(toMac) - 1
                       /\ \A i \in 1..Len(w) : w[i] = toMac[IF i < k THEN i ELSE i + 1]
  <1>3. /\ w \in Seq(FromPhone) /\ \A i \in 1..Len(w) : w[i].id # m.id
        /\ \E k \in 1..(Len(toMac) + 1) : Cut(k)
    <2>1. toMac \in Seq(FromPhone)
      BY <1>1
    <2> DEFINE id == m.id
    <2> HIDE DEF id
    <2>2. Without(toMac, id) \in Seq(FromPhone)
      BY <1>2, <2>1, TakenOut
    <2>3. \A i \in 1..Len(Without(toMac, id)) : Without(toMac, id)[i].id # id
      BY <1>2, <2>1, TakenOut
    <2>4. \E k \in 1..(Len(toMac) + 1) :
            /\ Len(Without(toMac, id)) = IF k = Len(toMac) + 1 THEN Len(toMac) ELSE Len(toMac) - 1
            /\ \A i \in 1..Len(Without(toMac, id)) :
                 Without(toMac, id)[i] = toMac[IF i < k THEN i ELSE i + 1]
      BY <1>2, <2>1, TakenOut
    <2> QED BY <2>2, <2>3, <2>4 DEF id
  <1>4. PICK k \in 1..(Len(toMac) + 1) :
          /\ Len(w) = IF k = Len(toMac) + 1 THEN Len(toMac) ELSE Len(toMac) - 1
          /\ \A i \in 1..Len(w) : w[i] = toMac[IF i < k THEN i ELSE i + 1]
    BY <1>3, Zenon
  <1> HIDE DEF w
  <1>5. ASSUME NEW i \in 1..Len(w) PROVE w[i] \in Posts /\ Timely(w[i])
    <2>1. (IF i < k THEN i ELSE i + 1) \in 1..Len(toMac)
      BY <1>1, <1>4
    <2> QED BY <1>1, <1>4, <2>1
  <1>6. m \in FromPhone /\ Len(w) \in Nat /\ toMac' = Append(w, m)
    BY <1>3 DEF FromPhone, w
  <1>7. /\ Append(w, m) \in Seq(FromPhone) /\ Len(Append(w, m)) = Len(w) + 1
        /\ \A i \in 1..Len(w) : Append(w, m)[i] = w[i]
        /\ Append(w, m)[Len(w) + 1] = m
    BY <1>3, <1>6, Appended
  <1> DEFINE v == Append(w, m)
  <1> HIDE DEF v
  <1>8. v \in Seq(FromPhone) /\ Len(v) = Len(w) + 1 /\ v[Len(w) + 1] = m /\ \A i \in 1..Len(w) : v[i] = w[i]
    BY <1>7 DEF v
  <1>9. Timely(m) /\ m.type = "post"
    BY DEF Timely, Posts
  <1>10. ASSUME NEW i \in 1..Len(v) PROVE v[i] \in Posts /\ Timely(v[i])
    <2>1. i \in 1..Len(w) \/ i = Len(w) + 1
      BY <1>6, <1>8
    <2> QED BY <1>5, <1>8, <1>9, <2>1
  <1>11. ASSUME NEW i \in 1..Len(v), NEW j \in 1..Len(v), i < j
         PROVE  v[i].at <= v[j].at /\ v[i].id # v[j].id
    <2>1. i \in 1..Len(w) /\ v[i] = w[i]
      BY <1>6, <1>8, <1>11
    <2>2. CASE j \in 1..Len(w)
      <3> DEFINE a == IF i < k THEN i ELSE i + 1
                 b == IF j < k THEN j ELSE j + 1
      <3>1. a \in 1..Len(toMac) /\ b \in 1..Len(toMac) /\ a < b
        BY <1>1, <1>4, <1>6, <1>11, <2>1, <2>2
      <3>2. v[i] = toMac[a] /\ v[j] = toMac[b]
        BY <1>4, <1>8, <2>1, <2>2
      <3> HIDE DEF a, b
      <3> QED BY <1>1, <3>1, <3>2
    <2>3. CASE j = Len(w) + 1
      <3>1. v[j] = m /\ w[i].id # m.id
        BY <1>3, <1>8, <2>1, <2>3
      <3>2. w[i] \in Posts /\ Timely(w[i])
        BY <1>5, <2>1
      <3>3. w[i].at <= now
        BY <3>2 DEF Timely, Posts
      <3> QED BY <2>1, <3>1, <3>3
    <2>4. j \in 1..Len(w) \/ j = Len(w) + 1
      BY <1>6, <1>8
    <2> QED BY <2>2, <2>3, <2>4
  <1>12. toMac' = v
    BY <1>6 DEF v
  <1> QED BY <1>8, <1>10, <1>11, <1>12 DEF ToMacOK, Timely

LEMMA PhonePostTypeInv ==
    ASSUME TypeInv, NEW id \in Ids, PhonePost(id)
    PROVE  TypeInv'
  <1> USE DEF TypeInv
  <1>1. events \in Nat /\ events < MaxEvents /\ events' = events + 1 /\ now \in 1..MaxTime /\ now \in Nat
    BY BoundsAssumption DEF PhonePost, Event, CountOK
  <1> DEFINE m == [type |-> "post", id |-> id, ver |-> events + 1, at |-> now]
  <1>2. m \in Posts /\ Timely(m) /\ m \in FromPhone /\ m.at = now /\ m.id = id
    BY <1>1, BoundsAssumption DEF Posts, Timely, FromPhone
  <1>3. UNCHANGED <<ws, now>> /\
        (toMac' = toMac \/ toMac' = Append(IF ws THEN toMac ELSE Without(toMac, id), m))
    BY DEF PhonePost
  <1>4. ToMacOK'
    <2> HIDE DEF m
    <2>1. CASE toMac' = toMac
      BY <1>3, <2>1 DEF ToMacOK, Timely
    <2>2. CASE ws /\ toMac' = Append(toMac, m)
      BY <1>2, <1>3, <2>2, SentFrame
    <2>3. CASE ~ws /\ toMac' = Append(Without(toMac, id), m)
      BY <1>1, <1>2, <1>3, <2>3, WaitingFrame
    <2> QED BY <1>3, <2>1, <2>2, <2>3
  <1>5. PhoneOK' /\ CountOK'
    BY <1>1, BoundsAssumption DEF PhonePost, PhoneOK, CountOK
  <1>6. SetOK' /\ ItemsOK' /\ QueueOK' /\ ShowOK' /\ ToPhoneOK' /\ ProcOK'
    BY DEF PhonePost, notifVars, SetOK, ItemsOK, QueueOK, ShowOK, ToPhoneOK, ProcOK, PlaceOK, At
  <1> QED BY <1>4, <1>5, <1>6

LEMMA PhonePlaysTypeInv == ASSUME TypeInv, PhonePlays PROVE TypeInv'
  <1> USE DEF TypeInv
  <1>1. events \in Nat /\ events < MaxEvents /\ events' = events + 1
    BY BoundsAssumption DEF PhonePlays, Event, CountOK
  <1> DEFINE m == [type |-> "play", ver |-> events + 1]
  <1>2. /\ UNCHANGED <<ws, now, shade, pdnd>>
        /\ \/ /\ ws /\ toMac' = Append(toMac, m)
              /\ track' = [cur |-> events + 1, sent |-> events + 1]
           \/ toMac' = toMac /\ track' = [track EXCEPT !.cur = events + 1]
    BY DEF PhonePlays
  <1>3. m \in FromPhone /\ Timely(m)
    BY <1>1, BoundsAssumption DEF FromPhone, Plays, Timely
  <1>4. ToMacOK'
    <2> HIDE DEF m
    <2>1. CASE toMac' = toMac
      BY <1>2, <2>1 DEF ToMacOK, Timely
    <2> QED BY <1>2, <1>3, <2>1, SentFrame
  <1>5. PhoneOK'
    <2>1. CASE track' = [cur |-> events + 1, sent |-> events + 1]
      BY <1>1, <1>2, <2>1, BoundsAssumption DEF PhoneOK
    <2>2. CASE track' = [track EXCEPT !.cur = events + 1]
      BY <1>1, <1>2, <2>2, BoundsAssumption DEF PhoneOK
    <2> QED BY <1>2, <2>1, <2>2
  <1>6. CountOK'
    BY <1>1, BoundsAssumption DEF PhonePlays, CountOK
  <1>7. SetOK' /\ ItemsOK' /\ QueueOK' /\ ShowOK' /\ ToPhoneOK' /\ ProcOK'
    BY DEF PhonePlays, notifVars, SetOK, ItemsOK, QueueOK, ShowOK, ToPhoneOK, ProcOK, PlaceOK, At
  <1> QED BY <1>4, <1>5, <1>6, <1>7

\* The switch is turned, and its state sent or not.
LEMMA SwitchOK ==
    ASSUME CountOK, ToMacOK, ToPhoneOK, PhoneOK, NEW on \in OnOff, Switch(on),
           UNCHANGED <<now, ws, shade, track>>, events <= events', events' \in Nat
    PROVE  ToMacOK' /\ PhoneOK'
  <1> DEFINE m == [type |-> "dnd", on |-> on, at |-> now]
  <1>1. \/ /\ ws /\ toMac' = Append(toMac, m)
           /\ pdnd' = [pdnd EXCEPT !.on = on, !.sending = on]
        \/ toMac' = toMac /\ pdnd' = [pdnd EXCEPT !.on = on]
    BY DEF Switch, DndSends, ToPhoneOK
  <1>2. m \in FromPhone /\ Timely(m)
    BY BoundsAssumption DEF FromPhone, Timely, CountOK
  <1>3. ToMacOK'
    <2> HIDE DEF m
    <2>1. CASE toMac' = toMac
      BY <2>1 DEF ToMacOK, Timely
    <2> QED BY <1>1, <1>2, <2>1, SentFrame
  <1>4. PhoneOK'
    <2>1. pdnd' \in [on : OnOff, sending : OnOff \cup {"none"}, sent : OnOff]
      BY <1>1 DEF PhoneOK
    <2>2. track \in [cur : 0..MaxEvents, sent : 0..MaxEvents] /\ track.cur <= events /\ events \in Nat
      BY BoundsAssumption DEF PhoneOK, CountOK
    <2>3. track.cur <= events'
      BY <2>2
    <2> QED BY <2>1, <2>3 DEF PhoneOK
  <1> QED BY <1>3, <1>4

LEMMA PhoneDNDTypeInv == ASSUME TypeInv, NEW on \in OnOff, PhoneDND(on) PROVE TypeInv'
  <1> USE DEF TypeInv
  <1>1. events \in Nat /\ events < MaxEvents /\ events' = events + 1
    BY BoundsAssumption DEF PhoneDND, Event, CountOK
  <1>2. ToMacOK' /\ PhoneOK'
    <2>1. UNCHANGED <<now, ws, shade, track>> /\ Switch(on) /\ events <= events' /\ events' \in Nat
      BY <1>1 DEF PhoneDND
    <2> QED BY <2>1, SwitchOK
  <1>3. CountOK'
    BY <1>1, BoundsAssumption DEF PhoneDND, CountOK
  <1>4. SetOK' /\ ItemsOK' /\ QueueOK' /\ ShowOK' /\ ToPhoneOK' /\ ProcOK'
    BY DEF PhoneDND, notifVars, SetOK, ItemsOK, QueueOK, ShowOK, ToPhoneOK, ProcOK, PlaceOK, At
  <1> QED BY <1>2, <1>3, <1>4

LEMMA DndSentTypeInv == ASSUME TypeInv, DndSent PROVE TypeInv'
  <1> USE DEF TypeInv
  <1>1. PhoneOK'
    BY DEF DndSent, boundVars, PhoneOK
  <1>2. CountOK' /\ SetOK' /\ ItemsOK' /\ QueueOK' /\ ShowOK' /\ ToMacOK' /\ ToPhoneOK' /\ ProcOK'
    BY DEF DndSent, boundVars, notifVars, wireVars, CountOK, SetOK, ItemsOK, QueueOK, ShowOK, ToMacOK,
           Timely, ToPhoneOK, ProcOK, PlaceOK, At
  <1> QED BY <1>1, <1>2

\* The phone takes a frame.
LEMMA TakenByPhone ==
    ASSUME ToPhoneOK, ws, toPhone # <<>>, toPhone' = Tail(toPhone), ws' = ws
    PROVE  /\ ToPhoneOK' /\ Head(toPhone) \in FromMac
           /\ Head(toPhone).type = "dismiss" => Head(toPhone).id \in Ids
           /\ Head(toPhone).type = "dnd" => Head(toPhone).on \in OnOff
  <1>1. Tail(toPhone) \in Seq(FromMac) /\ Head(toPhone) \in FromMac
    BY Rest DEF ToPhoneOK
  <1> QED BY <1>1 DEF ToPhoneOK, FromMac

LEMMA PhoneFrameTypeInv ==
    ASSUME TypeInv, PhoneDismisses \/ PhoneCommand \/ PhoneSetDND \/ PhoneRefusesDND
    PROVE  TypeInv'
  <1> USE DEF TypeInv
  <1>0. ws /\ toPhone # <<>> /\ toPhone' = Tail(toPhone) /\ ws' = ws
    BY DEF PhoneDismisses, PhoneCommand, PhoneSetDND, PhoneRefusesDND, PhoneFrame, boundVars
  <1>1. /\ ToPhoneOK' /\ Head(toPhone) \in FromMac
        /\ Head(toPhone).type = "dismiss" => Head(toPhone).id \in Ids
        /\ Head(toPhone).type = "dnd" => Head(toPhone).on \in OnOff
    BY <1>0, TakenByPhone
  <1>2. CASE PhoneDismisses
    <2> DEFINE id == Head(toPhone).id
               m == [type |-> "dismiss", id |-> id]
    <2>1. id \in Ids
      BY <1>1, <1>2 DEF PhoneDismisses, PhoneFrame
    <2>2. /\ UNCHANGED <<ws, now, events, queue, track, pdnd>> /\ owed' = owed \ {id}
          /\ shade' = [shade EXCEPT ![id] = 0]
          /\ toMac' = toMac \/ toMac' = Append(toMac, m)
      BY <1>2 DEF PhoneDismisses, boundVars
    <2>3. m \in FromPhone /\ Timely(m)
      BY <2>1 DEF FromPhone, Timely
    <2>4. ToMacOK'
      <3> HIDE DEF m
      <3>1. CASE toMac' = toMac
        BY <2>2, <3>1 DEF ToMacOK, Timely
      <3> QED BY <1>0, <2>2, <2>3, <3>1, SentFrame
    <2> HIDE DEF id
    <2>5. PhoneOK' /\ QueueOK'
      BY <2>1, <2>2, BoundsAssumption DEF PhoneOK, QueueOK
    <2>6. CountOK' /\ SetOK' /\ ItemsOK' /\ ShowOK' /\ ProcOK'
      BY <1>2 DEF PhoneDismisses, boundVars, CountOK, SetOK, ItemsOK, ShowOK, ProcOK, PlaceOK, At
    <2> QED BY <1>1, <2>4, <2>5, <2>6
  <1>3. CASE PhoneCommand
    BY <1>1, <1>3 DEF PhoneCommand, boundVars, notifVars, phoneVars, CountOK, SetOK, ItemsOK, QueueOK,
                      ShowOK, ToMacOK, Timely, PhoneOK, ProcOK, PlaceOK, At
  <1>4. CASE PhoneSetDND
    <2> DEFINE on == Head(toPhone).on
    <2>1. on \in OnOff
      BY <1>1, <1>4 DEF PhoneSetDND, PhoneFrame
    <2>2. UNCHANGED <<now, events, ws, shade, track>> /\ (Switch(on) \/ UNCHANGED <<pdnd, toMac>>)
      BY <1>4 DEF PhoneSetDND, boundVars
    <2>3. ToMacOK' /\ PhoneOK'
      <3>1. CASE Switch(on)
        <4>1. events <= events' /\ events' \in Nat
          BY <2>2, BoundsAssumption DEF CountOK
        <4> HIDE DEF on
        <4> QED BY <2>1, <2>2, <3>1, <4>1, SwitchOK
      <3>2. CASE UNCHANGED <<pdnd, toMac>>
        BY <2>2, <3>2 DEF ToMacOK, Timely, PhoneOK
      <3> QED BY <2>2, <3>1, <3>2
    <2>4. CountOK' /\ SetOK' /\ ItemsOK' /\ QueueOK' /\ ShowOK' /\ ProcOK'
      BY <1>4 DEF PhoneSetDND, boundVars, notifVars, CountOK, SetOK, ItemsOK, QueueOK, ShowOK, ProcOK,
                  PlaceOK, At
    <2> QED BY <1>1, <2>3, <2>4
  <1>5. CASE PhoneRefusesDND
    <2>1. CountOK'
      BY <1>5, BoundsAssumption DEF PhoneRefusesDND, CountOK
    <2>2. SetOK' /\ ItemsOK' /\ QueueOK' /\ ShowOK' /\ ToMacOK' /\ PhoneOK' /\ ProcOK'
      BY <1>5 DEF PhoneRefusesDND, notifVars, phoneVars, SetOK, ItemsOK, QueueOK, ShowOK, ToMacOK,
                  Timely, PhoneOK, ProcOK, PlaceOK, At
    <2> QED BY <1>1, <2>1, <2>2
  <1> QED BY <1>2, <1>3, <1>4, <1>5

(* Connections and restarts. *)

\* The live posts of the outbox are posts of the outbox.
LEMMA LivePosts ==
    ASSUME ToMacOK, ~ws
    PROVE  Live \in Seq(FromPhone) /\ \A i \in 1..Len(Live) : Live[i] \in Posts /\ Timely(Live[i])
  <1> DEFINE stale == {i \in DOMAIN toMac : now - toMac[i].at > Horizon}
             k == Cardinality(stale)
  <1>1. toMac \in Seq(FromPhone) /\ DOMAIN toMac = 1..Len(toMac) /\ Len(toMac) \in Nat
    BY DEF ToMacOK
  <1>2. k \in Nat
    <2>1. IsFiniteSet(1..Len(toMac)) /\ stale \subseteq 1..Len(toMac)
      BY <1>1, FS_Interval
    <2> QED BY <2>1, FS_Subset, FS_CardinalityType
  <1>3. Live = SubSeq(toMac, k + 1, Len(toMac))
    BY DEF Live
  <1> HIDE DEF k
  <1>4. /\ Live \in Seq(FromPhone)
        /\ \A i \in 1..Len(Live) : i + k \in 1..Len(toMac) /\ Live[i] = toMac[i + k]
    BY <1>1, <1>2, <1>3
  <1> QED BY <1>4 DEF ToMacOK

\* What a phone that connects has to say: posts, its player, its switch.
LEMMA Greeting ==
    ASSUME CountOK, ToMacOK, PhoneOK, ~ws,
           NEW play, play = <<>> \/ (play = <<[type |-> "play", ver |-> track.cur]>> /\ track.cur # track.sent),
           NEW tell, tell = <<>> \/ tell = <<[type |-> "dnd", on |-> pdnd.on, at |-> now]>>
    PROVE  /\ Live \o play \o tell \in Seq(FromPhone)
           /\ Len(Live \o play \o tell) = Len(Live) + Len(play) + Len(tell)
           /\ Len(Live) \in Nat /\ Len(play) \in {0, 1} /\ Len(tell) \in {0, 1}
           /\ \A i \in 1..Len(Live) : (Live \o play \o tell)[i] = Live[i] /\ Live[i] \in Posts
           /\ Len(play) = 1 =>
                (Live \o play \o tell)[Len(Live) + 1] = [type |-> "play", ver |-> track.cur]
           /\ Len(tell) = 1 =>
                (Live \o play \o tell)[Len(Live) + Len(play) + 1]
                  = [type |-> "dnd", on |-> pdnd.on, at |-> now]
           /\ \A i \in 1..Len(Live \o play \o tell) : Timely((Live \o play \o tell)[i])
  <1> DEFINE p == [type |-> "play", ver |-> track.cur]
             d == [type |-> "dnd", on |-> pdnd.on, at |-> now]
  <1>1. Live \in Seq(FromPhone) /\ \A i \in 1..Len(Live) : Live[i] \in Posts /\ Timely(Live[i])
    BY LivePosts
  <1>2. play # <<>> => p \in FromPhone
    BY BoundsAssumption DEF PhoneOK, FromPhone, Plays
  <1>3. d \in FromPhone
    BY BoundsAssumption DEF PhoneOK, CountOK, FromPhone
  <1>4. Timely(p) /\ Timely(d)
    BY BoundsAssumption DEF Timely, CountOK
  <1>5. (play = <<>> \/ play = <<p>>) /\ (tell = <<>> \/ tell = <<d>>)
    OBVIOUS
  <1> DEFINE l == Live
  <1> HIDE DEF p, d, l
  <1>6. l \in Seq(FromPhone) /\ Len(l) \in Nat /\ \A i \in 1..Len(l) : l[i] \in Posts /\ Timely(l[i])
    BY <1>1 DEF l
  <1>7. /\ play \in Seq(FromPhone) /\ Len(play) \in {0, 1} /\ (Len(play) = 1 => play[1] = p)
    <2>1. CASE play = <<>>
      BY <2>1
    <2>2. CASE play = <<p>>
      BY <1>2, <2>2
    <2> QED BY <1>5, <2>1, <2>2
  <1>8. /\ tell \in Seq(FromPhone) /\ Len(tell) \in {0, 1} /\ (Len(tell) = 1 => tell[1] = d)
    <2>1. CASE tell = <<>>
      BY <2>1
    <2>2. CASE tell = <<d>>
      BY <1>3, <2>2
    <2> QED BY <1>5, <2>1, <2>2
  <1> DEFINE a == l \o play
  <1>9. /\ a \in Seq(FromPhone) /\ Len(a) = Len(l) + Len(play)
        /\ \A i \in 1..(Len(l) + Len(play)) : a[i] = IF i <= Len(l) THEN l[i] ELSE play[i - Len(l)]
    <2>1. l \in Seq(FromPhone) /\ play \in Seq(FromPhone)
      BY <1>6, <1>7
    <2> QED BY <2>1, ConcatProperties
  <1> HIDE DEF a
  <1>10. /\ a \o tell \in Seq(FromPhone) /\ Len(a \o tell) = Len(a) + Len(tell)
         /\ \A i \in 1..(Len(a) + Len(tell)) : (a \o tell)[i] = IF i <= Len(a) THEN a[i] ELSE tell[i - Len(a)]
    <2>1. a \in Seq(FromPhone) /\ tell \in Seq(FromPhone)
      BY <1>8, <1>9
    <2> QED BY <2>1, ConcatProperties
  <1> DEFINE b == a \o tell
  <1> HIDE DEF b
  <1>11. /\ b \in Seq(FromPhone) /\ Len(b) = Len(a) + Len(tell)
         /\ \A i \in 1..(Len(a) + Len(tell)) : b[i] = IF i <= Len(a) THEN a[i] ELSE tell[i - Len(a)]
    BY <1>10 DEF b
  <1>12. Len(b) = Len(l) + Len(play) + Len(tell)
    BY <1>6, <1>7, <1>8, <1>9, <1>11
  <1>13. \A i \in 1..Len(l) : b[i] = l[i]
    <2> TAKE i \in 1..Len(l)
    <2>1. i \in 1..Len(a) /\ i \in 1..(Len(l) + Len(play)) /\ i \in 1..(Len(a) + Len(tell)) /\ i <= Len(a)
      BY <1>6, <1>7, <1>8, <1>9
    <2>2. b[i] = a[i]
      BY <1>11, <2>1
    <2> QED BY <1>6, <1>9, <2>1, <2>2
  <1>14. Len(play) = 1 => b[Len(l) + 1] = p
    <2> SUFFICES ASSUME Len(play) = 1 PROVE b[Len(l) + 1] = p
      OBVIOUS
    <2>1. /\ Len(l) + 1 \in 1..(Len(l) + Len(play)) /\ Len(l) + 1 \in 1..(Len(a) + Len(tell))
          /\ Len(l) + 1 <= Len(a) /\ ~(Len(l) + 1 <= Len(l)) /\ (Len(l) + 1) - Len(l) = 1
      BY <1>6, <1>8, <1>9
    <2>2. b[Len(l) + 1] = a[Len(l) + 1]
      BY <1>11, <2>1
    <2>3. a[Len(l) + 1] = play[(Len(l) + 1) - Len(l)]
      BY <1>9, <2>1
    <2> QED BY <1>7, <2>1, <2>2, <2>3
  <1>15. Len(tell) = 1 => b[Len(l) + Len(play) + 1] = d
    <2> SUFFICES ASSUME Len(tell) = 1 PROVE b[Len(l) + Len(play) + 1] = d
      OBVIOUS
    <2> DEFINE n == Len(l) + Len(play) + 1
    <2>1. n \in 1..(Len(a) + Len(tell)) /\ ~(n <= Len(a)) /\ n - Len(a) = 1
      BY <1>6, <1>7, <1>9
    <2> HIDE DEF n
    <2>2. b[n] = tell[1]
      BY <1>11, <2>1
    <2> QED BY <1>8, <2>2 DEF n
  <1>16. \A i \in 1..Len(b) : Timely(b[i])
    <2> TAKE i \in 1..Len(b)
    <2>1. \/ i \in 1..Len(l)
          \/ i = Len(l) + 1 /\ Len(play) = 1
          \/ i = Len(l) + Len(play) + 1 /\ Len(tell) = 1
      <3>1. Len(l) \in Nat /\ Len(play) \in {0, 1} /\ Len(tell) \in {0, 1}
        BY <1>6, <1>7, <1>8
      <3>2. i \in 1..(Len(l) + Len(play) + Len(tell))
        BY <1>12
      <3> DEFINE x == Len(l)  y == Len(play)  z == Len(tell)
      <3>3. x \in Nat /\ y \in {0, 1} /\ z \in {0, 1} /\ i \in 1..(x + y + z)
        BY <3>1, <3>2
      <3> HIDE DEF x, y, z
      <3>4. (y = 0 \/ y = 1) /\ (z = 0 \/ z = 1) /\ x \in Nat /\ i \in Nat /\ 1 <= i /\ i <= x + y + z
        BY <3>3
      <3>5. i \in 1..x \/ (i = x + 1 /\ y = 1) \/ (i = x + y + 1 /\ z = 1)
        BY <3>4
      <3> QED BY <3>5 DEF x, y, z
    <2>2. CASE i \in 1..Len(l)
      BY <1>6, <1>13, <2>2
    <2>3. CASE i = Len(l) + 1 /\ Len(play) = 1
      BY <1>4, <1>14, <2>3
    <2>4. CASE i = Len(l) + Len(play) + 1 /\ Len(tell) = 1
      BY <1>4, <1>15, <2>4
    <2> QED BY <2>1, <2>2, <2>3, <2>4
  <1>17. b = Live \o play \o tell /\ l = Live
    BY DEF a, b, l
  <1> QED BY <1>6, <1>7, <1>8, <1>11, <1>12, <1>13, <1>14, <1>15, <1>16, <1>17 DEF p, d

\* The frames of Connect, and what the phone notes as sent.
LEMMA Connected ==
    ASSUME Connect
    PROVE  \E play, tell :
             /\ \/ play = <<>> /\ UNCHANGED track
                   /\ (track.cur = track.sent \/ ~PlaybackModeAllowsState(st.play))
                \/ /\ play = <<[type |-> "play", ver |-> track.cur]>> /\ track.cur # track.sent
                   /\ track' = [track EXCEPT !.sent = track.cur]
             /\ \/ tell = <<>> /\ UNCHANGED pdnd /\ (pdnd.sent = pdnd.on \/ pdnd.sending # "none")
                \/ /\ tell = <<[type |-> "dnd", on |-> pdnd.on, at |-> now]>>
                   /\ pdnd.sent # pdnd.on /\ pdnd.sending = "none"
                   /\ pdnd' = [pdnd EXCEPT !.sending = pdnd.on]
             /\ toMac' = Live \o play \o tell
  <1> DEFINE play == IF track.cur # track.sent /\ PlaybackModeAllowsState(st.play)
                     THEN <<[type |-> "play", ver |-> track.cur]>> ELSE <<>>
             tell == IF pdnd.sent # pdnd.on /\ pdnd.sending = "none"
                     THEN <<[type |-> "dnd", on |-> pdnd.on, at |-> now]>> ELSE <<>>
  <1>1. /\ toMac' = Live \o play \o tell
        /\ track' = IF play # <<>> THEN [track EXCEPT !.sent = track.cur] ELSE track
        /\ pdnd' = IF tell # <<>> THEN [pdnd EXCEPT !.sending = pdnd.on] ELSE pdnd
    BY Zenon DEF Connect
  <1>2. \/ play = <<>> /\ (track.cur = track.sent \/ ~PlaybackModeAllowsState(st.play))
        \/ /\ play = <<[type |-> "play", ver |-> track.cur]>> /\ track.cur # track.sent /\ play # <<>>
    OBVIOUS
  <1>3. \/ tell = <<>> /\ (pdnd.sent = pdnd.on \/ pdnd.sending # "none")
        \/ /\ tell = <<[type |-> "dnd", on |-> pdnd.on, at |-> now]>> /\ tell # <<>>
           /\ pdnd.sent # pdnd.on /\ pdnd.sending = "none"
    OBVIOUS
  <1> HIDE DEF play, tell
  <1>4. \/ play = <<>> /\ UNCHANGED track /\ (track.cur = track.sent \/ ~PlaybackModeAllowsState(st.play))
        \/ /\ play = <<[type |-> "play", ver |-> track.cur]>> /\ track.cur # track.sent
           /\ track' = [track EXCEPT !.sent = track.cur]
    BY <1>1, <1>2
  <1>5. \/ tell = <<>> /\ UNCHANGED pdnd /\ (pdnd.sent = pdnd.on \/ pdnd.sending # "none")
        \/ /\ tell = <<[type |-> "dnd", on |-> pdnd.on, at |-> now]>>
           /\ pdnd.sent # pdnd.on /\ pdnd.sending = "none"
           /\ pdnd' = [pdnd EXCEPT !.sending = pdnd.on]
    BY <1>1, <1>3
  <1> QED BY <1>1, <1>4, <1>5

LEMMA ConnectTypeInv == ASSUME TypeInv, Connect PROVE TypeInv'
  <1> USE DEF TypeInv
  <1>1. ~ws /\ ws' = TRUE /\ Goto(Reader, "flush", <<>>) /\ UNCHANGED <<boundVars, shade, toPhone>>
    BY DEF Connect
  <1>2. PICK play, tell :
          /\ \/ play = <<>> /\ UNCHANGED track
             \/ /\ play = <<[type |-> "play", ver |-> track.cur]>> /\ track.cur # track.sent
                /\ track' = [track EXCEPT !.sent = track.cur]
          /\ \/ tell = <<>> /\ UNCHANGED pdnd
             \/ /\ tell = <<[type |-> "dnd", on |-> pdnd.on, at |-> now]>>
                /\ pdnd' = [pdnd EXCEPT !.sending = pdnd.on]
          /\ toMac' = Live \o play \o tell
    BY Connected
  <1>3. ToMacOK'
    <2> DEFINE b == Live \o play \o tell
    <2>1. b \in Seq(FromPhone) /\ \A i \in 1..Len(b) : Timely(b[i])
      <3>1. /\ play = <<>> \/ (play = <<[type |-> "play", ver |-> track.cur]>> /\ track.cur # track.sent)
            /\ tell = <<>> \/ tell = <<[type |-> "dnd", on |-> pdnd.on, at |-> now]>>
        BY <1>2
      <3> QED BY <1>1, <3>1, Greeting
    <2>2. toMac' = b /\ now' = now /\ ws'
      BY <1>1, <1>2 DEF boundVars
    <2> HIDE DEF b
    <2> QED BY <2>1, <2>2 DEF ToMacOK, Timely
  <1>4. PhoneOK'
    <2>1. UNCHANGED shade /\ UNCHANGED events
      BY <1>1 DEF boundVars
    <2>2. track' = track \/ track' = [track EXCEPT !.sent = track.cur]
      BY <1>2
    <2>3. pdnd' = pdnd \/ pdnd' = [pdnd EXCEPT !.sending = pdnd.on]
      BY <1>2
    <2>4. pdnd' \in [on : OnOff, sending : OnOff \cup {"none"}, sent : OnOff]
      BY <2>3 DEF PhoneOK
    <2>5. track' \in [cur : 0..MaxEvents, sent : 0..MaxEvents] /\ track'.sent <= track'.cur /\ track'.cur <= events
      BY <2>2, BoundsAssumption DEF PhoneOK
    <2> QED BY <2>1, <2>4, <2>5 DEF PhoneOK
  <1>5. ProcOK'
    BY <1>1, MovedOK DEF Procs
  <1>6. CountOK' /\ SetOK' /\ ItemsOK' /\ QueueOK' /\ ShowOK' /\ ToPhoneOK'
    BY <1>1 DEF Connect, boundVars, notifVars, CountOK, SetOK, ItemsOK, QueueOK, ShowOK, ToPhoneOK
  <1> QED BY <1>3, <1>4, <1>5, <1>6

\* Nothing waits without a socket.
LEMMA NoFrames ==
    ASSUME toMac' = <<>>
    PROVE  ToMacOK'
  <1>1. toMac' \in Seq(FromPhone) /\ Len(toMac') = 0
    OBVIOUS
  <1>2. \A i : i \notin 1..Len(toMac')
    BY <1>1
  <1> QED BY <1>1, <1>2, Zenon DEF ToMacOK

LEMMA DisconnectTypeInv == ASSUME TypeInv, Disconnect PROVE TypeInv'
  <1> USE DEF TypeInv
  <1>1. ToMacOK'
    BY NoFrames DEF Disconnect, Lost
  <1>2. ToPhoneOK'
    <2>1. toPhone' = <<>> /\ ws' = FALSE
      BY DEF Disconnect, Lost
    <2>2. toPhone' \in Seq(FromMac)
      BY <2>1
    <2> QED BY <2>1, <2>2, Zenon DEF ToPhoneOK
  <1>3. QueueOK'
    <2>1. UNCHANGED queue /\ owed' \subseteq owed
      BY DEF Disconnect, Lost
    <2> QED BY <2>1 DEF QueueOK
  <1>4. CountOK'
    BY BoundsAssumption DEF Disconnect, CountOK
  <1>5. SetOK' /\ ItemsOK' /\ ShowOK' /\ PhoneOK' /\ ProcOK'
    BY DEF Disconnect, phoneVars, SetOK, ItemsOK, ShowOK, PhoneOK, ProcOK, PlaceOK, At
  <1> QED BY <1>1, <1>2, <1>3, <1>4, <1>5

LEMMA RestartTypeInv == ASSUME TypeInv, MacRestarts PROVE TypeInv'
  <1> USE DEF TypeInv
  <1>1. ToMacOK'
    <2>1. CASE ws
      BY <2>1, NoFrames DEF MacRestarts
    <2>2. CASE ~ws
      BY <2>2 DEF MacRestarts, ToMacOK, Timely
    <2> QED BY <2>1, <2>2
  <1>2. ToPhoneOK'
    <2>1. toPhone' = <<>> /\ ws' = FALSE
      BY DEF MacRestarts
    <2>2. toPhone' \in Seq(FromMac)
      BY <2>1
    <2> QED BY <2>1, <2>2, Zenon DEF ToPhoneOK
  <1>3. QueueOK'
    <2>1. queue' = <<>> /\ owed' = {}
      BY DEF MacRestarts
    <2> QED BY <2>1, BoundsAssumption DEF QueueOK
  <1>4. ItemsOK'
    BY NoItems DEF MacRestarts
  <1>5. CountOK' /\ ShowOK'
    BY BoundsAssumption DEF MacRestarts, CountOK, ShowOK, OnOff
  <1>6. ProcOK'
    BY DEF MacRestarts, ProcOK, PlaceOK, At, Idle
  <1>7. SetOK' /\ PhoneOK'
    BY DEF MacRestarts, phoneVars, SetOK, PhoneOK
  <1> QED BY <1>1, <1>2, <1>3, <1>4, <1>5, <1>6, <1>7

\* Nothing happens.
LEMMA StutterTypeInv == ASSUME TypeInv, UNCHANGED vars PROVE TypeInv'
  BY DEF vars, boundVars, notifVars, phoneVars, wireVars, TypeInv, CountOK, SetOK, ItemsOK, QueueOK,
         ShowOK, ToMacOK, Timely, ToPhoneOK, PhoneOK, ProcOK, PlaceOK, At

LEMMA NextTypeInv == ASSUME TypeInv, [Next]_vars PROVE TypeInv'
  <1>1. CASE Tick
    BY <1>1, TickTypeInv
  <1>2. CASE IngestPost \/ IngestDismiss \/ IngestPlayback \/ IngestDND
    BY <1>2, ReaderTypeInv
  <1>3. CASE Post
    BY <1>3, PostTypeInv
  <1>4. CASE ApplyPlayback
    BY <1>4, ApplyTypeInv
  <1>5. ASSUME NEW c \in Callers,
               \/ \E s \in Settings : ChangeSettings(c, s)
               \/ Clear(c) \/ ClearPlayback(c) \/ ClearNotifications(c) \/ MarkSeen(c)
               \/ \E id \in Ids : Dismiss(c, id)
               \/ SendPlaybackCmd(c)
               \/ \E on \in OnOff : SetDND(c, on)
               \/ SendDND(c)
        PROVE  TypeInv'
    BY <1>5, ChangeSettingsTypeInv, ClearTypeInv, PaneTypeInv, DismissTypeInv, CommandTypeInv,
       WishTypeInv, SendWishTypeInv
  <1>6. ASSUME NEW s \in Settings, AdoptSettings(s) PROVE TypeInv'
    BY <1>6, AdoptTypeInv
  <1>7. ASSUME NEW p \in Procs, FlushNothing(p) \/ TakePendingDismissals(p) \/ SendDismissal(p)
        PROVE  TypeInv'
    BY <1>7, FlushTypeInv, SendDismissalTypeInv
  <1>8. ASSUME NEW id \in Ids, PhonePost(id) PROVE TypeInv'
    BY <1>8, PhonePostTypeInv
  <1>9. CASE PhonePlays
    BY <1>9, PhonePlaysTypeInv
  <1>10. ASSUME NEW on \in OnOff, PhoneDND(on) PROVE TypeInv'
    BY <1>10, PhoneDNDTypeInv
  <1>11. CASE DndSent
    BY <1>11, DndSentTypeInv
  <1>12. CASE PhoneDismisses \/ PhoneCommand \/ PhoneSetDND \/ PhoneRefusesDND
    BY <1>12, PhoneFrameTypeInv
  <1>13. CASE Connect
    BY <1>13, ConnectTypeInv
  <1>14. CASE Disconnect
    BY <1>14, DisconnectTypeInv
  <1>15. CASE MacRestarts
    BY <1>15, RestartTypeInv
  <1>16. CASE UNCHANGED vars
    BY <1>16, StutterTypeInv
  <1> QED
    BY <1>1, <1>2, <1>3, <1>4, <1>5, <1>6, <1>7, <1>8, <1>9, <1>10, <1>11, <1>12, <1>13, <1>14,
       <1>15, <1>16 DEF Next

\* Types (TypeOK): the mirror has one row per id and keeps to its bound, the
\* queue to its own, a goroutine sends dismissals only while it holds some, and
\* what waits for a socket are posts, oldest first, one per notification.
THEOREM TypeCorrect == Spec => []TypeOK
  <1>1. Init => TypeInv
    BY InitTypeInv
  <1>2. TypeInv /\ [Next]_vars => TypeInv'
    BY NextTypeInv
  <1> QED BY <1>1, <1>2, TypesFit, PTL DEF Spec

(***************************************************************************)
(* No dismissal is forgotten.                                              *)
(***************************************************************************)

In(s) == {s[i] : i \in 1..Len(s)}

LEMMA InAppended ==
    ASSUME NEW S, NEW s \in Seq(S), NEW x \in S
    PROVE  In(Append(s, x)) = In(s) \cup {x}
  <1> DEFINE a == Append(s, x)
  <1>1. /\ Len(a) = Len(s) + 1 /\ Len(s) \in Nat /\ a[Len(s) + 1] = x
        /\ \A i \in 1..Len(s) : a[i] = s[i]
    BY Appended
  <1> HIDE DEF a
  <1>2. ASSUME NEW i \in 1..Len(a) PROVE a[i] \in In(s) \cup {x}
    <2>1. i \in 1..Len(s) \/ i = Len(s) + 1
      BY <1>1
    <2> QED BY <1>1, <2>1 DEF In
  <1>3. ASSUME NEW i \in 1..Len(s) PROVE s[i] \in In(a)
    <2>1. i \in 1..Len(a) /\ a[i] = s[i]
      BY <1>1
    <2> QED BY <2>1 DEF In
  <1>4. x \in In(a)
    <2>1. Len(s) + 1 \in 1..Len(a)
      BY <1>1
    <2> QED BY <1>1, <2>1 DEF In
  <1>5. In(a) = In(s) \cup {x}
    BY <1>2, <1>3, <1>4 DEF In
  <1> QED BY <1>5 DEF a

LEMMA InRest ==
    ASSUME NEW S, NEW s \in Seq(S), s # <<>>
    PROVE  In(s) = {Head(s)} \cup In(Tail(s))
  <1> DEFINE t == Tail(s)
  <1>1. /\ Len(t) = Len(s) - 1 /\ Len(s) \in Nat \ {0} /\ Head(s) = s[1]
        /\ \A i \in 1..(Len(s) - 1) : t[i] = s[i + 1]
    BY Rest
  <1> HIDE DEF t
  <1>2. ASSUME NEW i \in 1..Len(t) PROVE t[i] \in In(s)
    <2>1. i + 1 \in 1..Len(s) /\ t[i] = s[i + 1]
      BY <1>1
    <2> QED BY <2>1 DEF In
  <1>3. ASSUME NEW i \in 1..Len(s) PROVE s[i] \in {Head(s)} \cup In(t)
    <2>1. CASE i = 1
      BY <1>1, <2>1
    <2>2. CASE i # 1
      <3>1. i - 1 \in 1..Len(t) /\ t[i - 1] = s[i]
        <4>1. i - 1 \in 1..(Len(s) - 1) /\ (i - 1) + 1 = i
          BY <1>1, <2>2
        <4> QED BY <1>1, <4>1
      <3> QED BY <3>1 DEF In
    <2> QED BY <2>1, <2>2
  <1>4. Head(s) \in In(s)
    BY <1>1 DEF In
  <1>5. In(s) = {Head(s)} \cup In(t)
    BY <1>2, <1>3, <1>4 DEF In
  <1> QED BY <1>5 DEF t

LEMMA InNone == In(<<>>) = {}
  BY DEF In

Flushing(id) == \E p \in Procs : At(p, "dismissing") /\ id \in In(proc[p].arg)
Sent(id) == \E m \in In(toPhone) : m.type = "dismiss" /\ m.id = id

\* Each owed dismissal is somewhere.
OwedKept == \A id \in owed : id \in In(queue) \/ Flushing(id) \/ Sent(id)

LEMMA KeptFits == TypeInv /\ OwedKept => NoDismissForgotten
  <1> SUFFICES ASSUME TypeInv, OwedKept, NEW id \in owed
               PROVE  \/ \E i \in DOMAIN queue : queue[i] = id
                      \/ \E p \in Procs : At(p, "dismissing") /\ \E i \in DOMAIN proc[p].arg : proc[p].arg[i] = id
                      \/ \E i \in DOMAIN toPhone : toPhone[i].type = "dismiss" /\ toPhone[i].id = id
    BY DEF NoDismissForgotten
  <1>1. CASE id \in In(queue)
    BY <1>1 DEF In, TypeInv, QueueOK
  <1>2. CASE Flushing(id)
    <2>1. PICK p \in Procs : At(p, "dismissing") /\ id \in In(proc[p].arg)
      BY <1>2 DEF Flushing
    <2>2. proc[p].arg \in Seq(Ids)
      BY <2>1 DEF TypeInv, ProcOK, PlaceOK
    <2>3. DOMAIN proc[p].arg = 1..Len(proc[p].arg)
      BY <2>2
    <2> QED BY <2>1, <2>3 DEF In
  <1>3. CASE Sent(id)
    <2>1. DOMAIN toPhone = 1..Len(toPhone)
      BY DEF TypeInv, ToPhoneOK
    <2> QED BY <1>3, <2>1 DEF Sent, In
  <1> QED BY <1>1, <1>2, <1>3 DEF OwedKept

\* A step that moves no flush and leaves the queue alone.
LEMMA ElsewhereKept ==
    ASSUME ProcOK, OwedKept, owed' \subseteq owed, queue' = queue,
           \A id \in owed' : Sent(id) => Sent(id)',
           \/ UNCHANGED proc
           \/ \E p \in Procs : ~At(p, "dismissing") /\ \E pc, arg : Goto(p, pc, arg)
    PROVE  OwedKept'
  <1> SUFFICES ASSUME NEW id \in owed'
               PROVE  id \in In(queue') \/ Flushing(id)' \/ Sent(id)'
    BY DEF OwedKept
  <1>1. id \in In(queue) \/ Flushing(id) \/ Sent(id)
    BY DEF OwedKept
  <1>2. CASE Flushing(id)
    <2>1. PICK q \in Procs : At(q, "dismissing") /\ id \in In(proc[q].arg)
      BY <1>2 DEF Flushing
    <2>2. proc'[q] = proc[q]
      <3>1. CASE UNCHANGED proc
        BY <3>1
      <3>2. ASSUME NEW p \in Procs, ~At(p, "dismissing"), NEW pc, NEW arg, Goto(p, pc, arg)
            PROVE  proc'[q] = proc[q]
        <4>1. p # q
          BY <2>1, <3>2
        <4> QED BY <3>2, <4>1, Moved
      <3> QED BY <3>1, <3>2
    <2> QED BY <2>1, <2>2 DEF Flushing, At
  <1> QED BY <1>1, <1>2

\* What is sent stays sent when a frame is added ...
LEMMA SentStays ==
    ASSUME ToPhoneOK, NEW m \in FromMac, toPhone' = Append(toPhone, m), NEW id, Sent(id)
    PROVE  Sent(id)'
  <1>1. In(toPhone') = In(toPhone) \cup {m}
    BY InAppended DEF ToPhoneOK
  <1> QED BY <1>1 DEF Sent

\* ... or when another frame is taken.
LEMMA SentLeft ==
    ASSUME ToPhoneOK, toPhone # <<>>, toPhone' = Tail(toPhone), NEW id, Sent(id),
           ~(Head(toPhone).type = "dismiss" /\ Head(toPhone).id = id)
    PROVE  Sent(id)'
  <1>1. In(toPhone) = {Head(toPhone)} \cup In(toPhone')
    BY InRest DEF ToPhoneOK
  <1> QED BY <1>1 DEF Sent

LEMMA DismissKept ==
    ASSUME TypeInv, OwedKept, NEW c \in Callers, NEW id \in Ids, Dismiss(c, id)
    PROVE  OwedKept'
  <1>1. /\ QueueOK /\ ProcOK /\ c \in Procs /\ ~At(c, "dismissing") /\ Goto(c, "flush", <<>>)
        /\ queue' = Queued(id) /\ owed' = (owed \ Dropped(id)) \cup {id} /\ UNCHANGED toPhone
    BY Caller DEF TypeInv, Dismiss, Call, At, wireVars
  <1>2. /\ Queued(id)[Len(Queued(id))] = id /\ Len(Queued(id)) \in 1..Len(Queued(id))
        /\ \A i \in 1..Len(queue) :
             queue[i] \in Dropped(id) \/ \E j \in 1..Len(Queued(id)) : Queued(id)[j] = queue[i]
    BY <1>1, QueuedOK
  <1>3. \A p \in Procs : p # c => proc'[p] = proc[p]
    BY <1>1, Moved
  <1>4. \A x : Flushing(x) => Flushing(x)'
    BY <1>1, <1>3 DEF Flushing, At
  <1>5. \A x : Sent(x) => Sent(x)'
    BY <1>1 DEF Sent
  <1>6. ASSUME NEW x \in owed' PROVE x \in In(queue') \/ Flushing(x)' \/ Sent(x)'
    <2>1. CASE x = id
      BY <1>1, <1>2, <2>1 DEF In
    <2>2. CASE x # id
      <3>1. x \in owed /\ x \notin Dropped(id)
        BY <1>1, <1>6, <2>2
      <3>2. CASE x \in In(queue)
        BY <1>1, <1>2, <3>1, <3>2 DEF In
      <3> QED BY <1>4, <1>5, <3>1, <3>2 DEF OwedKept
    <2> QED BY <2>1, <2>2
  <1> QED BY <1>6 DEF OwedKept

LEMMA TakenKept ==
    ASSUME TypeInv, OwedKept, NEW p \in Procs, TakePendingDismissals(p)
    PROVE  OwedKept'
  <1>1. /\ ProcOK /\ At(p, "flush") /\ Goto(p, "dismissing", queue)
        /\ UNCHANGED <<owed, toPhone>>
    BY DEF TypeInv, TakePendingDismissals, wireVars
  <1>2. proc'[p].pc = "dismissing" /\ proc'[p].arg = queue /\ \A q \in Procs : q # p => proc'[q] = proc[q]
    BY <1>1, Moved
  <1>3. \A x : Flushing(x) => Flushing(x)'
    BY <1>1, <1>2 DEF Flushing, At
  <1>4. \A x \in In(queue) : Flushing(x)'
    BY <1>2 DEF Flushing, At
  <1>5. \A x : Sent(x) => Sent(x)'
    BY <1>1 DEF Sent
  <1> QED BY <1>1, <1>3, <1>4, <1>5 DEF OwedKept

LEMMA SendDismissalKept ==
    ASSUME TypeInv, OwedKept, NEW p \in Procs, SendDismissal(p)
    PROVE  OwedKept'
  <1> DEFINE a == proc[p].arg
             id == Head(a)
             m == [type |-> "dismiss", id |-> id]
  <1>1. a \in Seq(Ids) /\ a # <<>> /\ ProcOK /\ At(p, "dismissing")
    BY DEF SendDismissal, TypeInv, ProcOK, PlaceOK
  <1>2. Len(Tail(a)) = Len(a) - 1 /\ Len(a) \in Nat \ {0} /\ id \in Ids /\ In(a) = {id} \cup In(Tail(a))
    BY <1>1, Rest, InRest
  <1>3. /\ Len(a) = 1 => Finish(p)
        /\ Len(a) # 1 => Goto(p, "dismissing", Tail(a))
        /\ \/ toPhone' = Append(toPhone, m) /\ UNCHANGED <<queue, owed>>
           \/ queue' = Queued(id) /\ owed' = owed \ (Dropped(id) \ {id}) /\ UNCHANGED toPhone
    BY DEF SendDismissal
  <1>4. ASSUME NEW x, Flushing(x) PROVE x = id \/ Flushing(x)'
    <2>1. PICK q \in Procs : At(q, "dismissing") /\ x \in In(proc[q].arg)
      BY <1>4 DEF Flushing
    <2>2. CASE q # p
      <3>1. \E pc, arg : Goto(p, pc, arg)
        BY <1>3, Finished
      <3>2. proc'[q] = proc[q]
        BY <1>1, <2>2, <3>1, Moved
      <3> QED BY <2>1, <3>2 DEF Flushing, At
    <2>3. CASE q = p /\ Len(a) # 1
      <3>1. proc'[p].pc = "dismissing" /\ proc'[p].arg = Tail(a)
        BY <1>1, <1>3, <2>3, Moved
      <3>2. x = id \/ x \in In(Tail(a))
        BY <1>2, <2>1, <2>3
      <3> QED BY <3>1, <3>2 DEF Flushing, At
    <2>4. CASE q = p /\ Len(a) = 1
      <3>1. In(a) = {a[1]} /\ id = a[1]
        BY <1>1, <2>4, Rest DEF In
      <3> QED BY <2>1, <2>4, <3>1
    <2> QED BY <2>2, <2>3, <2>4
  <1>5. m \in FromMac /\ m.type = "dismiss" /\ m.id = id
    BY <1>2 DEF FromMac
  <1> HIDE DEF a, id, m
  <1>6. CASE toPhone' = Append(toPhone, m) /\ UNCHANGED <<queue, owed>>
    <2>1. In(toPhone') = In(toPhone) \cup {m}
      BY <1>5, <1>6, InAppended DEF TypeInv, ToPhoneOK
    <2>2. \A x : x = id \/ Sent(x) => Sent(x)'
      BY <1>5, <2>1 DEF Sent
    <2> QED BY <1>4, <1>6, <2>2 DEF OwedKept
  <1>7. CASE queue' = Queued(id) /\ owed' = owed \ (Dropped(id) \ {id}) /\ UNCHANGED toPhone
    <2>1. /\ Queued(id)[Len(Queued(id))] = id /\ Len(Queued(id)) \in 1..Len(Queued(id))
          /\ \A i \in 1..Len(queue) :
               queue[i] \in Dropped(id) \/ \E j \in 1..Len(Queued(id)) : Queued(id)[j] = queue[i]
      BY <1>2, QueuedOK DEF TypeInv
    <2>2. id \in In(queue')
      BY <1>7, <2>1 DEF In
    <2>3. ASSUME NEW x \in owed', x # id PROVE x \in In(queue') \/ Flushing(x)' \/ Sent(x)'
      <3>1. x \in owed /\ x \notin Dropped(id)
        BY <1>7, <2>3
      <3>2. CASE x \in In(queue)
        BY <1>7, <2>1, <3>1, <3>2 DEF In
      <3>3. CASE Sent(x)
        BY <1>7, <3>3 DEF Sent
      <3> QED BY <1>4, <2>3, <3>1, <3>2, <3>3 DEF OwedKept
    <2> QED BY <2>2, <2>3 DEF OwedKept
  <1> QED BY <1>3, <1>6, <1>7

\* The steps that send to the phone.
LEMMA SendsKept ==
    ASSUME TypeInv, OwedKept, NEW c \in Callers, SendPlaybackCmd(c) \/ SendDND(c)
    PROVE  OwedKept'
  <1>1. ToPhoneOK /\ ProcOK
    BY DEF TypeInv
  <1>2. \E m \in FromMac : UNCHANGED toPhone \/ toPhone' = Append(toPhone, m)
    <2>1. CASE SendPlaybackCmd(c)
      <3>1. [type |-> "cmd"] \in FromMac
        BY DEF FromMac
      <3>2. UNCHANGED toPhone \/ toPhone' = Append(toPhone, [type |-> "cmd"])
        BY <2>1 DEF SendPlaybackCmd
      <3> QED BY <3>1, <3>2
    <2>2. CASE SendDND(c)
      <3> DEFINE m == [type |-> "dnd", on |-> proc[c].arg[1]]
      <3>1. m \in FromMac
        BY <1>1, <2>2, Caller DEF FromMac, ProcOK, PlaceOK, SendDND
      <3>2. UNCHANGED toPhone \/ toPhone' = Append(toPhone, m)
        BY <2>2 DEF SendDND
      <3> QED BY <3>1, <3>2
    <2> QED BY <2>1, <2>2
  <1>3. \A id : Sent(id) => Sent(id)'
    <2> SUFFICES ASSUME NEW id, Sent(id) PROVE Sent(id)'
      OBVIOUS
    <2>1. CASE UNCHANGED toPhone
      BY <2>1 DEF Sent
    <2> QED BY <1>1, <1>2, <2>1, SentStays
  <1>4. \/ UNCHANGED proc
        \/ \E p \in Procs : ~At(p, "dismissing") /\ \E pc, arg : Goto(p, pc, arg)
    BY Caller, Finished DEF SendPlaybackCmd, SendDND, At
  <1>5. owed' = owed /\ queue' = queue
    BY DEF SendPlaybackCmd, SendDND, notifVars
  <1> QED BY <1>1, <1>3, <1>4, <1>5, ElsewhereKept

\* The steps that take from the socket or lose it.
LEMMA TakesKept ==
    ASSUME TypeInv, OwedKept,
           PhoneDismisses \/ PhoneCommand \/ PhoneSetDND \/ PhoneRefusesDND \/ Disconnect
    PROVE  OwedKept'
  <1>1. ToPhoneOK /\ ProcOK
    BY DEF TypeInv
  <1>2. owed' \subseteq owed /\ queue' = queue /\ UNCHANGED proc
    BY DEF PhoneDismisses, PhoneCommand, PhoneSetDND, PhoneRefusesDND, Disconnect, Lost, notifVars
  <1>3. ASSUME NEW id \in owed', Sent(id) PROVE Sent(id)'
    <2>1. CASE PhoneDismisses
      <3>1. toPhone # <<>> /\ toPhone' = Tail(toPhone) /\ Head(toPhone).id # id
        BY <1>3, <2>1 DEF PhoneDismisses, PhoneFrame
      <3> QED BY <1>1, <1>3, <3>1, SentLeft
    <2>2. CASE PhoneCommand \/ PhoneSetDND \/ PhoneRefusesDND
      <3>1. toPhone # <<>> /\ toPhone' = Tail(toPhone) /\ Head(toPhone).type # "dismiss"
        BY <2>2 DEF PhoneCommand, PhoneSetDND, PhoneRefusesDND, PhoneFrame
      <3> QED BY <1>1, <1>3, <3>1, SentLeft
    <2>3. CASE Disconnect
      <3>1. PICK i \in 1..Len(toPhone) : toPhone[i].type = "dismiss" /\ toPhone[i].id = id
        BY <1>3 DEF Sent, In
      <3>2. toPhone[i] \in FromMac /\ i \in DOMAIN toPhone
        BY <1>1, <3>1 DEF ToPhoneOK
      <3>3. toPhone[i] \in [type : {"dismiss"}, id : Ids]
        BY <3>1, <3>2 DEF FromMac
      <3>4. id \in {m.id : m \in {toPhone[j] : j \in DOMAIN toPhone} \cap [type : {"dismiss"}, id : Ids]}
        BY <3>1, <3>2, <3>3
      <3> QED BY <1>3, <2>3, <3>4 DEF Disconnect, Lost
    <2> QED BY <2>1, <2>2, <2>3
  <1> QED BY <1>1, <1>2, <1>3, ElsewhereKept

\* The steps that leave the dismissals alone.
LEMMA OthersKept ==
    ASSUME TypeInv, OwedKept,
           \/ Tick \/ IngestPost \/ Post \/ IngestDismiss \/ IngestPlayback \/ ApplyPlayback \/ IngestDND
           \/ \E c \in Callers :
                \/ \E s \in Settings : ChangeSettings(c, s)
                \/ Clear(c) \/ ClearPlayback(c) \/ ClearNotifications(c) \/ MarkSeen(c)
                \/ \E on \in OnOff : SetDND(c, on)
           \/ \E s \in Settings : AdoptSettings(s)
           \/ \E p \in Procs : FlushNothing(p)
           \/ \E id \in Ids : PhonePost(id)
           \/ PhonePlays \/ DndSent \/ Connect
           \/ \E on \in OnOff : PhoneDND(on)
           \/ UNCHANGED vars
    PROVE  OwedKept'
  <1>1. ProcOK /\ Reader \in Procs
    BY DEF TypeInv, Procs
  <1>2. owed' = owed /\ queue' = queue /\ toPhone' = toPhone
    BY DEF Tick, IngestPost, Post, IngestDismiss, IngestPlayback, ApplyPlayback, IngestDND, ChangeSettings,
           Clear, ClearPlayback, ClearNotifications, MarkSeen, SetDND, AdoptSettings, FlushNothing,
           PhonePost, PhonePlays, DndSent, Connect, PhoneDND, vars, boundVars, notifVars, wireVars, phoneVars
  <1>3. \A id : Sent(id) => Sent(id)'
    BY <1>2 DEF Sent
  <1>4. \/ UNCHANGED proc
        \/ \E p \in Procs : ~At(p, "dismissing") /\ \E pc, arg : Goto(p, pc, arg)
    <2>1. CASE \/ Tick \/ IngestDismiss \/ IngestDND \/ PhonePlays \/ DndSent \/ UNCHANGED vars
               \/ \E s \in Settings : AdoptSettings(s)
               \/ \E id \in Ids : PhonePost(id)
               \/ \E on \in OnOff : PhoneDND(on)
      BY <2>1 DEF Tick, IngestDismiss, IngestDND, PhonePlays, DndSent, vars, AdoptSettings, PhonePost, PhoneDND
    <2>2. CASE IngestPost \/ IngestPlayback \/ Connect
      BY <1>1, <2>2 DEF IngestPost, IngestPlayback, Connect, Frame, At
    <2>3. CASE Post \/ ApplyPlayback \/ \E p \in Procs : FlushNothing(p)
      BY <1>1, <2>3, Finished DEF Post, ApplyPlayback, FlushNothing, At
    <2>4. ASSUME NEW c \in Callers,
                 \/ \E s \in Settings : ChangeSettings(c, s)
                 \/ Clear(c) \/ ClearPlayback(c) \/ ClearNotifications(c) \/ MarkSeen(c)
                 \/ \E on \in OnOff : SetDND(c, on)
          PROVE  UNCHANGED proc \/ (~At(c, "dismissing") /\ \E pc, arg : Goto(c, pc, arg))
      BY <2>4 DEF ChangeSettings, Clear, ClearPlayback, ClearNotifications, MarkSeen, SetDND, Call, At
    <2> QED BY <2>1, <2>2, <2>3, <2>4, Caller
  <1> QED BY <1>1, <1>2, <1>3, <1>4, ElsewhereKept

LEMMA NextKept == ASSUME TypeInv, OwedKept, [Next]_vars PROVE OwedKept'
  <1>1. CASE \E c \in Callers : \E id \in Ids : Dismiss(c, id)
    BY <1>1, DismissKept
  <1>2. CASE \E c \in Callers : SendPlaybackCmd(c) \/ SendDND(c)
    BY <1>2, SendsKept
  <1>3. CASE \E p \in Procs : TakePendingDismissals(p) \/ SendDismissal(p)
    BY <1>3, TakenKept, SendDismissalKept
  <1>4. CASE PhoneDismisses \/ PhoneCommand \/ PhoneSetDND \/ PhoneRefusesDND \/ Disconnect
    BY <1>4, TakesKept
  <1>5. CASE MacRestarts
    BY <1>5 DEF MacRestarts, OwedKept
  <1> QED BY <1>1, <1>2, <1>3, <1>4, <1>5, OthersKept DEF Next

\* A dismissal the user made on the Mac is in the queue, in the hands of a
\* flush or in the socket until the phone has had it (NoDismissForgotten):
\* neither two flushes at once nor a socket that goes between taking the queue
\* and sending it lose one.
THEOREM DismissalsKept == Spec => []NoDismissForgotten
  <1>1. Init => TypeInv /\ OwedKept
    BY InitTypeInv DEF Init, OwedKept
  <1>2. TypeInv /\ OwedKept /\ [Next]_vars => (TypeInv /\ OwedKept)'
    BY NextTypeInv, NextKept
  <1> QED BY <1>1, <1>2, KeptFits, PTL DEF Spec

(***************************************************************************)
(* Off shows nothing.                                                      *)
(***************************************************************************)

Off == ~st.on /\ offBy = "mac" /\ \A c \in Callers : ~At(c, "clear")

\* The one row is the post that was past its gates: with it still on its way
\* there is none.
OffInv == Off => Len(items) <= 1 /\ (At(Reader, "post") => items = <<>>)

LEMMA OffFits == OffInv => OffShowsNothing
  BY DEF OffInv, Off, OffShowsNothing

\* A mirror that does not grow.
LEMMA OffFewer ==
    ASSUME ItemsOK, OffInv, Off' => Off, At(Reader, "post")' => At(Reader, "post"),
           items' = <<>> \/ items' = items \/ \E id : items' = Without(items, id)
    PROVE  OffInv'
  <1>1. ItemsOK => Len(items) \in Nat /\ Len(<<>>) = 0
    BY DEF ItemsOK
  <1>2. CASE items' = <<>>
    BY <1>1, <1>2 DEF OffInv
  <1>3. CASE items' = items
    BY <1>3 DEF OffInv
  <1>4. ASSUME NEW id, items' = Without(items, id) PROVE OffInv'
    <2>1. items' \in Seq(Rows) /\ Len(items') <= Len(items)
      BY <1>4, ItemsWithout
    <2>2. Len(items') \in Nat
      BY <2>1
    <2>3. items = <<>> => items' = <<>>
      <3>1. items = <<>> => Len(items') = 0
        BY <1>1, <2>1, <2>2
      <3> QED BY <2>1, <3>1
    <2>4. Len(items) <= 1 => Len(items') <= 1
      BY <1>1, <2>1, <2>2
    <2> QED BY <2>3, <2>4 DEF OffInv
  <1> QED BY <1>2, <1>3, <1>4

\* A step that switches nothing, leaves no "clear" behind and brings no post.
LEMMA OffElsewhere ==
    ASSUME TypeInv, OffInv, st'.on = st.on, offBy' = offBy,
           \/ UNCHANGED proc
           \/ \E p \in Procs : ~At(p, "clear") /\ \E pc, arg : pc # "post" /\ Goto(p, pc, arg),
           items' = <<>> \/ items' = items \/ \E id : items' = Without(items, id)
    PROVE  OffInv'
  <1>1. ProcOK /\ ItemsOK
    BY DEF TypeInv
  <1>2. /\ \A c \in Callers : At(c, "clear") => At(c, "clear")'
        /\ At(Reader, "post")' => At(Reader, "post")
    <2>1. CASE UNCHANGED proc
      BY <2>1 DEF At
    <2>2. ASSUME NEW p \in Procs, ~At(p, "clear"), NEW pc, NEW arg, pc # "post", Goto(p, pc, arg)
          PROVE  /\ \A c \in Callers : At(c, "clear") => At(c, "clear")'
                 /\ At(Reader, "post")' => At(Reader, "post")
      <3>1. proc'[p].pc = pc /\ \A q \in Procs : q # p => proc'[q] = proc[q]
        BY <1>1, <2>2, Moved
      <3> QED BY <2>2, <3>1 DEF Procs, At
    <2> QED BY <2>1, <2>2
  <1>3. Off' => Off
    BY <1>2 DEF Off
  <1> QED BY <1>1, <1>2, <1>3, OffFewer

LEMMA PostOff == ASSUME TypeInv, OffInv, Post PROVE OffInv'
  <1> DEFINE m == proc[Reader].arg[1]
             row == [id |-> m.id, ver |-> m.ver]
             next == <<row>> \o Without(items, m.id)
             cut == SubSeq(next, 1, IF Len(next) > MaxItems THEN MaxItems ELSE Len(next))
  <1>1. At(Reader, "post") /\ Goto(Reader, "idle", <<>>) /\ Reader \in Procs /\ ProcOK /\ ItemsOK
    BY Finished DEF Post, Procs, TypeInv
  <1>2. /\ proc'[Reader].pc = "idle" /\ \A q \in Procs : q # Reader => proc'[q] = proc[q]
    BY <1>1, Moved
  <1>3. Off' => Off
    BY <1>1, <1>2, Caller DEF Off, Post, At
  <1>4. ~At(Reader, "post")'
    BY <1>2 DEF At
  <1>5. Off => items = <<>>
    BY <1>1 DEF OffInv
  <1>6. items' = items \/ items' = cut
    BY DEF Post
  <1>7. CASE items' = items
    BY <1>3, <1>4, <1>7 DEF OffInv
  <1>8. CASE items' = cut
    <2>1. m \in Posts /\ row \in Rows /\ row.id = m.id
      BY <1>1 DEF ProcOK, PlaceOK, Posts, Rows
    <2>2. next = <<row>> \o Without(items, row.id)
      BY <2>1
    <2> HIDE DEF row, next
    <2>3. cut \in Seq(Rows) /\ Len(cut) <= Len(items) + 1
      BY <1>1, <2>1, <2>2, PostItems
    <2> HIDE DEF cut
    <2>4. items = <<>> => Len(cut) <= 1
      <3>1. Len(<<>>) = 0
        OBVIOUS
      <3> QED BY <2>3, <3>1
    <2> QED BY <1>3, <1>4, <1>5, <1>8, <2>4 DEF OffInv
  <1> QED BY <1>6, <1>7, <1>8

LEMMA SettingsOff ==
    ASSUME TypeInv, OffInv,
           \/ \E c \in Callers : \E s \in Settings : ChangeSettings(c, s)
           \/ \E s \in Settings : AdoptSettings(s)
    PROVE  OffInv'
  <1>1. ProcOK /\ ItemsOK /\ st.on \in BOOLEAN
    BY DEF TypeInv, SetOK, AllSettings
  <1>2. ASSUME NEW c \in Callers, NEW s \in Settings, ChangeSettings(c, s) PROVE OffInv'
    <2>1. At(c, "idle") /\ c \in Procs /\ c # Reader /\ items' = items /\ s.on \in BOOLEAN
      BY <1>2, Caller, SettingsAssumption DEF ChangeSettings, Call, notifVars, AllSettings
    <2>2. PICK pc \in {"clear", "clearplay", "flush"} : Goto(c, pc, <<>>) /\ (st.on /\ ~s.on => pc = "clear")
      BY <1>2 DEF ChangeSettings
    <2>3. proc'[c].pc = pc /\ \A q \in Procs : q # c => proc'[q] = proc[q]
      BY <1>1, <2>1, <2>2, Moved
    <2>4. At(Reader, "post")' => At(Reader, "post")
      BY <2>1, <2>3 DEF Procs, At
    <2>5. Off' => Off
      <3>1. CASE st.on /\ ~s.on
        BY <2>1, <2>2, <2>3, <3>1 DEF Off, At
      <3>2. CASE ~(st.on /\ ~s.on)
        <4>1. st' = s /\ offBy' = offBy
          BY <1>2, <3>2 DEF ChangeSettings
        <4>2. \A q \in Callers : At(q, "clear") => At(q, "clear")'
          BY <2>1, <2>3, Caller DEF At
        <4> QED BY <1>1, <2>1, <3>2, <4>1, <4>2 DEF Off
      <3> QED BY <3>1, <3>2
    <2> QED BY <1>1, <2>1, <2>4, <2>5, OffFewer
  <1>3. ASSUME NEW s \in Settings, AdoptSettings(s) PROVE OffInv'
    <2>1. /\ UNCHANGED proc /\ items' = items /\ s.on \in BOOLEAN /\ st' = s
          /\ offBy' = IF st.on /\ ~s.on THEN "android" ELSE offBy
      BY <1>3, SettingsAssumption DEF AdoptSettings, notifVars, AllSettings
    <2>2. Off' => Off
      BY <1>1, <2>1 DEF Off, At
    <2> QED BY <1>1, <2>1, <2>2, OffFewer DEF At
  <1> QED BY <1>2, <1>3

LEMMA ClearOff == ASSUME TypeInv, OffInv, (\E c \in Callers : Clear(c)) \/ MacRestarts PROVE OffInv'
  <1>1. items' = <<>>
    BY DEF Clear, MacRestarts
  <1>2. Len(<<>>) = 0
    OBVIOUS
  <1> QED BY <1>1, <1>2 DEF OffInv

LEMMA IngestPostOff == ASSUME TypeInv, OffInv, IngestPost PROVE OffInv'
  <1>1. CASE UNCHANGED proc
    BY <1>1, OffElsewhere DEF IngestPost, notifVars
  <1>2. CASE st.on
    BY <1>2 DEF IngestPost, OffInv, Off
  <1> QED BY <1>1, <1>2 DEF IngestPost

LEMMA OthersOff ==
    ASSUME TypeInv, OffInv,
           \/ Tick \/ IngestDismiss \/ IngestPlayback \/ ApplyPlayback \/ IngestDND
           \/ \E c \in Callers :
                \/ ClearPlayback(c) \/ ClearNotifications(c) \/ MarkSeen(c)
                \/ \E id \in Ids : Dismiss(c, id)
                \/ SendPlaybackCmd(c)
                \/ \E on \in OnOff : SetDND(c, on)
                \/ SendDND(c)
           \/ \E p \in Procs : FlushNothing(p) \/ TakePendingDismissals(p) \/ SendDismissal(p)
           \/ \E id \in Ids : PhonePost(id)
           \/ PhonePlays \/ DndSent \/ PhoneDismisses \/ PhoneCommand \/ PhoneSetDND \/ PhoneRefusesDND
           \/ Connect \/ Disconnect
           \/ \E on \in OnOff : PhoneDND(on)
           \/ UNCHANGED vars
    PROVE  OffInv'
  <1>1. st.on' = st.on /\ offBy' = offBy
    <2>1. CASE \E c \in Callers : SendPlaybackCmd(c)
      BY <2>1 DEF SendPlaybackCmd, TypeInv, SetOK, AllSettings
    <2>2. CASE ~\E c \in Callers : SendPlaybackCmd(c)
      BY <2>2 DEF Tick, IngestDismiss, IngestPlayback, ApplyPlayback, IngestDND, ClearPlayback,
           ClearNotifications, MarkSeen, Dismiss, SetDND, SendDND, FlushNothing, TakePendingDismissals,
           SendDismissal, PhonePost, PhonePlays, DndSent, PhoneDismisses, PhoneCommand, PhoneSetDND,
           PhoneRefusesDND, Connect, Disconnect, PhoneDND, vars
    <2> QED BY <2>1, <2>2
  <1>2. items' = <<>> \/ items' = items \/ \E id : items' = Without(items, id)
    BY DEF Tick, IngestDismiss, IngestPlayback, ApplyPlayback, IngestDND, ClearPlayback,
           ClearNotifications, MarkSeen, Dismiss, SendPlaybackCmd, SetDND, SendDND, FlushNothing,
           TakePendingDismissals, SendDismissal, PhonePost, PhonePlays, DndSent, PhoneDismisses,
           PhoneCommand, PhoneSetDND, PhoneRefusesDND, Connect, Disconnect, PhoneDND, vars, notifVars
  <1>3. \/ UNCHANGED proc
        \/ \E p \in Procs : ~At(p, "clear") /\ \E pc, arg : pc # "post" /\ Goto(p, pc, arg)
    <2>1. CASE \/ Tick \/ IngestDismiss \/ IngestDND \/ PhonePlays \/ DndSent \/ UNCHANGED vars
               \/ PhoneDismisses \/ PhoneCommand \/ PhoneSetDND \/ PhoneRefusesDND \/ Disconnect
               \/ \E id \in Ids : PhonePost(id)
               \/ \E on \in OnOff : PhoneDND(on)
      BY <2>1 DEF Tick, IngestDismiss, IngestDND, PhonePlays, DndSent, vars, PhoneDismisses, PhoneCommand,
                  PhoneSetDND, PhoneRefusesDND, Disconnect, PhonePost, PhoneDND
    <2>2. CASE IngestPlayback \/ ApplyPlayback \/ Connect
      <3>1. Reader \in Procs
        BY DEF Procs
      <3>2. ~At(Reader, "clear") /\ (UNCHANGED proc \/ \E pc, arg : pc # "post" /\ Goto(Reader, pc, arg))
        BY <2>2, Finished DEF IngestPlayback, ApplyPlayback, Connect, Frame, At
      <3> QED BY <3>1, <3>2
    <2>3. ASSUME NEW c \in Callers,
                 \/ ClearPlayback(c) \/ ClearNotifications(c) \/ MarkSeen(c)
                 \/ \E id \in Ids : Dismiss(c, id)
                 \/ SendPlaybackCmd(c)
                 \/ \E on \in OnOff : SetDND(c, on)
                 \/ SendDND(c)
          PROVE  UNCHANGED proc \/ (~At(c, "clear") /\ \E pc, arg : pc # "post" /\ Goto(c, pc, arg))
      BY <2>3, Finished DEF ClearPlayback, ClearNotifications, MarkSeen, Dismiss, SendPlaybackCmd, SetDND,
                            SendDND, Call, At
    <2>4. ASSUME NEW p \in Procs, FlushNothing(p) \/ TakePendingDismissals(p) \/ SendDismissal(p)
          PROVE  ~At(p, "clear") /\ \E pc, arg : pc # "post" /\ Goto(p, pc, arg)
      BY <2>4, Finished DEF FlushNothing, TakePendingDismissals, SendDismissal, At
    <2> QED BY <2>1, <2>2, <2>3, <2>4, Caller
  <1> QED BY <1>1, <1>2, <1>3, OffElsewhere

LEMMA NextOff == ASSUME TypeInv, OffInv, [Next]_vars PROVE OffInv'
  BY PostOff, SettingsOff, ClearOff, IngestPostOff, OthersOff DEF Next

\* With the notifications switched off on the Mac and the call done, the pane
\* shows at most the one notification that was past its gates by then
\* (OffShowsNothing).
THEOREM OffIsQuiet == Spec => []OffShowsNothing
  <1>1. Init => TypeInv /\ OffInv
    <2>1. Init => items = <<>> /\ Len(<<>>) = 0
      BY DEF Init
    <2> QED BY <2>1, InitTypeInv DEF OffInv
  <1>2. TypeInv /\ OffInv /\ [Next]_vars => (TypeInv /\ OffInv)'
    BY NextTypeInv, NextOff
  <1> QED BY <1>1, <1>2, OffFits, PTL DEF Spec

(***************************************************************************)
(* The player.                                                             *)
(***************************************************************************)

PlayLost == causes \cap {"loss", "restart", "cleared", "mode"} # {}

Played(s) == {m.ver : m \in {f \in In(s) : f.type = "play"}}
HeldPlay == IF At(Reader, "play") THEN {proc[Reader].arg[1].ver} ELSE {}

\* What is shown and what is on its way to be.
Shown == {playback} \cup HeldPlay \cup Played(toMac)

\* A connected phone has sent what it plays; what it sent last is shown or on
\* its way, and nothing newer is.
PlayInv ==
  /\ ws => track.sent = track.cur
  /\ track.sent \in Shown /\ \A v \in Shown : v <= track.sent

LEMMA PlayFits == TypeInv /\ (PlayLost \/ PlayInv) => PlaybackFollows
  <1> SUFFICES ASSUME TypeInv, PlayInv, Settled PROVE playback = track.cur
    BY DEF PlaybackFollows, PlayLost
  <1>1. ws /\ toMac = <<>> /\ At(Reader, "idle")
    BY DEF Settled, Procs
  <1>2. HeldPlay = {} /\ Played(toMac) = {}
    BY <1>1, InNone DEF HeldPlay, Played, At
  <1> QED BY <1>1, <1>2 DEF PlayInv, Shown

\* A reason stays one.
LEMMA CausesGrow == ASSUME [Next]_vars PROVE causes \subseteq causes'
  <1>1. CASE \/ Tick \/ IngestPost \/ Post \/ IngestDismiss \/ IngestPlayback \/ ApplyPlayback \/ IngestDND
             \/ \E s \in Settings : AdoptSettings(s)
    BY <1>1 DEF Tick, IngestPost, Post, IngestDismiss, IngestPlayback, ApplyPlayback, IngestDND, AdoptSettings
  <1>2. ASSUME NEW c \in Callers,
               \/ \E s \in Settings : ChangeSettings(c, s)
               \/ Clear(c) \/ ClearPlayback(c) \/ ClearNotifications(c) \/ MarkSeen(c)
               \/ \E id \in Ids : Dismiss(c, id)
               \/ SendPlaybackCmd(c)
               \/ \E on \in OnOff : SetDND(c, on)
               \/ SendDND(c)
        PROVE  causes \subseteq causes'
    BY <1>2 DEF ChangeSettings, Clear, ClearPlayback, ClearNotifications, MarkSeen, Dismiss,
                SendPlaybackCmd, SetDND, SendDND
  <1>3. ASSUME NEW p \in Procs, FlushNothing(p) \/ TakePendingDismissals(p) \/ SendDismissal(p)
        PROVE  causes \subseteq causes'
    BY <1>3 DEF FlushNothing, TakePendingDismissals, SendDismissal
  <1>4. CASE \/ \E id \in Ids : PhonePost(id)
             \/ PhonePlays \/ DndSent \/ PhoneDismisses \/ PhoneCommand \/ PhoneRefusesDND
    BY <1>4 DEF PhonePost, PhonePlays, DndSent, PhoneDismisses, PhoneCommand, PhoneRefusesDND
  <1>5. CASE PhoneSetDND \/ \E on \in OnOff : PhoneDND(on)
    BY <1>5 DEF PhoneSetDND, PhoneDND, Switch
  <1>6. CASE Connect \/ Disconnect \/ MacRestarts
    BY <1>6 DEF Connect, Disconnect, MacRestarts, Lost
  <1>7. CASE UNCHANGED vars
    BY <1>7 DEF vars
  <1> QED BY <1>1, <1>2, <1>3, <1>4, <1>5, <1>6, <1>7 DEF Next

LEMMA PlayedAppended ==
    ASSUME NEW s \in Seq(FromPhone), NEW m \in FromPhone
    PROVE  Played(Append(s, m)) = Played(s) \cup (IF m.type = "play" THEN {m.ver} ELSE {})
  <1>1. In(Append(s, m)) = In(s) \cup {m}
    BY InAppended
  <1> QED BY <1>1 DEF Played

LEMMA PlayedRest ==
    ASSUME NEW s \in Seq(FromPhone), s # <<>>
    PROVE  Played(s) = Played(Tail(s)) \cup (IF Head(s).type = "play" THEN {Head(s).ver} ELSE {})
  <1>1. In(s) = {Head(s)} \cup In(Tail(s))
    BY InRest
  <1> QED BY <1>1 DEF Played

\* What waits without a socket are posts.
LEMMA NoPlayWaits == ASSUME ToMacOK, ~ws PROVE Played(toMac) = {}
  <1>1. \A m \in In(toMac) : m.type = "post"
    BY DEF ToMacOK, In, Posts
  <1> QED BY <1>1 DEF Played

\* What is held stays held when other goroutines move.
LEMMA HeldStays ==
    ASSUME ProcOK,
           \/ UNCHANGED proc
           \/ \E p \in Procs : (p = Reader => ~At(p, "play"))
                /\ \E pc, arg : pc # "play" /\ Goto(p, pc, arg)
    PROVE  HeldPlay' = HeldPlay
  <1>1. CASE UNCHANGED proc
    BY <1>1 DEF HeldPlay, At
  <1>2. ASSUME NEW p \in Procs, p = Reader => ~At(p, "play"), NEW pc, NEW arg, pc # "play", Goto(p, pc, arg)
        PROVE  HeldPlay' = HeldPlay
    <2>1. proc'[p].pc = pc /\ \A q \in Procs : q # p => proc'[q] = proc[q]
      BY <1>2, Moved
    <2>2. CASE p = Reader
      BY <1>2, <2>1, <2>2 DEF HeldPlay, At
    <2>3. CASE p # Reader
      BY <2>1, <2>3 DEF HeldPlay, At, Procs
    <2> QED BY <2>2, <2>3
  <1> QED BY <1>1, <1>2

\* The Mac takes a frame of the player, or drops it for its mode.
LEMMA IngestPlay == ASSUME TypeInv, PlayInv, IngestPlayback PROVE PlayLost' \/ PlayInv'
  <1>1. CASE causes' = causes \cup {"mode"}
    BY <1>1 DEF PlayLost
  <1>2. CASE Goto(Reader, "play", <<Head(toMac)>>)
    <2>1. /\ At(Reader, "idle") /\ toMac # <<>> /\ Head(toMac).type = "play" /\ toMac' = Tail(toMac)
          /\ UNCHANGED <<playback, track, ws>> /\ Reader \in Procs /\ ProcOK /\ toMac \in Seq(FromPhone)
      BY DEF IngestPlayback, Frame, phoneVars, TypeInv, ToMacOK, Procs
    <2>2. HeldPlay = {}
      BY <2>1 DEF HeldPlay, At
    <2>3. HeldPlay' = {Head(toMac).ver}
      <3>1. proc'[Reader].pc = "play" /\ proc'[Reader].arg = <<Head(toMac)>>
        BY <1>2, <2>1, Moved
      <3> QED BY <3>1 DEF HeldPlay, At
    <2>4. Played(toMac) = Played(toMac') \cup {Head(toMac).ver}
      BY <2>1, PlayedRest
    <2>5. Shown' = Shown
      BY <2>1, <2>2, <2>3, <2>4 DEF Shown
    <2> QED BY <2>1, <2>5 DEF PlayInv
  <1> QED BY <1>1, <1>2 DEF IngestPlayback

LEMMA ApplyPlay == ASSUME TypeInv, PlayInv, ApplyPlayback PROVE PlayInv'
  <1> DEFINE v == proc[Reader].arg[1].ver
  <1>1. /\ At(Reader, "play") /\ Goto(Reader, "idle", <<>>) /\ Reader \in Procs /\ ProcOK
        /\ UNCHANGED <<toMac, track, ws>>
        /\ playback' = IF v > playback THEN v ELSE playback
    BY Finished DEF ApplyPlayback, TypeInv, Procs, wireVars, phoneVars
  <1>2. v \in Nat /\ playback \in Nat
    BY <1>1, BoundsAssumption DEF TypeInv, ProcOK, PlaceOK, Plays, ShowOK
  <1>3. HeldPlay = {v}
    BY <1>1 DEF HeldPlay
  <1>4. HeldPlay' = {}
    <2>1. proc'[Reader].pc = "idle"
      BY <1>1, Moved
    <2> QED BY <2>1 DEF HeldPlay, At
  <1>5. track.sent \in Nat
    BY BoundsAssumption DEF TypeInv, PhoneOK
  <1> DEFINE P == Played(toMac)
  <1>6. Shown = {playback, v} \cup P /\ Shown' = {playback'} \cup P
    BY <1>1, <1>3, <1>4 DEF Shown
  <1> HIDE DEF v, P
  <1>7. /\ track.sent \in {playback, v} \cup P /\ \A x \in {playback, v} \cup P : x <= track.sent
        /\ ws => track.sent = track.cur
    BY <1>6 DEF PlayInv
  <1>8. playback <= track.sent /\ v <= track.sent
    BY <1>7
  <1>9. /\ track.sent \in {playback'} \cup P /\ \A x \in {playback'} \cup P : x <= track.sent
    BY <1>1, <1>2, <1>5, <1>7, <1>8
  <1> QED BY <1>1, <1>6, <1>7, <1>9 DEF PlayInv

LEMMA PlayChanges == ASSUME TypeInv, PlayInv, PhonePlays PROVE PlayLost' \/ PlayInv'
  <1>1. CASE ~PlaybackModeAllowsState(st.play)
    BY <1>1 DEF PhonePlays, PlayLost
  <1>2. CASE PlaybackModeAllowsState(st.play) /\ ws
    <2> DEFINE m == [type |-> "play", ver |-> events + 1]
    <2>1. /\ toMac' = Append(toMac, m) /\ track' = [cur |-> events + 1, sent |-> events + 1]
          /\ UNCHANGED <<playback, ws, proc>>
      BY <1>2 DEF PhonePlays
    <2>2. m \in FromPhone /\ toMac \in Seq(FromPhone) /\ m.type = "play" /\ m.ver = events + 1
      BY BoundsAssumption DEF PhonePlays, Event, TypeInv, CountOK, ToMacOK, FromPhone, Plays
    <2> HIDE DEF m
    <2>3. Played(toMac') = Played(toMac) \cup {events + 1}
      BY <2>1, <2>2, PlayedAppended
    <2>4. HeldPlay' = HeldPlay
      BY <2>1, HeldStays DEF TypeInv
    <2>5. Shown' = Shown \cup {events + 1}
      BY <2>1, <2>3, <2>4 DEF Shown
    <2>6. track.sent \in Nat /\ events \in Nat /\ track.sent <= events
      BY BoundsAssumption DEF TypeInv, PhoneOK, CountOK
    <2>7. \A x \in Shown : x \in Int
      <3>1. playback \in Int
        BY BoundsAssumption DEF TypeInv, ShowOK
      <3>2. \A x \in HeldPlay : x \in Int
        BY BoundsAssumption DEF TypeInv, ProcOK, PlaceOK, Plays, HeldPlay, Procs
      <3>3. \A x \in Played(toMac) : x \in Int
        <4>1. \A x \in In(toMac) : x \in FromPhone
          BY <2>2 DEF In
        <4>2. \A x \in FromPhone : x.type = "play" => x.ver \in Int
          BY BoundsAssumption DEF FromPhone, Posts, Plays
        <4> QED BY <4>1, <4>2 DEF Played
      <3> QED BY <3>1, <3>2, <3>3 DEF Shown
    <2>8. \A x \in Shown : x <= events + 1
      <3> TAKE x \in Shown
      <3>1. x <= track.sent
        BY DEF PlayInv
      <3> QED BY <2>6, <2>7, <3>1
    <2> QED BY <2>1, <2>5, <2>6, <2>8 DEF PlayInv
  <1>3. CASE ~ws
    <2>1. /\ track' = [track EXCEPT !.cur = events + 1] /\ UNCHANGED <<toMac, playback, ws, proc>>
      BY <1>3 DEF PhonePlays
    <2>2. track'.sent = track.sent
      BY <2>1 DEF TypeInv, PhoneOK
    <2>3. HeldPlay' = HeldPlay
      BY <2>1, HeldStays DEF TypeInv
    <2> QED BY <1>3, <2>1, <2>2, <2>3 DEF PlayInv, Shown
  <1> QED BY <1>1, <1>2, <1>3

LEMMA ConnectPlay == ASSUME TypeInv, PlayInv, Connect PROVE PlayLost' \/ PlayInv'
  <1>1. PICK play, tell :
          /\ \/ play = <<>> /\ UNCHANGED track
                /\ (track.cur = track.sent \/ ~PlaybackModeAllowsState(st.play))
             \/ /\ play = <<[type |-> "play", ver |-> track.cur]>> /\ track.cur # track.sent
                /\ track' = [track EXCEPT !.sent = track.cur]
          /\ tell = <<>> \/ tell = <<[type |-> "dnd", on |-> pdnd.on, at |-> now]>>
          /\ toMac' = Live \o play \o tell
    BY Connected
  <1>2. /\ ~ws /\ UNCHANGED playback /\ causes' = causes \cup Hidden
        /\ CountOK /\ ToMacOK /\ PhoneOK /\ ProcOK
    BY DEF Connect, TypeInv
  <1>3. HeldPlay' = HeldPlay /\ Played(toMac) = {}
    <2>1. ~At(Reader, "play") /\ Goto(Reader, "flush", <<>>) /\ Reader \in Procs
      BY DEF Connect, At, Procs
    <2> QED BY <1>2, <2>1, HeldStays, NoPlayWaits
  <1> DEFINE b == Live \o play \o tell
  <1>4. /\ b \in Seq(FromPhone) /\ Len(b) = Len(Live) + Len(play) + Len(tell)
        /\ Len(Live) \in Nat /\ Len(play) \in {0, 1} /\ Len(tell) \in {0, 1}
        /\ \A i \in 1..Len(Live) : b[i] = Live[i] /\ Live[i] \in Posts
        /\ Len(play) = 1 => b[Len(Live) + 1] = [type |-> "play", ver |-> track.cur]
        /\ Len(tell) = 1 => b[Len(Live) + Len(play) + 1] = [type |-> "dnd", on |-> pdnd.on, at |-> now]
    <2>1. /\ play = <<>> \/ (play = <<[type |-> "play", ver |-> track.cur]>> /\ track.cur # track.sent)
          /\ tell = <<>> \/ tell = <<[type |-> "dnd", on |-> pdnd.on, at |-> now]>>
      BY <1>1
    <2> QED BY <1>2, <2>1, Greeting
  <1>5. toMac' = b
    BY <1>1
  <1> DEFINE n == Len(Live)  y == Len(play)  z == Len(tell)
  <1>6. y = 0 => Played(b) = {}
    <2> SUFFICES ASSUME y = 0 PROVE Played(b) = {}
      OBVIOUS
    <2>1. ASSUME NEW i \in 1..Len(b) PROVE b[i].type # "play"
      <3>1. Len(b) = n + z /\ n \in Nat /\ (z = 0 \/ z = 1)
        BY <1>4
      <3> HIDE DEF n, z, b
      <3>2. i \in 1..n \/ (z = 1 /\ i = n + 1)
        BY <3>1
      <3>3. CASE i \in 1..n
        BY <1>4, <3>3 DEF b, n, Posts
      <3>4. CASE z = 1 /\ i = n + 1
        <4>1. b[Len(Live) + Len(play) + 1] = [type |-> "dnd", on |-> pdnd.on, at |-> now]
          BY <1>4, <3>4 DEF b, z
        <4>2. Len(Live) + Len(play) + 1 = n + 1
          BY <1>4 DEF n
        <4> QED BY <3>4, <4>1, <4>2
      <3> QED BY <3>2, <3>3, <3>4
    <2> QED BY <2>1 DEF Played, In
  <1>7. y = 1 => Played(b) = {track.cur}
    <2> SUFFICES ASSUME y = 1 PROVE Played(b) = {track.cur}
      OBVIOUS
    <2>1. b[n + 1] = [type |-> "play", ver |-> track.cur]
      BY <1>4
    <2>2. Len(b) = n + 1 + z /\ n \in Nat /\ (z = 0 \/ z = 1)
      BY <1>4
    <2>3. ASSUME NEW i \in 1..Len(b), i # n + 1 PROVE b[i].type # "play"
      <3> HIDE DEF n, z, b
      <3>2. i \in 1..n \/ (z = 1 /\ i = n + 2)
        BY <2>2, <2>3
      <3>3. CASE i \in 1..n
        BY <1>4, <3>3 DEF b, n, Posts
      <3>4. CASE z = 1 /\ i = n + 2
        <4>1. b[Len(Live) + Len(play) + 1] = [type |-> "dnd", on |-> pdnd.on, at |-> now]
          BY <1>4, <3>4 DEF b, z
        <4>2. Len(Live) + Len(play) + 1 = n + 2
          BY <1>4 DEF n
        <4> QED BY <3>4, <4>1, <4>2
      <3> QED BY <3>2, <3>3, <3>4
    <2>4. n + 1 \in 1..Len(b)
      BY <2>2
    <2> HIDE DEF n, b, z, y
    <2>5. \A m \in In(b) : m.type = "play" => m = [type |-> "play", ver |-> track.cur]
      BY <2>1, <2>3 DEF In
    <2>6. [type |-> "play", ver |-> track.cur] \in In(b)
      BY <2>1, <2>4 DEF In
    <2> QED BY <2>5, <2>6 DEF Played
  <1> HIDE DEF b
  <1>8. CASE play = <<>>
    <2>1. UNCHANGED track /\ (track.cur = track.sent \/ ~PlaybackModeAllowsState(st.play))
      BY <1>1, <1>8
    <2>2. Played(toMac') = {}
      BY <1>5, <1>6, <1>8
    <2>3. Shown' = Shown
      BY <1>2, <1>3, <2>2 DEF Shown
    <2>4. CASE track.cur = track.sent
      BY <2>1, <2>3, <2>4 DEF PlayInv
    <2>5. CASE track.cur # track.sent
      BY <1>2, <2>1, <2>5 DEF Hidden, PlayLost
    <2> QED BY <2>4, <2>5
  <1>9. CASE play # <<>>
    <2>1. track' = [track EXCEPT !.sent = track.cur] /\ play = <<[type |-> "play", ver |-> track.cur]>>
      BY <1>1, <1>9
    <2>2. Played(toMac') = {track.cur}
      BY <1>5, <1>7, <2>1
    <2>3. /\ track'.sent = track.cur /\ track'.cur = track.cur /\ track.sent <= track.cur
          /\ track.sent \in Nat /\ track.cur \in Nat
      BY <1>2, <2>1, BoundsAssumption DEF PhoneOK
    <2>4. Shown' = Shown \cup {track.cur}
      BY <1>2, <1>3, <2>2 DEF Shown
    <2>5. \A x \in Shown : x \in Int
      <3>1. playback \in Int
        BY BoundsAssumption DEF TypeInv, ShowOK
      <3>2. HeldPlay = {}
        BY DEF Connect, At, HeldPlay
      <3> QED BY <1>3, <3>1, <3>2 DEF Shown
    <2>6. \A x \in Shown : x <= track.cur
      BY <2>3, <2>5 DEF PlayInv
    <2> QED BY <2>3, <2>4, <2>6 DEF PlayInv
  <1> QED BY <1>8, <1>9

\* Steps that leave the player and its frames alone.
LEMMA PlayElsewhere ==
    ASSUME TypeInv, PlayInv, UNCHANGED <<playback, track>>, ws' => ws,
           Played(toMac') = Played(toMac),
           \/ UNCHANGED proc
           \/ \E p \in Procs : (p = Reader => ~At(p, "play"))
                /\ \E pc, arg : pc # "play" /\ Goto(p, pc, arg)
    PROVE  PlayInv'
  <1>1. HeldPlay' = HeldPlay
    BY HeldStays DEF TypeInv
  <1> QED BY <1>1 DEF PlayInv, Shown

\* The other frames of the phone.
LEMMA OtherSent ==
    ASSUME ToMacOK, NEW m \in FromPhone, m.type # "play", toMac' = Append(toMac, m)
    PROVE  Played(toMac') = Played(toMac)
  <1>1. Played(Append(toMac, m)) = Played(toMac) \cup {}
    BY PlayedAppended DEF ToMacOK
  <1> QED BY <1>1

LEMMA OtherTaken ==
    ASSUME ToMacOK, toMac # <<>>, Head(toMac).type # "play", toMac' = Tail(toMac)
    PROVE  Played(toMac') = Played(toMac)
  <1>1. Played(toMac) = Played(Tail(toMac)) \cup {}
    BY PlayedRest DEF ToMacOK
  <1> QED BY <1>1

LEMMA OtherPlay ==
    ASSUME TypeInv, TypeInv', PlayInv,
           \/ IngestPost \/ IngestDismiss \/ IngestDND
           \/ \E id \in Ids : PhonePost(id)
           \/ PhoneDismisses \/ PhoneSetDND
           \/ \E on \in OnOff : PhoneDND(on)
    PROVE  PlayInv'
  <1>1. ToMacOK /\ ToMacOK' /\ CountOK /\ ToPhoneOK /\ ProcOK
    BY DEF TypeInv
  <1>2. UNCHANGED <<playback, track, ws>>
    BY DEF IngestPost, IngestDismiss, IngestDND, PhonePost, PhoneDismisses, PhoneSetDND, PhoneDND,
           phoneVars
  <1>3. CASE IngestPost \/ IngestDismiss \/ IngestDND
    <2>1. toMac # <<>> /\ Head(toMac).type # "play" /\ toMac' = Tail(toMac) /\ At(Reader, "idle")
      BY <1>3 DEF IngestPost, IngestDismiss, IngestDND, Frame
    <2>2. Played(toMac') = Played(toMac)
      BY <1>1, <2>1, OtherTaken
    <2>3. \/ UNCHANGED proc
          \/ \E p \in Procs : (p = Reader => ~At(p, "play"))
               /\ \E pc, arg : pc # "play" /\ Goto(p, pc, arg)
      BY <1>3, <2>1 DEF IngestPost, IngestDismiss, IngestDND, At, Procs
    <2> QED BY <1>2, <2>2, <2>3, PlayElsewhere
  <1>4. ASSUME NEW id \in Ids, PhonePost(id) PROVE PlayInv'
    <2> DEFINE m == [type |-> "post", id |-> id, ver |-> events + 1, at |-> now]
    <2>1. /\ UNCHANGED proc
          /\ toMac' = toMac \/ toMac' = Append(IF ws THEN toMac ELSE Without(toMac, id), m)
      BY <1>4 DEF PhonePost
    <2>2. m \in FromPhone /\ m.type # "play"
      BY <1>1, <1>4, BoundsAssumption DEF PhonePost, Event, CountOK, FromPhone, Posts
    <2> HIDE DEF m
    <2>3. Played(toMac') = Played(toMac)
      <3>1. CASE ws
        BY <1>1, <2>1, <2>2, <3>1, OtherSent
      <3>2. CASE ~ws
        <4>1. Played(toMac) = {}
          BY <1>1, <3>2, NoPlayWaits
        <4>2. \A f \in In(toMac') : f.type = "post"
          BY <1>1, <1>2, <3>2 DEF ToMacOK, In, Posts
        <4> QED BY <4>1, <4>2 DEF Played
      <3> QED BY <3>1, <3>2
    <2> QED BY <1>2, <2>1, <2>3, PlayElsewhere
  <1>5. CASE PhoneDismisses
    <2> DEFINE m == [type |-> "dismiss", id |-> Head(toPhone).id]
    <2>1. UNCHANGED proc /\ (toMac' = toMac \/ toMac' = Append(toMac, m))
      BY <1>5 DEF PhoneDismisses
    <2>2. m \in FromPhone /\ m.type # "play"
      BY <1>1, <1>5, TakenByPhone DEF PhoneDismisses, PhoneFrame, FromPhone
    <2> HIDE DEF m
    <2>3. Played(toMac') = Played(toMac)
      BY <1>1, <2>1, <2>2, OtherSent
    <2> QED BY <1>2, <2>1, <2>3, PlayElsewhere
  <1>6. CASE PhoneSetDND \/ \E on \in OnOff : PhoneDND(on)
    <2>1. UNCHANGED proc /\ (UNCHANGED toMac \/ \E on \in OnOff : Switch(on))
      <3>1. CASE PhoneSetDND
        BY <1>1, <3>1, TakenByPhone DEF PhoneSetDND, PhoneFrame
      <3> QED BY <1>6, <3>1 DEF PhoneDND
    <2>2. UNCHANGED toMac \/ \E on \in OnOff : toMac' = Append(toMac, [type |-> "dnd", on |-> on, at |-> now])
      BY <2>1 DEF Switch
    <2>3. ASSUME NEW on \in OnOff, toMac' = Append(toMac, [type |-> "dnd", on |-> on, at |-> now])
          PROVE  Played(toMac') = Played(toMac)
      <3> DEFINE m == [type |-> "dnd", on |-> on, at |-> now]
      <3>1. m \in FromPhone /\ m.type # "play"
        BY <1>1 DEF CountOK, FromPhone
      <3>2. toMac' = Append(toMac, m)
        BY <2>3
      <3> HIDE DEF m
      <3> QED BY <1>1, <3>1, <3>2, OtherSent
    <2>4. Played(toMac') = Played(toMac)
      BY <2>2, <2>3
    <2> QED BY <1>2, <2>1, <2>4, PlayElsewhere
  <1> QED BY <1>3, <1>4, <1>5, <1>6

\* Steps that touch neither the phone's frames nor its player.
LEMMA IdlePlay ==
    ASSUME TypeInv, PlayInv,
           \/ Tick \/ Post
           \/ \E c \in Callers :
                \/ \E s \in Settings : ChangeSettings(c, s)
                \/ Clear(c) \/ ClearNotifications(c) \/ MarkSeen(c)
                \/ \E id \in Ids : Dismiss(c, id)
                \/ SendPlaybackCmd(c)
                \/ \E on \in OnOff : SetDND(c, on)
                \/ SendDND(c)
           \/ \E s \in Settings : AdoptSettings(s)
           \/ \E p \in Procs : FlushNothing(p) \/ TakePendingDismissals(p) \/ SendDismissal(p)
           \/ DndSent \/ PhoneCommand \/ PhoneRefusesDND
           \/ UNCHANGED vars
    PROVE  PlayInv'
  <1>1. UNCHANGED <<playback, track, ws, toMac>>
    <2>1. CASE \E s \in Settings : AdoptSettings(s)
      BY <2>1 DEF AdoptSettings, PlayInv
    <2>2. CASE ~\E s \in Settings : AdoptSettings(s)
      BY <2>2 DEF Tick, Post, ChangeSettings, Clear, ClearNotifications, MarkSeen, Dismiss,
                  SendPlaybackCmd, SetDND, SendDND, FlushNothing, TakePendingDismissals, SendDismissal,
                  DndSent, PhoneCommand, PhoneRefusesDND, vars, phoneVars, wireVars
    <2> QED BY <2>1, <2>2
  <1>2. \/ UNCHANGED proc
        \/ \E p \in Procs : (p = Reader => ~At(p, "play"))
             /\ \E pc, arg : pc # "play" /\ Goto(p, pc, arg)
    <2>1. CASE \/ Tick \/ DndSent \/ PhoneCommand \/ PhoneRefusesDND \/ UNCHANGED vars
               \/ \E s \in Settings : AdoptSettings(s)
      BY <2>1 DEF Tick, DndSent, PhoneCommand, PhoneRefusesDND, vars, AdoptSettings
    <2>2. CASE Post
      BY <2>2, Finished DEF Post, At, Procs
    <2>3. ASSUME NEW c \in Callers,
                 \/ \E s \in Settings : ChangeSettings(c, s)
                 \/ Clear(c) \/ ClearNotifications(c) \/ MarkSeen(c)
                 \/ \E id \in Ids : Dismiss(c, id)
                 \/ SendPlaybackCmd(c)
                 \/ \E on \in OnOff : SetDND(c, on)
                 \/ SendDND(c)
          PROVE  UNCHANGED proc \/ \E pc, arg : pc # "play" /\ Goto(c, pc, arg)
      BY <2>3, Finished DEF ChangeSettings, Clear, ClearNotifications, MarkSeen, Dismiss,
                            SendPlaybackCmd, SetDND, SendDND
    <2>4. ASSUME NEW p \in Procs, FlushNothing(p) \/ TakePendingDismissals(p) \/ SendDismissal(p)
          PROVE  ~At(p, "play") /\ \E pc, arg : pc # "play" /\ Goto(p, pc, arg)
      BY <2>4, Finished DEF FlushNothing, TakePendingDismissals, SendDismissal, At
    <2> QED BY <2>1, <2>2, <2>3, <2>4, Caller
  <1> QED BY <1>1, <1>2, PlayElsewhere

\* A socket that goes loses what is in it.
LEMMA DisconnectPlay == ASSUME TypeInv, PlayInv, Disconnect PROVE PlayLost' \/ PlayInv'
  <1>1. UNCHANGED <<playback, track, proc>> /\ ws' = FALSE /\ toMac' = <<>>
    BY DEF Disconnect, Lost, phoneVars
  <1>2. CASE toMac = <<>>
    BY <1>1, <1>2, PlayElsewhere
  <1>3. CASE toMac # <<>>
    <2>1. toMac \in Seq(FromPhone) /\ toPhone \in Seq(FromMac)
      BY DEF TypeInv, ToMacOK, ToPhoneOK
    <2>2. Len(toMac \o toPhone) = Len(toMac) + Len(toPhone) /\ Len(toMac) # 0
      BY <1>3, <2>1
    <2>3. toMac \o toPhone # <<>>
      <3> DEFINE both == toMac \o toPhone
      <3>1. Len(both) # 0
        BY <2>1, <2>2
      <3> HIDE DEF both
      <3>2. both # <<>>
        BY <3>1
      <3> QED BY <3>2 DEF both
    <2> QED BY <2>3 DEF Disconnect, Lost, PlayLost
  <1> QED BY <1>2, <1>3

LEMMA NextPlay ==
    ASSUME TypeInv, TypeInv', PlayLost \/ PlayInv, [Next]_vars
    PROVE  PlayLost' \/ PlayInv'
  <1>1. CASE PlayLost
    BY <1>1, CausesGrow DEF PlayLost
  <1>2. CASE PlayInv
    <2>1. CASE IngestPlayback
      BY <1>2, <2>1, IngestPlay
    <2>2. CASE ApplyPlayback
      BY <1>2, <2>2, ApplyPlay
    <2>3. CASE PhonePlays
      BY <1>2, <2>3, PlayChanges
    <2>4. CASE Connect
      BY <1>2, <2>4, ConnectPlay
    <2>5. CASE Disconnect
      BY <1>2, <2>5, DisconnectPlay
    <2>6. CASE (\E c \in Callers : ClearPlayback(c)) \/ MacRestarts
      BY <2>6 DEF ClearPlayback, MacRestarts, PlayLost
    <2> QED BY <1>2, <2>1, <2>2, <2>3, <2>4, <2>5, <2>6, OtherPlay, IdlePlay DEF Next
  <1> QED BY <1>1, <1>2

LEMMA InitPlay == Init => PlayInv
  <1> SUFFICES ASSUME Init PROVE PlayInv
    OBVIOUS
  <1>1. Played(toMac) = {} /\ HeldPlay = {}
    BY InNone DEF Init, Played, HeldPlay, At, Idle, Procs
  <1> QED BY <1>1 DEF Init, PlayInv, Shown

\* When nothing is on its way and the mode shows the phone's player, the Mac
\* shows what it plays (PlaybackFollows): what the phone sent last is shown,
\* held or on its way, and nothing newer is, whatever the order of the frames
\* and the calls, unless one of the named causes came between.
THEOREM PlaybackKeepsUp == Spec => []PlaybackFollows
  <1>1. Init => TypeInv /\ (PlayLost \/ PlayInv)
    BY InitTypeInv, InitPlay
  <1>2. TypeInv /\ (PlayLost \/ PlayInv) /\ [Next]_vars => (TypeInv /\ (PlayLost \/ PlayInv))'
    BY NextTypeInv, NextPlay
  <1> QED BY <1>1, <1>2, PlayFits, PTL DEF Spec

(***************************************************************************)
(* The switch.                                                             *)
(***************************************************************************)

DndLost == causes \cap {"loss", "restart", "refused", "failed", "quick"} # {}

DndIn(s) == {i \in 1..Len(s) : s[i].type = "dnd"}

\* States of the switch on their way: none is older than at, none overtakes
\* an older one, and the last of them is on.
FramesOK(s, at, on) ==
  /\ \A i \in DndIn(s) : at <= s[i].at
  /\ \A i, j \in DndIn(s) : i <= j => s[i].at <= s[j].at
  /\ \A i \in DndIn(s) : (\A j \in DndIn(s) : j <= i) => s[i].on = on

\* What the phone has told of its switch.
Told == IF pdnd.sending # "none" THEN pdnd.sending ELSE pdnd.sent

\* A wish of the Mac that the phone has not had.
Wished(on) ==
  \/ \E c \in Callers : At(c, "dnd") /\ proc[c].arg[1] = on
  \/ \E m \in In(toPhone) : m.type = "dnd" /\ m.on = on

\* A connected phone has told its switch; the last state on its way is that;
\* with none on its way the Mac shows what was told or a wish of its own.
DndInv ==
  /\ pdnd.sending # "none" => pdnd.on = pdnd.sending
  /\ ws /\ pdnd.sending = "none" => pdnd.sent = pdnd.on
  /\ FramesOK(toMac, dnd.at, pdnd.on)
  /\ DndIn(toMac) = {} => dnd.on = Told \/ Wished(dnd.on)

LEMMA NoneIn == DndIn(<<>>) = {}
  BY DEF DndIn

LEMMA NoFramesOK == ASSUME NEW s, DndIn(s) = {}, NEW at, NEW on PROVE FramesOK(s, at, on)
  BY DEF FramesOK

LEMMA DndFits == TypeInv /\ (DndLost \/ DndInv) => DndFollows
  <1> SUFFICES ASSUME TypeInv, DndInv, Settled PROVE dnd.on = pdnd.on
    BY DEF DndFollows, DndLost
  <1>1. /\ ws /\ toMac = <<>> /\ toPhone = <<>> /\ pdnd.sending = "none"
        /\ \A c \in Callers : ~At(c, "dnd")
    BY Caller DEF Settled, At
  <1>2. DndIn(toMac) = {} /\ ~Wished(dnd.on)
    BY <1>1, NoneIn, InNone DEF Wished
  <1> QED BY <1>1, <1>2 DEF DndInv, Told

\* A frame of another kind is added, or taken.
LEMMA FramesOtherSent ==
    ASSUME NEW s \in Seq(FromPhone), NEW m \in FromPhone, m.type # "dnd", NEW at, NEW on
    PROVE  /\ DndIn(Append(s, m)) = DndIn(s)
           /\ FramesOK(s, at, on) => FramesOK(Append(s, m), at, on)
  <1> DEFINE a == Append(s, m)
  <1>1. /\ Len(a) = Len(s) + 1 /\ Len(s) \in Nat /\ a[Len(s) + 1] = m
        /\ \A i \in 1..Len(s) : a[i] = s[i]
    BY Appended
  <1> HIDE DEF a
  <1>2. DndIn(a) = DndIn(s)
    <2>1. \A i \in 1..Len(a) : i \in 1..Len(s) \/ a[i] = m
      BY <1>1
    <2>2. \A i \in 1..Len(s) : i \in 1..Len(a)
      BY <1>1
    <2> QED BY <1>1, <2>1, <2>2 DEF DndIn
  <1>3. \A i \in DndIn(s) : a[i] = s[i]
    BY <1>1 DEF DndIn
  <1>4. FramesOK(s, at, on) => FramesOK(a, at, on)
    BY <1>2, <1>3 DEF FramesOK
  <1> QED BY <1>2, <1>4 DEF a

LEMMA FramesTaken ==
    ASSUME NEW s \in Seq(FromPhone), s # <<>>
    PROVE  /\ \A i \in DndIn(Tail(s)) : i + 1 \in DndIn(s) /\ Tail(s)[i] = s[i + 1] /\ i \in Nat
           /\ \A i \in DndIn(s) : i = 1 \/ (i - 1 \in DndIn(Tail(s)) /\ i \in Nat /\ 1 <= i)
           /\ 1 \in DndIn(s) <=> Head(s).type = "dnd"
           /\ Head(s) = s[1]
  <1> DEFINE t == Tail(s)
  <1>1. /\ Len(t) = Len(s) - 1 /\ Len(s) \in Nat \ {0} /\ Head(s) = s[1]
        /\ \A i \in 1..(Len(s) - 1) : t[i] = s[i + 1]
    BY Rest
  <1> HIDE DEF t
  <1>2. ASSUME NEW i \in DndIn(t) PROVE i + 1 \in DndIn(s) /\ t[i] = s[i + 1] /\ i \in Nat
    <2>1. i \in 1..(Len(s) - 1) /\ t[i].type = "dnd"
      BY <1>1 DEF DndIn
    <2>2. i + 1 \in 1..Len(s) /\ t[i] = s[i + 1] /\ i \in Nat
      BY <1>1, <2>1
    <2> QED BY <2>1, <2>2 DEF DndIn
  <1>3. ASSUME NEW i \in DndIn(s), i # 1 PROVE i - 1 \in DndIn(t) /\ i \in Nat /\ 1 <= i
    <2>1. i \in 1..Len(s) /\ s[i].type = "dnd"
      BY DEF DndIn
    <2>2. i - 1 \in 1..(Len(s) - 1) /\ (i - 1) + 1 = i /\ i \in Nat /\ 1 <= i
      BY <1>1, <1>3, <2>1
    <2>3. t[i - 1] = s[i] /\ i - 1 \in 1..Len(t)
      BY <1>1, <2>2
    <2> QED BY <2>1, <2>2, <2>3 DEF DndIn
  <1>4. 1 \in DndIn(s) <=> Head(s).type = "dnd"
    BY <1>1 DEF DndIn
  <1> QED BY <1>1, <1>2, <1>3, <1>4 DEF t

LEMMA FramesOtherTaken ==
    ASSUME NEW s \in Seq(FromPhone), s # <<>>, Head(s).type # "dnd", NEW at, NEW on
    PROVE  /\ DndIn(Tail(s)) = {} => DndIn(s) = {}
           /\ FramesOK(s, at, on) => FramesOK(Tail(s), at, on)
  <1> DEFINE t == Tail(s)
  <1>1. /\ \A i \in DndIn(t) : i + 1 \in DndIn(s) /\ t[i] = s[i + 1] /\ i \in Nat
        /\ \A i \in DndIn(s) : i - 1 \in DndIn(t) /\ i \in Nat /\ 1 <= i
    BY FramesTaken
  <1> HIDE DEF t
  <1>2. DndIn(t) = {} => DndIn(s) = {}
    BY <1>1
  <1>3. ASSUME FramesOK(s, at, on) PROVE FramesOK(t, at, on)
    <2>1. \A i \in DndIn(t) : at <= t[i].at
      BY <1>1, <1>3 DEF FramesOK
    <2>2. ASSUME NEW i \in DndIn(t), NEW j \in DndIn(t), i <= j PROVE t[i].at <= t[j].at
      <3>1. i + 1 \in DndIn(s) /\ j + 1 \in DndIn(s) /\ i + 1 <= j + 1
        BY <1>1, <2>2
      <3> QED BY <1>1, <1>3, <3>1 DEF FramesOK
    <2>3. ASSUME NEW i \in DndIn(t), \A j \in DndIn(t) : j <= i PROVE t[i].on = on
      <3>1. i + 1 \in DndIn(s) /\ i \in Nat
        BY <1>1
      <3>2. ASSUME NEW j \in DndIn(s) PROVE j <= i + 1
        <4>1. j - 1 \in DndIn(t) /\ j \in Nat
          BY <1>1
        <4>2. j - 1 <= i
          BY <2>3, <4>1
        <4> QED BY <3>1, <4>1, <4>2
      <3>3. s[i + 1].on = on
        BY <1>3, <3>1, <3>2 DEF FramesOK
      <3> QED BY <1>1, <3>3
    <2> QED BY <2>1, <2>2, <2>3 DEF FramesOK
  <1> QED BY <1>2, <1>3 DEF t

\* A state is taken: it is not older than what is shown, the others are not
\* older than it, and it is on when it was the last.
LEMMA FramesStateTaken ==
    ASSUME NEW s \in Seq(FromPhone), s # <<>>, Head(s).type = "dnd", NEW at, NEW on,
           FramesOK(s, at, on)
    PROVE  /\ at <= Head(s).at
           /\ FramesOK(Tail(s), Head(s).at, on)
           /\ DndIn(Tail(s)) = {} => Head(s).on = on
  <1> DEFINE t == Tail(s)
             h == Head(s)
  <1>1. /\ \A i \in DndIn(t) : i + 1 \in DndIn(s) /\ t[i] = s[i + 1] /\ i \in Nat
        /\ \A i \in DndIn(s) : i = 1 \/ (i - 1 \in DndIn(t) /\ i \in Nat /\ 1 <= i)
        /\ 1 \in DndIn(s) /\ h = s[1]
    BY FramesTaken
  <1> HIDE DEF t, h
  <1>2. at <= h.at
    BY <1>1 DEF FramesOK
  <1>3. DndIn(t) = {} => h.on = on
    <2>1. DndIn(t) = {} => \A j \in DndIn(s) : j <= 1
      BY <1>1
    <2> QED BY <1>1, <2>1 DEF FramesOK
  <1>4. FramesOK(t, h.at, on)
    <2>1. ASSUME NEW i \in DndIn(t) PROVE h.at <= t[i].at
      <3>1. i + 1 \in DndIn(s) /\ 1 <= i + 1 /\ t[i] = s[i + 1]
        BY <1>1
      <3> QED BY <1>1, <3>1 DEF FramesOK
    <2>2. ASSUME NEW i \in DndIn(t), NEW j \in DndIn(t), i <= j PROVE t[i].at <= t[j].at
      <3>1. i + 1 \in DndIn(s) /\ j + 1 \in DndIn(s) /\ i + 1 <= j + 1
        BY <1>1, <2>2
      <3> QED BY <1>1, <3>1 DEF FramesOK
    <2>3. ASSUME NEW i \in DndIn(t), \A j \in DndIn(t) : j <= i PROVE t[i].on = on
      <3>1. i + 1 \in DndIn(s) /\ i \in Nat
        BY <1>1
      <3>2. ASSUME NEW j \in DndIn(s) PROVE j <= i + 1
        <4>1. CASE j = 1
          BY <3>1, <4>1
        <4>2. CASE j # 1
          <5>1. j - 1 \in DndIn(t) /\ j \in Nat
            BY <1>1, <4>2
          <5>2. j - 1 <= i
            BY <2>3, <5>1
          <5> QED BY <3>1, <5>1, <5>2
        <4> QED BY <4>1, <4>2
      <3>3. s[i + 1].on = on
        BY <3>1, <3>2 DEF FramesOK
      <3> QED BY <1>1, <3>3
    <2> QED BY <2>1, <2>2, <2>3 DEF FramesOK
  <1> QED BY <1>2, <1>3, <1>4 DEF t, h

\* A state is sent: it is the last, and not older than the others.
LEMMA FramesStateSent ==
    ASSUME NEW s \in Seq(FromPhone), NEW m \in FromPhone, m.type = "dnd", NEW at, NEW on,
           FramesOK(s, at, on), at <= m.at, \A i \in DndIn(s) : s[i].at <= m.at
    PROVE  /\ DndIn(Append(s, m)) # {}
           /\ FramesOK(Append(s, m), at, m.on)
  <1> DEFINE a == Append(s, m)
             n == Len(s) + 1
  <1>1. /\ Len(a) = Len(s) + 1 /\ Len(s) \in Nat /\ a[Len(s) + 1] = m
        /\ \A i \in 1..Len(s) : a[i] = s[i]
    BY Appended
  <1>2. n \in 1..Len(a) /\ a[n] = m /\ n \in Nat
    BY <1>1
  <1>3. \A i \in 1..Len(a) : i = n \/ (i \in 1..Len(s) /\ i < n /\ i \in Nat /\ a[i] = s[i])
    BY <1>1
  <1> HIDE DEF a, n
  <1>4. n \in DndIn(a) /\ \A i \in DndIn(a) : i = n \/ (i \in DndIn(s) /\ i < n /\ i \in Nat /\ a[i] = s[i])
    BY <1>2, <1>3 DEF DndIn
  <1>5. \A i \in DndIn(a) : at <= a[i].at
    BY <1>2, <1>4 DEF FramesOK
  <1>6. ASSUME NEW i \in DndIn(a), NEW j \in DndIn(a), i <= j PROVE a[i].at <= a[j].at
    <2>1. CASE i = n
      <3>1. j = n
        BY <1>2, <1>4, <1>6, <2>1
      <3>2. m.at <= m.at
        BY BoundsAssumption DEF FromPhone, Posts, Plays
      <3> QED BY <1>2, <2>1, <3>1, <3>2
    <2>2. CASE i # n /\ j = n
      BY <1>2, <1>4, <2>2
    <2>3. CASE i # n /\ j # n
      BY <1>4, <1>6, <2>3 DEF FramesOK
    <2> QED BY <2>1, <2>2, <2>3
  <1>7. ASSUME NEW i \in DndIn(a), \A j \in DndIn(a) : j <= i PROVE a[i].on = m.on
    <2>1. n <= i
      BY <1>4, <1>7
    <2>2. i = n
      BY <1>2, <1>4, <2>1
    <2> QED BY <1>2, <2>2
  <1>8. FramesOK(a, at, m.on)
    BY <1>5, <1>6, <1>7 DEF FramesOK
  <1> QED BY <1>4, <1>8 DEF a

\* What waits without a socket are posts.
LEMMA NoStateWaits == ASSUME ToMacOK, ~ws PROVE DndIn(toMac) = {}
  BY DEF ToMacOK, DndIn, Posts

\* A wish stays on its way when other goroutines move and the frames of the
\* Mac that carry one stay.
LEMMA WishStays ==
    ASSUME ProcOK, NEW on, Wished(on),
           \/ UNCHANGED proc
           \/ \E p \in Procs : (p # Reader => ~At(p, "dnd")) /\ \E pc, arg : Goto(p, pc, arg),
           \A m \in In(toPhone) : m.type = "dnd" /\ m.on = on => m \in In(toPhone')
    PROVE  Wished(on)'
  <1>1. CASE \E m \in In(toPhone) : m.type = "dnd" /\ m.on = on
    BY <1>1 DEF Wished
  <1>2. CASE \E c \in Callers : At(c, "dnd") /\ proc[c].arg[1] = on
    <2>1. PICK c \in Callers : At(c, "dnd") /\ proc[c].arg[1] = on
      BY <1>2
    <2>2. proc'[c] = proc[c]
      <3>1. CASE UNCHANGED proc
        BY <3>1
      <3>2. ASSUME NEW p \in Procs, p # Reader => ~At(p, "dnd"), NEW pc, NEW arg, Goto(p, pc, arg)
            PROVE  proc'[c] = proc[c]
        <4>1. p # c /\ c \in Procs
          BY <2>1, <3>2, Caller
        <4> QED BY <3>2, <4>1, Moved
      <3> QED BY <3>1, <3>2
    <2> QED BY <2>1, <2>2 DEF Wished, At
  <1> QED BY <1>1, <1>2 DEF Wished

\* Steps that leave the switch and its frames alone.
LEMMA DndElsewhere ==
    ASSUME DndInv, UNCHANGED <<dnd, pdnd>>, ws' => ws,
           FramesOK(toMac', dnd.at, pdnd.on), DndIn(toMac') = {} => DndIn(toMac) = {},
           Wished(dnd.on) => Wished(dnd.on)'
    PROVE  DndInv'
  <1>1. Told' = Told
    BY DEF Told
  <1>2. FramesOK(toMac, dnd.at, pdnd.on)'
    OBVIOUS
  <1> QED BY <1>1, <1>2 DEF DndInv

\* The Mac takes a state of the switch, and shows it.
LEMMA IngestState == ASSUME TypeInv, DndInv, IngestDND PROVE DndInv'
  <1> DEFINE m == Head(toMac)
  <1>1. /\ ws /\ toMac # <<>> /\ m.type = "dnd" /\ toMac' = Tail(toMac) /\ UNCHANGED <<ws, pdnd>>
        /\ dnd' = IF m.at < dnd.at THEN dnd ELSE [on |-> m.on, at |-> m.at]
        /\ toMac \in Seq(FromPhone)
    BY DEF IngestDND, Frame, phoneVars, TypeInv, ToMacOK
  <1>2. dnd.at <= m.at /\ FramesOK(toMac', m.at, pdnd.on) /\ (DndIn(toMac') = {} => m.on = pdnd.on)
    BY <1>1, FramesStateTaken DEF DndInv
  <1>3. m.at \in Int /\ dnd.at \in Int
    BY <1>1, FirstFrame, BoundsAssumption DEF TypeInv, ShowOK, Dnds
  <1> HIDE DEF m
  <1>4. dnd' = [on |-> m.on, at |-> m.at]
    BY <1>1, <1>2, <1>3
  <1>5. dnd'.on = m.on /\ dnd'.at = m.at
    BY <1>4
  <1>6. Told' = pdnd'.on
    BY <1>1 DEF DndInv, Told
  <1>7. FramesOK(toMac, dnd.at, pdnd.on)'
    BY <1>1, <1>2, <1>5
  <1> QED BY <1>1, <1>2, <1>5, <1>6, <1>7 DEF DndInv

\* A pane shows its wish at once.
LEMMA WishShown == ASSUME TypeInv, DndInv, NEW c \in Callers, NEW on \in OnOff, SetDND(c, on) PROVE DndInv'
  <1>1. /\ Goto(c, "dnd", <<on>>) /\ c \in Procs /\ ProcOK /\ UNCHANGED <<ws, toMac, pdnd>>
        /\ dnd' = [dnd EXCEPT !.on = on]
    BY Caller DEF SetDND, TypeInv, wireVars, phoneVars
  <1>2. dnd'.on = on /\ dnd'.at = dnd.at
    BY <1>1 DEF TypeInv, ShowOK
  <1>3. proc'[c].pc = "dnd" /\ proc'[c].arg = <<on>>
    BY <1>1, Moved
  <1>4. Wished(dnd.on)'
    BY <1>2, <1>3 DEF Wished, At
  <1>5. FramesOK(toMac, dnd.at, pdnd.on)'
    BY <1>1, <1>2 DEF DndInv
  <1> QED BY <1>1, <1>4, <1>5 DEF DndInv

\* ... and sends it.
LEMMA WishSent == ASSUME TypeInv, DndInv, NEW c \in Callers, SendDND(c) PROVE DndLost' \/ DndInv'
  <1> DEFINE m == [type |-> "dnd", on |-> proc[c].arg[1]]
  <1>1. CASE ~ws
    BY <1>1 DEF SendDND, DndLost
  <1>2. CASE ws
    <2>1. /\ toPhone' = Append(toPhone, m) /\ UNCHANGED <<ws, toMac, dnd, pdnd>>
          /\ At(c, "dnd") /\ Goto(c, "idle", <<>>) /\ c \in Procs /\ ProcOK
      BY <1>2, Caller, Finished DEF SendDND, TypeInv, phoneVars
    <2>2. In(toPhone') = In(toPhone) \cup {m}
      <3>1. m \in FromMac /\ toPhone \in Seq(FromMac)
        BY <2>1, Caller DEF FromMac, ProcOK, PlaceOK, TypeInv, ToPhoneOK
      <3> HIDE DEF m
      <3> QED BY <2>1, <3>1, InAppended
    <2>3. ASSUME NEW on, Wished(on) PROVE Wished(on)'
      <3>1. CASE \E f \in In(toPhone) : f.type = "dnd" /\ f.on = on
        BY <2>2, <3>1 DEF Wished
      <3>2. ASSUME NEW q \in Callers, At(q, "dnd"), proc[q].arg[1] = on PROVE Wished(on)'
        <4>1. CASE q = c
          <5>1. m \in In(toPhone') /\ m.type = "dnd" /\ m.on = on
            BY <2>2, <3>2, <4>1
          <5> QED BY <5>1 DEF Wished
        <4>2. CASE q # c
          <5>1. proc'[q] = proc[q]
            BY <2>1, <4>2, Caller, Moved
          <5> QED BY <3>2, <5>1 DEF Wished, At
        <4> QED BY <4>1, <4>2
      <3> QED BY <2>3, <3>1, <3>2 DEF Wished
    <2>4. \A on : Wished(on) => Wished(on)'
      BY <2>3
    <2> QED BY <2>1, <2>4, DndElsewhere DEF DndInv
  <1> QED BY <1>1, <1>2

\* The switch is turned: its state is sent, kept for the next connection, or
\* skipped because the one before has no answer yet.
LEMMA SwitchTurned ==
    ASSUME TypeInv, DndInv, NEW on \in OnOff, on # pdnd.on, Switch(on), UNCHANGED <<ws, dnd, now>>,
           ~ws /\ Wished(dnd.on) => Wished(dnd.on)'
    PROVE  DndLost' \/ DndInv'
  <1>1. pdnd \in [on : OnOff, sending : OnOff \cup {"none"}, sent : OnOff] /\ now \in 1..MaxTime
    BY DEF TypeInv, PhoneOK, CountOK
  <1>2. CASE DndSends(on) /\ pdnd.sending = "none"
    <2> DEFINE m == [type |-> "dnd", on |-> on, at |-> now]
    <2>1. toMac' = Append(toMac, m) /\ pdnd' = [pdnd EXCEPT !.on = on, !.sending = on]
      BY <1>2 DEF Switch
    <2>2. pdnd'.on = on /\ pdnd'.sending = on /\ on # "none"
      BY <1>1, <2>1 DEF OnOff
    <2>3. m \in FromPhone /\ toMac \in Seq(FromPhone) /\ m.type = "dnd" /\ m.on = on /\ m.at = now
      BY <1>1 DEF FromPhone, TypeInv, ToMacOK
    <2>4. \A i \in DndIn(toMac) : toMac[i].at <= now
      BY DEF TypeInv, ToMacOK, Timely, DndIn
    <2>5. dnd.at <= now
      BY DEF TypeInv, ShowOK
    <2> HIDE DEF m
    <2>6. DndIn(toMac') # {} /\ FramesOK(toMac', dnd.at, on)
      BY <2>1, <2>3, <2>4, <2>5, FramesStateSent DEF DndInv
    <2>7. FramesOK(toMac, dnd.at, pdnd.on)'
      BY <2>2, <2>6
    <2> QED BY <2>2, <2>6, <2>7 DEF DndInv
  <1>3. CASE pdnd.sending # "none"
    BY <1>3 DEF Switch, DndLost
  <1>4. CASE ~DndSends(on) /\ pdnd.sending = "none"
    <2>1. toMac' = toMac /\ pdnd' = [pdnd EXCEPT !.on = on]
      BY <1>4 DEF Switch
    <2>2. pdnd'.sending = "none" /\ pdnd'.sent = pdnd.sent
      BY <1>1, <1>4, <2>1
    <2>3. ~ws
      <3>1. on = "on" \/ on = "off"
        BY DEF OnOff
      <3>2. ws => pdnd.sent = pdnd.on /\ pdnd.sent = on
        BY <1>4 DEF DndInv, DndSends
      <3> QED BY <3>2
    <2>4. DndIn(toMac) = {}
      BY <2>3, NoStateWaits DEF TypeInv
    <2>5. Told' = Told
      BY <1>4, <2>2 DEF Told
    <2>6. FramesOK(toMac, dnd.at, pdnd.on)'
      BY <2>1, <2>4, NoFramesOK
    <2> QED BY <2>1, <2>2, <2>3, <2>4, <2>5, <2>6 DEF DndInv
  <1> QED BY <1>2, <1>3, <1>4

LEMMA TurnedHere == ASSUME TypeInv, DndInv, NEW on \in OnOff, PhoneDND(on) PROVE DndLost' \/ DndInv'
  <1>1. /\ on # pdnd.on /\ Switch(on) /\ UNCHANGED <<ws, dnd, now, toPhone, proc>>
    BY DEF PhoneDND
  <1>2. Wished(dnd.on) => Wished(dnd.on)'
    BY <1>1 DEF Wished, At
  <1> QED BY <1>1, <1>2, SwitchTurned

LEMMA WishTaken == ASSUME TypeInv, DndInv, PhoneSetDND PROVE DndLost' \/ DndInv'
  <1> DEFINE on == Head(toPhone).on
  <1>1. /\ ws /\ toPhone # <<>> /\ Head(toPhone).type = "dnd" /\ toPhone' = Tail(toPhone)
        /\ UNCHANGED <<ws, dnd, now, proc>> /\ toPhone \in Seq(FromMac)
    BY DEF PhoneSetDND, PhoneFrame, boundVars, TypeInv, ToPhoneOK
  <1>2. on \in OnOff
    BY <1>1, TakenByPhone DEF TypeInv
  <1>3. CASE on # pdnd.on
    <2>1. Switch(on)
      BY <1>3 DEF PhoneSetDND
    <2> HIDE DEF on
    <2> QED BY <1>1, <1>2, <1>3, <2>1, SwitchTurned
  <1>4. CASE on = pdnd.on
    <2>1. UNCHANGED <<pdnd, toMac>>
      BY <1>4 DEF PhoneSetDND
    <2>2. In(toPhone) = {Head(toPhone)} \cup In(toPhone')
      BY <1>1, InRest
    <2>3. ASSUME NEW x, x # on, Wished(x) PROVE Wished(x)'
      BY <1>1, <2>2, <2>3 DEF Wished, At
    <2>4. \A x : Wished(x) => x = pdnd.on \/ Wished(x)'
      BY <1>4, <2>3
    <2>5. Told = pdnd.on
      BY <1>1 DEF DndInv, Told
    <2>6. Told' = Told
      BY <2>1 DEF Told
    <2>7. FramesOK(toMac, dnd.at, pdnd.on)'
      BY <1>1, <2>1 DEF DndInv
    <2>8. DndIn(toMac') = {} => dnd.on = Told \/ Wished(dnd.on)'
      BY <1>1, <2>1, <2>4, <2>5 DEF DndInv
    <2> QED BY <1>1, <2>1, <2>6, <2>7, <2>8 DEF DndInv
  <1> QED BY <1>3, <1>4

LEMMA AnswerDnd == ASSUME TypeInv, DndInv, DndSent PROVE DndInv'
  <1>1. /\ pdnd.sending # "none" /\ pdnd' = [pdnd EXCEPT !.sent = pdnd.sending, !.sending = "none"]
        /\ UNCHANGED <<ws, dnd, toMac, toPhone, proc>>
    BY DEF DndSent, wireVars
  <1>2. pdnd'.sent = pdnd.sending /\ pdnd'.sending = "none" /\ pdnd'.on = pdnd.on
    BY <1>1 DEF TypeInv, PhoneOK
  <1>3. Told' = Told
    BY <1>1, <1>2 DEF Told
  <1>4. Wished(dnd.on) => Wished(dnd.on)'
    BY <1>1 DEF Wished, At
  <1>5. FramesOK(toMac, dnd.at, pdnd.on)'
    BY <1>1, <1>2 DEF DndInv
  <1> QED BY <1>1, <1>2, <1>3, <1>4, <1>5 DEF DndInv

LEMMA ConnectDnd == ASSUME TypeInv, DndInv, Connect PROVE DndInv'
  <1>1. PICK play, tell :
          /\ play = <<>> \/ (play = <<[type |-> "play", ver |-> track.cur]>> /\ track.cur # track.sent)
          /\ \/ tell = <<>> /\ UNCHANGED pdnd /\ (pdnd.sent = pdnd.on \/ pdnd.sending # "none")
             \/ /\ tell = <<[type |-> "dnd", on |-> pdnd.on, at |-> now]>>
                /\ pdnd.sent # pdnd.on /\ pdnd.sending = "none"
                /\ pdnd' = [pdnd EXCEPT !.sending = pdnd.on]
          /\ toMac' = Live \o play \o tell
    BY Connected
  <1>2. /\ ~ws /\ UNCHANGED <<dnd, toPhone>> /\ Goto(Reader, "flush", <<>>) /\ Reader \in Procs
        /\ CountOK /\ ToMacOK /\ PhoneOK /\ ProcOK
    BY DEF Connect, TypeInv, Procs
  <1> DEFINE b == Live \o play \o tell
  <1>3. /\ b \in Seq(FromPhone) /\ Len(b) = Len(Live) + Len(play) + Len(tell)
        /\ Len(Live) \in Nat /\ Len(play) \in {0, 1} /\ Len(tell) \in {0, 1}
        /\ \A i \in 1..Len(Live) : b[i] = Live[i] /\ Live[i] \in Posts
        /\ Len(play) = 1 => b[Len(Live) + 1] = [type |-> "play", ver |-> track.cur]
        /\ Len(tell) = 1 => b[Len(Live) + Len(play) + 1] = [type |-> "dnd", on |-> pdnd.on, at |-> now]
    <2>1. /\ play = <<>> \/ (play = <<[type |-> "play", ver |-> track.cur]>> /\ track.cur # track.sent)
          /\ tell = <<>> \/ tell = <<[type |-> "dnd", on |-> pdnd.on, at |-> now]>>
      BY <1>1
    <2> QED BY <1>2, <2>1, Greeting
  <1>4. toMac' = b
    BY <1>1
  <1> DEFINE n == Len(Live)  y == Len(play)  z == Len(tell)
  <1>5. n \in Nat /\ (y = 0 \/ y = 1) /\ (z = 0 \/ z = 1) /\ Len(b) = n + y + z
    BY <1>3
  <1>6. /\ \A i \in 1..n : b[i].type # "dnd"
        /\ y = 1 => b[n + 1].type # "dnd"
        /\ z = 1 => b[n + y + 1] = [type |-> "dnd", on |-> pdnd.on, at |-> now]
    <2>1. \A i \in 1..n : b[i] \in Posts
      BY <1>3
    <2>2. \A i \in 1..n : b[i].type # "dnd"
      BY <2>1 DEF Posts
    <2>3. y = 1 => b[n + 1].type = "play"
      BY <1>3
    <2> QED BY <1>3, <2>2, <2>3
  <1> HIDE DEF b, n, y, z
  <1>7. ASSUME NEW i \in 1..Len(b), b[i].type = "dnd" PROVE z = 1 /\ i = n + y + 1
    <2>1. \/ i \in 1..n
          \/ y = 1 /\ i = n + 1
          \/ z = 1 /\ i = n + y + 1
      BY <1>5
    <2> QED BY <1>6, <1>7, <2>1
  <1>8. \A x : Wished(x) => Wished(x)'
    BY <1>2, WishStays
  <1>9. DndIn(toMac) = {}
    BY <1>2, NoStateWaits
  <1>10. CASE tell = <<>>
    <2>1. z = 0
      BY <1>10 DEF z
    <2>2. DndIn(toMac') = {}
      BY <1>4, <1>7, <2>1 DEF DndIn
    <2>3. UNCHANGED pdnd /\ (pdnd.sent = pdnd.on \/ pdnd.sending # "none")
      BY <1>1, <1>10
    <2>4. Told' = Told
      BY <2>3 DEF Told
    <2>5. FramesOK(toMac, dnd.at, pdnd.on)'
      BY <2>2, NoFramesOK
    <2> QED BY <1>2, <1>8, <1>9, <2>3, <2>4, <2>5 DEF DndInv
  <1>11. CASE tell # <<>>
    <2>1. /\ tell = <<[type |-> "dnd", on |-> pdnd.on, at |-> now]>>
          /\ pdnd' = [pdnd EXCEPT !.sending = pdnd.on]
      BY <1>1, <1>11
    <2>2. z = 1
      BY <2>1 DEF z
    <2> DEFINE k == n + y + 1
    <2>3. k \in 1..Len(b) /\ b[k] = [type |-> "dnd", on |-> pdnd.on, at |-> now]
      BY <1>5, <1>6, <2>2
    <2>4. \A i \in 1..Len(b) : b[i].type = "dnd" => i = k
      BY <1>7
    <2> HIDE DEF k
    <2>5. DndIn(b) = {k}
      BY <2>3, <2>4 DEF DndIn
    <2>6. pdnd'.sending = pdnd.on /\ pdnd'.on = pdnd.on /\ pdnd.on # "none"
      BY <1>2, <2>1 DEF PhoneOK, OnOff
    <2>7. dnd.at <= now /\ now <= now
      BY BoundsAssumption DEF TypeInv, ShowOK, CountOK
    <2>8. FramesOK(b, dnd.at, pdnd.on)
      BY <2>3, <2>5, <2>7 DEF FramesOK
    <2>9. FramesOK(toMac, dnd.at, pdnd.on)'
      BY <1>2, <1>4, <2>6, <2>8
    <2> QED BY <1>4, <2>5, <2>6, <2>9 DEF DndInv
  <1> QED BY <1>10, <1>11

LEMMA DisconnectDnd == ASSUME TypeInv, DndInv, Disconnect PROVE DndLost' \/ DndInv'
  <1>1. UNCHANGED <<dnd, pdnd, proc>> /\ ws' = FALSE /\ toMac' = <<>> /\ toPhone' = <<>>
    BY DEF Disconnect, Lost, phoneVars
  <1>2. toMac \in Seq(FromPhone) /\ toPhone \in Seq(FromMac)
    BY DEF TypeInv, ToMacOK, ToPhoneOK
  <1>3. CASE toMac = <<>> /\ toPhone = <<>>
    <2>1. \A x : Wished(x) => Wished(x)'
      BY <1>1, <1>3 DEF Wished, At
    <2> QED BY <1>1, <1>3, <2>1, DndElsewhere DEF DndInv
  <1>4. CASE toMac # <<>> \/ toPhone # <<>>
    <2> DEFINE both == toMac \o toPhone
    <2>1. Len(both) = Len(toMac) + Len(toPhone) /\ (Len(toMac) # 0 \/ Len(toPhone) # 0)
          /\ Len(toMac) \in Nat /\ Len(toPhone) \in Nat
      BY <1>2, <1>4
    <2> HIDE DEF both
    <2>2. both # <<>>
      <3>1. Len(both) # 0
        BY <2>1
      <3> QED BY <3>1
    <2> QED BY <2>2 DEF both, Disconnect, Lost, DndLost
  <1> QED BY <1>3, <1>4

\* Steps that leave the switch alone and send no state of it.
LEMMA OtherDnd ==
    ASSUME TypeInv, TypeInv', DndInv,
           \/ Tick \/ IngestPost \/ Post \/ IngestDismiss \/ IngestPlayback \/ ApplyPlayback
           \/ \E c \in Callers :
                \/ \E s \in Settings : ChangeSettings(c, s)
                \/ Clear(c) \/ ClearPlayback(c) \/ ClearNotifications(c) \/ MarkSeen(c)
                \/ \E id \in Ids : Dismiss(c, id)
                \/ SendPlaybackCmd(c)
           \/ \E s \in Settings : AdoptSettings(s)
           \/ \E p \in Procs : FlushNothing(p) \/ TakePendingDismissals(p) \/ SendDismissal(p)
           \/ \E id \in Ids : PhonePost(id)
           \/ PhonePlays \/ PhoneDismisses \/ PhoneCommand
           \/ UNCHANGED vars
    PROVE  DndInv'
  <1>1. ToMacOK /\ ToMacOK' /\ ToPhoneOK /\ CountOK /\ PhoneOK /\ ProcOK /\ Reader \in Procs
    BY DEF TypeInv, Procs
  <1>2. UNCHANGED <<dnd, pdnd, ws>>
    BY DEF Tick, IngestPost, Post, IngestDismiss, IngestPlayback, ApplyPlayback, ChangeSettings, Clear,
           ClearPlayback, ClearNotifications, MarkSeen, Dismiss, SendPlaybackCmd, AdoptSettings,
           FlushNothing, TakePendingDismissals, SendDismissal, PhonePost, PhonePlays, PhoneDismisses,
           PhoneCommand, vars, wireVars, phoneVars
  <1> DEFINE Same == FramesOK(toMac', dnd.at, pdnd.on) /\ (DndIn(toMac') = {} => DndIn(toMac) = {})
  <1>3. UNCHANGED toMac => Same
    BY DEF DndInv
  <1>4. ASSUME NEW m \in FromPhone, m.type # "dnd", toMac' = Append(toMac, m) PROVE Same
    <2>1. toMac \in Seq(FromPhone)
      BY <1>1 DEF ToMacOK
    <2>2. DndIn(toMac') = DndIn(toMac) /\ FramesOK(toMac', dnd.at, pdnd.on)
      BY <1>4, <2>1, FramesOtherSent DEF DndInv
    <2> QED BY <2>2
  <1>5. ASSUME toMac # <<>>, Head(toMac).type # "dnd", toMac' = Tail(toMac) PROVE Same
    <2>1. toMac \in Seq(FromPhone)
      BY <1>1 DEF ToMacOK
    <2> QED BY <1>5, <2>1, FramesOtherTaken DEF DndInv
  <1>6. Same
    <2>1. CASE IngestPost \/ IngestDismiss \/ IngestPlayback
      <3>1. toMac # <<>> /\ Head(toMac).type # "dnd" /\ toMac' = Tail(toMac)
        BY <2>1 DEF IngestPost, IngestDismiss, IngestPlayback, Frame
      <3> QED BY <1>5, <3>1
    <2>2. ASSUME NEW s \in Settings, AdoptSettings(s) PROVE Same
      <3> DEFINE m == [type |-> "play", ver |-> track.cur]
      <3>1. UNCHANGED toMac \/ (toMac' = Append(toMac, m) /\ track.cur # track.sent)
        BY <2>2 DEF AdoptSettings
      <3>2. track.cur # track.sent => m \in FromPhone /\ m.type # "dnd"
        BY <1>1, BoundsAssumption DEF PhoneOK, FromPhone, Plays
      <3> HIDE DEF m, Same
      <3> QED BY <1>3, <1>4, <3>1, <3>2
    <2>3. ASSUME NEW id \in Ids, PhonePost(id) PROVE Same
      <3> DEFINE m == [type |-> "post", id |-> id, ver |-> events + 1, at |-> now]
      <3>1. toMac' = toMac \/ toMac' = Append(IF ws THEN toMac ELSE Without(toMac, id), m)
        BY <2>3 DEF PhonePost
      <3>2. m \in FromPhone /\ m.type # "dnd"
        BY <1>1, <2>3, BoundsAssumption DEF PhonePost, Event, CountOK, FromPhone, Posts
      <3>3. CASE ~ws
        <4>1. DndIn(toMac) = {} /\ DndIn(toMac') = {}
          BY <1>1, <1>2, <3>3, NoStateWaits DEF ToMacOK, DndIn, Posts
        <4> QED BY <4>1, NoFramesOK
      <3> HIDE DEF m, Same
      <3> QED BY <1>3, <1>4, <3>1, <3>2, <3>3
    <2>4. CASE PhonePlays
      <3> DEFINE m == [type |-> "play", ver |-> events + 1]
      <3>1. UNCHANGED toMac \/ toMac' = Append(toMac, m)
        BY <2>4 DEF PhonePlays
      <3>2. m \in FromPhone /\ m.type # "dnd"
        BY <1>1, <2>4, BoundsAssumption DEF PhonePlays, Event, CountOK, FromPhone, Plays
      <3> HIDE DEF m, Same
      <3> QED BY <1>3, <1>4, <3>1, <3>2
    <2>5. CASE PhoneDismisses
      <3> DEFINE m == [type |-> "dismiss", id |-> Head(toPhone).id]
      <3>1. UNCHANGED toMac \/ toMac' = Append(toMac, m)
        BY <2>5 DEF PhoneDismisses
      <3>2. m \in FromPhone /\ m.type # "dnd"
        BY <1>1, <2>5, TakenByPhone DEF PhoneDismisses, PhoneFrame, FromPhone
      <3> HIDE DEF m, Same
      <3> QED BY <1>3, <1>4, <3>1, <3>2
    <2>6. CASE \/ Tick \/ Post \/ ApplyPlayback
               \/ \E c \in Callers :
                    \/ \E s \in Settings : ChangeSettings(c, s)
                    \/ Clear(c) \/ ClearPlayback(c) \/ ClearNotifications(c) \/ MarkSeen(c)
                    \/ \E id \in Ids : Dismiss(c, id)
                    \/ SendPlaybackCmd(c)
               \/ \E p \in Procs : FlushNothing(p) \/ TakePendingDismissals(p) \/ SendDismissal(p)
               \/ PhoneCommand \/ UNCHANGED vars
      <3>1. UNCHANGED toMac
        BY <2>6 DEF Tick, Post, ApplyPlayback, ChangeSettings, Clear, ClearPlayback, ClearNotifications,
                    MarkSeen, Dismiss, SendPlaybackCmd, FlushNothing, TakePendingDismissals,
                    SendDismissal, PhoneCommand, vars, wireVars
      <3> HIDE DEF Same
      <3> QED BY <1>3, <3>1
    <2> HIDE DEF Same
    <2> QED BY <2>1, <2>2, <2>3, <2>4, <2>5, <2>6
  <1>7. \A on : Wished(on) => Wished(on)'
    <2>1. \A m \in In(toPhone) : m.type = "dnd" => m \in In(toPhone')
      <3>1. CASE PhoneDismisses \/ PhoneCommand
        <4>1. toPhone # <<>> /\ Head(toPhone).type # "dnd" /\ toPhone' = Tail(toPhone)
          BY <3>1 DEF PhoneDismisses, PhoneCommand, PhoneFrame
        <4>2. In(toPhone) = {Head(toPhone)} \cup In(toPhone')
          BY <1>1, <4>1, InRest DEF ToPhoneOK
        <4> QED BY <4>1, <4>2
      <3>2. CASE \E c \in Callers : SendPlaybackCmd(c)
        <4>1. UNCHANGED toPhone \/ toPhone' = Append(toPhone, [type |-> "cmd"])
          BY <3>2 DEF SendPlaybackCmd
        <4>2. [type |-> "cmd"] \in FromMac
          BY DEF FromMac
        <4>3. toPhone' = Append(toPhone, [type |-> "cmd"]) => In(toPhone') = In(toPhone) \cup {[type |-> "cmd"]}
          BY <1>1, <4>2, InAppended DEF ToPhoneOK
        <4> QED BY <4>1, <4>3
      <3>3. ASSUME NEW p \in Procs, SendDismissal(p)
            PROVE  \A m \in In(toPhone) : m.type = "dnd" => m \in In(toPhone')
        <4> DEFINE a == proc[p].arg
                   f == [type |-> "dismiss", id |-> Head(a)]
        <4>1. a \in Seq(Ids) /\ a # <<>>
          BY <1>1, <3>3 DEF SendDismissal, ProcOK, PlaceOK
        <4>2. f \in FromMac
          BY <4>1, Rest DEF FromMac
        <4>3. UNCHANGED toPhone \/ toPhone' = Append(toPhone, f)
          BY <3>3 DEF SendDismissal
        <4> HIDE DEF f
        <4>4. toPhone' = Append(toPhone, f) => In(toPhone') = In(toPhone) \cup {f}
          BY <1>1, <4>2, InAppended DEF ToPhoneOK
        <4> QED BY <4>3, <4>4
      <3>4. CASE ~(\/ PhoneDismisses \/ PhoneCommand \/ \E c \in Callers : SendPlaybackCmd(c)
                   \/ \E p \in Procs : SendDismissal(p))
        <4>1. UNCHANGED toPhone
          BY <3>4 DEF Tick, IngestPost, Post, IngestDismiss, IngestPlayback, ApplyPlayback, ChangeSettings,
                      Clear, ClearPlayback, ClearNotifications, MarkSeen, Dismiss, AdoptSettings,
                      FlushNothing, TakePendingDismissals, PhonePost, PhonePlays, vars, wireVars
        <4> QED BY <4>1
      <3> QED BY <3>1, <3>2, <3>3, <3>4
    <2>2. \/ UNCHANGED proc
          \/ \E p \in Procs : (p # Reader => ~At(p, "dnd")) /\ \E pc, arg : Goto(p, pc, arg)
      <3>1. CASE \/ Tick \/ IngestDismiss \/ PhonePlays \/ PhoneDismisses \/ PhoneCommand \/ UNCHANGED vars
                 \/ \E s \in Settings : AdoptSettings(s)
                 \/ \E id \in Ids : PhonePost(id)
        BY <3>1 DEF Tick, IngestDismiss, PhonePlays, PhoneDismisses, PhoneCommand, vars, AdoptSettings, PhonePost
      <3>2. CASE IngestPost \/ Post \/ IngestPlayback \/ ApplyPlayback
        <4>1. UNCHANGED proc \/ \E pc, arg : Goto(Reader, pc, arg)
          BY <3>2, Finished DEF IngestPost, Post, IngestPlayback, ApplyPlayback
        <4> QED BY <1>1, <4>1
      <3>3. ASSUME NEW c \in Callers,
                   \/ \E s \in Settings : ChangeSettings(c, s)
                   \/ Clear(c) \/ ClearPlayback(c) \/ ClearNotifications(c) \/ MarkSeen(c)
                   \/ \E id \in Ids : Dismiss(c, id)
                   \/ SendPlaybackCmd(c)
            PROVE  UNCHANGED proc \/ (~At(c, "dnd") /\ \E pc, arg : Goto(c, pc, arg))
        BY <3>3 DEF ChangeSettings, Clear, ClearPlayback, ClearNotifications, MarkSeen, Dismiss,
                    SendPlaybackCmd, Call, At
      <3>4. ASSUME NEW p \in Procs, FlushNothing(p) \/ TakePendingDismissals(p) \/ SendDismissal(p)
            PROVE  ~At(p, "dnd") /\ \E pc, arg : Goto(p, pc, arg)
        BY <3>4, Finished DEF FlushNothing, TakePendingDismissals, SendDismissal, At
      <3> QED BY <3>1, <3>2, <3>3, <3>4, Caller
    <2> QED BY <1>1, <2>1, <2>2, WishStays
  <1>8. FramesOK(toMac', dnd.at, pdnd.on) /\ (DndIn(toMac') = {} => DndIn(toMac) = {})
    BY <1>6
  <1>9. Wished(dnd.on) => Wished(dnd.on)'
    BY <1>2, <1>7
  <1> QED BY <1>2, <1>8, <1>9, DndElsewhere

LEMMA NextDnd ==
    ASSUME TypeInv, TypeInv', DndLost \/ DndInv, [Next]_vars
    PROVE  DndLost' \/ DndInv'
  <1>1. CASE DndLost
    BY <1>1, CausesGrow DEF DndLost
  <1>2. CASE DndInv
    <2>1. CASE IngestDND
      BY <1>2, <2>1, IngestState
    <2>2. CASE \E c \in Callers : SendDND(c) \/ \E on \in OnOff : SetDND(c, on)
      BY <1>2, <2>2, WishShown, WishSent
    <2>3. CASE PhoneSetDND \/ \E on \in OnOff : PhoneDND(on)
      BY <1>2, <2>3, TurnedHere, WishTaken
    <2>4. CASE DndSent
      BY <1>2, <2>4, AnswerDnd
    <2>5. CASE Connect
      BY <1>2, <2>5, ConnectDnd
    <2>6. CASE Disconnect
      BY <1>2, <2>6, DisconnectDnd
    <2>7. CASE PhoneRefusesDND \/ MacRestarts
      BY <2>7 DEF PhoneRefusesDND, MacRestarts, DndLost
    <2> QED BY <1>2, <2>1, <2>2, <2>3, <2>4, <2>5, <2>6, <2>7, OtherDnd DEF Next
  <1> QED BY <1>1, <1>2

LEMMA InitDnd == Init => DndInv
  <1> SUFFICES ASSUME Init PROVE DndInv
    OBVIOUS
  <1>1. DndIn(toMac) = {}
    BY NoneIn DEF Init
  <1> QED BY <1>1, NoFramesOK DEF Init, DndInv, Told

\* When nothing is on its way the Mac shows the phone's own switch
\* (DndFollows), whichever side turned it and in whatever order the wishes, the
\* states and their answers came, unless one of the named causes came between.
THEOREM SwitchKeepsUp == Spec => []DndFollows
  <1>1. Init => TypeInv /\ (DndLost \/ DndInv)
    BY InitTypeInv, InitDnd
  <1>2. TypeInv /\ (DndLost \/ DndInv) /\ [Next]_vars => (TypeInv /\ (DndLost \/ DndInv))'
    BY NextTypeInv, NextDnd
  <1> QED BY <1>1, <1>2, DndFits, PTL DEF Spec

=============================================================================
