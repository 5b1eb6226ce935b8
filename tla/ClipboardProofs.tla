--------------------------- MODULE ClipboardProofs ---------------------------
(***************************************************************************)
(* Proofs about Clipboard, for any contents, modes, goroutines, seconds    *)
(* and events, and about ClipChunks, for any transfers, sizes and caps in  *)
(* the order of the code's.                                                *)
(***************************************************************************)
EXTENDS Clipboard, ClipChunks, FiniteSetTheorems, TLAPS

(***************************************************************************)
(* What is in a queue.                                                     *)
(***************************************************************************)

In(x, s) == \E i \in 1..Len(s) : s[i] = x

\* Nothing is in an empty queue.
LEMMA InEmpty == \A x : ~In(x, <<>>)
  BY DEF In

\* Appending adds one element.
LEMMA InAppend ==
    ASSUME NEW S, NEW s \in Seq(S), NEW y \in S
    PROVE  Append(s, y) \in Seq(S) /\ \A x : In(x, Append(s, y)) <=> In(x, s) \/ x = y
  <1>1. /\ Append(s, y) \in Seq(S) /\ Len(Append(s, y)) = Len(s) + 1
        /\ Append(s, y)[Len(s) + 1] = y
        /\ \A i \in 1..Len(s) : Append(s, y)[i] = s[i]
    OBVIOUS
  <1>2. \A i : i \in 1..(Len(s) + 1) <=> i \in 1..Len(s) \/ i = Len(s) + 1
    OBVIOUS
  <1> QED BY <1>1, <1>2 DEF In

\* The rest of a queue has what is not at its head.
LEMMA InTail ==
    ASSUME NEW S, NEW s \in Seq(S), s # <<>>
    PROVE  /\ Head(s) \in S /\ Tail(s) \in Seq(S)
           /\ \A x : In(x, s) <=> x = Head(s) \/ In(x, Tail(s))
  <1>1. /\ Head(s) \in S /\ Tail(s) \in Seq(S) /\ Len(Tail(s)) = Len(s) - 1
        /\ Head(s) = s[1] /\ Len(s) \in Nat \ {0}
        /\ \A i \in 1..(Len(s) - 1) : Tail(s)[i] = s[i + 1]
    OBVIOUS
  <1>2. ASSUME NEW x, In(x, s) PROVE x = Head(s) \/ In(x, Tail(s))
    <2>1. PICK i \in 1..Len(s) : s[i] = x
      BY <1>2 DEF In
    <2>2. CASE i = 1
      BY <1>1, <2>1, <2>2
    <2>3. CASE i # 1
      <3>1. i - 1 \in 1..Len(Tail(s)) /\ Tail(s)[i - 1] = s[i]
        BY <1>1, <2>1, <2>3
      <3> QED BY <2>1, <3>1 DEF In
    <2> QED BY <2>2, <2>3
  <1>3. ASSUME NEW x, x = Head(s) \/ In(x, Tail(s)) PROVE In(x, s)
    <2>1. CASE x = Head(s)
      <3>1. 1 \in 1..Len(s) /\ s[1] = x
        BY <1>1, <2>1
      <3> QED BY <3>1 DEF In
    <2>2. CASE In(x, Tail(s))
      <3>1. PICK i \in 1..Len(Tail(s)) : Tail(s)[i] = x
        BY <2>2 DEF In
      <3>2. i + 1 \in 1..Len(s) /\ s[i + 1] = x
        BY <1>1, <3>1
      <3> QED BY <3>2 DEF In
    <2> QED BY <1>3, <2>1, <2>2
  <1> QED BY <1>1, <1>2, <1>3


(***************************************************************************)
(* Types.                                                                  *)
(***************************************************************************)

Places == {"idle", "set", "take", "flush", "send", "requeue", "note", "write"}

ProcStates == [pc : Places, what : Contents \cup {None}, wall : Nat,
               push : Pushes \cup {None}]

Stamps == [at : Nat, c : Nat]

\* A goroutine holds content between the pasteboard and the store, and a push
\* between the store and the socket.
Fits(x) ==
    /\ x.what # None <=> x.pc \in {"set", "take", "note", "write"}
    /\ x.push # None <=> x.pc \in {"send", "requeue"}

CountOK ==
    /\ now \in 1..(MaxTime + 1) /\ events \in 0..MaxEvents
    /\ mode \in Modes \cup {"both"} /\ causes \subseteq Causes

WatchOK ==
    /\ board \in [what : Contents \cup {None}, fresh : BOOLEAN]
    /\ watch \in [text : (Contents \ Images) \cup {None}, image : Images \cup {None},
                  slot : Contents \cup {None}]
    /\ tick \in [Tickers -> Contents \cup {None}]

\* A side that holds a clip knows whose it is; one that holds none has the
\* zero stamp and nothing to send.
ClipOK(x) ==
    /\ x \in Clips
    /\ x.what # None => x.origin \in {"mac", "android"}
    /\ x.what = None => x.at = 0 /\ x.c = 0 /\ ~x.pending

StoreOK == ClipOK(clip) /\ hlc \in Stamps

ProcOK == proc \in [Procs -> ProcStates] /\ \A p \in Procs : Fits(proc[p])

WireOK ==
    /\ up \in BOOLEAN
    /\ toPhone \in Seq(Pushes) /\ toMac \in Seq(Pushes)

PhoneOK ==
    /\ pboard \in Contents \cup {None} /\ pdraft \in Contents \cup {None}
    /\ pwrites \in Seq(Contents)
    /\ ClipOK(pclip)

\* The phone sends only when it holds a clip.
SendsOK ==
    /\ psends \in Seq(Pushes)
    /\ post \in [pc : {"none", "sent", "handled"}, push : Pushes \cup {None}]
    /\ post.pc # "none" => post.push # None
    /\ post.pc # "none" \/ psends # <<>> => pclip.what # None

TypeInv == CountOK /\ WatchOK /\ StoreOK /\ ProcOK /\ WireOK /\ PhoneOK /\ SendsOK

\* The empty value is neither a content nor a push, and a goroutine that does
\* nothing holds neither.
LEMMA Constants ==
    /\ None \notin Contents /\ None \notin Pushes
    /\ Images \subseteq Contents
    /\ Idle \in ProcStates /\ Fits(Idle)
    /\ Idle.pc = "idle" /\ Idle.what = None /\ Idle.wall = 0 /\ Idle.push = None
    /\ Timer \in Procs /\ Reader \in Procs /\ Http \in Procs /\ Users \subseteq Procs
    /\ ClipOK(NoClip)
    /\ Empty \in Contents
    /\ \A x \in Contents : /\ Trim[x] \in Contents /\ Trim[Trim[x]] = Trim[x]
                           /\ Key[x] \in Contents
                           /\ x \in Images => Key[x] \in Images
                           /\ x \notin Images => Key[x] = x
  <1>1. None \notin Contents /\ None \notin Pushes /\ Images \subseteq Contents
    BY ContentsAssumption DEF Pushes
  <1>2. /\ Idle \in ProcStates
        /\ Idle.pc = "idle" /\ Idle.what = None /\ Idle.wall = 0 /\ Idle.push = None
    BY DEF Idle, ProcStates, Places
  <1>3. Fits(Idle)
    BY <1>2 DEF Fits
  <1>4. ClipOK(NoClip)
    BY DEF ClipOK, NoClip, Clips
  <1>5. /\ Empty \in Contents
        /\ \A x \in Contents : /\ Trim[x] \in Contents /\ Trim[Trim[x]] = Trim[x]
                               /\ Key[x] \in Contents
                               /\ x \in Images => Key[x] \in Images
                               /\ x \notin Images => Key[x] = x
    BY ContentsAssumption
  <1> QED BY <1>1, <1>2, <1>3, <1>4, <1>5 DEF Procs

\* The first state has the types.
LEMMA InitTypeInv == Init => TypeInv
  <1> SUFFICES ASSUME Init PROVE TypeInv
    OBVIOUS
  <1>1. CountOK
    BY BoundsAssumption DEF Init, CountOK
  <1>2. WatchOK
    BY DEF Init, WatchOK
  <1>3. StoreOK
    BY Constants DEF Init, StoreOK, Stamps
  <1>4. ProcOK
    BY Constants DEF Init, ProcOK
  <1>5. WireOK
    <2>1. up \in BOOLEAN
      BY Zenon DEF Init
    <2>2. toPhone \in Seq(Pushes) /\ toMac \in Seq(Pushes)
      BY DEF Init
    <2> QED BY <2>1, <2>2 DEF WireOK
  <1>6. PhoneOK
    BY Constants DEF Init, PhoneOK
  <1>7. SendsOK
    BY DEF Init, SendsOK
  <1> QED BY <1>1, <1>2, <1>3, <1>4, <1>5, <1>6, <1>7 DEF TypeInv

\* What a step leaves alone keeps its type.
LEMMA Frame ==
    ASSUME TypeInv
    PROVE  /\ UNCHANGED <<now, events, mode, causes>> => CountOK'
           /\ UNCHANGED watchVars => WatchOK'
           /\ UNCHANGED storeVars => StoreOK'
           /\ UNCHANGED proc => ProcOK'
           /\ UNCHANGED <<up, toPhone, toMac>> => WireOK'
           /\ UNCHANGED <<pboard, pdraft, pwrites, pclip>> => PhoneOK'
           /\ UNCHANGED <<psends, post, pclip>> => SendsOK'
  <1>1. UNCHANGED <<now, events, mode, causes>> => CountOK'
    BY DEF TypeInv, CountOK
  <1>2. UNCHANGED watchVars => WatchOK'
    BY DEF TypeInv, WatchOK, watchVars
  <1>3. UNCHANGED storeVars => StoreOK'
    BY DEF TypeInv, StoreOK, ClipOK, storeVars
  <1>4. UNCHANGED proc => ProcOK'
    BY DEF TypeInv, ProcOK, Fits
  <1>5. UNCHANGED <<up, toPhone, toMac>> => WireOK'
    BY DEF TypeInv, WireOK
  <1>6. UNCHANGED <<pboard, pdraft, pwrites, pclip>> => PhoneOK'
    BY DEF TypeInv, PhoneOK, ClipOK
  <1>7. UNCHANGED <<psends, post, pclip>> => SendsOK'
    BY DEF TypeInv, SendsOK
  <1> QED BY <1>1, <1>2, <1>3, <1>4, <1>5, <1>6, <1>7

(***************************************************************************)
(* Where each step of a goroutine leaves it.                               *)
(***************************************************************************)

\* Goroutine p moves to state x, which fits.
Moves(p, x) ==
    /\ x \in ProcStates /\ Fits(x)
    /\ proc' = [proc EXCEPT ![p] = x]

\* Nobody else does.
LEMMA Moved ==
    ASSUME TypeInv, NEW p \in Procs, NEW x, Moves(p, x)
    PROVE  /\ ProcOK'
           /\ proc'[p] = x
           /\ \A q \in Procs \ {p} : proc'[q] = proc[q]
  <1>1. proc \in [Procs -> ProcStates] /\ \A q \in Procs : Fits(proc[q])
    BY DEF TypeInv, ProcOK
  <1>2. /\ proc' \in [Procs -> ProcStates] /\ proc'[p] = x
        /\ \A q \in Procs \ {p} : proc'[q] = proc[q]
    BY <1>1 DEF Moves
  <1>3. \A q \in Procs : Fits(proc'[q])
    BY <1>1, <1>2 DEF Moves
  <1>4. (\A q \in Procs : Fits(proc[q]))'
    BY <1>3
  <1> QED BY <1>2, <1>4 DEF ProcOK

\* A goroutine's fields.
LEMMA ProcFields ==
    ASSUME TypeInv, NEW p \in Procs
    PROVE  /\ proc[p] \in ProcStates /\ Fits(proc[p]) /\ proc \in [Procs -> ProcStates]
           /\ proc[p].what \in Contents \cup {None} /\ proc[p].wall \in Nat
           /\ proc[p].push \in Pushes \cup {None}
           /\ proc[p].pc \in {"set", "take", "note", "write"} => proc[p].what \in Contents
           /\ proc[p].pc \in {"send", "requeue"} => proc[p].push \in Pushes
           /\ proc[p].pc \notin {"set", "take", "note", "write"} => proc[p].what = None
           /\ proc[p].pc \notin {"send", "requeue"} => proc[p].push = None
  <1>1. proc[p] \in ProcStates /\ Fits(proc[p]) /\ proc \in [Procs -> ProcStates]
    BY DEF TypeInv, ProcOK
  <1>2. /\ proc[p].what \in Contents \cup {None} /\ proc[p].wall \in Nat
        /\ proc[p].push \in Pushes \cup {None}
    BY <1>1 DEF ProcStates
  <1> QED BY <1>1, <1>2 DEF Fits

St(pc, x, w, push) == [pc |-> pc, what |-> x, wall |-> w, push |-> push]

\* The state a goroutine moves to, by its fields.
LEMMA StOK ==
    ASSUME NEW pc \in Places, NEW x \in Contents \cup {None}, NEW w \in Nat,
           NEW push \in Pushes \cup {None},
           x # None <=> pc \in {"set", "take", "note", "write"},
           push # None <=> pc \in {"send", "requeue"}
    PROVE  /\ St(pc, x, w, push) \in ProcStates /\ Fits(St(pc, x, w, push))
           /\ St(pc, x, w, push).pc = pc /\ St(pc, x, w, push).what = x
           /\ St(pc, x, w, push).wall = w /\ St(pc, x, w, push).push = push
  <1>1. /\ St(pc, x, w, push).pc = pc /\ St(pc, x, w, push).what = x
        /\ St(pc, x, w, push).wall = w /\ St(pc, x, w, push).push = push
    BY DEF St
  <1>2. St(pc, x, w, push) \in ProcStates
    BY DEF St, ProcStates
  <1> QED BY <1>1, <1>2 DEF Fits

\* A goroutine's state is its four fields, and so is one with some replaced.
LEMMA StExcept ==
    ASSUME NEW x \in ProcStates, NEW pc \in Places, NEW y \in Contents \cup {None},
           NEW w \in Nat, NEW push \in Pushes \cup {None}
    PROVE  /\ [x EXCEPT !.pc = pc] = St(pc, x.what, x.wall, x.push)
           /\ [x EXCEPT !.what = y] = St(x.pc, y, x.wall, x.push)
           /\ [x EXCEPT !.wall = w] = St(x.pc, x.what, w, x.push)
           /\ [x EXCEPT !.push = push] = St(x.pc, x.what, x.wall, push)
  <1>1. [x EXCEPT !.pc = pc] = St(pc, x.what, x.wall, x.push)
    BY DEF St, ProcStates
  <1>2. [x EXCEPT !.what = y] = St(x.pc, y, x.wall, x.push)
    BY DEF St, ProcStates
  <1>3. [x EXCEPT !.wall = w] = St(x.pc, x.what, w, x.push)
    BY DEF St, ProcStates
  <1>4. [x EXCEPT !.push = push] = St(x.pc, x.what, x.wall, push)
    BY DEF St, ProcStates
  <1> QED BY <1>1, <1>2, <1>3, <1>4

\* The same for several fields of an idle goroutine at once.
LEMMA IdleExcept ==
    ASSUME NEW pc \in Places, NEW y \in Contents \cup {None}, NEW w \in Nat,
           NEW push \in Pushes \cup {None}
    PROVE  /\ [Idle EXCEPT !.pc = pc] = St(pc, None, 0, None)
           /\ [Idle EXCEPT !.pc = pc, !.what = y] = St(pc, y, 0, None)
           /\ [Idle EXCEPT !.pc = pc, !.what = y, !.wall = w] = St(pc, y, w, None)
           /\ [Idle EXCEPT !.pc = pc, !.push = push] = St(pc, None, 0, push)
  <1>1. [Idle EXCEPT !.pc = pc] = St(pc, None, 0, None)
    BY DEF Idle, St
  <1>2. ASSUME NEW z \in Contents \cup {None}
        PROVE  /\ St(pc, z, 0, None) \in ProcStates
               /\ St(pc, z, 0, None).pc = pc /\ St(pc, z, 0, None).what = z
               /\ St(pc, z, 0, None).wall = 0 /\ St(pc, z, 0, None).push = None
    BY DEF St, ProcStates
  <1>3. [St(pc, None, 0, None) EXCEPT !.what = y] = St(pc, y, 0, None)
    <2>1. PICK x \in ProcStates : x = St(pc, None, 0, None)
      BY <1>2
    <2>2. [x EXCEPT !.what = y] = St(x.pc, y, x.wall, x.push)
      BY StExcept
    <2>3. x.pc = pc /\ x.wall = 0 /\ x.push = None
      BY <1>2, <2>1
    <2> QED BY <2>1, <2>2, <2>3
  <1>4. [St(pc, y, 0, None) EXCEPT !.wall = w] = St(pc, y, w, None)
    <2>1. PICK x \in ProcStates : x = St(pc, y, 0, None)
      BY <1>2
    <2>2. [x EXCEPT !.wall = w] = St(x.pc, x.what, w, x.push)
      BY StExcept
    <2>3. x.pc = pc /\ x.what = y /\ x.push = None
      BY <1>2, <2>1
    <2> QED BY <2>1, <2>2, <2>3
  <1>5. [St(pc, None, 0, None) EXCEPT !.push = push] = St(pc, None, 0, push)
    <2>1. PICK x \in ProcStates : x = St(pc, None, 0, None)
      BY <1>2
    <2>2. [x EXCEPT !.push = push] = St(x.pc, x.what, x.wall, push)
      BY StExcept
    <2>3. x.pc = pc /\ x.what = None /\ x.wall = 0
      BY <1>2, <2>1
    <2> QED BY <2>1, <2>2, <2>3
  <1>6. [Idle EXCEPT !.pc = pc, !.what = y] = [[Idle EXCEPT !.pc = pc] EXCEPT !.what = y]
    BY DEF Idle
  <1>7. [Idle EXCEPT !.pc = pc, !.push = push] = [[Idle EXCEPT !.pc = pc] EXCEPT !.push = push]
    BY DEF Idle
  <1>8. [Idle EXCEPT !.pc = pc, !.what = y, !.wall = w]
          = [[Idle EXCEPT !.pc = pc, !.what = y] EXCEPT !.wall = w]
    BY DEF Idle
  <1>9. [Idle EXCEPT !.pc = pc, !.what = y] = St(pc, y, 0, None)
    BY <1>1, <1>3, <1>6
  <1> QED BY <1>1, <1>4, <1>5, <1>7, <1>8, <1>9


\* A goroutine that goes on keeps what it holds.
LEMMA GotoMoves ==
    ASSUME TypeInv, NEW p \in Procs, NEW pc \in Places, Goto(p, pc),
           proc[p].what # None <=> pc \in {"set", "take", "note", "write"},
           proc[p].push # None <=> pc \in {"send", "requeue"}
    PROVE  Moves(p, St(pc, proc[p].what, proc[p].wall, proc[p].push))
  <1>1. /\ proc[p] \in ProcStates /\ proc[p].what \in Contents \cup {None}
        /\ proc[p].wall \in Nat /\ proc[p].push \in Pushes \cup {None}
    BY ProcFields
  <1>2. LET x == St(pc, proc[p].what, proc[p].wall, proc[p].push) IN x \in ProcStates /\ Fits(x)
    BY <1>1, StOK
  <1>3. proc' = [proc EXCEPT ![p] = [proc[p] EXCEPT !.pc = pc]]
    BY ProcFields DEF Goto
  <1>4. [proc[p] EXCEPT !.pc = pc] = St(pc, proc[p].what, proc[p].wall, proc[p].push)
    BY <1>1, StExcept
  <1> QED BY <1>2, <1>3, <1>4 DEF Moves

\* The clip that is queued, as a push.
LEMMA PushOK ==
    ASSUME NEW x \in Clips, x.what # None, x.origin \in {"mac", "android"}, NEW h \in BOOLEAN
    PROVE  /\ Push(x, h) \in Pushes /\ AsPush(x) \in Pushes
           /\ Push(x, h).what = x.what /\ Push(x, h).origin = x.origin
           /\ Push(x, h).at = x.at /\ Push(x, h).c = x.c /\ Push(x, h).hashed = h
           /\ AsPush(x).what = x.what /\ AsPush(x).origin = "android"
           /\ AsPush(x).at = x.at /\ AsPush(x).c = x.c /\ AsPush(x).hashed
  <1>1. x.what \in Contents /\ x.at \in Nat /\ x.c \in Nat
    BY DEF Clips
  <1>2. \A g \in BOOLEAN : Push(x, g) \in Pushes
    BY <1>1 DEF Push, Pushes
  <1>3. /\ Push(x, h).what = x.what /\ Push(x, h).origin = x.origin
        /\ Push(x, h).at = x.at /\ Push(x, h).c = x.c
    BY DEF Push
  <1>4. Push(x, h).hashed = h
    BY DEF Push
  <1>5. AsPush(x) \in Pushes /\ AsPush(x).what = x.what /\ AsPush(x).origin = "android"
    BY <1>2 DEF AsPush, Push, Pushes
  <1>6. AsPush(x).at = x.at /\ AsPush(x).c = x.c /\ AsPush(x).hashed
    BY <1>2 DEF AsPush, Push, Pushes
  <1> QED BY <1>2, <1>3, <1>4, <1>5, <1>6

\* The fields of the two clips.
LEMMA ClipFields ==
    ASSUME TypeInv
    PROVE  /\ clip \in Clips /\ clip.at \in Nat /\ clip.c \in Nat /\ clip.pending \in BOOLEAN
           /\ clip.what \in Contents \cup {None}
           /\ clip.pending => clip.what # None
           /\ clip.what # None => clip.origin \in {"mac", "android"}
           /\ clip.what = None => clip.at = 0 /\ clip.c = 0
           /\ hlc \in Stamps /\ hlc.at \in Nat /\ hlc.c \in Nat
           /\ pclip \in Clips /\ pclip.at \in Nat /\ pclip.c \in Nat
           /\ pclip.pending \in BOOLEAN /\ pclip.what \in Contents \cup {None}
           /\ pclip.pending => pclip.what # None
           /\ pclip.what # None => pclip.origin \in {"mac", "android"}
           /\ pclip.what = None => pclip.at = 0 /\ pclip.c = 0
  <1>1. ClipOK(clip) /\ hlc \in Stamps /\ ClipOK(pclip)
    BY DEF TypeInv, StoreOK, PhoneOK
  <1>2. \A x : x \in Clips => /\ x.at \in Nat /\ x.c \in Nat /\ x.pending \in BOOLEAN
                              /\ x.what \in Contents \cup {None}
    BY DEF Clips
  <1>3. hlc.at \in Nat /\ hlc.c \in Nat
    BY <1>1 DEF Stamps
  <1> QED BY <1>1, <1>2, <1>3 DEF ClipOK

\* A clip whose pending flag is set or cleared.
LEMMA PendingOK ==
    ASSUME NEW x, ClipOK(x), NEW b \in BOOLEAN, b => x.what # None
    PROVE  LET y == [x EXCEPT !.pending = b] IN
           /\ ClipOK(y) /\ y.what = x.what /\ y.at = x.at /\ y.c = x.c
           /\ y.origin = x.origin /\ y.pending = b
  <1> DEFINE y == [x EXCEPT !.pending = b]
  <1>1. x \in Clips
    BY DEF ClipOK
  <1>2. y.what = x.what /\ y.at = x.at /\ y.c = x.c /\ y.origin = x.origin
    BY <1>1 DEF Clips
  <1>3. y.pending = b
    BY <1>1 DEF Clips
  <1>4. y \in Clips
    BY <1>1 DEF Clips
  <1> HIDE DEF y
  <1>5. ClipOK(y)
    BY <1>2, <1>3, <1>4 DEF ClipOK
  <1> QED BY <1>2, <1>3, <1>5 DEF y

(***************************************************************************)
(* Stamps.                                                                 *)
(***************************************************************************)

\* CompareClipStamps orders by the second, then by the count.
LEMMA LaterIs ==
    ASSUME NEW a, NEW b, a.at \in Nat, a.c \in Nat, b.at \in Nat, b.c \in Nat
    PROVE  Later(a, b) <=> a.at > b.at \/ (a.at = b.at /\ a.c > b.c)
  <1>1. CompareClipStamps(a, b) = "greater" <=> a.at > b.at \/ (a.at = b.at /\ a.c > b.c)
    BY DEF CompareClipStamps
  <1> QED BY <1>1 DEF Later

\* A clock's next stamp is past the stored one and not before the wall clock.
LEMMA NextIsLater ==
    ASSUME NEW s \in Stamps, NEW w \in Nat
    PROVE  LET n == ClipStampNext(s, w) IN
           n \in Stamps /\ n.at >= w /\ (n.at > s.at \/ (n.at = s.at /\ n.c > s.c))
  BY DEF ClipStampNext, Stamps

\* A received stamp moves the clock past itself and past the clock.
LEMMA ReceiveIsLater ==
    ASSUME NEW s \in Stamps, NEW r \in Stamps
    PROVE  LET n == ClipStampOnReceive(s, r) IN
           /\ n \in Stamps
           /\ n.at > s.at \/ (n.at = s.at /\ n.c > s.c)
           /\ n.at > r.at \/ (n.at = r.at /\ n.c > r.c)
  <1>1. s.at \in Nat /\ s.c \in Nat /\ r.at \in Nat /\ r.c \in Nat
    BY DEF Stamps
  <1> DEFINE l == Larger(s.at, r.at)
             m == CASE s.at = r.at -> Larger(s.c, r.c)
                    [] l = s.at /\ l # r.at -> s.c
                    [] OTHER -> r.c
  <1>2. /\ l \in Nat /\ m \in Nat
        /\ l > s.at \/ (l = s.at /\ m >= s.c)
        /\ l > r.at \/ (l = r.at /\ m >= r.c)
    <2>1. CASE s.at = r.at
      BY <1>1, <2>1 DEF Larger
    <2>2. CASE s.at > r.at
      BY <1>1, <2>2 DEF Larger
    <2>3. CASE s.at < r.at
      BY <1>1, <2>3 DEF Larger
    <2> QED BY <1>1, <2>1, <2>2, <2>3
  <1>3. ClipStampOnReceive(s, r) = [at |-> l, c |-> 1 + m]
    BY DEF ClipStampOnReceive
  <1> HIDE DEF l, m
  <1> QED BY <1>1, <1>2, <1>3 DEF Stamps

\* nextStampLocked gives a stamp past the store's clock and past its clip.
LEMMA NextStampLater ==
    ASSUME TypeInv, NEW w \in Nat
    PROVE  LET n == NextStamp(w) IN
           /\ n \in Stamps /\ n.at >= w
           /\ n.at > hlc.at \/ (n.at = hlc.at /\ n.c > hlc.c)
           /\ n.at > clip.at \/ (n.at = clip.at /\ n.c > clip.c)
  <1>1. /\ clip.at \in Nat /\ clip.c \in Nat /\ hlc.at \in Nat /\ hlc.c \in Nat
        /\ hlc \in Stamps /\ (clip.what = None => clip.at = 0 /\ clip.c = 0)
    BY ClipFields
  <1>2. Larger(w, clip.at) \in Nat /\ Larger(w, clip.at) >= w
    BY <1>1 DEF Larger
  <1>3. PICK s : s = IF clip.what # None /\ Later(clip, hlc) THEN StampOf(clip) ELSE hlc
    OBVIOUS
  <1>4. StampOf(clip) \in Stamps /\ StampOf(clip).at = clip.at /\ StampOf(clip).c = clip.c
    BY <1>1 DEF StampOf, Stamps
  <1>5. /\ s \in Stamps /\ s.at \in Nat /\ s.c \in Nat
        /\ s.at > hlc.at \/ (s.at = hlc.at /\ s.c >= hlc.c)
        /\ s.at > clip.at \/ (s.at = clip.at /\ s.c >= clip.c)
    BY <1>1, <1>3, <1>4, LaterIs
  <1>6. NextStamp(w) = ClipStampNext(s, Larger(w, clip.at))
    BY <1>3 DEF NextStamp
  <1>7. PICK n : n = ClipStampNext(s, Larger(w, clip.at))
    OBVIOUS
  <1>8. n \in Stamps /\ n.at >= Larger(w, clip.at) /\ (n.at > s.at \/ (n.at = s.at /\ n.c > s.c))
    BY <1>2, <1>5, <1>7, NextIsLater
  <1>9. n.at \in Nat /\ n.c \in Nat
    BY <1>8 DEF Stamps
  <1> QED BY <1>1, <1>2, <1>5, <1>6, <1>7, <1>8, <1>9


(***************************************************************************)
(* What the steps do to the store.                                         *)
(***************************************************************************)

\* The clip and the clock behind it have moved on.
Advance == Later(clip', clip) /\ Later(hlc', hlc)

\* SetLocal leaves the same content alone and stages any other.
LEMMA SetStore ==
    ASSUME TypeInv, NEW x \in Contents, NEW w \in Nat, SetLocal(x, w)
    PROVE  /\ StoreOK'
           /\ \/ UNCHANGED storeVars /\ clip.what = x
              \/ /\ Advance /\ clip'.what = x /\ clip.what # x /\ clip'.at >= w
                 /\ clip'.origin = "mac" /\ clip'.pending
  <1>1. CASE clip.what = x
    BY <1>1, Frame DEF SetLocal
  <1>2. CASE clip.what # x
    <2>1. PICK n : n = NextStamp(w)
      OBVIOUS
    <2>2. /\ n \in Stamps /\ n.at >= w
          /\ n.at > hlc.at \/ (n.at = hlc.at /\ n.c > hlc.c)
          /\ n.at > clip.at \/ (n.at = clip.at /\ n.c > clip.c)
      BY <2>1, NextStampLater
    <2>3. n.at \in Nat /\ n.c \in Nat
      BY <2>2 DEF Stamps
    <2>4. /\ hlc' = n
          /\ clip' = [what |-> x, at |-> n.at, c |-> n.c, origin |-> "mac", pending |-> TRUE]
      BY <1>2, <2>1 DEF SetLocal
    <2>5. /\ clip'.what = x /\ clip'.at = n.at /\ clip'.c = n.c /\ clip'.origin = "mac"
          /\ clip'.pending
      BY <2>4
    <2>6. clip' \in Clips
      BY <2>3, <2>4 DEF Clips
    <2>7. StoreOK'
      BY <2>2, <2>4, <2>5, <2>6, Constants DEF StoreOK, ClipOK
    <2>8. Advance
      BY <2>2, <2>3, <2>4, <2>5, ClipFields, LaterIs DEF Advance
    <2> QED BY <1>2, <2>2, <2>5, <2>7, <2>8
  <1> QED BY <1>1, <1>2

\* The phone's copy enters the store, and p goes on to the pasteboard.
Adopts(p, push) ==
    /\ Advance /\ StoreOK'
    /\ clip'.what = push.what /\ clip'.at = push.at /\ clip'.c = push.c
    /\ clip'.origin = "android" /\ ~clip'.pending
    /\ Moves(p, St("note", push.what, 0, None))

\* A push's fields.
LEMMA PushFields ==
    ASSUME NEW push \in Pushes
    PROVE  /\ push.what \in Contents /\ push.at \in Nat /\ push.c \in Nat
           /\ push.origin \in {"mac", "android"} /\ push.hashed \in BOOLEAN
  BY DEF Pushes

\* ingestClipBody adopts a push or changes nothing.
LEMMA IngestMoves ==
    ASSUME TypeInv, NEW p \in Procs, NEW push \in Pushes, IngestClip(p, push)
    PROVE  \/ Adopts(p, push) /\ push.origin = "android"
           \/ UNCHANGED <<clip, hlc, proc>>
  <1>1. CASE \/ ~AllowsReceive(push.origin)
             \/ ~(/\ RemoteClipWinsEx(clip, push)
                  /\ push.origin # "mac"
                  /\ ~(push.hashed /\ push.what = clip.what))
    BY <1>1 DEF IngestClip, ApplyRemote, storeVars
  <1>2. CASE /\ AllowsReceive(push.origin)
             /\ RemoteClipWinsEx(clip, push)
             /\ push.origin # "mac"
             /\ ~(push.hashed /\ push.what = clip.what)
    <2>1. /\ push.what \in Contents /\ push.at \in Nat /\ push.c \in Nat
          /\ push.origin = "android"
      BY <1>2, PushFields
    <2>2. /\ clip' = [what |-> push.what, at |-> push.at, c |-> push.c,
                      origin |-> push.origin, pending |-> FALSE]
          /\ hlc' = ClipStampOnReceive(hlc, StampOf(push))
          /\ proc' = [proc EXCEPT ![p] = [Idle EXCEPT !.pc = "note", !.what = push.what]]
      BY <1>2 DEF IngestClip, ApplyRemote
    <2>3. StampOf(push) \in Stamps /\ hlc \in Stamps
      BY <2>1, ClipFields DEF StampOf, Stamps
    <2>4. hlc' \in Stamps /\ (hlc'.at > hlc.at \/ (hlc'.at = hlc.at /\ hlc'.c > hlc.c))
      BY <2>2, <2>3, ReceiveIsLater
    <2>5. hlc'.at \in Nat /\ hlc'.c \in Nat
      BY <2>4 DEF Stamps
    <2>6. Later(hlc', hlc)
      BY <2>4, <2>5, ClipFields, LaterIs
    <2>7. /\ clip'.what = push.what /\ clip'.at = push.at /\ clip'.c = push.c
          /\ clip'.origin = "android" /\ ~clip'.pending
      BY <2>1, <2>2
    <2>8. Later(push, clip)
      BY <1>2 DEF RemoteClipWinsEx
    <2>9. Later(clip', clip)
      BY <2>1, <2>7, <2>8, ClipFields, LaterIs
    <2>10. clip' \in Clips
      BY <2>1, <2>2 DEF Clips
    <2>11. StoreOK'
      BY <2>1, <2>4, <2>7, <2>10, Constants DEF StoreOK, ClipOK
    <2>12. "note" \in Places /\ None \in Pushes \cup {None} /\ 0 \in Nat
      BY DEF Places
    <2>13. [Idle EXCEPT !.pc = "note", !.what = push.what] = St("note", push.what, 0, None)
      BY <2>1, <2>12, IdleExcept
    <2>14. /\ St("note", push.what, 0, None) \in ProcStates
           /\ Fits(St("note", push.what, 0, None))
      BY <2>1, <2>12, StOK, Constants
    <2>15. Moves(p, St("note", push.what, 0, None))
      BY <2>2, <2>13, <2>14 DEF Moves
    <2> QED BY <2>1, <2>6, <2>7, <2>9, <2>11, <2>15 DEF Adopts, Advance
  <1> QED BY <1>1, <1>2

\* The read loop and the handler of a post.
LEMMA WsMoves ==
    ASSUME TypeInv, WsIngest
    PROVE  /\ Head(toMac) \in Pushes /\ Tail(toMac) \in Seq(Pushes) /\ toMac' = Tail(toMac)
           /\ \/ Adopts(Reader, Head(toMac)) /\ Head(toMac).origin = "android"
              \/ UNCHANGED <<clip, hlc, proc>>
  <1>1. /\ Head(toMac) \in Pushes /\ Tail(toMac) \in Seq(Pushes) /\ toMac' = Tail(toMac)
    BY InTail DEF WsIngest, TypeInv, WireOK
  <1>2. IngestClip(Reader, Head(toMac))
    BY DEF WsIngest
  <1> QED BY <1>1, <1>2, IngestMoves, Constants

\* A post under way carries a push.
LEMMA PostMoves ==
    ASSUME TypeInv, PostIngest
    PROVE  /\ post.push \in Pushes
           /\ \/ Adopts(Http, post.push) /\ post.push.origin = "android"
              \/ UNCHANGED <<clip, hlc, proc>>
  <1>1. post.push \in Pushes
    BY DEF PostIngest, TypeInv, SendsOK
  <1>2. IngestClip(Http, post.push)
    BY DEF PostIngest
  <1> QED BY <1>1, <1>2, IngestMoves, Constants


(***************************************************************************)
(* Where the other steps leave their goroutine.                            *)
(***************************************************************************)

\* The debounce timer takes the slot, and then stages what it took.
LEMMA TimerMoves ==
    ASSUME TypeInv
    PROVE  /\ TimerFires => \E w \in Nat \ {0} : Moves(Timer, St("set", watch.slot, w, None))
           /\ TimerSets => /\ proc[Timer].what \in Contents /\ proc[Timer].wall \in Nat
                           /\ \/ Moves(Timer, Idle)
                              \/ Moves(Timer, St("flush", None, 0, None))
  <1>1. ASSUME TimerFires
        PROVE  \E w \in Nat \ {0} : Moves(Timer, St("set", watch.slot, w, None))
    <2>1. watch.slot \in Contents
      BY <1>1 DEF TimerFires, TypeInv, WatchOK
    <2>2. PICK w : w = IF clip.what # None THEN Larger(now, clip.at + 1) ELSE now
      OBVIOUS
    <2>3. w \in Nat \ {0}
      BY <2>2, ClipFields, BoundsAssumption DEF Larger, TypeInv, CountOK
    <2>4. /\ St("set", watch.slot, w, None) \in ProcStates
          /\ Fits(St("set", watch.slot, w, None))
      BY <2>1, <2>3, StOK, Constants DEF Places
    <2>5. proc' = [proc EXCEPT ![Timer] =
                     [Idle EXCEPT !.pc = "set", !.what = watch.slot, !.wall = w]]
      BY <1>1, <2>2 DEF TimerFires
    <2>6. w \in Nat /\ "set" \in Places /\ None \in Pushes \cup {None}
      BY <2>3 DEF Places
    <2>7. [Idle EXCEPT !.pc = "set", !.what = watch.slot, !.wall = w]
            = St("set", watch.slot, w, None)
      BY <2>1, <2>6, IdleExcept
    <2> QED BY <2>3, <2>4, <2>5, <2>7 DEF Moves
  <1>2. ASSUME TimerSets
        PROVE  /\ proc[Timer].what \in Contents /\ proc[Timer].wall \in Nat
               /\ \/ Moves(Timer, Idle)
                  \/ Moves(Timer, St("flush", None, 0, None))
    <2>1. proc[Timer].what \in Contents /\ proc[Timer].wall \in Nat
      BY <1>2, ProcFields, Constants DEF TimerSets, At
    <2>2. \/ proc' = [proc EXCEPT ![Timer] = [Idle EXCEPT !.pc = "flush"]]
          \/ proc' = [proc EXCEPT ![Timer] = Idle]
      BY <1>2 DEF TimerSets
    <2>3. [Idle EXCEPT !.pc = "flush"] = St("flush", None, 0, None)
      BY IdleExcept DEF Places
    <2>4. St("flush", None, 0, None) \in ProcStates /\ Fits(St("flush", None, 0, None))
      BY StOK DEF Places
    <2> QED BY <2>1, <2>2, <2>3, <2>4, Constants DEF Moves
  <1> QED BY <1>1, <1>2

\* The steps that end a goroutine's work.
LEMMA FinishMoves ==
    ASSUME TypeInv, NEW p \in Procs,
           \/ FlushNothing(p) \/ Requeue(p) \/ WritePasteboard(p) \/ WriteFails(p)
           \/ p = Timer /\ TimerDrops
    PROVE  Moves(p, Idle)
  BY Constants DEF FlushNothing, Requeue, WritePasteboard, WriteFails, TimerDrops, Finish, Moves

\* A goroutine with a push to send.
LEMMA SendingOK ==
    ASSUME TypeInv, NEW p \in Procs, NEW push \in Pushes,
           proc' = [proc EXCEPT ![p] = [Idle EXCEPT !.pc = "send", !.push = push]]
    PROVE  Moves(p, St("send", None, 0, push))
  <1>1. push # None /\ "send" \in Places /\ 0 \in Nat
    BY Constants DEF Places
  <1>2. St("send", None, 0, push) \in ProcStates /\ Fits(St("send", None, 0, push))
    BY <1>1, StOK
  <1>3. [Idle EXCEPT !.pc = "send", !.push = push] = St("send", None, 0, push)
    BY <1>1, IdleExcept
  <1> QED BY <1>2, <1>3 DEF Moves

\* takePending takes the queued clip.
LEMMA TakeMoves ==
    ASSUME TypeInv, NEW p \in Procs, TakePending(p)
    PROVE  /\ Push(clip, TRUE) \in Pushes /\ Push(clip, TRUE).origin = clip.origin
           /\ clip.pending /\ proc[p].pc = "flush"
           /\ Moves(p, St("send", None, 0, Push(clip, TRUE)))
  <1>1. Push(clip, TRUE) \in Pushes /\ Push(clip, TRUE).origin = clip.origin /\ clip.pending
    BY ClipFields, PushOK DEF TakePending
  <1>2. proc' = [proc EXCEPT ![p] = [Idle EXCEPT !.pc = "send", !.push = Push(clip, TRUE)]]
    BY DEF TakePending
  <1> QED BY <1>1, <1>2, SendingOK DEF TakePending, At

\* The Send buttons take it too, or make a push of their own.
LEMMA PushTakesMoves ==
    ASSUME TypeInv, NEW p \in Procs, PushTakes(p)
    PROVE  \E push \in Pushes : /\ push.what \in {clip.what, proc[p].what}
                                /\ push.origin = IF clip.pending THEN clip.origin ELSE "mac"
                                /\ clip.pending => push = Push(clip, TRUE)
                                /\ Moves(p, St("send", None, 0, push))
  <1>1. proc[p].what \in Contents /\ proc[p].wall \in Nat
    BY ProcFields DEF PushTakes, At
  <1>2. CASE clip.pending
    <2>1. /\ Push(clip, TRUE) \in Pushes /\ Push(clip, TRUE).origin = clip.origin
          /\ Push(clip, TRUE).what = clip.what
      BY <1>2, ClipFields, PushOK
    <2>2. proc' = [proc EXCEPT ![p] = [Idle EXCEPT !.pc = "send", !.push = Push(clip, TRUE)]]
      BY <1>2 DEF PushTakes
    <2> QED BY <1>2, <2>1, <2>2, SendingOK
  <1>3. CASE ~clip.pending
    <2>1. PICK push : push = [what |-> proc[p].what, at |-> proc[p].wall, c |-> 0,
                              origin |-> "mac", hashed |-> FALSE]
      OBVIOUS
    <2>2. push \in Pushes
      BY <1>1, <2>1 DEF Pushes
    <2>3. push.origin = "mac" /\ push.what = proc[p].what
      BY <2>1
    <2>4. proc' = [proc EXCEPT ![p] = [Idle EXCEPT !.pc = "send", !.push = push]]
      BY <1>3, <2>1 DEF PushTakes
    <2> QED BY <1>3, <2>2, <2>3, <2>4, SendingOK
  <1> QED BY <1>2, <1>3

\* A push is written to the socket, or its goroutine goes on to put it back.
LEMMA SendMoves ==
    ASSUME TypeInv, NEW p \in Procs, Send(p)
    PROVE  /\ proc[p].pc = "send" /\ proc[p].push \in Pushes
           /\ \/ up /\ toPhone' = Append(toPhone, proc[p].push) /\ Moves(p, Idle)
              \/ /\ ~up /\ toPhone' = toPhone
                 /\ Moves(p, St("requeue", None, proc[p].wall, proc[p].push))
  <1>1. /\ proc[p].pc = "send" /\ proc[p].push \in Pushes /\ proc[p].push # None
        /\ proc[p].what = None
    BY ProcFields, Constants DEF Send, At
  <1>2. CASE up
    BY <1>1, <1>2, Constants DEF Send, Finish, Moves
  <1>3. CASE ~up
    <2>1. Goto(p, "requeue") /\ toPhone' = toPhone
      BY <1>3 DEF Send
    <2>2. Moves(p, St("requeue", None, proc[p].wall, proc[p].push))
      BY <1>1, <2>1, GotoMoves DEF Places
    <2> QED BY <1>1, <1>3, <2>1, <2>2
  <1> QED BY <1>2, <1>3

\* The pane's own content is staged, and then taken.
LEMMA GivenMoves ==
    ASSUME TypeInv, NEW p \in Procs, NEW x \in Contents, PushGiven(p, x)
    PROVE  Moves(p, St("take", x, now, None)) \/ UNCHANGED proc
  <1>1. now \in Nat /\ "take" \in Places /\ None \in Pushes \cup {None} /\ x # None
    BY BoundsAssumption, Constants DEF TypeInv, CountOK, Places
  <1>2. St("take", x, now, None) \in ProcStates /\ Fits(St("take", x, now, None))
    BY <1>1, StOK
  <1>3. [Idle EXCEPT !.pc = "take", !.what = x, !.wall = now] = St("take", x, now, None)
    BY <1>1, IdleExcept
  <1> QED BY <1>2, <1>3 DEF PushGiven, Moves

\* PushClipboardCurrent reads the pasteboard ...
LEMMA CurrentMoves ==
    ASSUME TypeInv, NEW p \in Procs, PushClipboardCurrent(p)
    PROVE  Moves(p, St("set", board.what, 0, None)) /\ board.what \in Contents
  <1>1. /\ board.what \in Contents /\ board.what # None
        /\ "set" \in Places /\ None \in Pushes \cup {None} /\ 0 \in Nat
    BY Constants DEF PushClipboardCurrent, TypeInv, WatchOK, Places
  <1>2. St("set", board.what, 0, None) \in ProcStates /\ Fits(St("set", board.what, 0, None))
    BY <1>1, StOK
  <1>3. [Idle EXCEPT !.pc = "set", !.what = board.what] = St("set", board.what, 0, None)
    BY <1>1, IdleExcept
  <1> QED BY <1>1, <1>2, <1>3 DEF PushClipboardCurrent, Moves

\* ... and stages what it read.
LEMMA SetsMoves ==
    ASSUME TypeInv, NEW p \in Procs, PushSets(p)
    PROVE  Moves(p, St("take", proc[p].what, now, None)) /\ proc[p].what \in Contents
  <1>1. /\ proc[p] \in ProcStates /\ proc[p].what \in Contents /\ proc[p].push = None
        /\ proc[p].what # None
    BY ProcFields, Constants DEF PushSets, At
  <1>2. now \in Nat /\ "take" \in Places /\ None \in Pushes \cup {None}
    BY BoundsAssumption DEF TypeInv, CountOK, Places
  <1>3. /\ St("take", proc[p].what, now, None) \in ProcStates
        /\ Fits(St("take", proc[p].what, now, None))
    BY <1>1, <1>2, StOK
  <1>4. proc' = [proc EXCEPT ![p] = [[proc[p] EXCEPT !.pc = "take"] EXCEPT !.wall = now]]
    BY ProcFields DEF PushSets
  <1>5. PICK y \in ProcStates : y = [proc[p] EXCEPT !.pc = "take"]
    BY <1>1, <1>2 DEF ProcStates
  <1>6. y.pc = "take" /\ y.what = proc[p].what /\ y.push = None
    BY <1>1, <1>5 DEF ProcStates
  <1>7. [y EXCEPT !.wall = now] = St(y.pc, y.what, now, y.push)
    BY <1>2, StExcept
  <1>8. proc' = [proc EXCEPT ![p] = St("take", proc[p].what, now, None)]
    BY <1>4, <1>5, <1>6, <1>7
  <1> QED BY <1>1, <1>3, <1>8 DEF Moves

\* A switch of the mode and a connect begin a flush.
LEMMA FlushMoves ==
    ASSUME TypeInv, NEW p \in Procs, At(p, "idle"), Goto(p, "flush")
    PROVE  Moves(p, St("flush", None, proc[p].wall, None))
  <1>1. proc[p].what = None /\ proc[p].push = None
    BY ProcFields DEF At
  <1> QED BY <1>1, GotoMoves DEF Places

\* The pasteboard is armed before the write.
LEMMA NoteMoves ==
    ASSUME TypeInv, NEW p \in Procs, NoteRemote(p)
    PROVE  /\ Moves(p, St("write", proc[p].what, proc[p].wall, None))
           /\ proc[p].pc = "note" /\ proc[p].what \in Contents
  <1>1. /\ proc[p].pc = "note" /\ proc[p].what \in Contents /\ proc[p].what # None
        /\ proc[p].push = None
    BY ProcFields, Constants DEF NoteRemote, At
  <1> QED BY <1>1, GotoMoves DEF NoteRemote, Places


(***************************************************************************)
(* No step leaves the types.                                               *)
(***************************************************************************)

\* What the user and the watcher do besides moving a goroutine of Procs.
Watches ==
    \/ \E x \in Contents : MacCopy(x)
    \/ \E t \in Tickers : TickRead(t) \/ TickReadFails(t) \/ TickStage(t)

\* A goroutine's steps that leave store, wire and phone alone.
Quietly(p) ==
    \/ FlushNothing(p) \/ PushClipboardCurrent(p) \/ NoteRemote(p)
    \/ WritePasteboard(p) \/ WriteFails(p) \/ (p = Timer /\ TimerDrops)
    \/ \E m \in Modes : SetClipboardMode(p, m)

\* What the user and the phone's watcher do before the debounce timer fires, and
\* what a failed write leaves.
PhoneEdits ==
    \/ \E x \in Contents : PhoneCopy(x)
    \/ PhoneRefresh \/ PhoneDropsDraft \/ PhoneWrites \/ PhoneWriteFails

\* The phone's own steps.
PhoneActs ==
    \/ PhoneEdits
    \/ PhoneFlushAuto \/ PhoneFlushClip \/ PhoneSent \/ PostFails
    \/ PhoneReceive
    \/ \E m \in Modes : PhoneSetsMode(m)

\* The steps of Next, in the groups of the proofs.
LEMMA NextSplit ==
    ASSUME [Next]_vars
    PROVE  \/ Tick \/ Watches \/ TimerFires \/ TimerSets
           \/ \E p \in Procs : \/ Quietly(p) \/ TakePending(p) \/ Send(p) \/ Requeue(p)
                               \/ PushSets(p) \/ PushTakes(p)
                               \/ \E x \in Contents : PushGiven(p, x)
           \/ WsIngest \/ PostIngest \/ Connect \/ Disconnect \/ MacRestarts
           \/ PhoneActs \/ UNCHANGED vars
  BY Constants DEF Next, Watches, Quietly, PhoneActs, PhoneEdits, PushClipboard, PushClipboardImage

\* Causes are only added, and only those that have a name.
LEMMA NextCauses == [Next]_vars => causes \subseteq causes' /\ causes' \subseteq causes \cup Causes
  <1> SUFFICES ASSUME [Next]_vars
               PROVE  causes \subseteq causes' /\ causes' \subseteq causes \cup Causes
    OBVIOUS
  <1>1. ASSUME NEW b, NEW c \in Causes PROVE If(b, c) \subseteq Causes
    BY <1>1 DEF If
  <1>2. /\ "tie" \in Causes /\ "same" \in Causes /\ "loss" \in Causes /\ "restart" \in Causes
        /\ "mode" \in Causes /\ "cleared" \in Causes /\ "resend" \in Causes
        /\ "requeue" \in Causes /\ "crossed" \in Causes /\ "repeat" \in Causes
        /\ "write" \in Causes /\ "unread" \in Causes /\ "typed" \in Causes /\ "held" \in Causes
    BY DEF Causes
  <1>3. ASSUME NEW x, NEW push PROVE DropCauses(x, push) \subseteq Causes
    BY <1>1, <1>2 DEF DropCauses
  <1>4. CASE Watches
    BY <1>1, <1>2, <1>4 DEF Watches, MacCopy, TickRead, TickReadFails, TickStage
  <1>5. CASE TimerFires \/ TimerSets
    BY <1>1, <1>2, <1>5 DEF TimerFires, TimerSets
  <1>6. ASSUME NEW p \in Procs, Quietly(p)
        PROVE  causes \subseteq causes' /\ causes' \subseteq causes \cup Causes
    BY <1>1, <1>2, <1>6 DEF Quietly, FlushNothing, PushClipboardCurrent, NoteRemote,
       WritePasteboard, WriteFails, TimerDrops, SetClipboardMode
  <1>7. ASSUME NEW p \in Procs, \/ TakePending(p) \/ Send(p) \/ Requeue(p) \/ PushSets(p)
                                \/ PushTakes(p) \/ \E x \in Contents : PushGiven(p, x)
        PROVE  causes \subseteq causes' /\ causes' \subseteq causes \cup Causes
    BY <1>1, <1>2, <1>7 DEF TakePending, Send, Requeue, PushSets, PushTakes, PushGiven
  <1>8. ASSUME NEW p, NEW push, IngestClip(p, push)
        PROVE  causes \subseteq causes' /\ causes' \subseteq causes \cup Causes
    BY <1>1, <1>2, <1>3, <1>8 DEF IngestClip, ApplyRemote
  <1>9. CASE WsIngest \/ PostIngest
    BY <1>8, <1>9 DEF WsIngest, PostIngest
  <1>10. CASE Connect \/ Disconnect \/ MacRestarts \/ Tick \/ UNCHANGED vars
    BY <1>1, <1>2, <1>10 DEF Connect, Disconnect, MacRestarts, Tick, vars
  <1>11. CASE PhoneActs
    <2>1. CASE PhoneReceive
      BY <1>1, <1>2, <1>3, <2>1 DEF PhoneReceive
    <2>2. CASE PhoneFlushAuto
      BY <1>1, <1>2, <2>2 DEF PhoneFlushAuto
    <2>3. CASE PhoneEdits
      BY <1>1, <1>2, <2>3 DEF PhoneEdits, PhoneCopy, PhoneRefresh, PhoneDropsDraft, PhoneWrites,
         PhoneWriteFails
    <2>4. CASE PhoneFlushClip \/ PhoneSent \/ PostFails \/ \E m \in Modes : PhoneSetsMode(m)
      BY <1>1, <1>2, <2>4 DEF PhoneFlushClip, PhoneSent, PostFails, PhoneSetsMode
    <2> QED BY <1>11, <2>1, <2>2, <2>3, <2>4 DEF PhoneActs
  <1> QED BY <1>4, <1>5, <1>6, <1>7, <1>9, <1>10, <1>11, NextSplit

\* The clock, the bound on events and the mode.
LEMMA NextCount == TypeInv /\ [Next]_vars => CountOK'
  <1> SUFFICES ASSUME TypeInv, [Next]_vars PROVE CountOK'
    OBVIOUS
  <1>1. causes' \subseteq Causes
    BY NextCauses DEF TypeInv, CountOK
  <1> DEFINE Counts == /\ now' = now \/ (now < MaxTime /\ now' = now + 1)
                       /\ events' = events \/ (events < MaxEvents /\ events' = events + 1)
                       /\ mode' = mode \/ mode' \in Modes
  <1>2. Counts
    <2>1. CASE Tick \/ Watches \/ TimerFires \/ TimerSets \/ UNCHANGED vars
      BY <2>1 DEF Tick, Watches, MacCopy, TickRead, TickReadFails, TickStage, TimerFires,
         TimerSets, vars
    <2>2. ASSUME NEW p \in Procs, Quietly(p)
          PROVE  Counts
      BY <2>2 DEF Quietly, FlushNothing, PushClipboardCurrent, NoteRemote, WritePasteboard,
         WriteFails, TimerDrops, SetClipboardMode
    <2>3. ASSUME NEW p \in Procs, \/ TakePending(p) \/ Send(p) \/ Requeue(p) \/ PushSets(p)
                                  \/ PushTakes(p) \/ \E x \in Contents : PushGiven(p, x)
          PROVE  Counts
      BY <2>3 DEF TakePending, Send, Requeue, PushSets, PushTakes, PushGiven
    <2>4. CASE WsIngest \/ PostIngest \/ Connect \/ Disconnect \/ MacRestarts
      BY <2>4 DEF WsIngest, PostIngest, Connect, Disconnect, MacRestarts
    <2>5. CASE PhoneActs
      BY <2>5 DEF PhoneActs, PhoneEdits, PhoneCopy, PhoneRefresh, PhoneDropsDraft, PhoneWrites,
         PhoneWriteFails, PhoneFlushAuto, PhoneFlushClip, PhoneSent, PostFails, PhoneReceive,
         PhoneSetsMode
    <2> QED BY <2>1, <2>2, <2>3, <2>4, <2>5, NextSplit
  <1>3. now' \in 1..(MaxTime + 1) /\ events' \in 0..MaxEvents
    BY <1>2, BoundsAssumption DEF TypeInv, CountOK
  <1>4. mode' \in Modes \cup {"both"}
    BY <1>2 DEF TypeInv, CountOK
  <1> QED BY <1>1, <1>3, <1>4 DEF CountOK


\* The watcher's part of the state.
LEMMA WatchType ==
    ASSUME TypeInv, Tick \/ Watches \/ TimerFires
    PROVE  TypeInv'
  <1>1. CountOK'
    BY NextCount DEF Next, Watches
  <1>2. StoreOK' /\ WireOK' /\ PhoneOK' /\ SendsOK'
    BY Frame DEF Tick, Watches, MacCopy, TickRead, TickReadFails, TickStage, TimerFires,
       storeVars, wireVars, phoneVars
  <1>3. ProcOK'
    <2>1. CASE TimerFires
      BY <2>1, TimerMoves, Moved, Constants
    <2>2. CASE Tick \/ Watches
      BY <2>2, Frame DEF Tick, Watches, MacCopy, TickRead, TickReadFails, TickStage
    <2> QED BY <2>1, <2>2
  <1>4. WatchOK'
    <2>1. CASE Tick
      BY <2>1, Frame DEF Tick
    <2>2. ASSUME NEW x \in Contents, MacCopy(x) PROVE WatchOK'
      BY <2>2 DEF MacCopy, TypeInv, WatchOK
    <2>3. ASSUME NEW t \in Tickers, TickRead(t) \/ TickReadFails(t) PROVE WatchOK'
      <3>1. board' = [board EXCEPT !.fresh = FALSE] /\ watch' = watch
        BY <2>3 DEF TickRead, TickReadFails
      <3>2. board' \in [what : Contents \cup {None}, fresh : BOOLEAN]
        BY <3>1 DEF TypeInv, WatchOK
      <3>3. board.what \in Contents \cup {None}
        BY DEF TypeInv, WatchOK
      <3>4. tick' \in [Tickers -> Contents \cup {None}]
        BY <2>3, <3>3 DEF TickRead, TickReadFails, TypeInv, WatchOK
      <3> QED BY <3>1, <3>2, <3>4 DEF TypeInv, WatchOK
    <2>4. ASSUME NEW t \in Tickers, TickStage(t) PROVE WatchOK'
      <3>1. tick[t] \in Contents
        BY <2>4 DEF TickStage, TypeInv, WatchOK
      <3>2. tick' \in [Tickers -> Contents \cup {None}] /\ board' = board
        BY <2>4 DEF TickStage, TypeInv, WatchOK
      <3>3. watch' = watch \/ watch' = [watch EXCEPT !.slot = tick[t]]
        BY <2>4 DEF TickStage
      <3> QED BY <3>1, <3>2, <3>3 DEF TypeInv, WatchOK
    <2>5. CASE TimerFires
      BY <2>5 DEF TimerFires, TypeInv, WatchOK
    <2> QED BY <2>1, <2>2, <2>3, <2>4, <2>5 DEF Watches
  <1> QED BY <1>1, <1>2, <1>3, <1>4 DEF TypeInv

\* Content of either kind is remembered as handled.
LEMMA HandledOK ==
    ASSUME TypeInv, NEW x \in Contents, NEW s \in Contents \cup {None}
    PROVE  LET W == [text : (Contents \ Images) \cup {None}, image : Images \cup {None},
                     slot : Contents \cup {None}] IN
           /\ x \in Images => /\ [watch EXCEPT !.image = Key[x]] \in W
                              /\ [watch EXCEPT !.image = Key[x], !.slot = s] \in W
           /\ x \notin Images => /\ [watch EXCEPT !.text = x] \in W
                                 /\ [watch EXCEPT !.text = x, !.slot = s] \in W
  BY Constants DEF TypeInv, WatchOK

\* The debounce timer stages what it took.
LEMMA TimerSetsType ==
    ASSUME TypeInv, TimerSets
    PROVE  TypeInv'
  <1>1. CountOK'
    BY NextCount DEF Next
  <1>2. WireOK' /\ PhoneOK' /\ SendsOK'
    BY Frame DEF TimerSets, wireVars, phoneVars
  <1>3. ProcOK' /\ proc[Timer].what \in Contents /\ proc[Timer].wall \in Nat
    BY TimerMoves, Moved, Constants
  <1>4. StoreOK'
    BY <1>3, SetStore DEF TimerSets
  <1>5. WatchOK'
    <2>1. UNCHANGED <<board, tick>>
      BY DEF TimerSets
    <2>2. watch' \in [text : (Contents \ Images) \cup {None}, image : Images \cup {None},
                      slot : Contents \cup {None}]
      BY <1>3, HandledOK DEF TimerSets
    <2> QED BY <2>1, <2>2 DEF TypeInv, WatchOK
  <1> QED BY <1>1, <1>2, <1>3, <1>4, <1>5 DEF TypeInv

\* The steps that leave store, wire and phone alone.
LEMMA QuietlyType ==
    ASSUME TypeInv, NEW p \in Procs, Quietly(p)
    PROVE  TypeInv'
  <1>1. CountOK'
    BY NextCount, Constants DEF Next, Quietly
  <1>2. StoreOK' /\ WireOK' /\ PhoneOK' /\ SendsOK'
    BY Frame DEF Quietly, FlushNothing, PushClipboardCurrent, NoteRemote, WritePasteboard,
       WriteFails, TimerDrops, SetClipboardMode, storeVars, wireVars, phoneVars
  <1>3. ProcOK'
    <2>1. CASE \E m \in Modes : SetClipboardMode(p, m)
      <3>1. At(p, "idle") /\ Goto(p, "flush")
        BY <2>1 DEF SetClipboardMode
      <3> QED BY <3>1, FlushMoves, Moved
    <2>2. CASE \/ FlushNothing(p) \/ WritePasteboard(p) \/ WriteFails(p)
               \/ p = Timer /\ TimerDrops
      BY <2>2, FinishMoves, Moved
    <2>3. CASE PushClipboardCurrent(p) \/ NoteRemote(p)
      BY <2>3, CurrentMoves, NoteMoves, Moved
    <2> QED BY <2>1, <2>2, <2>3 DEF Quietly
  <1>4. WatchOK'
    <2>1. CASE NoteRemote(p)
      <3>1. proc[p].what \in Contents
        BY <2>1, NoteMoves
      <3>2. board' = [board EXCEPT !.fresh = FALSE] /\ tick' = tick
        BY <2>1 DEF NoteRemote
      <3>3. board' \in [what : Contents \cup {None}, fresh : BOOLEAN]
        BY <3>2 DEF TypeInv, WatchOK
      <3>4. watch' \in [text : (Contents \ Images) \cup {None}, image : Images \cup {None},
                        slot : Contents \cup {None}]
        BY <2>1, <3>1, HandledOK DEF NoteRemote
      <3> QED BY <3>2, <3>3, <3>4 DEF TypeInv, WatchOK
    <2>2. CASE WritePasteboard(p)
      <3>1. proc[p].what \in Contents
        BY <2>2, ProcFields DEF WritePasteboard, At
      <3> QED BY <2>2, <3>1 DEF WritePasteboard, TypeInv, WatchOK
    <2>3. CASE \/ FlushNothing(p) \/ PushClipboardCurrent(p) \/ WriteFails(p)
               \/ (p = Timer /\ TimerDrops) \/ \E m \in Modes : SetClipboardMode(p, m)
      BY <2>3, Frame DEF FlushNothing, PushClipboardCurrent, WriteFails, TimerDrops,
         SetClipboardMode
    <2> QED BY <2>1, <2>2, <2>3 DEF Quietly
  <1> QED BY <1>1, <1>2, <1>3, <1>4 DEF TypeInv

\* The steps that stage, take, send and put back a clip.
LEMMA StoreType ==
    ASSUME TypeInv, NEW p \in Procs,
           \/ TakePending(p) \/ Requeue(p) \/ PushSets(p) \/ PushTakes(p)
           \/ \E x \in Contents : PushGiven(p, x)
    PROVE  TypeInv'
  <1>1. CountOK'
    <2>1. Next
      BY DEF Next, PushClipboard, PushClipboardImage
    <2> QED BY <2>1, NextCount
  <1>2. WatchOK' /\ WireOK' /\ PhoneOK' /\ SendsOK'
    BY Frame DEF TakePending, Requeue, PushSets, PushTakes, PushGiven, wireVars, phoneVars
  <1>3. ProcOK'
    <2>1. CASE TakePending(p) \/ Requeue(p) \/ PushSets(p)
      BY <2>1, TakeMoves, FinishMoves, SetsMoves, Moved
    <2>2. CASE PushTakes(p)
      BY <2>2, PushTakesMoves, Moved
    <2>3. ASSUME NEW x \in Contents, PushGiven(p, x) PROVE ProcOK'
      BY <2>3, GivenMoves, Moved, Frame
    <2> QED BY <2>1, <2>2, <2>3
  <1>4. StoreOK'
    <2>1. now \in Nat
      BY BoundsAssumption DEF TypeInv, CountOK
    <2>2. CASE PushSets(p)
      BY <2>1, <2>2, SetsMoves, SetStore DEF PushSets
    <2>3. ASSUME NEW x \in Contents, PushGiven(p, x) PROVE StoreOK'
      BY <2>1, <2>3, SetStore DEF PushGiven
    <2>4. CASE TakePending(p) \/ PushTakes(p) \/ Requeue(p)
      <3>1. PICK x : x = clip
        OBVIOUS
      <3>2. ClipOK(x)
        BY <3>1 DEF TypeInv, StoreOK
      <3>3. hlc' = hlc
        BY <2>4 DEF TakePending, PushTakes, Requeue
      <3>4. \/ clip' = [x EXCEPT !.pending = FALSE]
            \/ x.what # None /\ clip' = [x EXCEPT !.pending = TRUE]
            \/ clip' = x
        BY <2>4, <3>1 DEF TakePending, PushTakes, Requeue
      <3>5. ClipOK([x EXCEPT !.pending = FALSE])
        BY <3>2, PendingOK
      <3>6. x.what # None => ClipOK([x EXCEPT !.pending = TRUE])
        BY <3>2, PendingOK
      <3>7. ClipOK(clip')
        BY <3>2, <3>4, <3>5, <3>6
      <3> QED BY <3>3, <3>7 DEF TypeInv, StoreOK, ClipOK
    <2> QED BY <2>2, <2>3, <2>4
  <1> QED BY <1>1, <1>2, <1>3, <1>4 DEF TypeInv

\* A push is written to the socket.
LEMMA SendType ==
    ASSUME TypeInv, NEW p \in Procs, Send(p)
    PROVE  TypeInv'
  <1>1. CountOK'
    BY NextCount DEF Next
  <1>2. WatchOK' /\ StoreOK' /\ PhoneOK' /\ SendsOK'
    BY Frame DEF Send, phoneVars
  <1>3. ProcOK'
    BY SendMoves, Moved
  <1>4. toPhone' \in Seq(Pushes)
    <2>1. toPhone \in Seq(Pushes) /\ proc[p].push \in Pushes
      BY SendMoves DEF TypeInv, WireOK
    <2>2. toPhone' \in {toPhone, Append(toPhone, proc[p].push)}
      BY SendMoves
    <2> QED BY <2>1, <2>2, InAppend
  <1>5. WireOK'
    BY <1>4 DEF Send, TypeInv, WireOK
  <1> QED BY <1>1, <1>2, <1>3, <1>5 DEF TypeInv


\* The phone's pushes reach the Mac.
LEMMA IngestType ==
    ASSUME TypeInv, WsIngest \/ PostIngest
    PROVE  TypeInv'
  <1>1. CountOK'
    BY NextCount DEF Next
  <1>2. WatchOK' /\ PhoneOK'
    BY Frame DEF WsIngest, PostIngest, phoneVars
  <1>3. \/ \E p \in Procs, push \in Pushes : Adopts(p, push)
        \/ UNCHANGED <<clip, hlc, proc>>
    BY WsMoves, PostMoves, Constants
  <1>4. ProcOK' /\ StoreOK'
    <2>1. ASSUME NEW p \in Procs, NEW push \in Pushes, Adopts(p, push) PROVE ProcOK' /\ StoreOK'
      BY <2>1, Moved DEF Adopts
    <2> QED BY <1>3, <2>1, Frame DEF storeVars
  <1>5. WireOK'
    BY WsMoves DEF WsIngest, PostIngest, TypeInv, WireOK
  <1>6. SendsOK'
    <2>1. CASE WsIngest
      BY <2>1, Frame DEF WsIngest, phoneVars
    <2>2. CASE PostIngest
      <3>1. /\ post' = [post EXCEPT !.pc = "handled"] /\ UNCHANGED <<psends, pclip>>
            /\ post.pc = "sent"
        BY <2>2 DEF PostIngest, phoneVars
      <3>2. /\ post' \in [pc : {"none", "sent", "handled"}, push : Pushes \cup {None}]
            /\ post'.push = post.push
        BY <3>1 DEF TypeInv, SendsOK
      <3> QED BY <3>1, <3>2 DEF TypeInv, SendsOK
    <2> QED BY <2>1, <2>2
  <1> QED BY <1>1, <1>2, <1>4, <1>5, <1>6 DEF TypeInv

\* The socket, and the Mac app's end.
LEMMA SocketType ==
    ASSUME TypeInv, Connect \/ Disconnect \/ MacRestarts
    PROVE  TypeInv'
  <1>1. CountOK'
    BY NextCount DEF Next
  <1>2. PhoneOK' /\ SendsOK'
    BY Frame DEF Connect, Disconnect, MacRestarts, phoneVars
  <1>3. WireOK'
    <2>1. up' \in BOOLEAN
      BY Zenon DEF Connect, Disconnect, MacRestarts
    <2>2. toPhone' \in {toPhone, <<>>} /\ toMac' \in {toMac, <<>>}
      BY DEF Connect, Disconnect, MacRestarts
    <2>3. <<>> \in Seq(Pushes)
      OBVIOUS
    <2> QED BY <2>1, <2>2, <2>3 DEF TypeInv, WireOK
  <1>4. WatchOK' /\ StoreOK' /\ ProcOK'
    <2>1. CASE Connect
      <3>1. Moves(Reader, St("flush", None, proc[Reader].wall, None))
        BY <2>1, FlushMoves, Constants DEF Connect
      <3> QED BY <2>1, <3>1, Moved, Constants, Frame DEF Connect
    <2>2. CASE Disconnect
      BY <2>2, Frame DEF Disconnect
    <2>3. CASE MacRestarts
      <3>1. clip' = NoClip /\ hlc' = [at |-> 0, c |-> 0] /\ proc' = [p \in Procs |-> Idle]
        BY <2>3 DEF MacRestarts
      <3>2. ProcOK'
        BY <3>1, Constants DEF ProcOK
      <3>3. StoreOK'
        BY <3>1, Constants DEF StoreOK, Stamps, ClipOK
      <3>4. board' \in [what : Contents \cup {None}, fresh : BOOLEAN]
        BY <2>3 DEF MacRestarts, TypeInv, WatchOK
      <3>5. WatchOK'
        BY <2>3, <3>4 DEF MacRestarts, WatchOK
      <3> QED BY <3>2, <3>3, <3>5
    <2> QED BY <2>1, <2>2, <2>3
  <1> QED BY <1>1, <1>2, <1>3, <1>4 DEF TypeInv

\* The phone sends a push: over the socket, or as a post.
LEMMA PhonePushOK ==
    ASSUME TypeInv, NEW push \in Pushes, PhonePush(push), UNCHANGED <<up, toPhone>>
    PROVE  /\ WireOK' /\ psends' \in Seq(Pushes)
           /\ post' \in [pc : {"none", "sent", "handled"}, push : Pushes \cup {None}]
           /\ \/ /\ up /\ post' = post /\ toMac' = Append(toMac, push)
                 /\ psends' = Append(psends, push)
              \/ /\ ~up /\ post.pc = "none" /\ UNCHANGED <<toMac, psends>>
                 /\ post'.pc = "sent" /\ post'.push = push
  <1>1. CASE up
    <2>1. toMac' = Append(toMac, push) /\ post' = post /\ psends' = Append(psends, push)
      BY <1>1 DEF PhonePush
    <2>2. toMac' \in Seq(Pushes) /\ psends' \in Seq(Pushes)
      BY <2>1, InAppend DEF TypeInv, WireOK, SendsOK
    <2>3. WireOK'
      BY <2>2 DEF TypeInv, WireOK
    <2> QED BY <1>1, <2>1, <2>2, <2>3 DEF TypeInv, SendsOK
  <1>2. CASE ~up
    <2>1. /\ post.pc = "none" /\ UNCHANGED <<toMac, psends>>
          /\ post' = [pc |-> "sent", push |-> push]
      BY <1>2 DEF PhonePush
    <2>2. WireOK'
      BY <2>1 DEF TypeInv, WireOK
    <2> QED BY <1>2, <2>1, <2>2 DEF TypeInv, SendsOK
  <1> QED BY <1>1, <1>2

\* The phone's debounce timer stamps the draft and sends it, or queues it.
LEMMA FlushAutoMoves ==
    ASSUME TypeInv, PhoneFlushAuto
    PROVE  /\ pdraft' = None /\ UNCHANGED <<up, toPhone, pboard, pwrites>>
           /\ \/ UNCHANGED <<pclip, psends, toMac, post>>
              \/ /\ ClipOK(pclip') /\ pclip'.what = pdraft /\ pclip'.pending
                 /\ pclip'.at > pclip.at /\ pclip'.c = 0 /\ pclip'.origin = "android"
                 /\ pclip'.what # None /\ pclip' \in Clips
                 /\ PhonePush(AsPush(pclip')) \/ (~up /\ UNCHANGED <<psends, toMac, post>>)
  <1>1. pdraft' = None /\ UNCHANGED <<up, toPhone, pboard, pwrites>>
    BY DEF PhoneFlushAuto
  <1>2. pdraft \in Contents /\ pdraft # None
    BY DEF PhoneFlushAuto, TypeInv, PhoneOK
  <1>3. PICK w : w = IF pclip.what # None THEN Larger(now, pclip.at + 1) ELSE now
    OBVIOUS
  <1>4. w \in Nat /\ w > pclip.at
    BY <1>3, ClipFields, BoundsAssumption DEF Larger, TypeInv, CountOK
  <1>5. CASE UNCHANGED <<pclip, psends, toMac, post>>
    BY <1>1, <1>5
  <1>6. CASE AllowsSend("android") /\ pclip.what # pdraft
    <2>1. PICK next : next = [what |-> pdraft, origin |-> "android", pending |-> TRUE, c |-> 0,
                              at |-> w]
      OBVIOUS
    <2>2. /\ pclip' = next
          /\ PhonePush(AsPush(next)) \/ (~up /\ UNCHANGED <<psends, toMac, post>>)
      BY <1>3, <1>6, <2>1 DEF PhoneFlushAuto
    <2>3. /\ next.what = pdraft /\ next.at = w /\ next.c = 0 /\ next.origin = "android"
          /\ next.pending
      BY <2>1
    <2>4. next \in Clips
      BY <1>2, <1>4, <2>1 DEF Clips
    <2>5. ClipOK(next)
      BY <1>2, <2>3, <2>4 DEF ClipOK
    <2> QED BY <1>1, <1>2, <1>4, <2>2, <2>3, <2>4, <2>5
  <1>7. UNCHANGED <<pclip, psends, toMac, post>> \/ (AllowsSend("android") /\ pclip.what # pdraft)
    BY DEF PhoneFlushAuto
  <1> QED BY <1>5, <1>6, <1>7

\* A frame reaches the phone.
LEMMA ReceiveMoves ==
    ASSUME TypeInv, PhoneReceive
    PROVE  /\ toPhone # <<>> /\ Head(toPhone) \in Pushes /\ Tail(toPhone) \in Seq(Pushes)
           /\ toPhone' = Tail(toPhone)
           /\ UNCHANGED <<up, toMac, post, pboard, pdraft, psends>>
           /\ \/ UNCHANGED <<pclip, pwrites>>
              \/ /\ ClipOK(pclip') /\ pclip'.what = Head(toPhone).what
                 /\ pclip'.what # None
                 /\ pclip'.at = Head(toPhone).at /\ pclip'.c = Head(toPhone).c
                 /\ pclip'.origin = "mac" /\ ~pclip'.pending
                 /\ RemoteClipWinsEx(pclip, Head(toPhone))
                 /\ pwrites' = Append(pwrites, Head(toPhone).what)
  <1>1. /\ toPhone # <<>> /\ Head(toPhone) \in Pushes /\ Tail(toPhone) \in Seq(Pushes)
        /\ toPhone' = Tail(toPhone)
    BY InTail DEF PhoneReceive, TypeInv, WireOK
  <1>2. UNCHANGED <<up, toMac, post, pboard, pdraft, psends>>
    BY DEF PhoneReceive
  <1>3. PICK push \in Pushes : push = Head(toPhone)
    BY <1>1
  <1>4. /\ push.what \in Contents /\ push.at \in Nat /\ push.c \in Nat
        /\ push.origin \in {"mac", "android"}
    BY PushFields
  <1>5. CASE UNCHANGED <<pclip, pwrites>>
    BY <1>1, <1>2, <1>5
  <1>6. CASE /\ RemoteClipWinsEx(pclip, push) /\ push.origin # "android"
             /\ pclip' = [what |-> push.what, at |-> push.at, c |-> push.c,
                          origin |-> push.origin, pending |-> FALSE]
             /\ pwrites' = Append(pwrites, push.what)
    <2>1. /\ pclip'.what = push.what /\ pclip'.at = push.at /\ pclip'.c = push.c
          /\ pclip'.origin = "mac" /\ ~pclip'.pending
      BY <1>4, <1>6
    <2>2. pclip' \in Clips
      BY <1>4, <1>6 DEF Clips
    <2>3. ClipOK(pclip')
      BY <1>4, <2>1, <2>2, Constants DEF ClipOK
    <2> QED BY <1>1, <1>2, <1>3, <1>4, <1>6, <2>1, <2>3, Constants
  <1> QED BY <1>3, <1>5, <1>6 DEF PhoneReceive


\* The phone's own steps.
LEMMA PhoneType ==
    ASSUME TypeInv, PhoneActs
    PROVE  TypeInv'
  <1>1. CountOK'
    BY NextCount DEF Next, PhoneActs, PhoneEdits
  <1>2. WatchOK' /\ StoreOK' /\ ProcOK'
    BY Frame DEF PhoneActs, PhoneEdits, PhoneCopy, PhoneRefresh, PhoneDropsDraft, PhoneWrites,
       PhoneWriteFails, PhoneFlushAuto, PhoneFlushClip, PhoneSent, PostFails, PhoneReceive,
       PhoneSetsMode
  <1>3. WireOK' /\ PhoneOK' /\ SendsOK'
    <2>1. CASE PhoneEdits
      <3>1. /\ WireOK' /\ SendsOK' /\ pclip' = pclip
        BY <2>1, Frame DEF PhoneEdits, PhoneCopy, PhoneRefresh, PhoneDropsDraft, PhoneWrites,
           PhoneWriteFails, wireVars
      <3>2. pboard' \in Contents \cup {None} /\ pdraft' \in Contents \cup {None}
        <4>1. ASSUME NEW x \in Contents, Draft(x) PROVE pdraft' \in Contents
          BY <4>1, Constants DEF Draft
        <4>2. pboard \in Contents \cup {None} /\ pdraft \in Contents \cup {None}
          BY DEF TypeInv, PhoneOK
        <4>3. pwrites # <<>> => Head(pwrites) \in Contents
          BY InTail DEF TypeInv, PhoneOK
        <4>4. CASE PhoneWrites
          BY <4>1, <4>2, <4>3, <4>4 DEF PhoneWrites
        <4>5. CASE PhoneRefresh \/ PhoneDropsDraft \/ PhoneWriteFails
          BY <4>1, <4>2, <4>5 DEF PhoneRefresh, PhoneDropsDraft, PhoneWriteFails
        <4>6. ASSUME NEW x \in Contents, PhoneCopy(x)
              PROVE  pboard' \in Contents \cup {None} /\ pdraft' \in Contents \cup {None}
          BY <4>1, <4>2, <4>6 DEF PhoneCopy
        <4> QED BY <2>1, <4>4, <4>5, <4>6 DEF PhoneEdits
      <3>3. pwrites' \in Seq(Contents)
        <4>1. pwrites \in Seq(Contents)
          BY DEF TypeInv, PhoneOK
        <4>2. pwrites' = pwrites \/ (pwrites # <<>> /\ pwrites' = Tail(pwrites))
          BY <2>1 DEF PhoneEdits, PhoneCopy, PhoneRefresh, PhoneDropsDraft, PhoneWrites,
             PhoneWriteFails
        <4> QED BY <4>1, <4>2, InTail
      <3> QED BY <3>1, <3>2, <3>3 DEF TypeInv, PhoneOK, ClipOK
    <2>2. CASE PhoneFlushAuto
      <3>1. CASE UNCHANGED <<pclip, psends, toMac, post>>
        <4>1. WireOK' /\ SendsOK'
          BY <2>2, <3>1, FlushAutoMoves, Frame
        <4>2. PhoneOK'
          BY <2>2, <3>1, FlushAutoMoves DEF TypeInv, PhoneOK, ClipOK
        <4> QED BY <4>1, <4>2
      <3>2. CASE /\ ClipOK(pclip') /\ pclip'.what # None /\ pclip' \in Clips
                 /\ pclip'.origin = "android"
                 /\ PhonePush(AsPush(pclip')) \/ (~up /\ UNCHANGED <<psends, toMac, post>>)
        <4>1. PhoneOK'
          BY <2>2, <3>2, FlushAutoMoves DEF TypeInv, PhoneOK, ClipOK
        <4>2. CASE PhonePush(AsPush(pclip'))
          <5>1. PICK push : push = AsPush(pclip')
            OBVIOUS
          <5>2. push \in Pushes
            BY <3>2, <5>1, PushOK
          <5>3. PhonePush(push) /\ UNCHANGED <<up, toPhone>>
            BY <2>2, <4>2, <5>1, FlushAutoMoves
          <5>4. /\ WireOK' /\ psends' \in Seq(Pushes)
                /\ post' \in [pc : {"none", "sent", "handled"}, push : Pushes \cup {None}]
                /\ post' = post \/ post'.push = push
            BY <5>2, <5>3, PhonePushOK
          <5>5. SendsOK'
            BY <3>2, <5>2, <5>4, Constants DEF TypeInv, SendsOK
          <5> QED BY <4>1, <5>4, <5>5
        <4>3. CASE ~up /\ UNCHANGED <<psends, toMac, post>>
          <5>1. WireOK'
            BY <2>2, <4>3, FlushAutoMoves, Frame
          <5>2. SendsOK'
            BY <3>2, <4>3 DEF TypeInv, SendsOK
          <5> QED BY <4>1, <5>1, <5>2
        <4> QED BY <3>2, <4>2, <4>3
      <3> QED BY <2>2, <3>1, <3>2, FlushAutoMoves
    <2>3. CASE PhoneFlushClip
      <3>1. pclip.pending /\ up /\ UNCHANGED <<up, toPhone, pboard, pdraft, pwrites>>
        BY <2>3 DEF PhoneFlushClip
      <3>2. CASE PhonePush(AsPush(pclip)) /\ UNCHANGED pclip
        <4>1. AsPush(pclip) \in Pushes /\ pclip.what # None
          BY <3>1, ClipFields, PushOK
        <4>2. /\ WireOK' /\ psends' \in Seq(Pushes) /\ post' = post
          BY <3>1, <3>2, <4>1, PhonePushOK
        <4>3. SendsOK'
          BY <3>2, <4>1, <4>2 DEF TypeInv, SendsOK
        <4>4. PhoneOK'
          BY <3>1, <3>2, Frame
        <4> QED BY <4>2, <4>3, <4>4
      <3>3. CASE pclip' = [pclip EXCEPT !.pending = FALSE] /\ UNCHANGED <<psends, toMac, post>>
        <4>1. ClipOK(pclip') /\ pclip'.what = pclip.what
          BY <3>3, PendingOK DEF TypeInv, PhoneOK
        <4>2. PhoneOK'
          BY <3>1, <4>1 DEF TypeInv, PhoneOK, ClipOK
        <4>3. SendsOK'
          BY <3>3, <4>1 DEF TypeInv, SendsOK
        <4> QED BY <3>1, <3>3, <4>2, <4>3, Frame
      <3> QED BY <2>3, <3>2, <3>3 DEF PhoneFlushClip
    <2>4. CASE PhoneSent \/ PostFails
      <3>1. pclip.what # None /\ ClipOK(pclip)
        BY <2>4 DEF PhoneSent, PostFails, TypeInv, SendsOK, PhoneOK
      <3>2. /\ post' = post \/ post' = [pc |-> "none", push |-> None]
            /\ psends' = psends \/ (psends # <<>> /\ psends' = Tail(psends))
            /\ UNCHANGED <<up, toPhone, toMac, pboard, pdraft, pwrites>>
        BY <2>4 DEF PhoneSent, PostFails
      <3>3. \/ pclip' = [pclip EXCEPT !.pending = FALSE]
            \/ pclip' = [pclip EXCEPT !.pending = TRUE]
        BY <2>4 DEF PhoneSent, PostFails
      <3>4. ClipOK(pclip') /\ pclip'.what = pclip.what
        BY <3>1, <3>3, PendingOK
      <3>5. PhoneOK'
        BY <3>2, <3>4 DEF TypeInv, PhoneOK, ClipOK
      <3>6. psends' \in Seq(Pushes)
        <4>1. psends \in Seq(Pushes)
          BY DEF TypeInv, SendsOK
        <4> QED BY <3>2, <4>1, InTail
      <3>7. SendsOK'
        BY <3>1, <3>2, <3>4, <3>6 DEF TypeInv, SendsOK
      <3>8. WireOK'
        BY <3>2, Frame
      <3> QED BY <3>5, <3>7, <3>8
    <2>5. CASE PhoneReceive
      <3>1. WireOK'
        BY <2>5, ReceiveMoves DEF TypeInv, WireOK
      <3>2. CASE UNCHANGED <<pclip, pwrites>>
        BY <2>5, <3>1, <3>2, ReceiveMoves, Frame
      <3>3. CASE /\ ClipOK(pclip') /\ pclip'.what # None
                 /\ pwrites' = Append(pwrites, Head(toPhone).what)
        <4>1. Head(toPhone).what \in Contents
          BY <2>5, ReceiveMoves, PushFields
        <4>2. pwrites' \in Seq(Contents)
          BY <3>3, <4>1, InAppend DEF TypeInv, PhoneOK
        <4>3. PhoneOK'
          BY <2>5, <3>3, <4>2, ReceiveMoves DEF TypeInv, PhoneOK, ClipOK
        <4>4. SendsOK'
          BY <2>5, <3>3, ReceiveMoves DEF TypeInv, SendsOK
        <4> QED BY <3>1, <4>3, <4>4
      <3> QED BY <2>5, <3>2, <3>3, ReceiveMoves
    <2>6. ASSUME NEW m \in Modes, PhoneSetsMode(m) PROVE WireOK' /\ PhoneOK' /\ SendsOK'
      BY <2>6, Frame DEF PhoneSetsMode, wireVars, phoneVars
    <2> QED BY <2>1, <2>2, <2>3, <2>4, <2>5, <2>6 DEF PhoneActs
  <1> QED BY <1>1, <1>2, <1>3 DEF TypeInv

\* No step leaves the types.
LEMMA NextTypeInv == TypeInv /\ [Next]_vars => TypeInv'
  <1> SUFFICES ASSUME TypeInv, [Next]_vars PROVE TypeInv'
    OBVIOUS
  <1>1. CASE Tick \/ Watches \/ TimerFires
    BY <1>1, WatchType
  <1>2. CASE TimerSets
    BY <1>2, TimerSetsType
  <1>3. ASSUME NEW p \in Procs, Quietly(p) PROVE TypeInv'
    BY <1>3, QuietlyType
  <1>4. ASSUME NEW p \in Procs, \/ TakePending(p) \/ Requeue(p) \/ PushSets(p)
                                \/ PushTakes(p) \/ \E x \in Contents : PushGiven(p, x)
        PROVE  TypeInv'
    BY <1>4, StoreType
  <1>5. ASSUME NEW p \in Procs, Send(p) PROVE TypeInv'
    BY <1>5, SendType
  <1>6. CASE WsIngest \/ PostIngest
    BY <1>6, IngestType
  <1>7. CASE Connect \/ Disconnect \/ MacRestarts
    BY <1>7, SocketType
  <1>8. CASE PhoneActs
    BY <1>8, PhoneType
  <1>9. CASE UNCHANGED vars
    BY <1>9, Frame DEF vars, TypeInv, wireVars, phoneVars
  <1> QED BY <1>1, <1>2, <1>3, <1>4, <1>5, <1>6, <1>7, <1>8, <1>9, NextSplit

\* The types hold in every state of every behaviour.
LEMMA TypesHold == Spec => []TypeInv
  <1>1. Init => TypeInv
    BY InitTypeInv
  <1>2. TypeInv /\ [Next]_vars => TypeInv'
    BY NextTypeInv
  <1> QED BY <1>1, <1>2, PTL DEF Spec

\* Every variable has its type: a goroutine holds content exactly between the
\* pasteboard and the store, and a push exactly between the store and the
\* socket; a clip is queued only when there is one; and a post under way
\* carries a push.
THEOREM TypeCorrect == Spec => []TypeOK
  <1>1. TypeInv => TypeOK
    <2> SUFFICES ASSUME TypeInv PROVE TypeOK
      OBVIOUS
    <2>1. \A p \in Procs : /\ proc[p].pc \in Places /\ Fits(proc[p])
                           /\ proc[p].push # None => proc[p].push \in Pushes
      <3>1. ASSUME NEW p \in Procs
            PROVE  /\ proc[p].pc \in Places /\ Fits(proc[p])
                   /\ proc[p].push # None => proc[p].push \in Pushes
        BY ProcFields DEF ProcStates
      <3> QED BY <3>1
    <2>2. clip \in Clips /\ pclip \in Clips /\ (clip.pending => clip.what # None)
      BY ClipFields
    <2>3. post.pc # "none" => post.push \in Pushes
      BY DEF TypeInv, SendsOK
    <2>4. watch.text \in (Contents \ Images) \cup {None} /\ watch.image \in Images \cup {None}
      BY DEF TypeInv, WatchOK
    <2>5. watch.slot \in Contents \cup {None}
      BY DEF TypeInv, WatchOK
    <2> QED BY <2>1, <2>2, <2>3, <2>4, <2>5 DEF TypeOK, TypeInv, CountOK, WatchOK, StoreOK,
            WireOK, PhoneOK, SendsOK, Places, Fits, Stamps
  <1> QED BY <1>1, TypesHold, PTL

(***************************************************************************)
(* The Mac's stamps only rise.                                             *)
(***************************************************************************)

\* What a step may do to the store.
LEMMA StoreStep ==
    ASSUME TypeInv, [Next]_vars
    PROVE  \/ clip'.what = None
           \/ Advance
           \/ hlc' = hlc /\ clip'.what = clip.what /\ clip'.at = clip.at /\ clip'.c = clip.c
  <1> DEFINE Same == hlc' = hlc /\ clip'.what = clip.what /\ clip'.at = clip.at /\ clip'.c = clip.c
  <1>1. CASE Tick \/ Watches \/ TimerFires \/ UNCHANGED vars
    BY <1>1 DEF Tick, Watches, MacCopy, TickRead, TickReadFails, TickStage, TimerFires, vars,
       storeVars
  <1>2. now \in Nat
    BY BoundsAssumption DEF TypeInv, CountOK
  <1>3. CASE TimerSets
    <2>1. Same \/ Advance
      BY <1>3, TimerMoves, SetStore DEF TimerSets, storeVars
    <2> QED BY <2>1
  <1>4. ASSUME NEW p \in Procs, Quietly(p) PROVE Same
    BY <1>4 DEF Quietly, FlushNothing, PushClipboardCurrent, NoteRemote, WritePasteboard,
       WriteFails, TimerDrops, SetClipboardMode, storeVars
  <1>5. ASSUME NEW p \in Procs, Send(p) PROVE Same
    BY <1>5 DEF Send, storeVars
  <1>6. ASSUME NEW p \in Procs, PushSets(p) PROVE Same \/ Advance
    BY <1>2, <1>6, SetsMoves, SetStore DEF PushSets, storeVars
  <1>7. ASSUME NEW p \in Procs, NEW x \in Contents, PushGiven(p, x) PROVE Same \/ Advance
    BY <1>2, <1>7, SetStore DEF PushGiven, storeVars
  <1>8. ASSUME NEW p \in Procs, TakePending(p) \/ PushTakes(p) \/ Requeue(p) PROVE Same
    <2>1. hlc' = hlc /\ ClipOK(clip)
      BY <1>8 DEF TakePending, PushTakes, Requeue, TypeInv, StoreOK
    <2>2. \/ clip' = [clip EXCEPT !.pending = FALSE]
          \/ clip.what # None /\ clip' = [clip EXCEPT !.pending = TRUE]
          \/ clip' = clip
      BY <1>8 DEF TakePending, PushTakes, Requeue
    <2> QED BY <2>1, <2>2, PendingOK, ZenonT(60)
  <1>9. CASE WsIngest \/ PostIngest
    <2>1. Same \/ Advance
      BY <1>9, WsMoves, PostMoves DEF Adopts
    <2> QED BY <2>1
  <1>10. CASE Connect \/ Disconnect \/ PhoneActs
    BY <1>10 DEF Connect, Disconnect, PhoneActs, PhoneEdits, PhoneCopy, PhoneRefresh,
       PhoneDropsDraft, PhoneWrites, PhoneWriteFails, PhoneFlushAuto, PhoneFlushClip, PhoneSent,
       PostFails, PhoneReceive, PhoneSetsMode, storeVars
  <1>11. CASE MacRestarts
    BY <1>11 DEF MacRestarts, NoClip
  <1> QED BY <1>1, <1>3, <1>4, <1>5, <1>6, <1>7, <1>8, <1>9, <1>10, <1>11, NextSplit

\* Whichever of the watcher, the Send buttons, the read loop and the handler of
\* POST /clip enter the store in whichever order, the Mac's clip and the clock
\* behind it only move to later stamps, and other content always comes with a
\* later one; only a restart begins again.
THEOREM StampsOnlyRise == Spec => StampsRise
  <1> DEFINE Step == \/ clip'.what = None
                     \/ /\ clip'.what # clip.what => Later(clip', clip)
                        /\ StampOf(clip') = StampOf(clip) \/ Later(clip', clip)
                        /\ hlc' = hlc \/ Later(hlc', hlc)
  <1>1. TypeInv /\ [Next]_vars => [Step]_vars
    BY StoreStep DEF Advance, StampOf
  <1> QED BY <1>1, TypesHold, PTL DEF Spec, StampsRise

(***************************************************************************)
(* The Mac never sends the phone's own copy back.                          *)
(***************************************************************************)

\* What is queued, held to be sent or on its way is the Mac's own.
BounceInv ==
    "requeue" \notin causes =>
      /\ clip.pending => clip.origin = "mac"
      /\ \A p \in Procs : proc[p].push # None => proc[p].push.origin = "mac"
      /\ \A x : In(x, toPhone) => x.origin = "mac"


\* A step that queues, takes and sends nothing new.
LEMMA BounceFrame ==
    ASSUME BounceInv, causes \subseteq causes',
           clip'.pending => clip.pending /\ clip'.origin = clip.origin,
           \A p \in Procs : proc'[p].push # None => proc'[p].push = proc[p].push,
           \A x : In(x, toPhone') => In(x, toPhone)
    PROVE  BounceInv'
  BY DEF BounceInv

\* A goroutine that moves without a push.
LEMMA MovedPushes ==
    ASSUME TypeInv, NEW p \in Procs, NEW x, Moves(p, x)
    PROVE  \A q \in Procs : proc'[q].push = proc[q].push \/ (q = p /\ proc'[q].push = x.push)
  BY Moved

\* Every step keeps the invariant.
LEMMA NextBounceInv == TypeInv /\ BounceInv /\ [Next]_vars => BounceInv'
  <1> SUFFICES ASSUME TypeInv, BounceInv, [Next]_vars PROVE BounceInv'
    OBVIOUS
  <1>a. causes \subseteq causes'
    BY NextCauses
  <1>b. ASSUME NEW p \in Procs, NEW pc, NEW y, NEW w, Moves(p, St(pc, y, w, None))
        PROVE  \A q \in Procs : proc'[q].push # None => proc'[q].push = proc[q].push
    BY <1>b, MovedPushes DEF St
  <1>c. ASSUME NEW p \in Procs, Moves(p, Idle)
        PROVE  \A q \in Procs : proc'[q].push # None => proc'[q].push = proc[q].push
    BY <1>c, MovedPushes, Constants
  <1>d. now \in Nat
    BY BoundsAssumption DEF TypeInv, CountOK
  <1>e. ASSUME clip'.pending => clip'.origin = "mac" \/ (clip.pending /\ clip'.origin = clip.origin),
               \A p \in Procs : proc'[p].push # None => proc'[p].push = proc[p].push,
               UNCHANGED toPhone
        PROVE  BounceInv'
    BY <1>a, <1>e DEF BounceInv
  <1>1. CASE Tick \/ Watches \/ Disconnect \/ PhoneActs \/ UNCHANGED vars
    <2>1. UNCHANGED <<clip, proc>>
      BY <1>1 DEF Tick, Watches, MacCopy, TickRead, TickReadFails, TickStage, Disconnect,
         PhoneActs, PhoneEdits, PhoneCopy, PhoneRefresh, PhoneDropsDraft, PhoneWrites,
         PhoneWriteFails, PhoneFlushAuto, PhoneFlushClip, PhoneSent, PostFails, PhoneReceive,
         PhoneSetsMode, vars, storeVars
    <2>2. UNCHANGED toPhone \/ toPhone' = <<>> \/ PhoneReceive
      BY <1>1 DEF Tick, Watches, MacCopy, TickRead, TickReadFails, TickStage, Disconnect,
         PhoneActs, PhoneEdits, PhoneCopy, PhoneRefresh, PhoneDropsDraft, PhoneWrites,
         PhoneWriteFails, PhoneFlushAuto, PhoneFlushClip, PhoneSent, PostFails, PhoneSetsMode,
         vars, wireVars
    <2>3. \A x : In(x, toPhone') => In(x, toPhone)
      <3>1. CASE PhoneReceive
        <4>1. toPhone # <<>> /\ toPhone' = Tail(toPhone) /\ toPhone \in Seq(Pushes)
          BY <3>1, ReceiveMoves DEF TypeInv, WireOK
        <4> QED BY <4>1, InTail
      <3> QED BY <2>2, <3>1, InEmpty
    <2> QED BY <1>a, <2>1, <2>3, BounceFrame
  <1>2. CASE TimerFires
    <2>1. UNCHANGED <<clip, toPhone>>
      BY <1>2 DEF TimerFires, storeVars, wireVars
    <2>2. \A q \in Procs : proc'[q].push # None => proc'[q].push = proc[q].push
      BY <1>2, <1>b, TimerMoves, Constants
    <2> QED BY <1>e, <2>1, <2>2
  <1>3. CASE TimerSets
    <2>1. UNCHANGED toPhone
      BY <1>3 DEF TimerSets, wireVars
    <2>2. \A q \in Procs : proc'[q].push # None => proc'[q].push = proc[q].push
      BY <1>3, <1>b, <1>c, TimerMoves, Constants
    <2>3. clip'.pending => clip'.origin = "mac" \/ (clip.pending /\ clip'.origin = clip.origin)
      BY <1>3, TimerMoves, SetStore DEF TimerSets, storeVars
    <2> QED BY <1>e, <2>1, <2>2, <2>3
  <1>4. ASSUME NEW p \in Procs, Quietly(p) PROVE BounceInv'
    <2>1. UNCHANGED <<clip, toPhone>>
      BY <1>4 DEF Quietly, FlushNothing, PushClipboardCurrent, NoteRemote, WritePasteboard,
         WriteFails, TimerDrops, SetClipboardMode, storeVars, wireVars
    <2>2. \A q \in Procs : proc'[q].push # None => proc'[q].push = proc[q].push
      <3>1. CASE \E m \in Modes : SetClipboardMode(p, m)
        BY <1>b, <3>1, FlushMoves DEF SetClipboardMode
      <3>2. CASE \/ FlushNothing(p) \/ WritePasteboard(p) \/ WriteFails(p)
                 \/ p = Timer /\ TimerDrops
        BY <1>c, <3>2, FinishMoves
      <3>3. CASE PushClipboardCurrent(p) \/ NoteRemote(p)
        BY <1>b, <3>3, CurrentMoves, NoteMoves
      <3> QED BY <1>4, <3>1, <3>2, <3>3 DEF Quietly
    <2> QED BY <1>e, <2>1, <2>2
  <1>5. ASSUME NEW p \in Procs, PushSets(p) PROVE BounceInv'
    <2>1. UNCHANGED toPhone
      BY <1>5 DEF PushSets, wireVars
    <2>2. \A q \in Procs : proc'[q].push # None => proc'[q].push = proc[q].push
      BY <1>5, <1>b, SetsMoves
    <2>3. clip'.pending => clip'.origin = "mac" \/ (clip.pending /\ clip'.origin = clip.origin)
      BY <1>5, <1>d, SetsMoves, SetStore DEF PushSets, storeVars
    <2> QED BY <1>e, <2>1, <2>2, <2>3
  <1>6. ASSUME NEW p \in Procs, NEW x \in Contents, PushGiven(p, x) PROVE BounceInv'
    <2>1. UNCHANGED toPhone
      BY <1>6 DEF PushGiven, wireVars
    <2>2. \A q \in Procs : proc'[q].push # None => proc'[q].push = proc[q].push
      BY <1>6, <1>b, GivenMoves
    <2>3. clip'.pending => clip'.origin = "mac" \/ (clip.pending /\ clip'.origin = clip.origin)
      BY <1>6, <1>d, SetStore DEF PushGiven, storeVars
    <2> QED BY <1>e, <2>1, <2>2, <2>3
  <1>7. ASSUME NEW p \in Procs, TakePending(p) \/ PushTakes(p) PROVE BounceInv'
    <2>1. PICK push \in Pushes : /\ push.origin = clip.origin \/ push.origin = "mac"
                                 /\ push.origin # "mac" => clip.pending
                                 /\ Moves(p, St("send", None, 0, push))
      BY <1>7, TakeMoves, PushTakesMoves
    <2>2. \A q \in Procs : proc'[q].push = proc[q].push \/ proc'[q].push = push
      BY <2>1, MovedPushes DEF St
    <2>3. ~clip'.pending /\ UNCHANGED toPhone
      <3>1. clip' = [clip EXCEPT !.pending = FALSE] /\ UNCHANGED toPhone
        BY <1>7 DEF TakePending, PushTakes, wireVars
      <3>2. ClipOK(clip)
        BY DEF TypeInv, StoreOK
      <3> QED BY <3>1, <3>2, PendingOK
    <2> QED BY <1>a, <2>1, <2>2, <2>3 DEF BounceInv
  <1>8. ASSUME NEW p \in Procs, Send(p) PROVE BounceInv'
    <2>1. /\ proc[p].push \in Pushes /\ UNCHANGED clip
          /\ toPhone' \in {toPhone, Append(toPhone, proc[p].push)}
      BY <1>8, SendMoves DEF Send, storeVars
    <2>2. \A q \in Procs : proc'[q].push # None =>
             proc'[q].push = proc[q].push \/ proc'[q].push = proc[p].push
      <3>1. CASE Moves(p, Idle)
        BY <1>c, <3>1
      <3>2. CASE Moves(p, St("requeue", None, proc[p].wall, proc[p].push))
        <4>1. St("requeue", None, proc[p].wall, proc[p].push).push = proc[p].push
          BY DEF St
        <4> QED BY <3>2, <4>1, MovedPushes
      <3> QED BY <1>8, <3>1, <3>2, SendMoves
    <2>3. \A x : In(x, toPhone') => In(x, toPhone) \/ x = proc[p].push
      BY <2>1, InAppend, ZenonT(60) DEF TypeInv, WireOK
    <2>4. proc[p].push # None
      BY <2>1, Constants
    <2> QED BY <1>a, <2>1, <2>2, <2>3, <2>4 DEF BounceInv
  <1>9. ASSUME NEW p \in Procs, Requeue(p) PROVE BounceInv'
    <2>1. UNCHANGED toPhone
      BY <1>9 DEF Requeue, wireVars
    <2>2. \A q \in Procs : proc'[q].push # None => proc'[q].push = proc[q].push
      BY <1>9, <1>c, FinishMoves
    <2>3. "requeue" \notin causes' => clip.origin # "android"
      BY <1>9 DEF Requeue, If
    <2>4. clip'.origin = clip.origin /\ clip'.what = clip.what
      <3>1. \/ clip' = [clip EXCEPT !.pending = TRUE] /\ clip.what # None
            \/ clip' = clip
        BY <1>9 DEF Requeue
      <3>2. ClipOK(clip)
        BY DEF TypeInv, StoreOK
      <3> QED BY <3>1, <3>2, PendingOK
    <2>5. clip'.pending => clip.what # None
      BY <1>9, ClipFields DEF Requeue
    <2>6. "requeue" \notin causes' => (clip'.pending => clip'.origin = "mac")
      BY <2>3, <2>4, <2>5, ClipFields
    <2> QED BY <1>a, <2>1, <2>2, <2>6 DEF BounceInv
  <1>10. CASE WsIngest \/ PostIngest
    <2>1. UNCHANGED toPhone
      BY <1>10 DEF WsIngest, PostIngest
    <2>2. UNCHANGED <<clip, proc>> \/ \E p \in Procs, push \in Pushes : Adopts(p, push)
      BY <1>10, WsMoves, PostMoves, Constants
    <2>3. ASSUME NEW p \in Procs, NEW push \in Pushes, Adopts(p, push) PROVE BounceInv'
      BY <1>b, <1>e, <2>1, <2>3 DEF Adopts
    <2> QED BY <1>e, <2>1, <2>2, <2>3
  <1>11. CASE Connect
    <2>1. UNCHANGED <<clip, toPhone>>
      BY <1>11 DEF Connect, storeVars
    <2>2. \A q \in Procs : proc'[q].push # None => proc'[q].push = proc[q].push
      BY <1>11, <1>b, FlushMoves, Constants DEF Connect
    <2> QED BY <1>e, <2>1, <2>2
  <1>12. CASE MacRestarts
    <2>1. ~clip'.pending /\ toPhone' = <<>> /\ \A p \in Procs : proc'[p].push = None
      BY <1>12, Constants DEF MacRestarts, NoClip
    <2> QED BY <2>1, InEmpty DEF BounceInv
  <1> QED BY <1>1, <1>2, <1>3, <1>4, <1>5, <1>6, <1>7, <1>8, <1>9, <1>10, <1>11, <1>12, NextSplit

\* It holds in every state of every behaviour.
LEMMA BounceHolds == Spec => []BounceInv
  <1>1. Init => BounceInv
    <2> SUFFICES ASSUME Init PROVE BounceInv
      OBVIOUS
    <2>1. ~clip.pending /\ toPhone = <<>>
      BY DEF Init, NoClip
    <2>2. \A p \in Procs : proc[p].push = None
      BY DEF Init, Idle
    <2> QED BY <2>1, <2>2, InEmpty DEF BounceInv
  <1>2. TypeInv /\ BounceInv /\ [Next]_vars => BounceInv'
    BY NextBounceInv
  <1> QED BY <1>1, <1>2, TypesHold, PTL DEF Spec

\* The Mac never puts on the socket a copy that came from the phone, unless a
\* failed send was queued again after the phone's copy had been adopted.
THEOREM NeverBounces == Spec => []NoBounce
  <1>1. BounceInv => NoBounce
    BY DEF BounceInv, NoBounce, In
  <1> QED BY <1>1, BounceHolds, PTL

(***************************************************************************)
(* Unless it is typed into the pane, no text is empty.                     *)
(***************************************************************************)

FullPush(x) == x # None => x.what # Empty

FullMac ==
    board.what # Empty /\ watch.slot # Empty /\ \A t \in Tickers : tick[t] # Empty

FullProcs == \A p \in Procs : proc[p].what # Empty /\ FullPush(proc[p].push)

FullWire == FullPush(post.push) /\ \A x : In(x, toPhone) \/ In(x, toMac) => x.what # Empty

FullClips == clip.what # Empty /\ pclip.what # Empty /\ pdraft # Empty

Full == FullMac /\ FullProcs /\ FullWire /\ FullClips

NoEmpty == "typed" \notin causes => Full

\* A goroutine moves with content that is not empty.
LEMMA FullMoves ==
    ASSUME TypeInv, FullProcs, NEW p \in Procs, NEW x, Moves(p, x),
           x.what # Empty, FullPush(x.push)
    PROVE  FullProcs'
  <1>1. \A q \in Procs : proc'[q] = proc[q] \/ proc'[q] = x
    BY Moved
  <1> QED BY <1>1 DEF FullProcs, FullPush

\* The same by its fields.
LEMMA FullSt ==
    ASSUME TypeInv, FullProcs, NEW p \in Procs, NEW pc, NEW y, NEW w, NEW push,
           Moves(p, St(pc, y, w, push)), y # Empty, FullPush(push)
    PROVE  FullProcs'
  <1>1. St(pc, y, w, push).what = y /\ St(pc, y, w, push).push = push
    BY DEF St
  <1> QED BY <1>1, FullMoves

\* The phone sends a push that is not empty.
LEMMA FullSends ==
    ASSUME TypeInv, FullWire, NEW push \in Pushes, PhonePush(push), UNCHANGED <<up, toPhone>>,
           push.what # Empty
    PROVE  FullWire'
  <1>1. \/ post' = post /\ toMac' = Append(toMac, push)
        \/ UNCHANGED toMac /\ post'.push = push
    BY PhonePushOK
  <1>2. \A x : In(x, toMac') => In(x, toMac) \/ x = push
    BY <1>1, InAppend, ZenonT(60) DEF TypeInv, WireOK
  <1>3. FullPush(post'.push)
    BY <1>1 DEF FullWire, FullPush
  <1> QED BY <1>2, <1>3 DEF FullWire

\* Every step keeps it, but for a use of the pane.
LEMMA NextNoEmpty == TypeInv /\ NoEmpty /\ [Next]_vars => NoEmpty'
  <1> SUFFICES ASSUME TypeInv, NoEmpty, [Next]_vars, "typed" \notin causes' PROVE Full'
    BY DEF NoEmpty
  <1>a. FullMac /\ FullProcs /\ FullWire /\ FullClips
    BY NextCauses DEF NoEmpty, Full
  <1>b. /\ UNCHANGED watchVars => FullMac'
        /\ UNCHANGED proc => FullProcs'
        /\ UNCHANGED <<toPhone, toMac, post>> => FullWire'
        /\ clip'.what = clip.what /\ UNCHANGED <<pclip, pdraft>> => FullClips'
    BY <1>a DEF FullMac, FullProcs, FullWire, FullClips, watchVars
  <1>c. Empty # None /\ Idle.what = None /\ Idle.push = None /\ FullPush(None) /\ Timer \in Procs
    BY Constants DEF FullPush
  <1>d. \A p \in Procs : Moves(p, Idle) => FullProcs'
    BY <1>a, <1>c, FullMoves
  <1>e. tick \in [Tickers -> Contents \cup {None}]
    BY DEF TypeInv, WatchOK
  <1>1. CASE Watches
    <2>1. UNCHANGED <<storeVars, proc, wireVars, phoneVars>>
      BY <1>1 DEF Watches, MacCopy, TickRead, TickReadFails, TickStage
    <2>2. FullMac'
      <3>1. ASSUME NEW x \in Contents, MacCopy(x) PROVE FullMac'
        <4>1. x # Empty
          BY <3>1, ContentsAssumption DEF MacCopy
        <4> QED BY <1>a, <3>1, <4>1 DEF MacCopy, FullMac
      <3>2. ASSUME NEW t \in Tickers, TickRead(t) PROVE FullMac'
        <4>1. /\ board' = [board EXCEPT !.fresh = FALSE] /\ watch' = watch
              /\ tick' = [tick EXCEPT ![t] = board.what]
          BY <3>2 DEF TickRead
        <4>2. board'.what = board.what /\ \A u \in Tickers : tick'[u] \in {tick[u], board.what}
          BY <1>e, <4>1 DEF TypeInv, WatchOK
        <4> QED BY <1>a, <4>1, <4>2 DEF FullMac
      <3>3. ASSUME NEW t \in Tickers, TickReadFails(t) PROVE FullMac'
        <4>1. board'.what = board.what /\ UNCHANGED <<watch, tick>>
          BY <3>3 DEF TickReadFails, TypeInv, WatchOK
        <4> QED BY <1>a, <4>1 DEF FullMac
      <3>4. ASSUME NEW t \in Tickers, TickStage(t) PROVE FullMac'
        <4>1. /\ tick' = [tick EXCEPT ![t] = None] /\ board' = board
              /\ watch' = watch \/ watch' = [watch EXCEPT !.slot = tick[t]]
          BY <3>4 DEF TickStage
        <4>2. /\ watch'.slot \in {watch.slot, tick[t]}
              /\ \A u \in Tickers : tick'[u] \in {tick[u], None}
          BY <1>e, <4>1 DEF TypeInv, WatchOK
        <4> QED BY <1>a, <1>c, <4>1, <4>2 DEF FullMac
      <3> QED BY <1>1, <3>1, <3>2, <3>3, <3>4 DEF Watches
    <2> QED BY <1>b, <2>1, <2>2 DEF Full, storeVars, wireVars, phoneVars
  <1>2. CASE TimerFires
    <2>1. /\ UNCHANGED <<board, tick, clip, toPhone, toMac, post, pclip, pdraft>>
          /\ watch' = [watch EXCEPT !.slot = None]
      BY <1>2 DEF TimerFires, storeVars, wireVars, phoneVars
    <2>2. FullMac'
      BY <1>a, <1>c, <2>1 DEF FullMac, TypeInv, WatchOK
    <2>3. FullProcs'
      BY <1>2, <1>a, <1>c, TimerMoves, FullSt DEF FullMac
    <2> QED BY <1>b, <2>1, <2>2, <2>3 DEF Full
  <1>3. CASE TimerSets
    <2>1. /\ UNCHANGED <<board, tick, toPhone, toMac, post, pclip, pdraft>>
          /\ watch' \in {[watch EXCEPT !.image = Key[proc[Timer].what]],
                         [watch EXCEPT !.text = proc[Timer].what]}
      BY <1>3 DEF TimerSets, wireVars, phoneVars
    <2>2. FullMac'
      BY <1>a, <2>1 DEF FullMac, TypeInv, WatchOK
    <2>3. FullProcs'
      BY <1>3, <1>a, <1>c, <1>d, TimerMoves, FullSt
    <2>4. clip'.what \in {clip.what, proc[Timer].what}
      BY <1>3, TimerMoves, SetStore DEF TimerSets, storeVars
    <2>5. FullClips'
      BY <1>a, <1>c, <2>1, <2>4 DEF FullClips, FullProcs
    <2> QED BY <1>b, <2>1, <2>2, <2>3, <2>5 DEF Full
  <1>4. ASSUME NEW p \in Procs, Quietly(p) PROVE Full'
    <2>1. UNCHANGED <<clip, toPhone, toMac, post, pclip, pdraft>>
      BY <1>4 DEF Quietly, FlushNothing, PushClipboardCurrent, NoteRemote, WritePasteboard,
         WriteFails, TimerDrops, SetClipboardMode, storeVars, wireVars, phoneVars
    <2>2. FullMac'
      <3>1. CASE NoteRemote(p)
        <4>1. /\ UNCHANGED tick /\ board' = [board EXCEPT !.fresh = FALSE]
              /\ watch' \in {[watch EXCEPT !.image = Key[proc[p].what], !.slot = None],
                             [watch EXCEPT !.text = proc[p].what, !.slot = None]}
          BY <3>1 DEF NoteRemote
        <4> QED BY <1>a, <1>c, <4>1 DEF FullMac, TypeInv, WatchOK
      <3>2. CASE WritePasteboard(p)
        BY <1>a, <3>2 DEF WritePasteboard, FullMac, FullProcs
      <3>3. CASE ~NoteRemote(p) /\ ~WritePasteboard(p)
        BY <1>4, <1>b, <3>3 DEF Quietly, FlushNothing, PushClipboardCurrent, WriteFails,
           TimerDrops, SetClipboardMode
      <3> QED BY <3>1, <3>2, <3>3
    <2>3. FullProcs'
      <3>1. CASE \E m \in Modes : SetClipboardMode(p, m)
        BY <1>a, <1>c, <3>1, FlushMoves, FullSt DEF SetClipboardMode
      <3>2. CASE \/ FlushNothing(p) \/ WritePasteboard(p) \/ WriteFails(p)
                 \/ p = Timer /\ TimerDrops
        BY <1>d, <3>2, FinishMoves
      <3>3. CASE PushClipboardCurrent(p)
        BY <1>a, <1>c, <3>3, CurrentMoves, FullSt DEF FullMac
      <3>4. CASE NoteRemote(p)
        BY <1>a, <1>c, <3>4, NoteMoves, FullSt DEF FullProcs
      <3> QED BY <1>4, <3>1, <3>2, <3>3, <3>4 DEF Quietly
    <2> QED BY <1>b, <2>1, <2>2, <2>3 DEF Full
  <1>5. ASSUME NEW p \in Procs, TakePending(p) \/ PushTakes(p) PROVE Full'
    <2>1. PICK push \in Pushes : /\ push.what \in {clip.what, proc[p].what}
                                 /\ Moves(p, St("send", None, 0, push))
      <3>1. CASE TakePending(p)
        BY <3>1, TakeMoves, ClipFields, PushOK
      <3>2. CASE PushTakes(p)
        BY <3>2, PushTakesMoves
      <3> QED BY <1>5, <3>1, <3>2
    <2>2. push.what # Empty
      BY <1>a, <2>1 DEF FullClips, FullProcs
    <2>3. FullProcs'
      BY <1>a, <1>c, <2>1, <2>2, FullSt DEF FullPush
    <2>4. /\ UNCHANGED <<watchVars, toPhone, toMac, post, pclip, pdraft>>
          /\ clip' = [clip EXCEPT !.pending = FALSE]
      BY <1>5 DEF TakePending, PushTakes, wireVars, phoneVars
    <2>5. clip'.what = clip.what
      BY <2>4, ClipFields DEF Clips
    <2> QED BY <1>b, <2>3, <2>4, <2>5 DEF Full
  <1>6. ASSUME NEW p \in Procs, Send(p) PROVE Full'
    <2>1. /\ UNCHANGED <<watchVars, clip, toMac, post, pclip, pdraft>>
          /\ toPhone' \in {toPhone, Append(toPhone, proc[p].push)} /\ proc[p].push \in Pushes
      BY <1>6, SendMoves DEF Send, storeVars, phoneVars
    <2>2. FullPush(proc[p].push) /\ proc[p].push.what # Empty
      BY <1>a, <2>1, Constants DEF FullProcs, FullPush
    <2>3. FullProcs'
      BY <1>6, <1>a, <1>c, <1>d, <2>2, SendMoves, FullSt
    <2>4. \A x : In(x, toPhone') => In(x, toPhone) \/ x = proc[p].push
      <3>1. toPhone \in Seq(Pushes) /\ proc[p].push \in Pushes
        BY <2>1 DEF TypeInv, WireOK
      <3>2. CASE toPhone' = toPhone
        BY <3>2
      <3>3. CASE toPhone' = Append(toPhone, proc[p].push)
        BY <3>1, <3>3, InAppend
      <3> QED BY <2>1, <3>2, <3>3
    <2>5. FullWire'
      BY <1>a, <2>1, <2>2, <2>4 DEF FullWire
    <2> QED BY <1>b, <2>1, <2>3, <2>5 DEF Full
  <1>7. ASSUME NEW p \in Procs, Requeue(p) PROVE Full'
    <2>1. /\ UNCHANGED <<watchVars, toPhone, toMac, post, pclip, pdraft>>
          /\ clip' = [clip EXCEPT !.pending = TRUE] \/ clip' = clip
      BY <1>7 DEF Requeue, wireVars, phoneVars
    <2>2. clip'.what = clip.what
      BY <2>1, ClipFields DEF Clips
    <2> QED BY <1>7, <1>b, <1>d, <2>1, <2>2, FinishMoves DEF Full
  <1>8. ASSUME NEW p \in Procs, PushSets(p) PROVE Full'
    <2>1. UNCHANGED <<watchVars, toPhone, toMac, post, pclip, pdraft>>
      BY <1>8 DEF PushSets, wireVars, phoneVars
    <2>2. now \in Nat /\ proc[p].what \in Contents
      BY <1>8, SetsMoves, BoundsAssumption DEF TypeInv, CountOK
    <2>3. clip'.what \in {clip.what, proc[p].what} /\ proc[p].what # Empty
      BY <1>8, <1>a, <2>2, SetStore DEF PushSets, FullProcs, storeVars
    <2>4. FullClips'
      BY <1>a, <2>1, <2>3 DEF FullClips
    <2>5. FullProcs'
      BY <1>8, <1>a, <1>c, <2>3, SetsMoves, FullSt
    <2> QED BY <1>b, <2>1, <2>4, <2>5 DEF Full
  <1>9. ASSUME NEW p \in Procs, NEW x \in Contents, PushGiven(p, x) PROVE Full'
    BY <1>9 DEF PushGiven
  <1>10. CASE WsIngest \/ PostIngest
    <2>1. /\ UNCHANGED <<watchVars, toPhone, pclip, pdraft>>
          /\ toMac' = toMac \/ (toMac # <<>> /\ toMac' = Tail(toMac))
          /\ post' = post \/ post' = [post EXCEPT !.pc = "handled"]
      BY <1>10 DEF WsIngest, PostIngest, phoneVars
    <2>2. toMac \in Seq(Pushes)
      BY DEF TypeInv, WireOK
    <2>3. post'.push = post.push
      BY <2>1 DEF TypeInv, SendsOK
    <2>4. \A x : In(x, toMac') => In(x, toMac)
      BY <2>1, <2>2, InTail
    <2>5. FullWire'
      BY <1>a, <2>1, <2>3, <2>4 DEF FullWire
    <2>6. FullProcs' /\ FullClips'
      <3>1. CASE UNCHANGED <<clip, hlc, proc>>
        BY <1>b, <2>1, <3>1
      <3>2. ASSUME NEW p \in Procs, NEW push \in Pushes, Adopts(p, push), push.what # Empty
            PROVE  FullProcs' /\ FullClips'
        <4>1. FullProcs'
          BY <1>a, <1>c, <3>2, FullSt DEF Adopts
        <4>2. FullClips'
          BY <1>a, <2>1, <3>2 DEF Adopts, FullClips
        <4> QED BY <4>1, <4>2
      <3>3. CASE WsIngest
        <4>1. toMac # <<>> /\ Head(toMac) \in Pushes
          BY <3>3, WsMoves DEF WsIngest
        <4>2. Head(toMac).what # Empty
          BY <1>a, <2>2, <4>1, InTail DEF FullWire
        <4> QED BY <3>1, <3>2, <3>3, <4>1, <4>2, WsMoves, Constants
      <3>4. CASE PostIngest
        <4>1. post.push \in Pushes /\ post.push.what # Empty
          BY <1>a, <3>4, PostMoves, Constants DEF FullWire, FullPush
        <4> QED BY <3>1, <3>2, <3>4, <4>1, PostMoves, Constants
      <3> QED BY <1>10, <3>3, <3>4
    <2> QED BY <1>b, <2>1, <2>5, <2>6 DEF Full
  <1>11. CASE Connect
    <2>1. UNCHANGED <<watchVars, clip, toPhone, toMac, post, pclip, pdraft>>
      BY <1>11 DEF Connect, storeVars, phoneVars
    <2>2. FullProcs'
      BY <1>11, <1>a, <1>c, FlushMoves, FullSt, Constants DEF Connect
    <2> QED BY <1>b, <2>1, <2>2 DEF Full
  <1>12. CASE Disconnect \/ MacRestarts
    <2>1. toPhone' = <<>> /\ toMac' = <<>> /\ UNCHANGED <<post, pclip, pdraft>>
      BY <1>12 DEF Disconnect, MacRestarts, phoneVars
    <2>2. FullWire'
      BY <1>a, <2>1, InEmpty DEF FullWire
    <2>3. CASE Disconnect
      BY <1>b, <2>1, <2>2, <2>3 DEF Disconnect, Full, storeVars
    <2>4. CASE MacRestarts
      <3>1. /\ board' = [board EXCEPT !.fresh = TRUE]
            /\ watch' = [text |-> None, image |-> None, slot |-> None]
            /\ tick' = [t \in Tickers |-> None] /\ clip' = NoClip
            /\ proc' = [p \in Procs |-> Idle]
        BY <2>4 DEF MacRestarts
      <3>2. FullMac'
        BY <1>a, <1>c, <3>1 DEF FullMac, TypeInv, WatchOK
      <3>3. FullProcs'
        BY <1>c, <3>1 DEF FullProcs
      <3>4. FullClips'
        BY <1>a, <1>c, <2>1, <3>1 DEF FullClips, NoClip
      <3> QED BY <2>2, <3>2, <3>3, <3>4 DEF Full
    <2> QED BY <1>12, <2>3, <2>4
  <1>13. CASE PhoneActs
    <2>1. UNCHANGED <<watchVars, clip, proc>>
      BY <1>13 DEF PhoneActs, PhoneEdits, PhoneCopy, PhoneRefresh, PhoneDropsDraft, PhoneWrites,
         PhoneWriteFails, PhoneFlushAuto, PhoneFlushClip, PhoneSent, PostFails, PhoneReceive,
         PhoneSetsMode, storeVars
    <2>2. FullMac' /\ FullProcs'
      BY <1>b, <2>1
    <2>3. FullWire' /\ FullClips'
      <3>1. CASE PhoneEdits
        <4>1. UNCHANGED <<toPhone, toMac, post, pclip>>
          BY <3>1 DEF PhoneEdits, PhoneCopy, PhoneRefresh, PhoneDropsDraft, PhoneWrites,
             PhoneWriteFails, wireVars
        <4>2. pdraft' # Empty
          BY <1>a, <1>c, <3>1 DEF PhoneEdits, PhoneCopy, PhoneRefresh, PhoneDropsDraft,
             PhoneWrites, PhoneWriteFails, Draft, FullClips
        <4> QED BY <1>a, <1>b, <2>1, <4>1, <4>2 DEF FullClips
      <3>2. CASE PhoneFlushAuto
        <4>1. pdraft' = None /\ UNCHANGED <<up, toPhone>>
          BY <3>2, FlushAutoMoves
        <4>2. CASE UNCHANGED <<pclip, psends, toMac, post>>
          BY <1>a, <1>b, <1>c, <2>1, <4>1, <4>2 DEF FullClips
        <4>3. CASE /\ pclip'.what = pdraft /\ pclip'.what # None /\ pclip' \in Clips
                   /\ pclip'.origin = "android"
                   /\ PhonePush(AsPush(pclip')) \/ (~up /\ UNCHANGED <<psends, toMac, post>>)
          <5>1. FullClips'
            BY <1>a, <1>c, <2>1, <4>1, <4>3 DEF FullClips
          <5>2. PICK push : push = AsPush(pclip')
            OBVIOUS
          <5>3. push \in Pushes /\ push.what # Empty
            BY <1>a, <4>3, <5>2, PushOK DEF FullClips
          <5>4. PhonePush(push) => FullWire'
            BY <1>a, <4>1, <5>3, FullSends
          <5> QED BY <1>b, <4>1, <4>3, <5>1, <5>2, <5>4
        <4> QED BY <3>2, <4>2, <4>3, FlushAutoMoves
      <3>3. CASE PhoneFlushClip
        <4>1. /\ pclip.pending /\ UNCHANGED <<up, toPhone, pdraft>>
              /\ \/ PhonePush(AsPush(pclip)) /\ UNCHANGED pclip
                 \/ /\ pclip' = [pclip EXCEPT !.pending = FALSE]
                    /\ UNCHANGED <<toMac, post>>
          BY <3>3 DEF PhoneFlushClip
        <4>2. pclip'.what = pclip.what
          BY <4>1, ClipFields DEF Clips
        <4>3. FullClips'
          BY <1>a, <2>1, <4>1, <4>2 DEF FullClips
        <4>4. AsPush(pclip) \in Pushes /\ AsPush(pclip).what # Empty
          BY <1>a, <4>1, ClipFields, PushOK DEF FullClips
        <4>5. PhonePush(AsPush(pclip)) => FullWire'
          BY <1>a, <4>1, <4>4, FullSends
        <4> QED BY <1>b, <4>1, <4>3, <4>5
      <3>4. CASE PhoneSent \/ PostFails
        <4>1. /\ UNCHANGED <<toPhone, toMac, pdraft>>
              /\ post' = post \/ post' = [pc |-> "none", push |-> None]
              /\ \/ pclip' = [pclip EXCEPT !.pending = FALSE]
                 \/ pclip' = [pclip EXCEPT !.pending = TRUE]
          BY <3>4 DEF PhoneSent, PostFails
        <4>2. pclip'.what = pclip.what
          BY <4>1, ClipFields DEF Clips
        <4>3. FullWire'
          BY <1>a, <1>c, <4>1 DEF FullWire
        <4> QED BY <1>a, <2>1, <4>1, <4>2, <4>3 DEF FullClips
      <3>5. CASE PhoneReceive
        <4>1. /\ toPhone # <<>> /\ Head(toPhone) \in Pushes /\ toPhone' = Tail(toPhone)
              /\ UNCHANGED <<toMac, post, pdraft>>
              /\ pclip' = pclip \/ pclip'.what = Head(toPhone).what
          BY <3>5, ReceiveMoves
        <4>2. \A x : In(x, toPhone) <=> x = Head(toPhone) \/ In(x, toPhone')
          BY <4>1, InTail DEF TypeInv, WireOK
        <4>3. FullWire'
          BY <1>a, <4>1, <4>2 DEF FullWire
        <4>4. FullClips'
          BY <1>a, <2>1, <4>1, <4>2 DEF FullClips, FullWire
        <4> QED BY <4>3, <4>4
      <3>6. ASSUME NEW m \in Modes, PhoneSetsMode(m) PROVE FullWire' /\ FullClips'
        BY <1>b, <2>1, <3>6 DEF PhoneSetsMode, wireVars, phoneVars
      <3> QED BY <1>13, <3>1, <3>2, <3>3, <3>4, <3>5, <3>6 DEF PhoneActs
    <2> QED BY <2>2, <2>3 DEF Full
  <1>14. CASE Tick \/ UNCHANGED vars
    BY <1>14, <1>b DEF Tick, vars, Full, storeVars, wireVars, phoneVars
  <1> QED BY <1>1, <1>2, <1>3, <1>4, <1>5, <1>6, <1>7, <1>8, <1>9, <1>10, <1>11, <1>12, <1>13,
     <1>14, NextSplit

\* It holds in every state of every behaviour.
LEMMA NoEmptyHolds == Spec => []NoEmpty
  <1>1. Init => NoEmpty
    <2> SUFFICES ASSUME Init PROVE Full
      BY DEF NoEmpty
    <2>1. Empty # None
      BY Constants
    <2>2. FullMac /\ FullProcs /\ FullClips
      BY <2>1 DEF Init, NoClip, Idle, FullMac, FullProcs, FullClips, FullPush
    <2>3. FullWire
      BY InEmpty DEF Init, FullWire, FullPush
    <2> QED BY <2>2, <2>3 DEF Full
  <1>2. TypeInv /\ NoEmpty /\ [Next]_vars => NoEmpty'
    BY NextNoEmpty
  <1> QED BY <1>1, <1>2, TypesHold, PTL DEF Spec

(***************************************************************************)
(* When nothing is under way each side's clipboard holds that side's clip. *)
(***************************************************************************)

\* No cause BoardsMatch excepts has occurred.
BoardsGood ==
    causes \cap {"write", "unread", "crossed", "repeat", "mode", "typed"} = {}

\* What the debounce timer brings the store to, if nothing more is read.
Fetched(x) ==
    IF watch.slot # None THEN watch.slot = x
    ELSE IF proc[Timer].pc = "set" THEN proc[Timer].what = x
    ELSE clip.what = x

\* Content x is there, and looks to the watcher like y.
Alike(x, y) == x # None /\ Key[x] = Key[y]

\* Content x is in the store, or will be: the watcher has yet to see it and
\* will stage it, a pass that will stage it has read it, or it is past that.
Coming(x) ==
    \/ Fetched(x)
    \/ /\ x # None
       /\ \/ board.fresh /\ ~Handled(x)
          \/ /\ LastOf(x) # Key[x] /\ ~Alike(watch.slot, x) /\ ~Alike(proc[Timer].what, x)
             /\ \E t \in Tickers : tick[t] = x

Remote(st) == st.pc \in {"note", "write"}

\* The Mac's side.  A copy of the phone's that is on its way to the pasteboard
\* is the clip, is alone, and nothing that was read from the pasteboard can
\* overtake it; otherwise what is on the pasteboard is on its way to the store.
MacBoard ==
    /\ \A p \in Procs : Remote(proc[p]) =>
         /\ proc[p].what = clip.what /\ ~LocalBusy
         /\ proc[p].pc = "write" => watch.slot = None
    /\ \A p, q \in Procs : Remote(proc[p]) /\ Remote(proc[q]) => p = q
    /\ board.what = None => ~LocalBusy /\ watch.slot = None
    /\ RemoteBusy \/ Coming(board.what)

\* The phone's: one write is awaited, of the clip's content; otherwise the
\* clipboard holds the draft or the clip, but for the spaces around a text.
PhoneBoard ==
    /\ pdraft # None => Trim[pdraft] = pdraft
    /\ IF pwrites = <<>>
       THEN AsDrafted(pboard) = IF pdraft # None THEN pdraft ELSE AsDrafted(pclip.what)
       ELSE Tail(pwrites) = <<>> /\ Head(pwrites) = pclip.what /\ pdraft = None

BoardInv == BoardsGood => MacBoard /\ PhoneBoard

\* What is busy, by the goroutines' states.
LEMMA BusyIs ==
    /\ LocalBusy <=> (\E t \in Tickers : tick[t] # None) \/ \E p \in Procs : proc[p].pc = "set"
    /\ RemoteBusy <=> \E p \in Procs : Remote(proc[p])
  BY DEF LocalBusy, RemoteBusy, At, Remote

\* What the watcher will not look at again.
LEMMA HandledIs ==
    ASSUME NEW x
    PROVE  Handled(x) <=> \/ LastOf(x) = Key[x]
                          \/ Alike(watch.slot, x) \/ Alike(proc[Timer].what, x)
                          \/ \E t \in Tickers : Alike(tick[t], x)
  BY DEF Handled, Alike

\* A step that leaves the pasteboard, the watcher and the clip's content alone,
\* and moves goroutines that neither fetch nor write.
LEMMA BoardFrame ==
    ASSUME TypeInv, MacBoard, UNCHANGED <<board, watch, tick>>, clip'.what = clip.what,
           \A p \in Procs : \/ proc'[p] = proc[p]
                            \/ /\ ~Remote(proc[p]) /\ proc[p].pc # "set"
                               /\ ~Remote(proc'[p]) /\ proc'[p].pc # "set"
                               /\ proc'[p].what = None
    PROVE  MacBoard'
  <1>1. LocalBusy' => LocalBusy
    BY BusyIs DEF LocalBusy, At
  <1>2. RemoteBusy' <=> RemoteBusy
    BY DEF RemoteBusy, Remote
  <1>3. Timer \in Procs
    BY Constants
  <1>4. Coming(board.what) => Coming(board.what)'
    <2>1. ASSUME NEW x PROVE Fetched(x) => Fetched(x)'
      BY <1>3 DEF Fetched
    <2>2. ASSUME NEW x, ~Handled(x) PROVE ~Handled(x)'
      BY <1>3, <2>2 DEF Handled, LastOf
    <2>3. ASSUME NEW x, ~Alike(proc[Timer].what, x) PROVE ~Alike(proc'[Timer].what, x)
      BY <1>3, <2>3 DEF Alike
    <2>4. PICK x : x = board.what
      OBVIOUS
    <2>5. Coming(x) => Coming(x)'
      BY <2>1, <2>2, <2>3 DEF Coming, LastOf
    <2>6. Coming(board.what)' <=> Coming(x)'
      BY <2>4 DEF Coming, Fetched, Handled, LastOf
    <2> QED BY <2>4, <2>5, <2>6
  <1>5. /\ \A p \in Procs : Remote(proc'[p]) => proc'[p] = proc[p]
        /\ \A p \in Procs : Remote(proc'[p]) =>
             /\ proc'[p].what = clip'.what
             /\ proc'[p].pc = "write" => watch'.slot = None
             /\ ~LocalBusy
    BY DEF MacBoard
  <1>6. \A p, q \in Procs : Remote(proc'[p]) /\ Remote(proc'[q]) => p = q
    BY <1>5 DEF MacBoard
  <1>7. board'.what = None => ~LocalBusy' /\ watch'.slot = None
    BY <1>1 DEF MacBoard
  <1>8. RemoteBusy' \/ Coming(board.what)'
    BY <1>2, <1>4 DEF MacBoard
  <1> QED BY <1>1, <1>5, <1>6, <1>7, <1>8 DEF MacBoard, Remote

\* The same, for one goroutine that moves.
LEMMA BoardMoved ==
    ASSUME TypeInv, MacBoard, UNCHANGED <<board, watch, tick>>, clip'.what = clip.what,
           NEW p \in Procs, NEW st, Moves(p, st),
           ~Remote(proc[p]), proc[p].pc # "set", ~Remote(st), st.pc # "set", st.what = None
    PROVE  MacBoard'
  BY Moved, BoardFrame

\* The user's copies and the passes of the watcher.
LEMMA WatchBoard ==
    ASSUME TypeInv, MacBoard, board.what # Empty, Watches, BoardsGood'
    PROVE  MacBoard'
  <1>1. \A c \in {"unread", "crossed", "repeat"} : c \notin causes'
    BY DEF BoardsGood
  <1>2. UNCHANGED <<clip, proc>>
    BY DEF Watches, MacCopy, TickRead, TickReadFails, TickStage, storeVars
  <1>3. Timer \in Procs /\ tick \in [Tickers -> Contents \cup {None}]
    BY Constants DEF TypeInv, WatchOK
  <1>4. RemoteBusy' <=> RemoteBusy
    BY <1>2 DEF RemoteBusy, At
  <1>5. ASSUME ~RemoteBusy, board'.what # None \/ (~LocalBusy' /\ watch'.slot = None),
               Coming(board.what)'
        PROVE  MacBoard'
    <2>1. \A p \in Procs : ~Remote(proc'[p])
      BY <1>2, <1>5, BusyIs
    <2> QED BY <1>5, <2>1 DEF MacBoard, Remote
  <1>6. ASSUME NEW x \in Contents, MacCopy(x) PROVE MacBoard'
    <2>1. /\ board'.what = x /\ board'.fresh /\ UNCHANGED <<watch, tick>> /\ x # None
          /\ x # board.what => ~Handled(x)
      BY <1>1, <1>6, Constants DEF MacCopy, If
    <2>2. LocalBusy' <=> LocalBusy
      BY <1>2, <2>1 DEF LocalBusy, At
    <2>3. Coming(board.what) => Coming(board.what)'
      <3>1. CASE x = board.what
        BY <1>2, <2>1, <3>1 DEF Coming, Fetched, Handled, LastOf
      <3>2. CASE x # board.what
        BY <1>2, <2>1, <3>2 DEF Coming, Handled, LastOf
      <3> QED BY <3>1, <3>2
    <2> QED BY <1>2, <1>4, <2>1, <2>2, <2>3 DEF MacBoard, Remote
  <1>7. ASSUME NEW t \in Tickers, TickRead(t) PROVE MacBoard'
    <2>1. /\ board' = [board EXCEPT !.fresh = FALSE] /\ watch' = watch /\ tick[t] = None
          /\ tick' = [tick EXCEPT ![t] = board.what] /\ ~RemoteBusy
      BY <1>1, <1>7 DEF TickRead, If
    <2>2. /\ board'.what = board.what
          /\ tick'[t] = board.what /\ \A u \in Tickers \ {t} : tick'[u] = tick[u]
      BY <1>3, <2>1 DEF TypeInv, WatchOK
    <2>3. board'.what # None \/ (~LocalBusy' /\ watch'.slot = None)
      BY <1>2, <2>1, <2>2, BusyIs DEF MacBoard, LocalBusy, At
    <2>4. Coming(board.what)'
      <3>1. PICK x : x = board.what
        OBVIOUS
      <3>2. CASE Fetched(x)
        BY <1>2, <2>1, <2>2, <3>1, <3>2 DEF Coming, Fetched
      <3>3. CASE x # None /\ ~Handled(x)
        <4>1. LastOf(x) # Key[x] /\ ~Alike(watch.slot, x) /\ ~Alike(proc[Timer].what, x)
          BY <3>3, HandledIs
        <4> QED BY <1>2, <2>1, <2>2, <3>1, <3>3, <4>1 DEF Coming, LastOf
      <3>4. CASE /\ x # None
                 /\ LastOf(x) # Key[x] /\ ~Alike(watch.slot, x) /\ ~Alike(proc[Timer].what, x)
                 /\ \E u \in Tickers : tick[u] = x
        <4>1. \E u \in Tickers : tick'[u] = x
          BY <2>1, <2>2, <3>4
        <4> QED BY <1>2, <2>1, <2>2, <3>1, <3>4, <4>1 DEF Coming, LastOf
      <3> QED BY <2>1, <3>1, <3>2, <3>3, <3>4 DEF MacBoard, Coming
    <2> QED BY <1>5, <2>1, <2>3, <2>4
  <1>8. ASSUME NEW t \in Tickers, TickReadFails(t) PROVE MacBoard'
    BY <1>1, <1>8 DEF TickReadFails
  <1>9. ASSUME NEW t \in Tickers, TickStage(t) PROVE MacBoard'
    <2>1. PICK y : y = tick[t]
      OBVIOUS
    <2>2. /\ y # None /\ board' = board /\ tick' = [tick EXCEPT ![t] = None]
          /\ \/ (y = Empty \/ LastOf(y) = Key[y]) /\ watch' = watch
             \/ watch' = [watch EXCEPT !.slot = y] /\ ~Overtaken(y)
      BY <1>1, <1>9, <2>1 DEF TickStage, If
    <2>3. LocalBusy /\ ~RemoteBusy
      BY <2>1, <2>2, BusyIs DEF MacBoard
    <2>4. tick'[t] = None /\ \A u \in Tickers \ {t} : tick'[u] = tick[u]
      BY <1>3, <2>2
    <2>5. /\ watch'.text = watch.text /\ watch'.image = watch.image
          /\ \/ (y = Empty \/ LastOf(y) = Key[y]) /\ watch'.slot = watch.slot
             \/ watch'.slot = y /\ ~Overtaken(y)
      BY <2>2 DEF TypeInv, WatchOK
    <2>6. PICK x : x = board.what
      OBVIOUS
    <2>7. x # None
      BY <2>3, <2>6 DEF MacBoard
    <2>8. Coming(x)
      BY <2>3, <2>6 DEF MacBoard
    <2>9. LastOf(x)' = LastOf(x)
      BY <2>5 DEF LastOf
    <2>10. ASSUME ~Handled(x), Key[x] # Key[y] \/ watch'.slot = watch.slot PROVE ~Handled(x)'
      <3>1. /\ LastOf(x)' # Key[x] /\ ~Alike(watch'.slot, x) /\ ~Alike(proc'[Timer].what, x)
        BY <1>2, <2>5, <2>9, <2>10, HandledIs DEF Alike
      <3>2. \A u \in Tickers : ~Alike(tick'[u], x)
        BY <2>4, <2>10, HandledIs DEF Alike
      <3> QED BY <3>1, <3>2 DEF Handled, Alike
    <2>11. Coming(x)'
      <3>1. CASE (y = Empty \/ LastOf(y) = Key[y]) /\ watch'.slot = watch.slot
        <4>1. Fetched(x) => Fetched(x)'
          BY <1>2, <3>1 DEF Fetched
        <4>2. LastOf(x) # Key[x] => \A u \in Tickers : tick[u] = x => tick'[u] = x
          BY <2>1, <2>4, <2>6, <3>1
        <4> QED BY <1>2, <2>2, <2>7, <2>8, <2>9, <2>10, <3>1, <4>1, <4>2 DEF Coming
      <3>2. CASE watch'.slot = y /\ x = y
        BY <2>2, <3>2 DEF Coming, Fetched
      <3>3. CASE watch'.slot = y /\ ~Overtaken(y) /\ x # y
        <4>1. board.fresh /\ ~Handled(x)
          BY <2>6, <3>3 DEF Overtaken
        <4>2. Key[x] # Key[y]
          BY <2>1, <2>2, <4>1, HandledIs DEF Alike
        <4> QED BY <2>2, <2>7, <2>10, <4>1, <4>2 DEF Coming
      <3> QED BY <2>5, <3>1, <3>2, <3>3
    <2>12. Coming(board.what)' <=> Coming(x)'
      BY <2>2, <2>6 DEF Coming, Fetched, Handled, LastOf
    <2> QED BY <1>5, <2>2, <2>3, <2>6, <2>7, <2>11, <2>12
  <1> QED BY <1>6, <1>7, <1>8, <1>9 DEF Watches

\* The debounce timer.
LEMMA TimerBoard ==
    ASSUME TypeInv, MacBoard, TimerFires \/ TimerSets, BoardsGood'
    PROVE  MacBoard'
  <1>1. "crossed" \notin causes'
    BY DEF BoardsGood
  <1>2. ~RemoteBusy /\ UNCHANGED <<board, tick>>
    BY <1>1 DEF TimerFires, TimerSets, If
  <1>3. Timer \in Procs /\ tick \in [Tickers -> Contents \cup {None}]
    BY Constants DEF TypeInv, WatchOK
  <1>4. PICK x : x = board.what
    OBVIOUS
  <1>5. Coming(x)
    BY <1>2, <1>4 DEF MacBoard
  <1>6. Coming(board.what)' <=> Coming(x)'
    BY <1>2, <1>4 DEF Coming, Fetched, Handled, LastOf
  <1>7. ASSUME \A p \in Procs : proc'[p] = proc[p] \/ ~Remote(proc'[p]),
               x # None, Coming(x)'
        PROVE  MacBoard'
    <2>1. \A p \in Procs : ~Remote(proc'[p])
      BY <1>2, <1>7, BusyIs
    <2> QED BY <1>2, <1>4, <1>6, <1>7, <2>1 DEF MacBoard, Remote
  <1>8. CASE TimerFires
    <2>1. PICK w \in Nat : Moves(Timer, St("set", watch.slot, w, None))
      BY <1>8, TimerMoves
    <2>2. /\ proc'[Timer].pc = "set" /\ proc'[Timer].what = watch.slot
          /\ \A p \in Procs \ {Timer} : proc'[p] = proc[p]
      BY <1>3, <2>1, Moved DEF St
    <2>3. watch' = [watch EXCEPT !.slot = None] /\ watch.slot # None /\ UNCHANGED clip
      BY <1>8 DEF TimerFires, storeVars
    <2>4. watch'.text = watch.text /\ watch'.image = watch.image /\ watch'.slot = None
      BY <2>3 DEF TypeInv, WatchOK
    <2>5. x # None
      BY <1>4, <2>3 DEF MacBoard
    <2>6. LastOf(x)' = LastOf(x)
      BY <2>4 DEF LastOf
    <2>7. Coming(x)'
      <3>1. CASE x = watch.slot
        BY <2>2, <2>4, <3>1 DEF Coming, Fetched
      <3>2. CASE x # watch.slot
        <4>1. ~Fetched(x)
          BY <2>3, <3>2 DEF Fetched
        <4>2. ~Handled(x) => ~Handled(x)'
          BY <1>2, <2>2, <2>4, <2>6 DEF Handled
        <4>3. ~Alike(None, x)
          BY DEF Alike
        <4> QED BY <1>2, <1>5, <2>2, <2>4, <2>5, <2>6, <4>1, <4>2, <4>3 DEF Coming
      <3> QED BY <3>1, <3>2
    <2> QED BY <1>7, <2>2, <2>5, <2>7 DEF Remote
  <1>9. CASE TimerSets
    <2>1. PICK y \in Contents : y = proc[Timer].what
      BY <1>9, TimerMoves
    <2>2. /\ proc'[Timer].pc \in {"idle", "flush"} /\ proc'[Timer].what = None
          /\ \A p \in Procs \ {Timer} : proc'[p] = proc[p]
      BY <1>3, <1>9, TimerMoves, Moved, Constants DEF St
    <2>3. clip'.what = y
      BY <1>9, <2>1, TimerMoves, SetStore DEF TimerSets, storeVars
    <2>4. /\ proc[Timer].pc = "set"
          /\ watch' = IF y \in Images THEN [watch EXCEPT !.image = Key[y]]
                                      ELSE [watch EXCEPT !.text = Key[y]]
      BY <1>9, <2>1, Constants DEF TimerSets, At
    <2>5. watch'.slot = watch.slot /\ (LastOf(x)' = LastOf(x) \/ LastOf(x)' = Key[y])
      BY <2>4 DEF TypeInv, WatchOK, LastOf
    <2>6. x # None
      BY <1>3, <1>4, <2>4, BusyIs DEF MacBoard
    <2>7. Coming(x)'
      <3>1. CASE Fetched(x)
        BY <2>1, <2>2, <2>3, <2>4, <2>5, <3>1 DEF Coming, Fetched
      <3>2. ASSUME Key[y] # Key[x], ~Handled(x) PROVE ~Handled(x)'
        BY <1>2, <2>2, <2>5, <3>2 DEF Handled
      <3>3. ~Handled(x) \/ ~Alike(proc[Timer].what, x) => Key[y] # Key[x]
        BY <2>1, Constants, HandledIs DEF Alike
      <3>4. ~Alike(None, x)
        BY DEF Alike
      <3>5. CASE board.fresh /\ ~Handled(x)
        BY <1>2, <2>6, <3>2, <3>3, <3>5 DEF Coming
      <3>6. CASE /\ LastOf(x) # Key[x] /\ ~Alike(watch.slot, x) /\ ~Alike(proc[Timer].what, x)
                 /\ \E t \in Tickers : tick[t] = x
        <4>1. LastOf(x)' # Key[x]
          BY <2>5, <3>3, <3>6
        <4> QED BY <1>2, <2>2, <2>5, <2>6, <3>4, <3>6, <4>1 DEF Coming
      <3> QED BY <1>5, <3>1, <3>5, <3>6 DEF Coming
    <2> QED BY <1>7, <2>2, <2>6, <2>7 DEF Remote
  <1> QED BY <1>8, <1>9

\* PushClipboardCurrent reads the pasteboard.
LEMMA CurrentBoard ==
    ASSUME TypeInv, MacBoard, NEW p \in Procs, PushClipboardCurrent(p), BoardsGood'
    PROVE  MacBoard'
  <1>1. /\ ~RemoteBusy /\ UNCHANGED <<board, watch, tick, clip>> /\ board.what # None
        /\ p \in Users
    BY DEF BoardsGood, PushClipboardCurrent, If, watchVars, storeVars
  <1>2. Timer \in Procs /\ p # Timer
    BY <1>1, Constants, ProcsAssumption
  <1>3. /\ proc'[p].pc = "set" /\ \A q \in Procs \ {p} : proc'[q] = proc[q]
    BY CurrentMoves, Moved DEF St
  <1>4. \A q \in Procs : ~Remote(proc'[q])
    BY <1>1, <1>3, BusyIs DEF Remote
  <1>5. proc'[Timer] = proc[Timer]
    BY <1>2, <1>3
  <1>6. Coming(board.what)' <=> Coming(board.what)
    BY <1>1, <1>5 DEF Coming, Fetched, Handled, LastOf
  <1> QED BY <1>1, <1>4, <1>6 DEF MacBoard, Remote

\* What it read is staged: it is still on the pasteboard, or what is there now
\* will be looked at.
LEMMA SetsBoard ==
    ASSUME TypeInv, MacBoard, NEW p \in Procs, PushSets(p), BoardsGood'
    PROVE  MacBoard'
  <1>1. /\ ~RemoteBusy /\ ~Overtaken(proc[p].what) /\ UNCHANGED <<board, watch, tick>>
        /\ p \in Users /\ proc[p].pc = "set"
    BY DEF BoardsGood, PushSets, If, watchVars, At
  <1>2. Timer \in Procs /\ p # Timer
    BY <1>1, Constants, ProcsAssumption
  <1>3. /\ proc'[p].pc = "take" /\ \A q \in Procs \ {p} : proc'[q] = proc[q]
    <2>1. Moves(p, St("take", proc[p].what, now, None))
      BY SetsMoves
    <2>2. /\ proc'[p] = St("take", proc[p].what, now, None)
          /\ \A q \in Procs \ {p} : proc'[q] = proc[q]
      BY <2>1, Moved
    <2> QED BY <2>2 DEF St
  <1>4. \A q \in Procs : ~Remote(proc'[q])
    BY <1>1, <1>3, BusyIs DEF Remote
  <1>5. proc'[Timer] = proc[Timer]
    BY <1>2, <1>3
  <1>6. clip'.what = proc[p].what
    <2>1. now \in Nat /\ proc[p].what \in Contents
      BY SetsMoves, BoundsAssumption DEF TypeInv, CountOK
    <2> QED BY <2>1, SetStore DEF PushSets, storeVars
  <1>7. PICK x : x = board.what
    OBVIOUS
  <1>8. x # None
    BY <1>1, <1>7, BusyIs DEF MacBoard
  <1>9. Coming(x)
    BY <1>1, <1>7 DEF MacBoard
  <1>10. Handled(x)' <=> Handled(x)
    BY <1>1, <1>5 DEF Handled, LastOf
  <1>11. Coming(x)'
    <2>1. CASE x = proc[p].what
      <3>1. Fetched(x) => Fetched(x)'
        BY <1>1, <1>5, <1>6, <2>1 DEF Fetched
      <3> QED BY <1>1, <1>5, <1>9, <1>10, <3>1 DEF Coming, LastOf
    <2>2. CASE x # proc[p].what
      <3>1. board.fresh /\ ~Handled(x)
        BY <1>1, <1>7, <2>2 DEF Overtaken
      <3> QED BY <1>1, <1>8, <1>10, <3>1 DEF Coming
    <2> QED BY <2>1, <2>2
  <1>12. Coming(board.what)' <=> Coming(x)'
    BY <1>1, <1>7 DEF Coming, Fetched, Handled, LastOf
  <1> QED BY <1>1, <1>4, <1>7, <1>8, <1>11, <1>12 DEF MacBoard, Remote

\* A copy of the phone's on its way to the pasteboard: adopted ...
LEMMA AdoptBoard ==
    ASSUME TypeInv, MacBoard, NEW p \in Procs, NEW push \in Pushes, Adopts(p, push),
           UNCHANGED <<board, watch, tick>>, ~LocalBusy, ~RemoteBusy
    PROVE  MacBoard'
  <1>1. /\ proc'[p].pc = "note" /\ proc'[p].what = push.what /\ clip'.what = push.what
        /\ \A q \in Procs \ {p} : proc'[q] = proc[q]
    BY Moved DEF Adopts, St
  <1>2. \A q \in Procs : Remote(proc'[q]) => q = p
    BY <1>1, BusyIs
  <1>3. ~LocalBusy' /\ RemoteBusy'
    BY <1>1 DEF LocalBusy, RemoteBusy, At
  <1> QED BY <1>1, <1>2, <1>3 DEF MacBoard, Remote

\* ... noted and written.
LEMMA WriteBoard ==
    ASSUME TypeInv, MacBoard, NEW p \in Procs, NoteRemote(p) \/ WritePasteboard(p)
    PROVE  MacBoard'
  <1>1. /\ Remote(proc[p]) /\ UNCHANGED <<clip, tick>>
        /\ NoteRemote(p) => proc[p].pc = "note"
        /\ WritePasteboard(p) => proc[p].pc = "write"
    BY DEF NoteRemote, WritePasteboard, At, Remote, storeVars
  <1>2. /\ proc[p].what = clip.what /\ ~LocalBusy
        /\ \A q \in Procs : Remote(proc[q]) => q = p
    BY <1>1 DEF MacBoard
  <1>3. CASE NoteRemote(p)
    <2>1. /\ proc'[p].pc = "write" /\ proc'[p].what = proc[p].what
          /\ \A q \in Procs \ {p} : proc'[q] = proc[q]
      <3>1. Moves(p, St("write", proc[p].what, proc[p].wall, None))
        BY <1>3, NoteMoves
      <3>2. /\ proc'[p] = St("write", proc[p].what, proc[p].wall, None)
            /\ \A q \in Procs \ {p} : proc'[q] = proc[q]
        BY <3>1, Moved
      <3> QED BY <3>2 DEF St
    <2>2. watch'.slot = None
      BY <1>3 DEF NoteRemote, TypeInv, WatchOK
    <2>3. ~LocalBusy' /\ RemoteBusy'
      BY <1>1, <1>2, <2>1 DEF LocalBusy, RemoteBusy, At
    <2>4. \A q \in Procs : Remote(proc'[q]) => q = p
      BY <1>2, <2>1
    <2> QED BY <1>1, <1>2, <2>1, <2>2, <2>3, <2>4 DEF MacBoard, Remote
  <1>4. CASE WritePasteboard(p)
    <2>1. /\ proc'[p] = Idle /\ \A q \in Procs \ {p} : proc'[q] = proc[q]
      BY <1>4, FinishMoves, Moved
    <2>2. board'.what = clip.what /\ watch' = watch /\ watch.slot = None
      BY <1>1, <1>2, <1>4 DEF WritePasteboard, MacBoard
    <2>3. \A q \in Procs : ~Remote(proc'[q]) /\ proc'[q].pc # "set"
      BY <1>2, <2>1, BusyIs, Constants DEF Remote
    <2>4. ~LocalBusy'
      BY <1>1, <1>2, <2>3, BusyIs DEF LocalBusy, At
    <2>5. Coming(board.what)'
      BY <1>1, <2>2, <2>3, Constants DEF Coming, Fetched
    <2> QED BY <2>2, <2>3, <2>4, <2>5 DEF MacBoard, Remote
  <1> QED BY <1>3, <1>4

\* The Mac app starts again: what is on the pasteboard is looked at again.
LEMMA RestartBoard ==
    ASSUME TypeInv, MacBoard, MacRestarts
    PROVE  MacBoard'
  <1>1. /\ board' = [board EXCEPT !.fresh = TRUE] /\ clip' = NoClip
        /\ watch' = [text |-> None, image |-> None, slot |-> None]
        /\ tick' = [t \in Tickers |-> None] /\ proc' = [p \in Procs |-> Idle]
    BY DEF MacRestarts
  <1>2. board'.what = board.what /\ board'.fresh
    BY <1>1 DEF TypeInv, WatchOK
  <1>3. /\ watch'.text = None /\ watch'.image = None /\ watch'.slot = None
        /\ \A t \in Tickers : tick'[t] = None
        /\ \A p \in Procs : proc'[p].pc = "idle" /\ proc'[p].what = None
        /\ clip'.what = None
    BY <1>1, Constants DEF NoClip
  <1>4. ~LocalBusy' /\ ~RemoteBusy' /\ \A p \in Procs : ~Remote(proc'[p])
    BY <1>3 DEF LocalBusy, RemoteBusy, At, Remote
  <1>5. ASSUME NEW x \in Contents PROVE ~Handled(x)'
    <2>1. Key[x] # None
      BY Constants
    <2> QED BY <1>3, <2>1, Constants DEF Handled, LastOf
  <1>6. Fetched(None)'
    BY <1>3, Constants DEF Fetched
  <1>7. PICK x \in Contents \cup {None} : x = board.what
    BY DEF TypeInv, WatchOK
  <1>8. Coming(x)'
    BY <1>2, <1>5, <1>6 DEF Coming
  <1>9. Coming(board.what)' <=> Coming(x)'
    BY <1>2, <1>7 DEF Coming, Fetched, Handled, LastOf
  <1> QED BY <1>3, <1>4, <1>8, <1>9 DEF MacBoard, Remote

\* Every step keeps the Mac's side.
LEMMA NextMacBoard ==
    ASSUME TypeInv, MacBoard, board.what # Empty, [Next]_vars, BoardsGood'
    PROVE  MacBoard'
  <1>1. \A c \in {"write", "unread", "crossed", "repeat", "mode", "typed"} : c \notin causes'
    BY DEF BoardsGood
  <1>2. CASE UNCHANGED <<board, watch, tick, clip, proc>>
    BY <1>2, BoardFrame
  <1>3. CASE Tick \/ Disconnect \/ PhoneActs \/ UNCHANGED vars
    <2>1. UNCHANGED <<board, watch, tick, clip, proc>>
      BY <1>3 DEF Tick, Disconnect, PhoneActs, PhoneEdits, PhoneCopy, PhoneRefresh,
         PhoneDropsDraft, PhoneWrites, PhoneWriteFails, PhoneFlushAuto, PhoneFlushClip,
         PhoneSent, PostFails, PhoneReceive, PhoneSetsMode, vars, watchVars, storeVars
    <2> QED BY <1>2, <2>1
  <1>4. ASSUME NEW p \in Procs, Quietly(p) PROVE MacBoard'
    <2>1. CASE FlushNothing(p)
      <3>1. UNCHANGED <<board, watch, tick, clip>> /\ proc[p].pc = "flush"
        BY <2>1 DEF FlushNothing, At, watchVars, storeVars
      <3>2. Moves(p, Idle)
        BY <2>1, FinishMoves
      <3> QED BY <3>1, <3>2, BoardMoved, Constants DEF Remote
    <2>2. CASE PushClipboardCurrent(p)
      BY <2>2, CurrentBoard
    <2>3. CASE NoteRemote(p) \/ WritePasteboard(p)
      BY <2>3, WriteBoard
    <2>4. CASE WriteFails(p) \/ (p = Timer /\ TimerDrops)
      BY <1>1, <2>4 DEF WriteFails, TimerDrops
    <2>5. CASE \E m \in Modes : SetClipboardMode(p, m)
      <3>1. /\ UNCHANGED <<board, watch, tick, clip>> /\ proc[p].pc = "idle"
            /\ Goto(p, "flush")
        BY <2>5 DEF SetClipboardMode, At, watchVars, storeVars
      <3>2. Moves(p, St("flush", None, proc[p].wall, None))
        BY <3>1, FlushMoves DEF At
      <3>3. PICK st : st = St("flush", None, proc[p].wall, None)
        OBVIOUS
      <3>4. st.pc = "flush" /\ st.what = None
        BY <3>3 DEF St
      <3> QED BY <3>1, <3>2, <3>3, <3>4, BoardMoved DEF Remote
    <2> QED BY <1>4, <2>1, <2>2, <2>3, <2>4, <2>5 DEF Quietly
  <1>5. ASSUME NEW p \in Procs, TakePending(p) \/ PushTakes(p) PROVE MacBoard'
    <2>1. /\ UNCHANGED <<board, watch, tick>> /\ proc[p].pc \in {"flush", "take"}
          /\ clip' = [clip EXCEPT !.pending = FALSE]
      BY <1>5 DEF TakePending, PushTakes, At, watchVars
    <2>2. clip'.what = clip.what
      BY <2>1, ClipFields DEF Clips
    <2>3. PICK push \in Pushes : Moves(p, St("send", None, 0, push))
      BY <1>5, TakeMoves, PushTakesMoves
    <2>4. PICK st : st = St("send", None, 0, push)
      OBVIOUS
    <2>5. st.pc = "send" /\ st.what = None
      BY <2>4 DEF St
    <2> QED BY <2>1, <2>2, <2>3, <2>4, <2>5, BoardMoved DEF Remote
  <1>6. ASSUME NEW p \in Procs, Send(p) PROVE MacBoard'
    <2>1. UNCHANGED <<board, watch, tick, clip>> /\ proc[p].pc = "send"
      BY <1>6 DEF Send, At, watchVars, storeVars
    <2>2. PICK st : /\ st = Idle \/ st = St("requeue", None, proc[p].wall, proc[p].push)
                    /\ Moves(p, st)
      BY <1>6, SendMoves
    <2>3. st.pc \in {"idle", "requeue"} /\ st.what = None
      BY <2>2, Constants DEF St
    <2> QED BY <2>1, <2>2, <2>3, BoardMoved DEF Remote
  <1>7. ASSUME NEW p \in Procs, Requeue(p) PROVE MacBoard'
    <2>1. /\ UNCHANGED <<board, watch, tick>> /\ proc[p].pc = "requeue"
          /\ clip' = [clip EXCEPT !.pending = TRUE] \/ clip' = clip
      BY <1>7 DEF Requeue, At, watchVars
    <2>2. clip'.what = clip.what
      BY <2>1, ClipFields DEF Clips
    <2>3. Moves(p, Idle)
      BY <1>7, FinishMoves
    <2> QED BY <2>1, <2>2, <2>3, BoardMoved, Constants DEF Remote
  <1>8. ASSUME NEW p \in Procs, NEW x \in Contents, PushGiven(p, x) PROVE MacBoard'
    BY <1>1, <1>8 DEF PushGiven
  <1>9. CASE WsIngest \/ PostIngest
    <2>1. UNCHANGED <<board, watch, tick>>
      BY <1>9 DEF WsIngest, PostIngest, watchVars
    <2>2. \/ UNCHANGED <<clip, hlc, proc>>
          \/ \E p \in Procs, push \in Pushes : Adopts(p, push)
      BY <1>9, WsMoves, PostMoves, Constants
    <2>3. UNCHANGED <<clip, proc>> \/ (~LocalBusy /\ ~RemoteBusy)
      BY <1>1, <1>9 DEF WsIngest, PostIngest, IngestClip, ApplyRemote, If, storeVars
    <2> QED BY <1>2, <2>1, <2>2, <2>3, AdoptBoard
  <1>10. CASE Connect
    <2>1. /\ UNCHANGED <<board, watch, tick, clip>> /\ proc[Reader].pc = "idle"
          /\ Goto(Reader, "flush") /\ Reader \in Procs
      BY <1>10, Constants DEF Connect, At, watchVars, storeVars
    <2>2. Moves(Reader, St("flush", None, proc[Reader].wall, None))
      BY <2>1, FlushMoves DEF At
    <2>3. PICK st : st = St("flush", None, proc[Reader].wall, None)
      OBVIOUS
    <2>4. st.pc = "flush" /\ st.what = None
      BY <2>3 DEF St
    <2> QED BY <2>1, <2>2, <2>3, <2>4, BoardMoved DEF Remote
  <1> QED BY <1>3, <1>4, <1>5, <1>6, <1>7, <1>8, <1>9, <1>10, WatchBoard, TimerBoard, SetsBoard,
     RestartBoard, NextSplit

\* Every step keeps the phone's side.
LEMMA NextPhoneBoard == TypeInv /\ PhoneBoard /\ [Next]_vars /\ BoardsGood' => PhoneBoard'
  <1> SUFFICES ASSUME TypeInv, PhoneBoard, [Next]_vars, BoardsGood' PROVE PhoneBoard'
    OBVIOUS
  <1>1. \A c \in {"crossed", "mode", "unread", "write"} : c \notin causes'
    BY DEF BoardsGood
  <1>2. CASE UNCHANGED <<pboard, pdraft, pwrites>> /\ pclip'.what = pclip.what
    BY <1>2 DEF PhoneBoard
  <1>3. CASE PhoneActs
    <2>a. ASSUME NEW x \in Contents
          PROVE  AsDrafted(x) = Trim[x] /\ Trim[Trim[x]] = Trim[x] /\ Trim[x] # None
      BY Constants DEF AsDrafted
    <2>1. ASSUME NEW x \in Contents, PhoneCopy(x) PROVE PhoneBoard'
      <3>1. pboard' = x /\ pdraft' = Trim[x] /\ pwrites = <<>> /\ pwrites' = pwrites
        BY <1>1, <2>1 DEF PhoneCopy, Draft, If
      <3> QED BY <2>a, <3>1 DEF PhoneBoard, AsDrafted
    <2>b. CASE PhoneRefresh
      <3>1. /\ pdraft' = Trim[pboard] /\ pboard # None /\ pwrites = <<>>
            /\ UNCHANGED <<pwrites, pboard>>
        BY <1>1, <2>b DEF PhoneRefresh, Draft, If
      <3>2. pboard \in Contents
        BY <3>1 DEF TypeInv, PhoneOK
      <3> QED BY <2>a, <3>1, <3>2 DEF PhoneBoard, AsDrafted
    <2>2. CASE PhoneFlushAuto
      <3>1. pdraft # None /\ pdraft' = None /\ UNCHANGED <<pboard, pwrites>>
        BY <2>2 DEF PhoneFlushAuto
      <3>2. pwrites = <<>> /\ AsDrafted(pboard) = pdraft /\ Trim[pdraft] = pdraft
        BY <3>1 DEF PhoneBoard
      <3>3. pclip'.what = pdraft
        <4>1. pclip' # pclip => pclip'.what = pdraft
          BY <2>2, FlushAutoMoves
        <4>2. AllowsSend("android")
          BY <1>1, <2>2 DEF PhoneFlushAuto
        <4>3. pclip.what = pdraft \/ pclip'.what = pdraft
          BY <2>2, <4>2 DEF PhoneFlushAuto
        <4> QED BY <4>1, <4>3
      <3> QED BY <3>1, <3>2, <3>3 DEF PhoneBoard, AsDrafted
    <2>3. CASE PhoneFlushClip \/ PhoneSent \/ PostFails
      <3>1. /\ UNCHANGED <<pboard, pdraft, pwrites>>
            /\ \/ pclip' = pclip
               \/ pclip' = [pclip EXCEPT !.pending = FALSE]
               \/ pclip' = [pclip EXCEPT !.pending = TRUE]
        BY <2>3 DEF PhoneFlushClip, PhoneSent, PostFails
      <3>2. pclip'.what = pclip.what
        BY <3>1, ClipFields DEF Clips
      <3> QED BY <1>2, <3>1, <3>2
    <2>4. CASE PhoneReceive
      <3>1. UNCHANGED <<pboard, pdraft>>
        BY <2>4 DEF PhoneReceive
      <3>2. CASE UNCHANGED <<pclip, pwrites>>
        BY <1>2, <3>1, <3>2
      <3>3. CASE pclip' # pclip \/ pwrites' # pwrites
        <4>1. /\ pwrites = <<>> /\ pdraft = None
          BY <1>1, <2>4, <3>3 DEF PhoneReceive, If
        <4>2. PICK x : x = Head(toPhone).what
          OBVIOUS
        <4>3. x \in Contents /\ pclip'.what = x /\ pwrites' = Append(pwrites, x)
          BY <2>4, <3>3, <4>2, ReceiveMoves, PushFields
        <4>4. pwrites' = <<x>>
          BY <4>1, <4>3
        <4>5. pwrites' # <<>> /\ Head(pwrites') = x /\ Tail(pwrites') = <<>>
          BY <4>3, <4>4
        <4> QED BY <3>1, <4>1, <4>3, <4>5 DEF PhoneBoard
      <3> QED BY <3>2, <3>3
    <2>5. CASE PhoneWrites
      <3>1. pwrites # <<>> /\ pwrites' = Tail(pwrites) /\ pboard' = Head(pwrites) /\ pclip' = pclip
        BY <2>5 DEF PhoneWrites
      <3>2. pdraft = None /\ Tail(pwrites) = <<>> /\ Head(pwrites) = pclip.what
        BY <3>1 DEF PhoneBoard
      <3>3. pdraft' = None \/ pdraft' = Trim[Head(pwrites)]
        BY <2>5, <3>2 DEF PhoneWrites, Draft
      <3>4. Head(pwrites) \in Contents
        BY <3>1, InTail DEF TypeInv, PhoneOK
      <3> QED BY <2>a, <3>1, <3>2, <3>3, <3>4 DEF PhoneBoard, AsDrafted
    <2>6. CASE PhoneDropsDraft \/ PhoneWriteFails
      BY <1>1, <2>6 DEF PhoneDropsDraft, PhoneWriteFails
    <2>7. ASSUME NEW m \in Modes, PhoneSetsMode(m) PROVE PhoneBoard'
      BY <1>2, <2>7 DEF PhoneSetsMode, phoneVars
    <2> QED BY <1>3, <2>1, <2>b, <2>2, <2>3, <2>4, <2>5, <2>6, <2>7 DEF PhoneActs, PhoneEdits
  <1>4. CASE ~PhoneActs
    <2>1. CASE Tick \/ Watches \/ TimerFires \/ TimerSets \/ UNCHANGED vars
      BY <1>2, <2>1 DEF Tick, Watches, MacCopy, TickRead, TickReadFails, TickStage,
         TimerFires, TimerSets, vars, phoneVars
    <2>2. ASSUME NEW p \in Procs, \/ Quietly(p) \/ TakePending(p) \/ Send(p) \/ Requeue(p)
                                  \/ PushSets(p) \/ PushTakes(p)
                                  \/ \E x \in Contents : PushGiven(p, x)
          PROVE  PhoneBoard'
      <3>1. UNCHANGED <<pboard, pdraft, pwrites, pclip>>
        BY <2>2 DEF Quietly, FlushNothing, PushClipboardCurrent, NoteRemote, WritePasteboard,
           WriteFails, TimerDrops, SetClipboardMode, TakePending, Send, Requeue, PushSets,
           PushTakes, PushGiven, phoneVars
      <3> QED BY <1>2, <3>1
    <2>3. CASE WsIngest \/ PostIngest \/ Connect \/ Disconnect \/ MacRestarts
      BY <1>2, <2>3 DEF WsIngest, PostIngest, Connect, Disconnect, MacRestarts, phoneVars
    <2> QED BY <1>4, <2>1, <2>2, <2>3, NextSplit
  <1> QED BY <1>3, <1>4

\* When nothing is under way, a paste on either device gives what that device's
\* clip holds: what the watcher read reached the store, what the store adopted
\* reached the pasteboard, and neither was put over the other, unless one of
\* the causes that BoardsMatch names had occurred.
THEOREM ClipboardsHoldClips == Spec => []BoardsMatch
  <1>1. Init => BoardInv
    <2> SUFFICES ASSUME Init PROVE MacBoard /\ PhoneBoard
      BY DEF BoardInv
    <2>1. /\ board.what = None /\ watch.slot = None /\ clip.what = None
          /\ \A p \in Procs : proc[p].pc = "idle"
          /\ \A t \in Tickers : tick[t] = None
      BY Constants DEF Init, NoClip
    <2>2. ~LocalBusy /\ \A p \in Procs : ~Remote(proc[p])
      BY <2>1 DEF LocalBusy, At, Remote
    <2>3. Coming(board.what)
      BY <2>1, Constants DEF Coming, Fetched
    <2>4. MacBoard
      BY <2>1, <2>2, <2>3 DEF MacBoard
    <2>5. PhoneBoard
      BY DEF Init, NoClip, PhoneBoard
    <2> QED BY <2>4, <2>5
  <1>2. TypeInv /\ NoEmpty /\ BoardInv /\ [Next]_vars => BoardInv'
    <2> SUFFICES ASSUME TypeInv, NoEmpty, BoardInv, [Next]_vars, BoardsGood'
                 PROVE  (MacBoard /\ PhoneBoard)'
      BY DEF BoardInv
    <2>1. BoardsGood
      BY NextCauses DEF BoardsGood
    <2>2. board.what # Empty
      BY <2>1 DEF BoardsGood, NoEmpty, Full, FullMac
    <2>3. MacBoard /\ PhoneBoard
      BY <2>1 DEF BoardInv
    <2>4. MacBoard'
      BY <2>2, <2>3, NextMacBoard
    <2>5. PhoneBoard'
      BY <2>3, NextPhoneBoard
    <2> QED BY <2>4, <2>5
  <1>3. TypeInv /\ BoardInv => BoardsMatch
    <2> SUFFICES ASSUME TypeInv, BoardInv, Quiet, BoardsGood, board.what \notin Concealed
                 PROVE  board.what = clip.what /\ AsDrafted(pboard) = AsDrafted(pclip.what)
      BY DEF BoardsMatch, BoardsGood
    <2>1. MacBoard /\ PhoneBoard
      BY DEF BoardInv
    <2>2. /\ ~board.fresh /\ watch.slot = None /\ \A t \in Tickers : tick[t] = None
          /\ \A p \in Procs : proc[p].pc = "idle"
          /\ pwrites = <<>> /\ pdraft = None
      BY DEF Quiet, At
    <2>3. ~RemoteBusy
      BY <2>2, BusyIs DEF Remote
    <2>4. Coming(board.what)
      BY <2>1, <2>3 DEF MacBoard
    <2>5. board.what = clip.what
      BY <2>2, <2>4, Constants DEF Coming, Fetched
    <2>6. AsDrafted(pboard) = AsDrafted(pclip.what)
      BY <2>1, <2>2 DEF PhoneBoard
    <2> QED BY <2>5, <2>6
  <1> QED BY <1>1, <1>2, <1>3, TypesHold, NoEmptyHolds, PTL DEF Spec

(***************************************************************************)
(* When nothing is under way both sides hold the same clip.                *)
(***************************************************************************)

\* No cause Converge excepts has occurred.
ClipsGood ==
    causes \cap {"tie", "same", "loss", "restart", "mode", "resend", "requeue",
                 "held", "cleared"} = {}

SameStamp(a, b) == a.at = b.at /\ a.c = b.c

\* Clip or push a is b, or was overtaken by it.
Behind(a, b) == Later(b, a) \/ (SameStamp(a, b) /\ a.what = b.what)

\* On their way to the phone, and to the Mac.
ToPhone(x) == In(x, toPhone) \/ (x # None /\ \E p \in Procs : proc[p].push = x)

ToMac(x) == In(x, toMac) \/ (post.pc = "sent" /\ post.push = x)

\* A side's pushes are its clip or older, and bear its name.
MacOwn == \A x : ToPhone(x) => Behind(x, clip) /\ x.at > 0 /\ x.origin = "mac"

PhoneOwn ==
    \A x : ToMac(x) \/ Awaited(x) => Behind(x, pclip) /\ x.at > 0 /\ x.origin = "android"

\* A clip has a stamp, and one that came from the other side is that side's or
\* older.
Stamped ==
    /\ clip.what # None => clip.at > 0
    /\ pclip.what # None => pclip.at > 0

Known ==
    /\ pclip.origin = "mac" => Behind(pclip, clip)
    /\ clip.origin = "android" => Behind(clip, pclip)

\* A clip the other side is behind is queued or on its way there.
MacHeading ==
    clip.what # None =>
      clip.pending \/ Behind(clip, pclip) \/ \E x : ToPhone(x) /\ SameStamp(x, clip)

PhoneHeading ==
    pclip.what # None =>
      pclip.pending \/ ~Later(pclip, clip) \/ \E x : ToMac(x) /\ SameStamp(x, pclip)

\* What the phone awaits and is no longer under way, the Mac is not behind.
Answered ==
    /\ \A x : In(x, psends) => In(x, toMac) \/ ~Later(x, clip)
    /\ post.pc = "handled" => ~Later(post.push, clip)

Agreeing == MacOwn /\ PhoneOwn /\ Stamped /\ Known /\ MacHeading /\ PhoneHeading /\ Answered

\* A queued clip has a goroutine that will take it, or waits for a connect or
\* for the Mac's switch to a mode that lets it send.
Flushing ==
    clip.pending /\ up /\ AllowsSend("mac") =>
      \E p \in Procs : proc[p].pc \in {"flush", "take"}

WallOK == proc[Timer].pc = "set" => proc[Timer].wall > 0

ConvergeInv == WallOK /\ (ClipsGood => Agreeing /\ Flushing)

\* The order of stamps, and of clips by them.
LEMMA Orders ==
    ASSUME NEW a, NEW b, NEW c, a.at \in Nat, a.c \in Nat, b.at \in Nat, b.c \in Nat,
           c.at \in Nat, c.c \in Nat
    PROVE  /\ Behind(a, b) /\ Later(c, b) => Later(c, a)
           /\ Behind(a, b) /\ Behind(b, c) => Behind(a, c)
           /\ ~Later(a, b) /\ Later(c, b) => ~Later(a, c)
           /\ Behind(a, b) => ~Later(a, b)
           /\ ~Later(a, b) => Later(b, a) \/ SameStamp(a, b)
           /\ Behind(a, b) /\ SameStamp(a, b) => a.what = b.what
  BY LaterIs DEF Behind, SameStamp

\* CompareClipStamps finds stamps equal that are.
LEMMA EqualIs ==
    ASSUME NEW a, NEW b, a.at \in Nat, a.c \in Nat, b.at \in Nat, b.c \in Nat
    PROVE  CompareClipStamps(a, b) = "equal" <=> SameStamp(a, b)
  BY DEF CompareClipStamps, SameStamp

\* What is under way is a push.
LEMMA Carried ==
    ASSUME TypeInv, NEW x, ToPhone(x) \/ ToMac(x) \/ Awaited(x) \/ In(x, psends)
    PROVE  x \in Pushes /\ x.at \in Nat /\ x.c \in Nat /\ x.what \in Contents
  <1>1. /\ toPhone \in Seq(Pushes) /\ toMac \in Seq(Pushes) /\ psends \in Seq(Pushes)
        /\ post.pc # "none" => post.push \in Pushes
    BY DEF TypeInv, WireOK, SendsOK
  <1>2. \A p \in Procs : proc[p].push \in Pushes \cup {None}
    BY ProcFields
  <1>3. x \in Pushes
    BY <1>1, <1>2 DEF ToPhone, ToMac, Awaited, In
  <1> QED BY <1>3, PushFields

\* What the phone awaits, over either lane.
LEMMA AwaitedIs ==
    ASSUME NEW x
    PROVE  Awaited(x) <=> (post.pc # "none" /\ post.push = x) \/ In(x, psends)
  BY DEF Awaited, In

\* A step that leaves clips, stamps and what is under way as they are.
LEMMA ConvergeFrame ==
    ASSUME TypeInv, Agreeing, UNCHANGED <<toMac, post, psends>>,
           \A x : ToPhone(x)' <=> ToPhone(x),
           clip'.what = clip.what, clip'.origin = clip.origin, SameStamp(clip', clip),
           clip.pending => clip'.pending,
           pclip'.what = pclip.what, pclip'.origin = pclip.origin, SameStamp(pclip', pclip),
           pclip.pending => pclip'.pending
    PROVE  Agreeing'
  <1>1. \A a, b : Later(a, b) <=> Later(StampOf(a), StampOf(b))
    BY DEF Later, CompareClipStamps, StampOf
  <1>2. StampOf(clip') = StampOf(clip) /\ StampOf(pclip') = StampOf(pclip)
    BY DEF StampOf, SameStamp
  <1>3. /\ \A x : Behind(x, clip') <=> Behind(x, clip)
        /\ \A x : Behind(x, pclip') <=> Behind(x, pclip)
        /\ \A x : Later(x, clip') <=> Later(x, clip)
        /\ Behind(clip', pclip') <=> Behind(clip, pclip)
        /\ Behind(pclip', clip') <=> Behind(pclip, clip)
        /\ Later(pclip', clip') <=> Later(pclip, clip)
    BY <1>1, <1>2 DEF Behind, SameStamp
  <1>4. MacOwn' /\ MacHeading'
    BY <1>3 DEF Agreeing, MacOwn, MacHeading, SameStamp
  <1>5. PhoneOwn' /\ PhoneHeading'
    BY <1>3 DEF Agreeing, PhoneOwn, PhoneHeading, SameStamp, ToMac, Awaited
  <1>6. Stamped' /\ Known'
    BY <1>3 DEF Agreeing, Stamped, Known, SameStamp
  <1>7. Answered'
    BY <1>3 DEF Agreeing, Answered
  <1> QED BY <1>4, <1>5, <1>6, <1>7 DEF Agreeing

\* The stamps of both clips, before a step and after it.
LEMMA ClipStamps ==
    ASSUME TypeInv, TypeInv'
    PROVE  /\ clip.at \in Nat /\ clip.c \in Nat /\ clip'.at \in Nat /\ clip'.c \in Nat
           /\ pclip.at \in Nat /\ pclip.c \in Nat /\ pclip'.at \in Nat /\ pclip'.c \in Nat
  BY DEF TypeInv, StoreOK, PhoneOK, ClipOK, Clips

\* The Mac stages content of its own.
LEMMA MacStages ==
    ASSUME TypeInv, TypeInv', Agreeing, Later(clip', clip),
           clip'.at > 0, clip'.origin = "mac", clip'.pending,
           \A x : ToPhone(x)' <=> ToPhone(x), UNCHANGED <<toMac, post, psends, pclip>>
    PROVE  Agreeing'
  <1>a. /\ clip.at \in Nat /\ clip.c \in Nat /\ clip'.at \in Nat /\ clip'.c \in Nat
        /\ pclip.at \in Nat /\ pclip.c \in Nat
    BY ClipStamps
  <1>b. /\ \A x : ToMac(x)' <=> ToMac(x)
        /\ \A x : Awaited(x)' <=> Awaited(x)
        /\ \A x : In(x, psends)' <=> In(x, psends)
    BY DEF ToMac, Awaited, In
  <1>c. ASSUME NEW x, x.at \in Nat, x.c \in Nat
        PROVE  /\ Behind(x, clip) => Behind(x, clip')
               /\ ~Later(x, clip) => ~Later(x, clip')
    BY <1>a, <1>c, Orders DEF Behind
  <1>1. MacOwn'
    BY <1>c, Carried DEF Agreeing, MacOwn
  <1>2. PhoneOwn'
    BY <1>b DEF Agreeing, PhoneOwn
  <1>3. Stamped' /\ Known'
    BY <1>a, <1>c DEF Agreeing, Stamped, Known
  <1>4. MacHeading'
    BY DEF MacHeading
  <1>5. PhoneHeading'
    BY <1>a, <1>b, <1>c DEF Agreeing, PhoneHeading
  <1>6. Answered'
    <2>1. ASSUME NEW x, In(x, psends)' PROVE In(x, toMac)' \/ ~Later(x, clip')
      BY <1>b, <1>c, <2>1, Carried DEF Agreeing, Answered
    <2>2. post'.pc = "handled" => ~Later(post'.push, clip')
      BY <1>c, Carried DEF Agreeing, Answered, Awaited
    <2> QED BY <2>1, <2>2 DEF Answered
  <1> QED BY <1>1, <1>2, <1>3, <1>4, <1>5, <1>6 DEF Agreeing

\* A goroutine takes the clip from the outbox.
LEMMA MacOffers ==
    ASSUME TypeInv, TypeInv', Agreeing, NEW push \in Pushes,
           push.what = clip.what, SameStamp(push, clip), push.origin = "mac",
           \A x : ToPhone(x)' <=> ToPhone(x) \/ x = push,
           clip'.what = clip.what, clip'.origin = clip.origin, SameStamp(clip', clip),
           UNCHANGED <<toMac, post, psends, pclip>>
    PROVE  Agreeing'
  <1>a. \A x : /\ Behind(x, clip') <=> Behind(x, clip)
               /\ Later(x, clip') <=> Later(x, clip)
               /\ SameStamp(x, clip') <=> SameStamp(x, clip)
               /\ Behind(clip', x) <=> Behind(clip, x)
    BY DEF Behind, SameStamp, Later, CompareClipStamps
  <1>b. /\ \A x : ToMac(x)' <=> ToMac(x)
        /\ \A x : Awaited(x)' <=> Awaited(x)
    BY DEF ToMac, Awaited
  <1>c. push.what \in Contents /\ clip.what # None
    BY PushFields, Constants
  <1>1. MacOwn'
    <2>1. Behind(push, clip') /\ push.at > 0
      BY <1>a, <1>c DEF Behind, SameStamp, Agreeing, Stamped
    <2> QED BY <1>a, <2>1 DEF Agreeing, MacOwn
  <1>2. PhoneOwn'
    BY <1>b DEF Agreeing, PhoneOwn
  <1>3. Stamped' /\ Known'
    BY <1>a DEF Agreeing, Stamped, Known, SameStamp
  <1>4. MacHeading'
    BY <1>a DEF MacHeading
  <1>5. PhoneHeading'
    BY <1>a, <1>b DEF Agreeing, PhoneHeading
  <1>6. Answered'
    BY <1>a DEF Agreeing, Answered
  <1> QED BY <1>1, <1>2, <1>3, <1>4, <1>5, <1>6 DEF Agreeing

\* A push that was not sent is dropped for the clip, which is queued again.
LEMMA MacPutsBack ==
    ASSUME TypeInv, TypeInv', Agreeing,
           \A x : ToPhone(x)' => ToPhone(x),
           clip'.what = clip.what, clip'.origin = clip.origin, SameStamp(clip', clip),
           clip.what # None => clip'.pending,
           UNCHANGED <<toMac, post, psends, pclip>>
    PROVE  Agreeing'
  <1>a. \A x : /\ Behind(x, clip') <=> Behind(x, clip)
               /\ Later(x, clip') <=> Later(x, clip)
               /\ SameStamp(x, clip') <=> SameStamp(x, clip)
               /\ Behind(clip', x) <=> Behind(clip, x)
    BY DEF Behind, SameStamp, Later, CompareClipStamps
  <1>b. /\ \A x : ToMac(x)' <=> ToMac(x)
        /\ \A x : Awaited(x)' <=> Awaited(x)
    BY DEF ToMac, Awaited
  <1>1. MacOwn'
    BY <1>a DEF Agreeing, MacOwn
  <1>2. PhoneOwn'
    BY <1>b DEF Agreeing, PhoneOwn
  <1>3. Stamped' /\ Known'
    BY <1>a DEF Agreeing, Stamped, Known, SameStamp
  <1>4. MacHeading'
    BY DEF MacHeading
  <1>5. PhoneHeading'
    BY <1>a, <1>b DEF Agreeing, PhoneHeading
  <1>6. Answered'
    BY <1>a DEF Agreeing, Answered
  <1> QED BY <1>1, <1>2, <1>3, <1>4, <1>5, <1>6 DEF Agreeing

\* A push of the phone's reaches the Mac's store: adopted, or no later than
\* what is there.
LEMMA MacTakes ==
    ASSUME TypeInv, TypeInv', Agreeing, NEW push \in Pushes, ToMac(push),
           ~Later(push, clip'),
           \/ clip' = clip
           \/ /\ Later(clip', clip) /\ clip'.origin = "android"
              /\ SameStamp(clip', push) /\ clip'.what = push.what,
           \A x : ToMac(x) => ToMac(x)' \/ x = push,
           \A x : ToMac(x)' => ToMac(x),
           \A x : In(x, toMac) => In(x, toMac)' \/ x = push,
           \A x : Awaited(x)' <=> Awaited(x),
           post'.pc = "handled" => (post.pc = "handled" /\ post'.push = post.push) \/ post'.push = push,
           \A x : ToPhone(x)' <=> ToPhone(x), UNCHANGED <<psends, pclip>>
    PROVE  Agreeing'
  <1>a. /\ clip.at \in Nat /\ clip.c \in Nat /\ clip'.at \in Nat /\ clip'.c \in Nat
        /\ pclip.at \in Nat /\ pclip.c \in Nat /\ push.at \in Nat /\ push.c \in Nat
    BY ClipStamps, PushFields
  <1>b. Behind(push, pclip) /\ push.at > 0
    BY DEF Agreeing, PhoneOwn
  <1>c. ASSUME NEW x, x.at \in Nat, x.c \in Nat
        PROVE  /\ Behind(x, clip) => Behind(x, clip')
               /\ ~Later(x, clip) => ~Later(x, clip')
    BY <1>a, <1>c, Orders DEF Behind
  <1>1. MacOwn'
    BY <1>c, Carried DEF Agreeing, MacOwn
  <1>2. PhoneOwn'
    BY DEF Agreeing, PhoneOwn
  <1>3. Stamped'
    BY <1>b DEF Agreeing, Stamped, SameStamp
  <1>4. clip' # clip => Behind(clip', pclip)
    BY <1>b DEF Behind, SameStamp, Later, CompareClipStamps
  <1>5. Known'
    BY <1>a, <1>c, <1>4 DEF Agreeing, Known
  <1>6. MacHeading'
    BY <1>4 DEF Agreeing, MacHeading
  <1>7. PhoneHeading'
    <2>1. CASE pclip.what # None /\ ~pclip.pending /\ Later(pclip, clip')
      <3>1. Later(pclip, clip)
        BY <1>a, <1>c, <2>1
      <3>2. PICK x : ToMac(x) /\ SameStamp(x, pclip)
        BY <2>1, <3>1 DEF Agreeing, PhoneHeading
      <3>3. x # push
        BY <2>1, <3>2 DEF SameStamp, Later, CompareClipStamps
      <3> QED BY <3>2, <3>3 DEF PhoneHeading
    <2> QED BY <2>1 DEF PhoneHeading
  <1>8. Answered'
    <2>1. ASSUME NEW x, In(x, psends)' PROVE In(x, toMac)' \/ ~Later(x, clip')
      <3>1. In(x, psends) /\ x.at \in Nat /\ x.c \in Nat
        BY <2>1, Carried
      <3> QED BY <1>c, <3>1 DEF Agreeing, Answered
    <2>2. ASSUME post'.pc = "handled" PROVE ~Later(post'.push, clip')
      <3>1. CASE post.pc = "handled" /\ post'.push = post.push
        BY <1>c, <3>1, Carried DEF Agreeing, Answered, Awaited
      <3> QED BY <2>2, <3>1
    <2> QED BY <2>1, <2>2 DEF Answered
  <1> QED BY <1>1, <1>2, <1>3, <1>5, <1>6, <1>7, <1>8 DEF Agreeing

\* The phone stages a copy or sends what is queued, now or later.
LEMMA PhoneStages ==
    ASSUME TypeInv, TypeInv', Agreeing, NEW push \in Pushes,
           push.what = pclip'.what, SameStamp(push, pclip'), push.origin = "android",
           \/ pclip' = pclip /\ pclip.what # None
           \/ Later(pclip', pclip) /\ pclip'.origin = "android" /\ pclip'.at > 0,
           pclip'.pending,
           \A x : ToMac(x)' \/ Awaited(x)' => ToMac(x) \/ Awaited(x) \/ x = push,
           \A x : In(x, toMac) => In(x, toMac)',
           \A x : In(x, psends)' => In(x, psends) \/ In(x, toMac)',
           post'.pc = "handled" => post' = post,
           \A x : ToPhone(x)' <=> ToPhone(x), UNCHANGED clip
    PROVE  Agreeing'
  <1>a. /\ clip.at \in Nat /\ clip.c \in Nat
        /\ pclip.at \in Nat /\ pclip.c \in Nat /\ pclip'.at \in Nat /\ pclip'.c \in Nat
    BY ClipStamps
  <1>b. ASSUME NEW x, x.at \in Nat, x.c \in Nat, Behind(x, pclip) PROVE Behind(x, pclip')
    BY <1>a, <1>b, Orders DEF Behind
  <1>1. MacOwn'
    BY DEF Agreeing, MacOwn
  <1>2. Stamped'
    BY DEF Agreeing, Stamped
  <1>3. PhoneOwn'
    <2>1. Behind(push, pclip') /\ push.at > 0
      BY DEF Behind, SameStamp, Agreeing, Stamped
    <2> QED BY <1>b, <2>1, Carried DEF Agreeing, PhoneOwn
  <1>4. Known'
    BY <1>a, <1>b DEF Agreeing, Known
  <1>5. MacHeading'
    BY <1>a, <1>b DEF Agreeing, MacHeading
  <1>6. PhoneHeading'
    BY DEF PhoneHeading
  <1>7. Answered'
    BY DEF Agreeing, Answered
  <1> QED BY <1>1, <1>2, <1>3, <1>4, <1>5, <1>6, <1>7 DEF Agreeing

\* A send of the phone's ends, well or not.
LEMMA PhoneSettles ==
    ASSUME TypeInv, TypeInv', Agreeing,
           pclip'.what = pclip.what, pclip'.origin = pclip.origin, SameStamp(pclip', pclip),
           \/ pclip'.pending \/ ~Later(pclip, clip)
           \/ \E x : ToMac(x)' /\ SameStamp(x, pclip),
           \A x : ToMac(x)' => ToMac(x), \A x : Awaited(x)' => Awaited(x),
           \A x : In(x, psends)' => In(x, psends),
           post'.pc = "handled" => post' = post,
           \A x : ToPhone(x)' <=> ToPhone(x), UNCHANGED <<clip, toMac>>
    PROVE  Agreeing'
  <1>a. \A x : /\ Behind(x, pclip') <=> Behind(x, pclip)
               /\ SameStamp(x, pclip') <=> SameStamp(x, pclip)
               /\ Later(pclip', x) <=> Later(pclip, x)
               /\ Behind(pclip', x) <=> Behind(pclip, x)
    BY DEF Behind, SameStamp, Later, CompareClipStamps
  <1>1. MacOwn'
    BY DEF Agreeing, MacOwn
  <1>2. Stamped' /\ Known'
    BY <1>a DEF Agreeing, Stamped, Known, SameStamp
  <1>3. PhoneOwn'
    BY <1>a DEF Agreeing, PhoneOwn
  <1>4. MacHeading'
    BY <1>a DEF Agreeing, MacHeading
  <1>5. PhoneHeading'
    BY <1>a DEF PhoneHeading
  <1>6. Answered'
    BY DEF Agreeing, Answered
  <1> QED BY <1>1, <1>2, <1>3, <1>4, <1>5, <1>6 DEF Agreeing

\* A push of the Mac's reaches the phone's clip: adopted, or no later than what
\* is there and no tie with it.
LEMMA PhoneTakes ==
    ASSUME TypeInv, TypeInv', Agreeing, NEW push \in Pushes, ToPhone(push),
           \/ /\ pclip' = pclip /\ ~Later(push, pclip)
              /\ SameStamp(push, pclip) => push.what = pclip.what \/ pclip.origin = "mac"
           \/ /\ Later(pclip', pclip) /\ pclip'.origin = "mac"
              /\ SameStamp(pclip', push) /\ pclip'.what = push.what,
           \A x : ToPhone(x) => ToPhone(x)' \/ x = push,
           \A x : ToPhone(x)' => ToPhone(x),
           UNCHANGED <<clip, toMac, post, psends>>
    PROVE  Agreeing'
  <1>a. /\ clip.at \in Nat /\ clip.c \in Nat /\ push.at \in Nat /\ push.c \in Nat
        /\ pclip.at \in Nat /\ pclip.c \in Nat /\ pclip'.at \in Nat /\ pclip'.c \in Nat
    BY ClipStamps, PushFields
  <1>b. Behind(push, clip) /\ push.at > 0
    BY DEF Agreeing, MacOwn
  <1>c. ASSUME NEW x, x.at \in Nat, x.c \in Nat, Behind(x, pclip) PROVE Behind(x, pclip')
    BY <1>a, <1>c, Orders DEF Behind
  <1>d. /\ \A x : ToMac(x)' <=> ToMac(x)
        /\ \A x : Awaited(x)' <=> Awaited(x)
    BY DEF ToMac, Awaited
  <1>1. MacOwn'
    BY DEF Agreeing, MacOwn
  <1>2. Stamped'
    BY <1>b DEF Agreeing, Stamped, SameStamp
  <1>3. PhoneOwn'
    BY <1>c, <1>d, Carried DEF Agreeing, PhoneOwn
  <1>4. pclip' # pclip => Behind(pclip', clip) /\ ~Later(pclip', clip)
    <2>1. pclip' # pclip => Behind(pclip', clip)
      BY <1>b DEF Behind, SameStamp, Later, CompareClipStamps
    <2> QED BY <1>a, <2>1, Orders
  <1>5. Known'
    BY <1>a, <1>c, <1>4 DEF Agreeing, Known
  <1>6. MacHeading'
    <2>1. ASSUME SameStamp(push, clip) PROVE Behind(clip, pclip')
      <3>1. push.what = clip.what
        BY <1>a, <1>b, <2>1, Orders
      <3>2. CASE pclip' # pclip
        BY <2>1, <3>1, <3>2 DEF Behind, SameStamp
      <3>3. CASE pclip' = pclip /\ ~SameStamp(push, pclip)
        <4>1. ~Later(push, pclip)
          BY <1>a, <3>3, LaterIs
        <4>2. Later(pclip, push)
          BY <1>a, <3>3, <4>1, Orders
        <4> QED BY <2>1, <3>3, <4>2 DEF Behind, SameStamp, Later, CompareClipStamps
      <3>4. CASE pclip' = pclip /\ SameStamp(push, pclip)
        <4>1. SameStamp(pclip, clip) /\ SameStamp(clip, pclip)
          BY <2>1, <3>4 DEF SameStamp
        <4>2. clip.what = pclip.what
          <5>1. CASE push.what = pclip.what
            BY <3>1, <5>1
          <5>2. CASE pclip.origin = "mac"
            BY <1>a, <4>1, <5>2, Orders DEF Agreeing, Known
          <5> QED BY <3>4, <5>1, <5>2 DEF Later, SameStamp, CompareClipStamps
        <4> QED BY <3>4, <4>1, <4>2 DEF Behind
      <3> QED BY <3>2, <3>3, <3>4
    <2> QED BY <1>a, <1>c, <2>1 DEF Agreeing, MacHeading
  <1>7. PhoneHeading'
    BY <1>4, <1>d DEF Agreeing, PhoneHeading
  <1>8. Answered'
    BY DEF Agreeing, Answered
  <1> QED BY <1>1, <1>2, <1>3, <1>5, <1>6, <1>7, <1>8 DEF Agreeing


\* A goroutine that moves with the push it holds, if any.
LEMMA ToPhoneMoved ==
    ASSUME TypeInv, NEW p \in Procs, NEW st, Moves(p, st), st.push = proc[p].push,
           toPhone' = toPhone
    PROVE  \A x : ToPhone(x)' <=> ToPhone(x)
  <1>1. \A q \in Procs : proc'[q].push = proc[q].push
    BY Moved
  <1> QED BY <1>1 DEF ToPhone

\* SetLocal stages content or leaves it.
LEMMA ConvergeSet ==
    ASSUME TypeInv, TypeInv', Agreeing, NEW x \in Contents, NEW w \in Nat \ {0}, SetLocal(x, w),
           \A y : ToPhone(y)' <=> ToPhone(y), UNCHANGED <<toMac, post, psends, pclip>>
    PROVE  Agreeing'
  <1>1. CASE UNCHANGED storeVars
    <2>1. UNCHANGED clip
      BY <1>1 DEF storeVars
    <2> QED BY <2>1, ConvergeFrame DEF SameStamp
  <1>2. CASE /\ Advance /\ clip'.at >= w /\ clip'.origin = "mac" /\ clip'.pending
    <2>1. clip'.at > 0
      BY <1>2, ClipStamps
    <2> QED BY <1>2, <2>1, MacStages DEF Advance
  <1> QED BY <1>1, <1>2, SetStore

\* The debounce timer's copy and the Send button's.
LEMMA ConvergeStages ==
    ASSUME TypeInv, TypeInv', Agreeing, WallOK,
           \/ TimerSets
           \/ \E p \in Procs : PushSets(p) \/ \E x \in Contents : PushGiven(p, x)
    PROVE  Agreeing'
  <1>1. now \in Nat \ {0}
    BY BoundsAssumption DEF TypeInv, CountOK
  <1>2. UNCHANGED <<toPhone, toMac, post, psends, pclip>>
    BY DEF TimerSets, PushSets, PushGiven, wireVars, phoneVars
  <1>3. CASE TimerSets
    <2>1. proc[Timer].what \in Contents /\ proc[Timer].wall \in Nat \ {0} /\ proc[Timer].push = None
      BY <1>3, TimerMoves, ProcFields, Constants DEF TimerSets, At, WallOK
    <2>2. PICK st : Moves(Timer, st) /\ st \in {Idle, St("flush", None, 0, None)}
      BY <1>3, TimerMoves
    <2>3. st.push = None
      BY <2>2, Constants DEF St
    <2>4. \A x : ToPhone(x)' <=> ToPhone(x)
      BY <1>2, <2>1, <2>2, <2>3, ToPhoneMoved, Constants
    <2> QED BY <1>2, <1>3, <2>1, <2>4, ConvergeSet DEF TimerSets
  <1>4. ASSUME NEW p \in Procs, PushSets(p) PROVE Agreeing'
    <2>1. proc[p].what \in Contents /\ proc[p].push = None
      BY <1>4, ProcFields DEF PushSets, At
    <2>2. PICK st : Moves(p, st) /\ st = St("take", proc[p].what, now, None)
      BY <1>4, SetsMoves
    <2>3. st.push = None
      BY <2>2 DEF St
    <2>4. \A x : ToPhone(x)' <=> ToPhone(x)
      BY <1>2, <2>1, <2>2, <2>3, ToPhoneMoved
    <2> QED BY <1>1, <1>2, <1>4, <2>1, <2>4, ConvergeSet DEF PushSets
  <1>5. ASSUME NEW p \in Procs, NEW x \in Contents, PushGiven(p, x) PROVE Agreeing'
    <2>1. proc[p].push = None
      BY <1>5, ProcFields DEF PushGiven, At
    <2>2. \A y : ToPhone(y)' <=> ToPhone(y)
      <3>1. CASE Moves(p, St("take", x, now, None))
        <4>1. PICK st : Moves(p, st) /\ st = St("take", x, now, None)
          BY <3>1
        <4>2. st.push = None
          BY <4>1 DEF St
        <4> QED BY <1>2, <2>1, <4>1, <4>2, ToPhoneMoved
      <3>2. CASE UNCHANGED proc
        BY <1>2, <3>2 DEF ToPhone
      <3> QED BY <1>5, <3>1, <3>2, GivenMoves
    <2> QED BY <1>1, <1>2, <1>5, <2>2, ConvergeSet DEF PushGiven
  <1> QED BY <1>3, <1>4, <1>5

\* The clip is taken from the outbox: it is the Mac's own, and what the Send
\* buttons make themselves is excepted.
LEMMA ConvergeTakes ==
    ASSUME TypeInv, TypeInv', BounceInv, Agreeing, ClipsGood, ClipsGood', NEW p \in Procs,
           TakePending(p) \/ PushTakes(p)
    PROVE  Agreeing'
  <1>1. /\ UNCHANGED <<toPhone, toMac, post, psends, pclip>> /\ proc[p].push = None
        /\ clip' = [clip EXCEPT !.pending = FALSE]
    BY ProcFields DEF TakePending, PushTakes, At, wireVars, phoneVars
  <1>2. clip.pending
    BY DEF TakePending, PushTakes, ClipsGood, If
  <1>3. clip.origin = "mac"
    BY <1>2 DEF BounceInv, ClipsGood
  <1>4. PICK push \in Pushes : push = Push(clip, TRUE) /\ Moves(p, St("send", None, 0, push))
    BY <1>2, TakeMoves, PushTakesMoves
  <1>5. push.what = clip.what /\ SameStamp(push, clip) /\ push.origin = "mac"
    BY <1>3, <1>4 DEF Push, SameStamp
  <1>6. clip'.what = clip.what /\ clip'.origin = clip.origin /\ SameStamp(clip', clip)
    BY <1>1, ClipFields DEF Clips, SameStamp
  <1>7. proc'[p].push = push /\ \A q \in Procs \ {p} : proc'[q].push = proc[q].push
    <2>1. /\ proc'[p] = St("send", None, 0, push)
          /\ \A q \in Procs \ {p} : proc'[q] = proc[q]
      BY <1>4, Moved
    <2> QED BY <2>1 DEF St
  <1>8. \A x : ToPhone(x)' <=> ToPhone(x) \/ x = push
    BY <1>1, <1>7, Constants DEF ToPhone
  <1> QED BY <1>1, <1>5, <1>6, <1>8, MacOffers

\* A push is written to the socket, or held to be put back.
LEMMA ConvergeSends ==
    ASSUME TypeInv, TypeInv', Agreeing, NEW p \in Procs, Send(p)
    PROVE  Agreeing'
  <1>1. UNCHANGED <<clip, toMac, post, psends, pclip>>
    BY DEF Send, storeVars, phoneVars
  <1>2. proc[p].push \in Pushes /\ proc[p].push # None
    BY SendMoves, Constants
  <1>3. \A x : ToPhone(x)' <=> ToPhone(x)
    <2>1. CASE toPhone' = Append(toPhone, proc[p].push) /\ Moves(p, Idle)
      <3>1. \A x : In(x, toPhone') <=> In(x, toPhone) \/ x = proc[p].push
        <4>1. toPhone \in Seq(Pushes)
          BY DEF TypeInv, WireOK
        <4> QED BY <1>2, <2>1, <4>1, InAppend
      <3>2. proc'[p].push = None /\ \A q \in Procs \ {p} : proc'[q].push = proc[q].push
        BY <2>1, Moved, Constants
      <3> QED BY <1>2, <3>1, <3>2 DEF ToPhone
    <2>2. CASE toPhone' = toPhone /\ Moves(p, St("requeue", None, proc[p].wall, proc[p].push))
      <3>1. PICK st : Moves(p, st) /\ st = St("requeue", None, proc[p].wall, proc[p].push)
        BY <2>2
      <3>2. st.push = proc[p].push
        BY <3>1 DEF St
      <3> QED BY <2>2, <3>1, <3>2, ToPhoneMoved
    <2> QED BY <2>1, <2>2, SendMoves
  <1> QED BY <1>1, <1>3, ConvergeFrame DEF SameStamp

\* requeueClip.
LEMMA ConvergeRequeues ==
    ASSUME TypeInv, TypeInv', Agreeing, NEW p \in Procs, Requeue(p)
    PROVE  Agreeing'
  <1>1. /\ UNCHANGED <<toPhone, toMac, post, psends, pclip>>
        /\ IF clip.what # None THEN clip' = [clip EXCEPT !.pending = TRUE] ELSE clip' = clip
    BY DEF Requeue, wireVars, phoneVars
  <1>2. /\ clip'.what = clip.what /\ clip'.origin = clip.origin /\ SameStamp(clip', clip)
        /\ clip.what # None => clip'.pending
    BY <1>1, ClipFields DEF Clips, SameStamp
  <1>3. proc'[p].push = None /\ \A q \in Procs \ {p} : proc'[q].push = proc[q].push
    BY FinishMoves, Moved, Constants
  <1>4. \A x : ToPhone(x)' => ToPhone(x)
    BY <1>1, <1>3 DEF ToPhone
  <1> QED BY <1>1, <1>2, <1>4, MacPutsBack

\* ingestClipBody adopts a push of the phone's, or holds a clip as late: a
\* forbidden push and the content that is there already are excepted.
LEMMA ConvergeIngest ==
    ASSUME TypeInv, NEW p \in Procs, NEW push \in Pushes, IngestClip(p, push), ClipsGood',
           push.at > 0, push.origin = "android"
    PROVE  /\ ~Later(push, clip')
           /\ \/ clip' = clip
              \/ /\ Later(clip', clip) /\ clip'.origin = "android"
                 /\ SameStamp(clip', push) /\ clip'.what = push.what
  <1>1. \/ clip' = clip
        \/ /\ Later(clip', clip) /\ clip'.origin = "android"
           /\ SameStamp(clip', push) /\ clip'.what = push.what
    BY IngestMoves DEF Adopts, Advance, SameStamp
  <1>2. AllowsReceive(push.origin)
    BY DEF IngestClip, ClipsGood
  <1>3. ApplyRemote(p, push)
    BY <1>2 DEF IngestClip
  <1>4. /\ push.at \in Nat /\ push.c \in Nat /\ clip.at \in Nat /\ clip.c \in Nat
    BY ClipFields, PushFields
  <1>5. CASE RemoteClipWinsEx(clip, push) /\ ~(push.hashed /\ push.what = clip.what)
    <2>1. clip' = [what |-> push.what, at |-> push.at, c |-> push.c,
                   origin |-> push.origin, pending |-> FALSE]
      BY <1>3, <1>5 DEF ApplyRemote
    <2>2. clip'.at = push.at /\ clip'.c = push.c
      BY <2>1
    <2> QED BY <1>1, <1>4, <2>2, LaterIs
  <1>6. CASE ~RemoteClipWinsEx(clip, push)
    <2>1. clip' = clip
      BY <1>3, <1>6 DEF ApplyRemote, storeVars
    <2> QED BY <1>6, <2>1 DEF RemoteClipWinsEx
  <1>7. CASE RemoteClipWinsEx(clip, push) /\ push.hashed /\ push.what = clip.what
    <2>1. "same" \in causes'
      BY <1>3, <1>7 DEF ApplyRemote, If
    <2> QED BY <2>1 DEF ClipsGood
  <1> QED BY <1>5, <1>6, <1>7

\* What ingestClipBody leaves a goroutine with holds no push.
LEMMA IngestToPhone ==
    ASSUME TypeInv, NEW p \in Procs, NEW push \in Pushes, IngestClip(p, push), At(p, "idle"),
           toPhone' = toPhone
    PROVE  \A x : ToPhone(x)' <=> ToPhone(x)
  <1>1. CASE Moves(p, St("note", push.what, 0, None))
    <2>1. PICK st : Moves(p, st) /\ st = St("note", push.what, 0, None)
      BY <1>1
    <2>2. st.push = None /\ proc[p].push = None
      BY <2>1, ProcFields DEF St, At
    <2> QED BY <2>1, <2>2, ToPhoneMoved
  <1>2. CASE UNCHANGED proc
    BY <1>2 DEF ToPhone
  <1> QED BY <1>1, <1>2, IngestMoves DEF Adopts

\* A push reaches the Mac over the socket ...
LEMMA ConvergeWs ==
    ASSUME TypeInv, TypeInv', Agreeing, ClipsGood', WsIngest
    PROVE  Agreeing'
  <1>1. PICK push \in Pushes : push = Head(toMac)
    BY WsMoves
  <1>2. /\ IngestClip(Reader, push) /\ At(Reader, "idle")
        /\ toMac # <<>> /\ toMac' = Tail(toMac) /\ UNCHANGED <<toPhone, post, psends, pclip>>
    BY <1>1 DEF WsIngest, phoneVars
  <1>3. \A x : In(x, toMac) <=> x = push \/ In(x, toMac')
    <2>1. toMac \in Seq(Pushes)
      BY DEF TypeInv, WireOK
    <2> QED BY <1>1, <1>2, <2>1, InTail
  <1>4. /\ ToMac(push)
        /\ \A x : ToMac(x) => ToMac(x)' \/ x = push
        /\ \A x : ToMac(x)' => ToMac(x)
        /\ \A x : Awaited(x)' <=> Awaited(x)
    BY <1>2, <1>3 DEF ToMac, Awaited
  <1>5. push.at > 0 /\ push.origin = "android"
    BY <1>4 DEF Agreeing, PhoneOwn
  <1>6. /\ ~Later(push, clip')
        /\ \/ clip' = clip
           \/ /\ Later(clip', clip) /\ clip'.origin = "android"
              /\ SameStamp(clip', push) /\ clip'.what = push.what
    BY <1>2, <1>5, ConvergeIngest, Constants
  <1>7. \A x : ToPhone(x)' <=> ToPhone(x)
    BY <1>2, IngestToPhone, Constants
  <1> QED BY <1>2, <1>3, <1>4, <1>6, <1>7, MacTakes

\* ... or as a post.
LEMMA ConvergePost ==
    ASSUME TypeInv, TypeInv', Agreeing, ClipsGood', PostIngest
    PROVE  Agreeing'
  <1>1. PICK push \in Pushes : push = post.push
    BY PostMoves
  <1>2. /\ IngestClip(Http, push) /\ At(Http, "idle") /\ post.pc = "sent"
        /\ post' = [post EXCEPT !.pc = "handled"] /\ UNCHANGED <<toPhone, toMac, psends, pclip>>
    BY <1>1 DEF PostIngest, phoneVars
  <1>3. post'.pc = "handled" /\ post'.push = push
    BY <1>1, <1>2 DEF TypeInv, SendsOK
  <1>4. /\ ToMac(push)
        /\ \A x : ToMac(x) => ToMac(x)' \/ x = push
        /\ \A x : ToMac(x)' => ToMac(x)
        /\ \A x : Awaited(x)' <=> Awaited(x)
    BY <1>1, <1>2, <1>3 DEF ToMac, Awaited
  <1>5. push.at > 0 /\ push.origin = "android"
    BY <1>4 DEF Agreeing, PhoneOwn
  <1>6. /\ ~Later(push, clip')
        /\ \/ clip' = clip
           \/ /\ Later(clip', clip) /\ clip'.origin = "android"
              /\ SameStamp(clip', push) /\ clip'.what = push.what
    BY <1>2, <1>5, ConvergeIngest, Constants
  <1>7. \A x : ToPhone(x)' <=> ToPhone(x)
    BY <1>2, IngestToPhone, Constants
  <1> QED BY <1>2, <1>3, <1>4, <1>6, <1>7, MacTakes

\* The phone's debounce timer, and its flush on a connect.
LEMMA ConvergeDrafts ==
    ASSUME TypeInv, TypeInv', Agreeing, ClipsGood', PhoneFlushAuto \/ PhoneFlushClip
    PROVE  Agreeing'
  <1>1. UNCHANGED <<toPhone, proc, clip>>
    BY DEF PhoneFlushAuto, PhoneFlushClip, storeVars
  <1>2. \A x : ToPhone(x)' <=> ToPhone(x)
    BY <1>1 DEF ToPhone
  <1>3. CASE UNCHANGED <<pclip, psends, toMac, post>>
    BY <1>1, <1>2, <1>3, ConvergeFrame DEF SameStamp
  <1>4. ASSUME NEW push \in Pushes, push = AsPush(pclip'), pclip'.pending, ClipOK(pclip'),
               pclip'.what # None,
               \/ pclip' = pclip
               \/ Later(pclip', pclip) /\ pclip'.origin = "android" /\ pclip'.at > 0,
               PhonePush(push) \/ UNCHANGED <<psends, toMac, post>>, UNCHANGED <<up, toPhone>>
        PROVE  Agreeing'
    <2>1. push.what = pclip'.what /\ SameStamp(push, pclip') /\ push.origin = "android"
      BY <1>4 DEF AsPush, Push, SameStamp
    <2>2. /\ \A x : ToMac(x)' \/ Awaited(x)' => ToMac(x) \/ Awaited(x) \/ x = push
          /\ \A x : In(x, toMac) => In(x, toMac)'
          /\ \A x : In(x, psends)' => In(x, psends) \/ In(x, toMac)'
          /\ post'.pc = "handled" => post' = post
      <3>1. CASE UNCHANGED <<psends, toMac, post>>
        BY <3>1 DEF ToMac, Awaited
      <3>2. CASE post' = post /\ toMac' = Append(toMac, push) /\ psends' = Append(psends, push)
        <4>1. toMac \in Seq(Pushes) /\ psends \in Seq(Pushes)
          BY DEF TypeInv, WireOK, SendsOK
        <4>2. /\ \A x : In(x, toMac') <=> In(x, toMac) \/ x = push
              /\ \A x : In(x, psends') <=> In(x, psends) \/ x = push
          BY <3>2, <4>1, InAppend
        <4>3. \A x : ToMac(x)' => ToMac(x) \/ x = push
          BY <3>2, <4>2 DEF ToMac
        <4>4. \A x : /\ Awaited(x) <=> (post.pc # "none" /\ post.push = x) \/ In(x, psends)
                     /\ Awaited(x)' <=> (post'.pc # "none" /\ post'.push = x) \/ In(x, psends')
          BY DEF Awaited, In
        <4>5. \A x : Awaited(x)' => Awaited(x) \/ x = push
          BY <3>2, <4>2, <4>4
        <4> QED BY <3>2, <4>2, <4>3, <4>5
      <3>3. CASE /\ UNCHANGED <<toMac, psends>> /\ post'.pc = "sent" /\ post'.push = push
        BY <3>3 DEF ToMac, Awaited
      <3> QED BY <1>4, <3>1, <3>2, <3>3, PhonePushOK
    <2> QED BY <1>1, <1>2, <1>4, <2>1, <2>2, PhoneStages
  <1>5. CASE PhoneFlushAuto /\ ~UNCHANGED <<pclip, psends, toMac, post>>
    <2>1. /\ ClipOK(pclip') /\ pclip'.pending /\ pclip'.at > pclip.at /\ pclip'.c = 0
          /\ pclip'.origin = "android" /\ pclip'.what # None /\ pclip' \in Clips
          /\ UNCHANGED <<up, toPhone>>
          /\ PhonePush(AsPush(pclip')) \/ UNCHANGED <<psends, toMac, post>>
      BY <1>5, FlushAutoMoves
    <2>2. Later(pclip', pclip) /\ pclip'.at > 0
      BY <2>1, ClipStamps, LaterIs
    <2>3. PICK push \in Pushes : push = AsPush(pclip')
      BY <2>1, PushOK
    <2> QED BY <1>4, <2>1, <2>2, <2>3
  <1>6. CASE PhoneFlushClip
    <2>1. AllowsSend("android") /\ UNCHANGED <<up, toPhone>> /\ pclip.pending
      BY <1>6 DEF PhoneFlushClip, ClipsGood
    <2>2. PhonePush(AsPush(pclip)) /\ pclip' = pclip
      BY <1>6, <2>1 DEF PhoneFlushClip
    <2>3. ClipOK(pclip) /\ pclip.what # None
      BY <2>1, ClipFields DEF TypeInv, PhoneOK
    <2>4. PICK push \in Pushes : push = AsPush(pclip)
      BY <2>1, ClipFields, PushOK
    <2>5. pclip'.pending /\ ClipOK(pclip') /\ pclip'.what # None /\ push = AsPush(pclip')
      BY <2>1, <2>2, <2>3, <2>4
    <2>6. PhonePush(push)
      BY <2>2, <2>4
    <2> QED BY <1>4, <2>1, <2>2, <2>5, <2>6
  <1> QED BY <1>3, <1>5, <1>6

\* A send ends: the Mac is not behind it, or it is still on its way; a post
\* that fails queues the clip again.
LEMMA ConvergeSettles ==
    ASSUME TypeInv, TypeInv', Agreeing, ClipsGood', PhoneSent \/ PostFails
    PROVE  Agreeing'
  <1>1. /\ UNCHANGED <<toPhone, proc, clip, toMac>>
        /\ \/ pclip' = [pclip EXCEPT !.pending = FALSE]
           \/ pclip' = [pclip EXCEPT !.pending = TRUE]
        /\ \/ psends # <<>> /\ psends' = Tail(psends) /\ post' = post
           \/ post'.pc = "none" /\ psends' = psends /\ (PhoneSent => post.pc = "handled")
    BY DEF PhoneSent, PostFails, storeVars
  <1>2. /\ pclip'.what = pclip.what /\ pclip'.origin = pclip.origin /\ SameStamp(pclip', pclip)
        /\ ClipOK(pclip)
    BY <1>1, ClipFields DEF Clips, SameStamp, TypeInv, PhoneOK
  <1>3. \A x : In(x, psends)' => In(x, psends)
    <2>1. psends \in Seq(Pushes)
      BY DEF TypeInv, SendsOK
    <2> QED BY <1>1, <2>1, InTail
  <1>4. /\ \A x : ToPhone(x)' <=> ToPhone(x)
        /\ \A x : ToMac(x)' => ToMac(x)
        /\ post'.pc = "handled" => post' = post
    BY <1>1 DEF ToPhone, ToMac
  <1>5. \A x : Awaited(x)' => Awaited(x)
    <2>1. \A x : /\ Awaited(x) <=> (post.pc # "none" /\ post.push = x) \/ In(x, psends)
                 /\ Awaited(x)' <=> (post'.pc # "none" /\ post'.push = x) \/ In(x, psends')
      BY DEF Awaited, In
    <2> QED BY <1>1, <1>3, <2>1
  <1>6. \/ pclip'.pending \/ ~Later(pclip, clip)
        \/ \E x : ToMac(x)' /\ SameStamp(x, pclip)
    <2>1. CASE PostFails
      <3>1. pclip' = [pclip EXCEPT !.pending = TRUE] /\ pclip.what # None
        BY <2>1 DEF PostFails, TypeInv, SendsOK
      <3> QED BY <1>2, <3>1, PendingOK
    <2>2. CASE PhoneSent
      <3>1. \A x : ToMac(x)' <=> ToMac(x)
        BY <1>1, <2>2 DEF ToMac
      <3>2. pclip.what # None
        BY <2>2 DEF PhoneSent, TypeInv, SendsOK
      <3>3. CASE pclip.pending
        <4>1. PICK push \in Pushes : push = AsPush(pclip)
          BY <3>3, ClipFields, PushOK
        <4>2. Awaited(push)
          BY <2>2, <3>3, <4>1 DEF PhoneSent, ClipsGood, If
        <4>3. ToMac(push) \/ ~Later(push, clip)
          <5>1. CASE In(push, psends)
            BY <5>1 DEF Agreeing, Answered, ToMac
          <5>2. CASE post.pc # "none" /\ post.push = push
            BY <5>2 DEF Agreeing, Answered, ToMac, TypeInv, SendsOK
          <5> QED BY <4>2, <5>1, <5>2, AwaitedIs
        <4>4. SameStamp(push, pclip)
          BY <4>1 DEF AsPush, Push, SameStamp
        <4>5. Later(push, clip) <=> Later(pclip, clip)
          BY <4>4 DEF Later, CompareClipStamps, SameStamp
        <4> QED BY <3>1, <4>3, <4>4, <4>5
      <3>4. CASE ~pclip.pending
        BY <3>1, <3>2, <3>4 DEF Agreeing, PhoneHeading
      <3> QED BY <3>3, <3>4
    <2> QED BY <2>1, <2>2
  <1> QED BY <1>1, <1>2, <1>3, <1>4, <1>5, <1>6, PhoneSettles

\* A frame reaches the phone: adopted, or no later than what is there; a tie, a
\* forbidden push and the content that is there already are excepted.
LEMMA ConvergeReceives ==
    ASSUME TypeInv, TypeInv', Agreeing, ClipsGood', PhoneReceive
    PROVE  Agreeing'
  <1>1. PICK push \in Pushes : push = Head(toPhone)
    BY ReceiveMoves
  <1>2. /\ toPhone # <<>> /\ toPhone' = Tail(toPhone)
        /\ UNCHANGED <<proc, clip, toMac, post, psends>>
    BY DEF PhoneReceive, storeVars
  <1>3. \A x : In(x, toPhone) <=> x = push \/ In(x, toPhone')
    <2>1. toPhone \in Seq(Pushes)
      BY DEF TypeInv, WireOK
    <2> QED BY <1>1, <1>2, <2>1, InTail
  <1>4. /\ ToPhone(push)
        /\ \A x : ToPhone(x) => ToPhone(x)' \/ x = push
        /\ \A x : ToPhone(x)' => ToPhone(x)
    BY <1>2, <1>3 DEF ToPhone
  <1>5. push.at > 0 /\ push.origin = "mac"
    BY <1>4 DEF Agreeing, MacOwn
  <1>6. /\ push.at \in Nat /\ push.c \in Nat /\ pclip.at \in Nat /\ pclip.c \in Nat
        /\ pclip.what # None => pclip.origin \in {"mac", "android"}
        /\ pclip.what = None => pclip.at = 0
    BY ClipFields, PushFields
  <1>7. \/ /\ pclip' = pclip /\ ~Later(push, pclip)
           /\ SameStamp(push, pclip) => push.what = pclip.what \/ pclip.origin = "mac"
        \/ /\ Later(pclip', pclip) /\ pclip'.origin = "mac"
           /\ SameStamp(pclip', push) /\ pclip'.what = push.what
    <2>1. CASE pclip' # pclip
      <3>1. /\ RemoteClipWinsEx(pclip, push) /\ pclip'.origin = "mac"
            /\ pclip'.what = push.what /\ pclip'.at = push.at /\ pclip'.c = push.c
        BY <1>1, <2>1, ReceiveMoves
      <3>2. Later(pclip', pclip)
        BY <3>1 DEF RemoteClipWinsEx, Later, CompareClipStamps
      <3> QED BY <3>1, <3>2 DEF SameStamp
    <2>2. CASE pclip' = pclip
      <3>1. "mode" \notin causes' /\ "same" \notin causes' /\ "tie" \notin causes'
        BY DEF ClipsGood
      <3>2. CASE /\ RemoteClipWinsEx(pclip, push) /\ ~(push.hashed /\ push.what = pclip.what)
        <4>1. pclip' = [what |-> push.what, at |-> push.at, c |-> push.c,
                        origin |-> push.origin, pending |-> FALSE]
          BY <1>1, <1>5, <3>1, <3>2 DEF PhoneReceive
        <4>2. pclip.at = push.at /\ pclip.c = push.c
          BY <2>2, <4>1
        <4> QED BY <1>6, <3>2, <4>2, LaterIs DEF RemoteClipWinsEx
      <3>3. CASE ~(RemoteClipWinsEx(pclip, push) /\ ~(push.hashed /\ push.what = pclip.what))
        <4>1. causes' = causes \cup DropCauses(pclip, push)
                         \cup If(RemoteClipWinsEx(pclip, push) /\ push.what = pclip.what, "same")
          BY <1>1, <3>1, <3>3 DEF PhoneReceive
        <4>2. ~(RemoteClipWinsEx(pclip, push) /\ push.what = pclip.what)
          BY <3>1, <4>1 DEF If
        <4>3. ~Later(push, pclip)
          BY <1>5, <3>3, <4>2 DEF RemoteClipWinsEx
        <4>4. ASSUME SameStamp(push, pclip), push.what # pclip.what PROVE pclip.origin = "mac"
          <5>1. CompareClipStamps(push, pclip) = "equal"
            BY <1>6, <4>4, EqualIs
          <5>2. push.origin = pclip.origin
            BY <3>1, <4>1, <4>4, <5>1 DEF DropCauses, If
          <5> QED BY <1>5, <5>2
        <4> QED BY <2>2, <4>3, <4>4
      <3> QED BY <3>2, <3>3
    <2> QED BY <2>1, <2>2
  <1> QED BY <1>2, <1>4, <1>7, PhoneTakes

\* Every step keeps both sides on their way to the same clip.
LEMMA NextAgreeing ==
    ASSUME TypeInv, TypeInv', BounceInv, WallOK, Agreeing, ClipsGood, ClipsGood', [Next]_vars
    PROVE  Agreeing'
  <1>1. ASSUME UNCHANGED <<clip, pclip, toMac, post, psends>>, \A x : ToPhone(x)' <=> ToPhone(x)
        PROVE  Agreeing'
    BY <1>1, ConvergeFrame DEF SameStamp
  <1>2. ASSUME UNCHANGED <<toPhone, proc>> PROVE \A x : ToPhone(x)' <=> ToPhone(x)
    BY <1>2 DEF ToPhone
  <1>3. ASSUME NEW p \in Procs, NEW st, Moves(p, st), st.push = None, proc[p].push = None,
               UNCHANGED <<clip, pclip, toPhone, toMac, post, psends>>
        PROVE  Agreeing'
    BY <1>1, <1>3, ToPhoneMoved
  <1>4. CASE Tick \/ Watches \/ UNCHANGED vars
    <2>1. UNCHANGED <<clip, pclip, toPhone, proc, toMac, post, psends>>
      BY <1>4 DEF Tick, Watches, MacCopy, TickRead, TickReadFails, TickStage, vars, storeVars,
         wireVars, phoneVars
    <2> QED BY <1>1, <1>2, <2>1
  <1>5. CASE TimerFires
    <2>1. /\ UNCHANGED <<clip, pclip, toPhone, toMac, post, psends>> /\ proc[Timer].push = None
          /\ Timer \in Procs
      BY <1>5, ProcFields, Constants DEF TimerFires, At, storeVars, wireVars, phoneVars
    <2>2. PICK w \in Nat : Moves(Timer, St("set", watch.slot, w, None))
      BY <1>5, TimerMoves
    <2>3. PICK st : st = St("set", watch.slot, w, None)
      OBVIOUS
    <2>4. st.push = None
      BY <2>3 DEF St
    <2> QED BY <1>3, <2>1, <2>2, <2>3, <2>4
  <1>6. ASSUME NEW p \in Procs, Quietly(p) PROVE Agreeing'
    <2>1. /\ UNCHANGED <<clip, pclip, toPhone, toMac, post, psends>> /\ proc[p].push = None
      BY <1>6, ProcFields DEF Quietly, FlushNothing, PushClipboardCurrent, NoteRemote,
         WritePasteboard, WriteFails, TimerDrops, SetClipboardMode, At, storeVars, wireVars,
         phoneVars
    <2>2. \E st : Moves(p, st) /\ st.push = None
      <3>1. CASE FlushNothing(p) \/ WritePasteboard(p) \/ WriteFails(p) \/ (p = Timer /\ TimerDrops)
        BY <3>1, FinishMoves, Constants
      <3>2. CASE PushClipboardCurrent(p)
        BY <3>2, CurrentMoves DEF St
      <3>3. CASE NoteRemote(p)
        <4>1. PICK st : st = St("write", proc[p].what, proc[p].wall, None)
          OBVIOUS
        <4>2. Moves(p, st)
          BY <3>3, <4>1, NoteMoves
        <4> QED BY <4>1, <4>2 DEF St
      <3>4. CASE \E m \in Modes : SetClipboardMode(p, m)
        <4>1. PICK st : st = St("flush", None, proc[p].wall, None)
          OBVIOUS
        <4>2. Moves(p, st)
          BY <3>4, <4>1, FlushMoves DEF SetClipboardMode
        <4> QED BY <4>1, <4>2 DEF St
      <3> QED BY <1>6, <3>1, <3>2, <3>3, <3>4 DEF Quietly
    <2> QED BY <1>3, <2>1, <2>2
  <1>7. CASE Connect
    <2>1. /\ UNCHANGED <<clip, pclip, toPhone, toMac, post, psends>> /\ At(Reader, "idle")
          /\ Goto(Reader, "flush") /\ Reader \in Procs /\ proc[Reader].push = None
      BY <1>7, ProcFields, Constants DEF Connect, At, storeVars, phoneVars
    <2>2. PICK st : st = St("flush", None, proc[Reader].wall, None)
      OBVIOUS
    <2>3. Moves(Reader, st) /\ st.push = None
      <3>1. Moves(Reader, St("flush", None, proc[Reader].wall, None))
        BY <2>1, FlushMoves
      <3> QED BY <2>2, <3>1 DEF St
    <2> QED BY <1>3, <2>1, <2>3
  <1>8. CASE Disconnect
    <2>1. toPhone \o toMac = <<>>
      BY <1>8 DEF Disconnect, If, ClipsGood
    <2>2. toPhone = <<>> /\ toMac = <<>>
      <3>1. toPhone \in Seq(Pushes) /\ toMac \in Seq(Pushes)
        BY DEF TypeInv, WireOK
      <3>2. Len(toPhone) + Len(toMac) = 0 /\ Len(toPhone) \in Nat /\ Len(toMac) \in Nat
        BY <2>1, <3>1
      <3> QED BY <3>1, <3>2
    <2>3. UNCHANGED <<clip, pclip, toPhone, proc, toMac, post, psends>>
      BY <1>8, <2>2 DEF Disconnect, storeVars, phoneVars
    <2> QED BY <1>1, <1>2, <2>3
  <1>9. CASE MacRestarts
    BY <1>9 DEF MacRestarts, ClipsGood
  <1>10. CASE PhoneActs
    <2>1. CASE PhoneEdits \/ \E m \in Modes : PhoneSetsMode(m)
      <3>1. UNCHANGED <<clip, pclip, toPhone, proc, toMac, post, psends>>
        BY <2>1 DEF PhoneEdits, PhoneCopy, PhoneRefresh, PhoneDropsDraft, PhoneWrites,
           PhoneWriteFails, PhoneSetsMode, storeVars, wireVars, phoneVars
      <3> QED BY <1>1, <1>2, <3>1
    <2> QED BY <1>10, <2>1, ConvergeDrafts, ConvergeSettles, ConvergeReceives DEF PhoneActs
  <1> QED BY <1>4, <1>5, <1>6, <1>7, <1>8, <1>9, <1>10, ConvergeStages, ConvergeTakes,
     ConvergeSends, ConvergeRequeues, ConvergeWs, ConvergePost, NextSplit

\* A step that queues nothing and leaves those that flush where they are.
LEMMA FlushingFrame ==
    ASSUME Flushing, clip'.pending => clip.pending, UNCHANGED <<mode, up>>,
           \A p \in Procs : proc[p].pc \in {"flush", "take"} => proc'[p].pc \in {"flush", "take"}
    PROVE  Flushing'
  BY DEF Flushing, AllowsSend

\* A goroutine that was not about to flush moves.
LEMMA FlushingMoved ==
    ASSUME TypeInv, Flushing, clip'.pending => clip.pending, UNCHANGED <<mode, up>>,
           NEW p \in Procs, NEW st, Moves(p, st), proc[p].pc \notin {"flush", "take"}
    PROVE  Flushing'
  <1>1. \A q \in Procs : proc[q].pc \in {"flush", "take"} => proc'[q].pc \in {"flush", "take"}
    BY Moved
  <1> QED BY <1>1, FlushingFrame

\* Whatever queues the clip also sees to it that it is taken, unless there is
\* no socket, whose connect will, or the mode does not let the Mac send, whose
\* switch on the Mac will; the phone's switch, and an empty text in the pane,
\* are excepted.
LEMMA NextFlushing ==
    ASSUME TypeInv, TypeInv', Flushing, ClipsGood', [Next]_vars
    PROVE  Flushing'
  <1>1. ASSUME NEW p \in Procs, proc'[p].pc \in {"flush", "take"} PROVE Flushing'
    BY <1>1 DEF Flushing
  <1>2. ASSUME ~clip'.pending \/ ~up' PROVE Flushing'
    BY <1>2 DEF Flushing
  <1>3. CASE Tick \/ Watches \/ PhoneActs \/ UNCHANGED vars
    <2>1. CASE \E m \in Modes : PhoneSetsMode(m)
      <3>1. UNCHANGED <<clip, up>> /\ (~up \/ ~clip.pending)
        BY <2>1 DEF PhoneSetsMode, ClipsGood, If, storeVars, wireVars
      <3> QED BY <1>2, <3>1
    <2>2. CASE ~\E m \in Modes : PhoneSetsMode(m)
      <3>1. UNCHANGED <<mode, up, clip, proc>>
        BY <1>3, <2>2 DEF Tick, Watches, MacCopy, TickRead, TickReadFails, TickStage, PhoneActs,
           PhoneEdits, PhoneCopy, PhoneRefresh, PhoneDropsDraft, PhoneFlushAuto, PhoneFlushClip,
           PhoneSent, PostFails, PhoneReceive, PhoneWrites, PhoneWriteFails, vars, storeVars,
           wireVars
      <3> QED BY <3>1, FlushingFrame
    <2> QED BY <2>1, <2>2
  <1>4. CASE TimerFires
    <2>1. UNCHANGED <<mode, up, clip>> /\ proc[Timer].pc = "idle"
      BY <1>4 DEF TimerFires, At, storeVars, wireVars
    <2> QED BY <1>4, <2>1, TimerMoves, FlushingMoved, Constants
  <1>5. CASE TimerSets
    <2>1. UNCHANGED <<mode, up>> /\ Timer \in Procs
      BY <1>5, Constants DEF TimerSets, wireVars
    <2>2. CASE AllowsSend("mac")
      <3>1. proc' = [proc EXCEPT ![Timer] = [Idle EXCEPT !.pc = "flush"]]
        BY <1>5, <2>2 DEF TimerSets
      <3>2. proc'[Timer].pc = "flush"
        BY <2>1, <3>1, ProcFields DEF Idle
      <3> QED BY <1>1, <2>1, <3>2
    <2>3. CASE ~AllowsSend("mac")
      BY <2>1, <2>3 DEF Flushing, AllowsSend
    <2> QED BY <2>2, <2>3
  <1>6. ASSUME NEW p \in Procs, Quietly(p) PROVE Flushing'
    <2>1. CASE FlushNothing(p)
      BY <1>2, <2>1 DEF FlushNothing, storeVars, wireVars
    <2>2. CASE \/ PushClipboardCurrent(p) \/ NoteRemote(p) \/ WritePasteboard(p)
               \/ WriteFails(p) \/ (p = Timer /\ TimerDrops)
      <3>1. UNCHANGED <<mode, up, clip>> /\ proc[p].pc \in {"idle", "note", "write", "set"}
        BY <2>2 DEF PushClipboardCurrent, NoteRemote, WritePasteboard, WriteFails, TimerDrops,
           At, storeVars, wireVars
      <3>2. \E st : Moves(p, st)
        BY <2>2, CurrentMoves, NoteMoves, FinishMoves
      <3> QED BY <3>1, <3>2, FlushingMoved
    <2>3. CASE \E m \in Modes : SetClipboardMode(p, m)
      <3>1. PICK st : st = St("flush", None, proc[p].wall, None)
        OBVIOUS
      <3>2. Moves(p, st)
        BY <2>3, <3>1, FlushMoves DEF SetClipboardMode
      <3>3. proc'[p].pc = "flush"
        BY <3>1, <3>2, Moved DEF St
      <3> QED BY <1>1, <3>3
    <2> QED BY <1>6, <2>1, <2>2, <2>3 DEF Quietly
  <1>7. ASSUME NEW p \in Procs, TakePending(p) \/ PushTakes(p) PROVE Flushing'
    <2>1. clip' = [clip EXCEPT !.pending = FALSE]
      BY <1>7 DEF TakePending, PushTakes
    <2>2. ~clip'.pending
      BY <2>1, ClipFields DEF Clips
    <2> QED BY <1>2, <2>2
  <1>8. ASSUME NEW p \in Procs, Send(p) PROVE Flushing'
    <2>1. UNCHANGED <<mode, up, clip>> /\ proc[p].pc = "send" /\ \E st : Moves(p, st)
      BY <1>8, SendMoves DEF Send, storeVars
    <2> QED BY <2>1, FlushingMoved
  <1>9. ASSUME NEW p \in Procs, Requeue(p) PROVE Flushing'
    <2>1. ~up /\ up' = up
      BY <1>9 DEF Requeue, If, ClipsGood, wireVars
    <2> QED BY <1>2, <2>1
  <1>10. ASSUME NEW p \in Procs, PushSets(p) PROVE Flushing'
    <2>1. PICK st : st = St("take", proc[p].what, now, None)
      OBVIOUS
    <2>2. Moves(p, st)
      BY <1>10, <2>1, SetsMoves
    <2>3. proc'[p].pc = "take"
      BY <2>1, <2>2, Moved DEF St
    <2> QED BY <1>1, <2>3
  <1>11. ASSUME NEW p \in Procs, NEW x \in Contents, PushGiven(p, x) PROVE Flushing'
    <2>1. up' = up
      BY <1>11 DEF PushGiven, wireVars
    <2>2. CASE proc' = [proc EXCEPT ![p] = [Idle EXCEPT !.pc = "take", !.what = x, !.wall = now]]
      <3>1. proc'[p].pc = "take"
        BY <2>2, ProcFields DEF Idle
      <3> QED BY <1>1, <3>1
    <2>3. CASE x = Empty \/ ~up
      <3>1. ~up \/ ~clip'.pending
        BY <1>11, <2>3 DEF PushGiven, ClipsGood, If
      <3> QED BY <1>2, <2>1, <3>1
    <2> QED BY <1>11, <2>2, <2>3 DEF PushGiven
  <1>12. CASE WsIngest \/ PostIngest
    <2>1. UNCHANGED <<mode, up>>
      BY <1>12 DEF WsIngest, PostIngest
    <2>2. ~clip'.pending \/ UNCHANGED <<clip, proc>>
      BY <1>12, WsMoves, PostMoves DEF Adopts
    <2> QED BY <1>2, <2>1, <2>2, FlushingFrame
  <1>13. CASE Connect
    <2>1. PICK st : st = St("flush", None, proc[Reader].wall, None)
      OBVIOUS
    <2>2. Reader \in Procs /\ Moves(Reader, st)
      BY <1>13, <2>1, FlushMoves, Constants DEF Connect
    <2>3. proc'[Reader].pc = "flush"
      BY <2>1, <2>2, Moved DEF St
    <2> QED BY <1>1, <2>2, <2>3
  <1>14. CASE Disconnect \/ MacRestarts
    BY <1>2, <1>14 DEF Disconnect, MacRestarts
  <1> QED BY <1>3, <1>4, <1>5, <1>6, <1>7, <1>8, <1>9, <1>10, <1>11, <1>12, <1>13, <1>14,
     NextSplit

\* The debounce timer took a second to stamp with; another goroutine's move, or
\* its own to another place, leaves that alone.
LEMMA WallMoved ==
    ASSUME TypeInv, WallOK, NEW p \in Procs, NEW st, Moves(p, st), p = Timer => st.pc # "set"
    PROVE  WallOK'
  <1>1. proc'[p] = st /\ \A q \in Procs \ {p} : proc'[q] = proc[q]
    BY Moved
  <1> QED BY <1>1, Constants DEF WallOK

\* No step has it stamp with second 0.
LEMMA NextWallOK == TypeInv /\ WallOK /\ [Next]_vars => WallOK'
  <1> SUFFICES ASSUME TypeInv, WallOK, [Next]_vars PROVE WallOK'
    OBVIOUS
  <1>1. CASE UNCHANGED proc
    BY <1>1 DEF WallOK
  <1>2. ASSUME NEW p \in Procs, NEW pc, NEW x, NEW w, NEW push,
               Moves(p, St(pc, x, w, push)), pc # "set"
        PROVE  WallOK'
    <2>1. PICK st : st = St(pc, x, w, push)
      OBVIOUS
    <2>2. st.pc # "set"
      BY <1>2, <2>1 DEF St
    <2> QED BY <1>2, <2>1, <2>2, WallMoved
  <1>3. ASSUME NEW p \in Procs, Moves(p, Idle) PROVE WallOK'
    BY <1>3, WallMoved, Constants
  <1>4. CASE Tick \/ Watches \/ Disconnect \/ PhoneActs \/ UNCHANGED vars
    <2>1. UNCHANGED proc
      BY <1>4 DEF Tick, Watches, MacCopy, TickRead, TickReadFails, TickStage, Disconnect,
         PhoneActs, PhoneEdits, PhoneCopy, PhoneRefresh, PhoneDropsDraft, PhoneFlushAuto,
         PhoneFlushClip, PhoneSent, PostFails, PhoneReceive, PhoneWrites, PhoneWriteFails,
         PhoneSetsMode, vars
    <2> QED BY <1>1, <2>1
  <1>5. CASE TimerFires
    <2>1. PICK w \in Nat \ {0} : Moves(Timer, St("set", watch.slot, w, None))
      BY <1>5, TimerMoves
    <2>2. PICK st : st = St("set", watch.slot, w, None)
      OBVIOUS
    <2>3. proc'[Timer] = st /\ st.wall = w
      BY <2>1, <2>2, Moved, Constants DEF St
    <2> QED BY <2>1, <2>3 DEF WallOK
  <1>6. CASE TimerSets
    BY <1>2, <1>3, <1>6, TimerMoves, Constants
  <1>7. ASSUME NEW p \in Procs, Quietly(p) PROVE WallOK'
    <2>1. CASE FlushNothing(p) \/ WritePasteboard(p) \/ WriteFails(p) \/ (p = Timer /\ TimerDrops)
      BY <1>3, <2>1, FinishMoves
    <2>2. CASE PushClipboardCurrent(p)
      <3>1. p # Timer
        BY <2>2, ProcsAssumption DEF PushClipboardCurrent
      <3> QED BY <2>2, <3>1, CurrentMoves, WallMoved
    <2>3. CASE NoteRemote(p)
      BY <1>2, <2>3, NoteMoves
    <2>4. CASE \E m \in Modes : SetClipboardMode(p, m)
      BY <1>2, <2>4, FlushMoves DEF SetClipboardMode
    <2> QED BY <1>7, <2>1, <2>2, <2>3, <2>4 DEF Quietly
  <1>8. ASSUME NEW p \in Procs,
               \/ TakePending(p) \/ Send(p) \/ Requeue(p) \/ PushSets(p) \/ PushTakes(p)
               \/ \E x \in Contents : PushGiven(p, x)
        PROVE  WallOK'
    BY <1>1, <1>2, <1>3, <1>8, TakeMoves, SendMoves, FinishMoves, SetsMoves, PushTakesMoves,
       GivenMoves
  <1>9. CASE WsIngest \/ PostIngest
    BY <1>1, <1>2, <1>9, WsMoves, PostMoves, Constants DEF Adopts
  <1>10. CASE Connect
    BY <1>2, <1>10, FlushMoves, Constants DEF Connect
  <1>11. CASE MacRestarts
    BY <1>11, Constants DEF MacRestarts, WallOK
  <1> QED BY <1>4, <1>5, <1>6, <1>7, <1>8, <1>9, <1>10, <1>11, NextSplit

\* When nothing is under way both sides hold the same clip: none is forgotten
\* in an outbox, none is overtaken by an older one, whichever goroutines, frames
\* and posts carried them, unless one of the causes that Converge names had
\* occurred.
THEOREM ClipsConverge == Spec => []Converge
  <1>1. Init => ConvergeInv
    <2> SUFFICES ASSUME Init PROVE WallOK /\ Agreeing /\ Flushing
      BY DEF ConvergeInv
    <2>1. /\ \A p \in Procs : proc[p].pc = "idle" /\ proc[p].push = None
          /\ toPhone = <<>> /\ toMac = <<>> /\ psends = <<>> /\ post.pc = "none"
          /\ clip.what = None /\ clip.origin = "" /\ ~clip.pending
          /\ pclip.what = None /\ pclip.origin = ""
      BY Constants DEF Init, NoClip
    <2>2. \A x : ~ToPhone(x) /\ ~ToMac(x) /\ ~In(x, psends) /\ ~Awaited(x)
      BY <2>1, InEmpty, AwaitedIs DEF ToPhone, ToMac
    <2>3. WallOK
      BY <2>1, Constants DEF WallOK
    <2>4. Agreeing
      BY <2>1, <2>2 DEF Agreeing, MacOwn, PhoneOwn, Stamped, Known, MacHeading, PhoneHeading,
         Answered
    <2>5. Flushing
      BY <2>1 DEF Flushing
    <2> QED BY <2>3, <2>4, <2>5
  <1>2. TypeInv /\ TypeInv' /\ BounceInv /\ ConvergeInv /\ [Next]_vars => ConvergeInv'
    <2> SUFFICES ASSUME TypeInv, TypeInv', BounceInv, ConvergeInv, [Next]_vars PROVE ConvergeInv'
      OBVIOUS
    <2>1. WallOK /\ WallOK'
      BY NextWallOK DEF ConvergeInv
    <2>2. ASSUME ClipsGood' PROVE Agreeing' /\ Flushing'
      <3>1. ClipsGood
        BY <2>2, NextCauses DEF ClipsGood
      <3>2. Agreeing /\ Flushing
        BY <3>1 DEF ConvergeInv
      <3> QED BY <2>1, <2>2, <3>1, <3>2, NextAgreeing, NextFlushing
    <2> QED BY <2>1, <2>2 DEF ConvergeInv
  <1>3. TypeInv /\ ConvergeInv => Converge
    <2> SUFFICES ASSUME TypeInv, ConvergeInv, Quiet, mode = "both", ClipsGood
                 PROVE  clip.what = pclip.what
      BY DEF Converge, ClipsGood
    <2>1. Agreeing /\ Flushing
      BY DEF ConvergeInv
    <2>2. /\ up /\ \A p \in Procs : proc[p].pc = "idle"
          /\ toPhone = <<>> /\ toMac = <<>> /\ post.pc = "none" /\ ~pclip.pending
      BY DEF Quiet, At
    <2>3. AllowsSend("mac")
      BY DEF AllowsSend
    <2>4. ~clip.pending
      BY <2>1, <2>2, <2>3 DEF Flushing
    <2>5. \A x : ~ToPhone(x) /\ ~ToMac(x)
      <3>1. \A p \in Procs : proc[p].push = None
        BY <2>2, ProcFields
      <3> QED BY <2>2, <3>1, InEmpty DEF ToPhone, ToMac
    <2>6. clip.what # None => Behind(clip, pclip)
      BY <2>1, <2>4, <2>5 DEF Agreeing, MacHeading
    <2>7. pclip.what # None => ~Later(pclip, clip)
      BY <2>1, <2>2, <2>5 DEF Agreeing, PhoneHeading
    <2>8. CASE clip.what = None
      <3>1. pclip.what # None => pclip.at > 0
        BY <2>1 DEF Agreeing, Stamped
      <3> QED BY <2>7, <2>8, <3>1, ClipFields, LaterIs
    <2>9. CASE clip.what # None
      <3>1. CASE pclip.what # None
        BY <2>6, <2>7, <2>9, <3>1 DEF Behind
      <3>2. CASE pclip.what = None
        <4>1. clip.at > 0 /\ pclip.at = 0 /\ pclip.c = 0 /\ clip.at \in Nat /\ clip.c \in Nat
          BY <2>1, <2>9, <3>2, ClipFields DEF Agreeing, Stamped
        <4>2. ~Later(pclip, clip) /\ ~SameStamp(clip, pclip)
          BY <4>1, LaterIs DEF SameStamp
        <4> QED BY <2>6, <2>9, <4>2 DEF Behind
      <3> QED BY <3>1, <3>2
    <2> QED BY <2>8, <2>9
  <1> QED BY <1>1, <1>2, <1>3, TypesHold, BounceHolds, PTL DEF Spec

(***************************************************************************)
(* The lane of large images, ClipChunks: the sizes.  Every image that goes *)
(* in chunks has as many as its slices cover, none of them empty, and      *)
(* nothing that a sender makes of it is refused by the Sanitize functions. *)
(***************************************************************************)

\* A product with the size of a chunk grows with its other factor.
LEMMA ChunkTimes ==
    ASSUME NEW i \in Int, NEW j \in Int, i <= j
    PROVE  i * ClipChunkRaw \in Int /\ i * ClipChunkRaw <= j * ClipChunkRaw
  <1>1. ClipChunkRaw \in Nat
    BY CapsAssumption
  <1>2. ASSUME NEW C \in Nat PROVE i * C <= j * C
    <2>1. (j - i) * C >= 0
      OBVIOUS
    <2>2. (j - i) * C = j * C - i * C
      OBVIOUS
    <2> QED BY <2>1, <2>2
  <1> QED BY <1>1, <1>2

\* Rounding up: the chunks cover the image, one fewer would not.
LEMMA Covers ==
    ASSUME NEW raw \in Nat
    PROVE  /\ TotalClipChunksForSize(raw) \in Int
           /\ raw <= TotalClipChunksForSize(raw) * ClipChunkRaw
           /\ (TotalClipChunksForSize(raw) - 1) * ClipChunkRaw < raw
  <1>1. ClipChunkRaw \in Nat \ {0}
    BY CapsAssumption
  <1>2. ASSUME NEW C \in Nat \ {0}, NEW n \in Nat
        PROVE  n \div C \in Int /\ C * (n \div C) <= n /\ n < C * (n \div C) + C
    OBVIOUS
  <1> DEFINE T == TotalClipChunksForSize(raw)
  <1>3. /\ T \in Int
        /\ ClipChunkRaw * T <= raw + ClipChunkRaw - 1
        /\ raw + ClipChunkRaw - 1 < ClipChunkRaw * T + ClipChunkRaw
    BY <1>1, <1>2 DEF TotalClipChunksForSize
  <1>4. /\ T * ClipChunkRaw = ClipChunkRaw * T
        /\ (T - 1) * ClipChunkRaw = ClipChunkRaw * T - ClipChunkRaw
    BY <1>1, <1>3
  <1>5. ClipChunkRaw * T \in Int
    BY <1>1, <1>3
  <1> HIDE DEF T
  <1> QED BY <1>1, <1>3, <1>4, <1>5 DEF T

\* An image for chunks has two at least and MaxClipChunks at most.
LEMMA TotalOK ==
    ASSUME NEW raw \in Nat, Chunkable(raw)
    PROVE  TotalClipChunksForSize(raw) \in 2 .. MaxClipChunks
  <1> DEFINE T == TotalClipChunksForSize(raw)
  <1>1. T \in Int /\ raw <= T * ClipChunkRaw /\ (T - 1) * ClipChunkRaw < raw
    BY Covers
  <1>2. /\ ClipChunkRaw \in Nat \ {0} /\ MaxClipChunks \in Nat
        /\ MaxClipImageRaw \in Nat /\ MaxClipTotalRaw \in Nat
        /\ ClipChunkRaw < raw /\ raw <= MaxClipChunks * ClipChunkRaw
    <2>1. ClipChunkRaw * MaxClipChunks = MaxClipChunks * ClipChunkRaw
      BY CapsAssumption
    <2>2. ClipChunkRaw * MaxClipChunks \in Int
      BY CapsAssumption
    <2> QED BY CapsAssumption, <2>1, <2>2 DEF Chunkable
  <1>3. 1 * ClipChunkRaw = ClipChunkRaw
    BY <1>2
  <1> HIDE DEF T
  <1>4. ~(T <= 1)
    <2> SUFFICES ASSUME T <= 1 PROVE FALSE
      OBVIOUS
    <2>1. T * ClipChunkRaw \in Int /\ T * ClipChunkRaw <= 1 * ClipChunkRaw
      BY <1>1, ChunkTimes
    <2> QED BY <1>1, <1>2, <1>3, <2>1
  <1>5. ~(MaxClipChunks <= T - 1)
    <2> SUFFICES ASSUME MaxClipChunks <= T - 1 PROVE FALSE
      OBVIOUS
    <2>1. /\ MaxClipChunks * ClipChunkRaw \in Int /\ (T - 1) * ClipChunkRaw \in Int
          /\ MaxClipChunks * ClipChunkRaw <= (T - 1) * ClipChunkRaw
      BY <1>1, <1>2, ChunkTimes
    <2> QED BY <1>1, <1>2, <2>1
  <1>6. T \in 2 .. MaxClipChunks
    BY <1>1, <1>2, <1>4, <1>5
  <1> QED BY <1>6 DEF T

\* Every slice begins in the image, is not empty, no larger than a chunk and ends
\* where the next one begins or the image ends.
LEMMA SliceOK ==
    ASSUME NEW c \in Transfers, NEW raw \in Nat, Chunkable(raw),
           NEW i \in 0 .. (TotalClipChunksForSize(raw) - 1)
    PROVE  /\ Slice(c, raw, i) \in Slices
           /\ Slice(c, raw, i).of = c /\ Slice(c, raw, i).index = i
           /\ i * ClipChunkRaw \in Nat /\ i * ClipChunkRaw < raw
           /\ Slice(c, raw, i).len \in 1 .. ClipChunkRaw
           /\ i < TotalClipChunksForSize(raw) - 1
              => /\ (i + 1) * ClipChunkRaw = i * ClipChunkRaw + ClipChunkRaw
                 /\ Slice(c, raw, i).len = ClipChunkRaw
           /\ i = TotalClipChunksForSize(raw) - 1
              => Slice(c, raw, i).len = raw - i * ClipChunkRaw
  <1> DEFINE T == TotalClipChunksForSize(raw)
  <1>1. T \in Int /\ raw <= T * ClipChunkRaw /\ (T - 1) * ClipChunkRaw < raw
    BY Covers
  <1>2. ClipChunkRaw \in Nat \ {0}
    BY CapsAssumption
  <1>3. T \in 2 .. MaxClipChunks
    BY TotalOK
  <1>4. (i + 1) * ClipChunkRaw = i * ClipChunkRaw + ClipChunkRaw
    BY <1>2
  <1>5. 0 * ClipChunkRaw = 0
    BY <1>2
  <1> HIDE DEF T
  <1> i \in 0 .. (T - 1) /\ i \in Int
    BY <1>1 DEF T
  <1>6. /\ 0 * ClipChunkRaw <= i * ClipChunkRaw /\ i * ClipChunkRaw \in Int
        /\ i * ClipChunkRaw <= (T - 1) * ClipChunkRaw /\ (T - 1) * ClipChunkRaw \in Int
    BY <1>1, ChunkTimes
  <1>7. i * ClipChunkRaw \in Nat /\ i * ClipChunkRaw < raw
    BY <1>1, <1>5, <1>6
  <1>8. i < T - 1 => (i + 1) * ClipChunkRaw < raw
    <2> SUFFICES ASSUME i < T - 1 PROVE (i + 1) * ClipChunkRaw < raw
      OBVIOUS
    <2>1. (i + 1) * ClipChunkRaw <= (T - 1) * ClipChunkRaw /\ (i + 1) * ClipChunkRaw \in Int
      BY <1>1, ChunkTimes
    <2> QED BY <1>1, <1>6, <2>1
  <1>9. i = T - 1 => i * ClipChunkRaw + ClipChunkRaw >= raw
    <2> SUFFICES ASSUME i = T - 1 PROVE i * ClipChunkRaw + ClipChunkRaw >= raw
      OBVIOUS
    <2>1. i + 1 = T
      BY <1>1
    <2> QED BY <1>1, <1>4, <2>1
  <1> DEFINE at == i * ClipChunkRaw
  <1>10. Slice(c, raw, i) = [of |-> c, index |-> i,
             len |-> IF at + ClipChunkRaw > raw THEN raw - at ELSE ClipChunkRaw]
    BY <1>4 DEF Slice
  <1>11. /\ at \in Nat /\ at < raw /\ (i < T - 1 => at + ClipChunkRaw < raw)
         /\ (i = T - 1 => at + ClipChunkRaw >= raw)
    BY <1>4, <1>7, <1>8, <1>9
  <1> HIDE DEF at
  <1>12. /\ Slice(c, raw, i) \in Slices
         /\ Slice(c, raw, i).of = c /\ Slice(c, raw, i).index = i
         /\ Slice(c, raw, i).len \in 1 .. ClipChunkRaw
         /\ (i < T - 1 => Slice(c, raw, i).len = ClipChunkRaw)
         /\ (i = T - 1 => Slice(c, raw, i).len = raw - at)
    BY <1>2, <1>10, <1>11 DEF Slices
  <1> QED BY <1>4, <1>7, <1>12 DEF T, at

\* What a sender makes of an image passes the receiver's checks.
LEMMA FramesPass ==
    ASSUME NEW c \in Transfers, NEW raw \in Nat, Chunkable(raw)
    PROVE  /\ SanitizeClipManifest(Manifest(c, raw))
           /\ \A i \in 0 .. (TotalClipChunksForSize(raw) - 1) :
                SanitizeClipChunk(Chunk(c, raw, i))
  <1>1. TotalClipChunksForSize(raw) \in 2 .. MaxClipChunks
    BY TotalOK
  <1>2. SanitizeClipManifest(Manifest(c, raw))
    <2>1. /\ Manifest(c, raw).raw = raw
          /\ Manifest(c, raw).total = TotalClipChunksForSize(raw)
      BY DEF Manifest
    <2>2. (raw + ClipChunkRaw - 1) \div ClipChunkRaw = TotalClipChunksForSize(raw)
      BY DEF TotalClipChunksForSize
    <2> QED BY <1>1, <2>1, <2>2, Zenon DEF SanitizeClipManifest
  <1>3. ASSUME NEW i \in 0 .. (TotalClipChunksForSize(raw) - 1)
        PROVE  SanitizeClipChunk(Chunk(c, raw, i))
    <2>1. /\ Chunk(c, raw, i).raw = raw
          /\ Chunk(c, raw, i).total = TotalClipChunksForSize(raw)
          /\ Chunk(c, raw, i).data = {Slice(c, raw, i)}
      BY DEF Chunk
    <2>2. /\ Slice(c, raw, i).index = i /\ i * ClipChunkRaw < raw
          /\ Slice(c, raw, i).len \in 1 .. ClipChunkRaw
      BY SliceOK
    <2> QED BY <1>1, <2>1, <2>2, Zenon DEF SanitizeClipChunk
  <1> QED BY <1>2, <1>3

\* The slices of an image, put one after the other, have its size.
LEMMA WholeVerifies ==
    ASSUME NEW s, NEW c \in Transfers, NEW raw \in Nat, Chunkable(raw),
           s.id = c, s.raw = raw, s.total = TotalClipChunksForSize(raw),
           s.parts = splitClipBytes(c, raw)
    PROVE  Verified(s)
  <1> DEFINE T == TotalClipChunksForSize(raw)
             at == [i \in 0 .. T |-> IF i = T THEN raw ELSE i * ClipChunkRaw]
  <1>1. T \in Int /\ T >= 2
    BY TotalOK
  <1>2. \A i \in 0 .. (T - 1) : i * ClipChunkRaw \in 0 .. raw
    BY SliceOK
  <1> HIDE DEF T
  <1>3. at \in [0 .. T -> 0 .. raw]
    BY <1>1, <1>2
  <1>4. 0 * ClipChunkRaw = 0
    BY CapsAssumption
  <1>5. at[0] = 0 /\ at[T] = raw
    BY <1>1, <1>4
  <1>6. ASSUME NEW i \in 0 .. (T - 1)
        PROVE  at[i + 1] = at[i] + Slice(c, raw, i).len
    <2>1. /\ i * ClipChunkRaw \in Nat
          /\ i < T - 1 => /\ (i + 1) * ClipChunkRaw = i * ClipChunkRaw + ClipChunkRaw
                          /\ Slice(c, raw, i).len = ClipChunkRaw
          /\ i = T - 1 => Slice(c, raw, i).len = raw - i * ClipChunkRaw
      BY <1>6, SliceOK DEF T
    <2>2. i \in 0 .. T /\ i + 1 \in 0 .. T /\ i # T
      BY <1>1
    <2>3. at[i] = i * ClipChunkRaw
      BY <2>2
    <2>4. CASE i = T - 1
      <3>1. i + 1 = T
        BY <1>1, <2>4
      <3>2. at[i + 1] = raw
        BY <2>2, <3>1
      <3> QED BY <2>1, <2>3, <2>4, <3>2
    <2>5. CASE i # T - 1
      <3>1. i + 1 # T /\ i < T - 1
        BY <1>1, <2>5
      <3>2. at[i + 1] = (i + 1) * ClipChunkRaw
        BY <2>2, <3>1
      <3> QED BY <2>1, <2>3, <3>1, <3>2
    <2> QED BY <2>4, <2>5
  <1>7. \A p \in s.parts : at[p.index + 1] = at[p.index] + p.len
    <2> TAKE p \in s.parts
    <2>1. PICK i \in 0 .. (T - 1) : p = Slice(c, raw, i)
      BY DEF splitClipBytes, T
    <2>2. p.index = i
      BY <2>1, SliceOK DEF T
    <2> QED BY <1>6, <2>1, <2>2
  <1>8. at \in [0 .. s.total -> 0 .. s.raw] /\ at[s.total] = s.raw
    BY <1>3, <1>5 DEF T
  <1> HIDE DEF at
  <1> QED BY <1>5, <1>7, <1>8 DEF Verified

(***************************************************************************)
(* The hub: what Begin and Add do to the sessions in it.                   *)
(***************************************************************************)

Sessions == [id : Transfers, raw : Nat, total : Int, parts : SUBSET Slices, old : BOOLEAN]

\* A hub is a map: each session is there once.
Distinct(h) == \A i, j \in 1 .. Len(h) : h[i].id = h[j].id => i = j

Hubs == {h \in Seq(Sessions) : Distinct(h)}

\* The ids of a hub, by its sessions.
LEMMA IdsIn == \A h, c : c \in Ids(h) <=> \E s : In(s, h) /\ s.id = c
  BY DEF Ids, In

\* There is one session of an id.
LEMMA OneSession == \A h, s, t : Distinct(h) /\ In(s, h) /\ In(t, h) /\ s.id = t.id => s = t
  BY DEF Distinct, In

\* What is taken from the middle of a hub is a hub, and was there.
LEMMA PartOfHub ==
    ASSUME NEW h \in Hubs, NEW m \in Nat \ {0}, NEW n \in 0 .. Len(h)
    PROVE  /\ SubSeq(h, m, n) \in Hubs
           /\ \A x : In(x, SubSeq(h, m, n)) <=> \E i \in m .. n : h[i] = x
           /\ Len(SubSeq(h, m, n)) <= Len(h)
           /\ Len(SubSeq(h, m, n)) = IF m <= n THEN n - m + 1 ELSE 0
  <1> DEFINE g == SubSeq(h, m, n)
  <1>1. /\ h \in Seq(Sessions) /\ Len(h) \in Nat
        /\ \A i \in m .. n : h[i] \in Sessions /\ i \in 1 .. Len(h)
    BY DEF Hubs
  <1>2. /\ g \in Seq(Sessions)
        /\ Len(g) = IF m <= n THEN n - m + 1 ELSE 0
        /\ \A i \in 1 .. (n - m + 1) : g[i] = h[m + i - 1]
    BY <1>1
  <1> HIDE DEF g
  <1>3. Distinct(g)
    <2> SUFFICES ASSUME NEW i \in 1 .. Len(g), NEW j \in 1 .. Len(g), g[i].id = g[j].id
                 PROVE  i = j
      BY DEF Distinct
    <2>1. /\ g[i] = h[m + i - 1] /\ g[j] = h[m + j - 1]
          /\ m + i - 1 \in 1 .. Len(h) /\ m + j - 1 \in 1 .. Len(h)
      BY <1>1, <1>2
    <2>2. m + i - 1 = m + j - 1
      BY <2>1 DEF Hubs, Distinct
    <2> QED BY <2>2
  <1>4. ASSUME NEW x, In(x, g) PROVE \E i \in m .. n : h[i] = x
    <2>1. PICK j \in 1 .. Len(g) : g[j] = x
      BY <1>4 DEF In
    <2>2. m + j - 1 \in m .. n /\ h[m + j - 1] = x
      BY <1>2, <2>1
    <2> QED BY <2>2
  <1>5. ASSUME NEW i \in m .. n PROVE In(h[i], g)
    <2>1. i - m + 1 \in 1 .. Len(g) /\ g[i - m + 1] = h[i]
      BY <1>2
    <2> QED BY <2>1 DEF In
  <1>6. Len(g) <= Len(h)
    BY <1>1, <1>2
  <1> QED BY <1>2, <1>3, <1>4, <1>5, <1>6 DEF g, Hubs

\* The rest of a hub.
LEMMA TailOfHub ==
    ASSUME NEW h \in Hubs, h # <<>>
    PROVE  /\ Tail(h) \in Hubs /\ Len(Tail(h)) = Len(h) - 1
           /\ \A x : In(x, Tail(h)) <=> \E i \in 2 .. Len(h) : h[i] = x
  <1>1. h \in Seq(Sessions) /\ Len(h) \in Nat \ {0}
    BY DEF Hubs
  <1>2. Tail(h) = SubSeq(h, 2, Len(h))
    BY <1>1
  <1>3. Len(Tail(h)) = Len(h) - 1
    BY <1>1
  <1>4. 2 \in Nat \ {0} /\ Len(h) \in 0 .. Len(h)
    BY <1>1
  <1>5. /\ SubSeq(h, 2, Len(h)) \in Hubs
        /\ \A x : In(x, SubSeq(h, 2, Len(h))) <=> \E i \in 2 .. Len(h) : h[i] = x
    BY <1>4, PartOfHub
  <1> QED BY <1>2, <1>3, <1>5

\* A session of a new id is added.
LEMMA MoreHub ==
    ASSUME NEW h \in Hubs, NEW s \in Sessions, s.id \notin Ids(h)
    PROVE  /\ Append(h, s) \in Hubs /\ Len(Append(h, s)) = Len(h) + 1
           /\ Append(h, s)[Len(h) + 1] = s
           /\ \A x : In(x, Append(h, s)) <=> In(x, h) \/ x = s
  <1> DEFINE g == Append(h, s)
  <1>1. h \in Seq(Sessions) /\ Len(h) \in Nat
    BY DEF Hubs
  <1>2. /\ g \in Seq(Sessions) /\ Len(g) = Len(h) + 1 /\ g[Len(h) + 1] = s
        /\ \A i \in 1 .. Len(h) : g[i] = h[i] /\ h[i].id # s.id
    BY <1>1 DEF Ids
  <1>3. \A x : In(x, g) <=> In(x, h) \/ x = s
    BY <1>1, InAppend
  <1> HIDE DEF g
  <1>4. Distinct(g)
    <2> SUFFICES ASSUME NEW i \in 1 .. Len(g), NEW j \in 1 .. Len(g), g[i].id = g[j].id
                 PROVE  i = j
      BY DEF Distinct
    <2>1. CASE i \in 1 .. Len(h) /\ j \in 1 .. Len(h)
      BY <1>2, <2>1 DEF Hubs, Distinct
    <2>2. CASE i = Len(h) + 1 \/ j = Len(h) + 1
      BY <1>1, <1>2, <2>2
    <2> QED BY <1>1, <1>2, <2>1, <2>2
  <1> QED BY <1>2, <1>3, <1>4 DEF g, Hubs

\* The place of a session that is there.
LEMMA PlaceIs ==
    ASSUME NEW h \in Hubs, NEW c \in Ids(h)
    PROVE  /\ Place(h, c) \in 1 .. Len(h) /\ h[Place(h, c)].id = c
           /\ h[Place(h, c)] \in Sessions /\ In(h[Place(h, c)], h)
           /\ \A i \in 1 .. Len(h) : h[i].id = c => i = Place(h, c)
  <1>1. \E i \in 1 .. Len(h) : h[i].id = c
    BY DEF Ids
  <1>2. Place(h, c) \in 1 .. Len(h) /\ h[Place(h, c)].id = c
    BY <1>1 DEF Place
  <1>3. h[Place(h, c)] \in Sessions
    BY <1>2 DEF Hubs
  <1> QED BY <1>2, <1>3 DEF Hubs, Distinct, In

\* A session leaves, the others stay.
LEMMA LessHub ==
    ASSUME NEW h \in Hubs, NEW c \in Ids(h)
    PROVE  /\ Discard(h, c) \in Hubs /\ Len(Discard(h, c)) = Len(h) - 1
           /\ \A x : In(x, Discard(h, c)) <=> In(x, h) /\ x.id # c
           /\ c \notin Ids(Discard(h, c))
  <1> DEFINE p == Place(h, c)
             a == SubSeq(h, 1, p - 1)
             b == SubSeq(h, p + 1, Len(h))
             g == a \o b
  <1>1. /\ p \in 1 .. Len(h) /\ h[p].id = c
        /\ \A i \in 1 .. Len(h) : h[i].id = c => i = p
    BY PlaceIs
  <1>2. Discard(h, c) = g
    BY DEF Discard
  <1> HIDE DEF p
  <1>3. h \in Seq(Sessions) /\ Len(h) \in Nat
    BY DEF Hubs
  <1>4. /\ a \in Seq(Sessions) /\ Len(a) = p - 1
        /\ \A i \in 1 .. (p - 1) : a[i] = h[i]
    BY <1>1, <1>3
  <1>5. /\ b \in Seq(Sessions) /\ Len(b) = Len(h) - p
        /\ \A i \in 1 .. (Len(h) - p) : b[i] = h[p + i]
    BY <1>1, <1>3
  <1> HIDE DEF a, b
  <1>6. /\ g \in Seq(Sessions) /\ Len(g) = Len(h) - 1
        /\ \A i \in 1 .. (Len(h) - 1) : g[i] = IF i < p THEN h[i] ELSE h[i + 1]
    <2>1. /\ g \in Seq(Sessions) /\ Len(g) = Len(a) + Len(b)
          /\ \A i \in 1 .. (Len(a) + Len(b)) :
               g[i] = IF i <= Len(a) THEN a[i] ELSE b[i - Len(a)]
      BY <1>4, <1>5
    <2>2. Len(g) = Len(h) - 1
      BY <1>1, <1>3, <1>4, <1>5, <2>1
    <2>3. ASSUME NEW i \in 1 .. (Len(h) - 1), i < p PROVE g[i] = h[i]
      <3>1. i \in 1 .. (p - 1)
        BY <1>1, <2>3
      <3>2. i \in 1 .. (Len(a) + Len(b)) /\ i <= Len(a)
        BY <1>3, <1>4, <1>5, <1>1, <3>1
      <3> QED BY <1>4, <2>1, <3>1, <3>2
    <2>4. ASSUME NEW i \in 1 .. (Len(h) - 1), ~(i < p) PROVE g[i] = h[i + 1]
      <3> DEFINE j == i - (p - 1)
      <3>1. j \in 1 .. (Len(h) - p) /\ i = (p - 1) + j /\ p + j = i + 1
        BY <1>1, <1>3, <2>4
      <3> HIDE DEF j
      <3>2. i \in 1 .. (Len(a) + Len(b)) /\ ~(i <= Len(a)) /\ i - Len(a) = j
        BY <1>1, <1>3, <1>4, <1>5, <3>1
      <3>3. g[i] = b[j] /\ b[j] = h[p + j]
        BY <1>5, <2>1, <3>1, <3>2
      <3> QED BY <3>1, <3>3
    <2> QED BY <2>1, <2>2, <2>3, <2>4
  <1> HIDE DEF g
  <1>7. Distinct(g)
    <2> SUFFICES ASSUME NEW i \in 1 .. Len(g), NEW j \in 1 .. Len(g), g[i].id = g[j].id
                 PROVE  i = j
      BY DEF Distinct
    <2> DEFINE k == IF i < p THEN i ELSE i + 1
               l == IF j < p THEN j ELSE j + 1
    <2>1. /\ k \in 1 .. Len(h) /\ l \in 1 .. Len(h) /\ g[i] = h[k] /\ g[j] = h[l]
      BY <1>1, <1>3, <1>6
    <2>2. k = l
      BY <2>1 DEF Hubs, Distinct
    <2> QED BY <1>1, <1>3, <1>6, <2>2
  <1>8. ASSUME NEW x, In(x, g) PROVE In(x, h) /\ x.id # c
    <2>1. PICK i \in 1 .. Len(g) : g[i] = x
      BY <1>8 DEF In
    <2> DEFINE k == IF i < p THEN i ELSE i + 1
    <2>2. k \in 1 .. Len(h) /\ k # p /\ h[k] = x
      BY <1>1, <1>3, <1>6, <2>1
    <2> QED BY <1>1, <2>2 DEF In
  <1>9. ASSUME NEW x, In(x, h), x.id # c PROVE In(x, g)
    <2>1. PICK k \in 1 .. Len(h) : h[k] = x
      BY <1>9 DEF In
    <2>2. k # p
      BY <1>1, <1>9, <2>1
    <2> DEFINE i == IF k < p THEN k ELSE k - 1
    <2>3. i \in 1 .. Len(g) /\ g[i] = x
      BY <1>1, <1>3, <1>6, <2>1, <2>2
    <2> QED BY <2>3 DEF In
  <1>10. c \notin Ids(g)
    BY <1>8, IdsIn
  <1> QED BY <1>2, <1>6, <1>7, <1>8, <1>9, <1>10 DEF Hubs

\* A session is replaced.
LEMMA SameHub ==
    ASSUME NEW h \in Hubs, NEW c \in Ids(h), NEW s \in Sessions, s.id = c
    PROVE  /\ [h EXCEPT ![Place(h, c)] = s] \in Hubs
           /\ Len([h EXCEPT ![Place(h, c)] = s]) = Len(h)
           /\ \A x : In(x, [h EXCEPT ![Place(h, c)] = s]) <=> (In(x, h) /\ x.id # c) \/ x = s
  <1> DEFINE p == Place(h, c)
             g == [h EXCEPT ![p] = s]
  <1>1. /\ p \in 1 .. Len(h) /\ h[p].id = c
        /\ \A i \in 1 .. Len(h) : h[i].id = c => i = p
    BY PlaceIs
  <1>2. h \in Seq(Sessions) /\ Len(h) \in Nat
    BY DEF Hubs
  <1> SUFFICES /\ g \in Hubs /\ Len(g) = Len(h)
               /\ \A x : In(x, g) <=> (In(x, h) /\ x.id # c) \/ x = s
    OBVIOUS
  <1> HIDE DEF p
  <1>3. /\ g \in Seq(Sessions) /\ Len(g) = Len(h)
        /\ \A i \in 1 .. Len(h) : g[i] = IF i = p THEN s ELSE h[i]
    BY <1>1, <1>2
  <1> HIDE DEF g
  <1>4. Distinct(g)
    BY <1>1, <1>3 DEF Distinct, Hubs
  <1>5. \A x : In(x, g) <=> (In(x, h) /\ x.id # c) \/ x = s
    BY <1>1, <1>3 DEF In
  <1> QED BY <1>3, <1>4, <1>5 DEF Hubs

\* Without its old sessions a hub is a hub.
LEMMA FreshHub ==
    ASSUME NEW h \in Hubs
    PROVE  /\ Fresh(h) \in Hubs /\ Len(Fresh(h)) <= Len(h)
           /\ \A x : In(x, Fresh(h)) => In(x, h)
  <1> DEFINE aged == {i \in 1 .. Len(h) : h[i].old}
             k == Cardinality(aged)
             from == k + 1
  <1>1. h \in Seq(Sessions) /\ Len(h) \in Nat
    BY DEF Hubs
  <1>2. IsFiniteSet(1 .. Len(h)) /\ Cardinality(1 .. Len(h)) = Len(h)
    BY <1>1, FS_Interval
  <1>3. aged \in SUBSET (1 .. Len(h))
    OBVIOUS
  <1>4. IsFiniteSet(aged)
    BY <1>2, <1>3, FS_Subset
  <1>5. k \in Nat
    BY <1>4, FS_CardinalityType
  <1>6. from \in Nat \ {0} /\ Len(h) \in 0 .. Len(h)
    BY <1>1, <1>5
  <1>7. Fresh(h) = SubSeq(h, from, Len(h))
    BY DEF Fresh
  <1> HIDE DEF from
  <1>8. /\ SubSeq(h, from, Len(h)) \in Hubs /\ Len(SubSeq(h, from, Len(h))) <= Len(h)
        /\ \A x : In(x, SubSeq(h, from, Len(h))) <=> \E i \in from .. Len(h) : h[i] = x
    BY <1>6, PartOfHub
  <1>9. \A i \in from .. Len(h) : i \in 1 .. Len(h)
    BY <1>1, <1>6
  <1> QED BY <1>7, <1>8, <1>9 DEF In

\* A sweep leaves MaxSessions at most of a hub that is within its bound.
LEMMA SweptHub ==
    ASSUME NEW h \in Hubs
    PROVE  /\ sweepLocked(h) \in Hubs
           /\ \A x : In(x, sweepLocked(h)) => In(x, h)
           /\ Len(h) <= MaxSessions + 1 => Len(sweepLocked(h)) <= MaxSessions
  <1> DEFINE g == Fresh(h)
  <1>1. g \in Hubs /\ Len(g) <= Len(h) /\ \A x : In(x, g) => In(x, h)
    BY FreshHub
  <1>2. MaxSessions \in Nat \ {0}
    BY CapsAssumption
  <1>3. Len(g) \in Nat /\ Len(h) \in Nat
    BY <1>1 DEF Hubs
  <1> HIDE DEF g
  <1>4. CASE Len(g) > MaxSessions
    <2>1. g # <<>>
      BY <1>2, <1>4
    <2>2. /\ Tail(g) \in Hubs /\ Len(Tail(g)) = Len(g) - 1
          /\ \A x : In(x, Tail(g)) <=> \E i \in 2 .. Len(g) : g[i] = x
      BY <1>1, <2>1, TailOfHub
    <2>3. \A x : In(x, Tail(g)) => In(x, g)
      BY <1>3, <2>2 DEF In
    <2>4. sweepLocked(h) = Tail(g)
      BY <1>4 DEF sweepLocked, g
    <2>5. Len(h) <= MaxSessions + 1 => Len(Tail(g)) <= MaxSessions
      BY <1>1, <1>2, <1>3, <2>2
    <2> QED BY <1>1, <2>2, <2>3, <2>4, <2>5
  <1>5. CASE ~(Len(g) > MaxSessions)
    <2>1. sweepLocked(h) = g
      BY <1>5 DEF sweepLocked, g
    <2>2. Len(g) <= MaxSessions
      BY <1>2, <1>3, <1>5
    <2> QED BY <1>1, <2>1, <2>2
  <1> QED BY <1>4, <1>5

\* Begin, on either device: no session but the new one comes, a new one is
\* there, and the hub stays within its bound.
LEMMA BeginOK ==
    ASSUME NEW h \in Hubs, NEW m, Session(m) \in Sessions
    PROVE  /\ BeginOnMac(h, m) \in Hubs /\ BeginOnPhone(h, m) \in Hubs
           /\ \A x : In(x, BeginOnMac(h, m)) => In(x, h) \/ x = Session(m)
           /\ \A x : In(x, BeginOnPhone(h, m)) => In(x, h) \/ x = Session(m)
           /\ m.id \notin Ids(h) => /\ In(Session(m), BeginOnMac(h, m))
                                    /\ In(Session(m), BeginOnPhone(h, m))
           /\ Len(h) <= MaxSessions + 1 => Len(BeginOnMac(h, m)) <= MaxSessions + 1
           /\ Len(h) <= MaxSessions => Len(BeginOnPhone(h, m)) <= MaxSessions
  <1> DEFINE s == Session(m)
  <1>1. s.id = m.id
    BY DEF Session
  <1>2. MaxSessions \in Nat \ {0} /\ Len(h) \in Nat
    BY CapsAssumption DEF Hubs
  <1>3. /\ BeginOnMac(h, m) \in Hubs
        /\ \A x : In(x, BeginOnMac(h, m)) => In(x, h) \/ x = s
        /\ m.id \notin Ids(h) => In(s, BeginOnMac(h, m))
        /\ Len(h) <= MaxSessions + 1 => Len(BeginOnMac(h, m)) <= MaxSessions + 1
    <2> DEFINE g == sweepLocked(h)
    <2>1. /\ g \in Hubs /\ \A x : In(x, g) => In(x, h)
          /\ Len(h) <= MaxSessions + 1 => Len(g) <= MaxSessions
      BY SweptHub
    <2>2. Len(g) \in Nat
      BY <2>1 DEF Hubs
    <2>3. m.id \notin Ids(h) => m.id \notin Ids(g)
      BY <2>1, IdsIn
    <2> HIDE DEF g, s
    <2>4. CASE m.id \in Ids(g)
      <3>1. BeginOnMac(h, m) = g
        BY <2>4 DEF BeginOnMac, g
      <3>2. Len(h) <= MaxSessions + 1 => Len(g) <= MaxSessions + 1
        BY <1>2, <2>1, <2>2
      <3> QED BY <2>1, <2>3, <2>4, <3>1, <3>2
    <2>5. CASE m.id \notin Ids(g)
      <3>1. BeginOnMac(h, m) = Append(g, s)
        BY <2>5 DEF BeginOnMac, g, s
      <3>2. /\ Append(g, s) \in Hubs /\ Len(Append(g, s)) = Len(g) + 1
            /\ \A x : In(x, Append(g, s)) <=> In(x, g) \/ x = s
        BY <1>1, <2>1, <2>5, MoreHub DEF s
      <3>3. Len(h) <= MaxSessions + 1 => Len(Append(g, s)) <= MaxSessions + 1
        BY <1>2, <2>1, <2>2, <3>2
      <3> QED BY <2>1, <3>1, <3>2, <3>3
    <2> QED BY <2>4, <2>5
  <1>4. /\ BeginOnPhone(h, m) \in Hubs
        /\ \A x : In(x, BeginOnPhone(h, m)) => In(x, h) \/ x = s
        /\ m.id \notin Ids(h) => In(s, BeginOnPhone(h, m))
        /\ Len(h) <= MaxSessions => Len(BeginOnPhone(h, m)) <= MaxSessions
    <2> HIDE DEF s
    <2>1. CASE m.id \in Ids(h)
      BY <2>1 DEF BeginOnPhone
    <2>2. CASE m.id \notin Ids(h)
      <3> DEFINE g == Append(h, s)
      <3>1. /\ g \in Hubs /\ Len(g) = Len(h) + 1 /\ g[Len(h) + 1] = s
            /\ \A x : In(x, g) <=> In(x, h) \/ x = s
        BY <1>1, <2>2, MoreHub DEF s
      <3>2. BeginOnPhone(h, m) = IF Len(g) > MaxSessions THEN Tail(g) ELSE g
        BY <2>2 DEF BeginOnPhone, s
      <3> HIDE DEF g
      <3>3. CASE Len(g) > MaxSessions
        <4>1. g # <<>>
          BY <1>2, <3>1
        <4>2. /\ Tail(g) \in Hubs /\ Len(Tail(g)) = Len(g) - 1
              /\ \A x : In(x, Tail(g)) <=> \E i \in 2 .. Len(g) : g[i] = x
          BY <3>1, <4>1, TailOfHub
        <4>3. Len(h) + 1 \in 2 .. Len(g)
          BY <1>2, <3>1, <3>3
        <4>4. In(s, Tail(g))
          BY <3>1, <4>2, <4>3
        <4>5. \A x : In(x, Tail(g)) => In(x, g)
          <5>1. \A i \in 2 .. Len(g) : i \in 1 .. Len(g)
            BY <1>2, <3>1
          <5> QED BY <4>2, <5>1 DEF In
        <4>6. Len(h) <= MaxSessions => Len(Tail(g)) <= MaxSessions
          BY <1>2, <3>1, <4>2
        <4>7. BeginOnPhone(h, m) = Tail(g)
          BY <3>2, <3>3
        <4> QED BY <3>1, <4>2, <4>4, <4>5, <4>6, <4>7
      <3>4. CASE ~(Len(g) > MaxSessions)
        <4>1. Len(g) <= MaxSessions
          BY <1>2, <3>1, <3>4
        <4> QED BY <3>1, <3>2, <3>4, <4>1
      <3> QED BY <3>3, <3>4
    <2> QED BY <2>1, <2>2
  <1> QED BY <1>3, <1>4

\* Add, for a chunk whose session is there: the others stay as they are; a
\* session that suits the chunk and has no such slice has it then, unless it is
\* complete and leaves; the hub does not grow.
LEMMA AddOK ==
    ASSUME NEW h \in Hubs, NEW d, NEW f, f.id \in Ids(h), f.data \in SUBSET Slices
    PROVE  LET old == h[Place(h, f.id)]
               s == Extend(old, f)
               g == Add(d, h, f)
           IN
           /\ old \in Sessions /\ In(old, h) /\ old.id = f.id
           /\ s \in Sessions /\ s.id = f.id /\ s.raw = old.raw /\ s.total = old.total
           /\ s.parts = old.parts \cup f.data
           /\ g \in Hubs /\ Len(g) <= Len(h)
           /\ \A x : In(x, g) => In(x, h) \/ (x = s /\ ~Complete(s))
           /\ \A x : In(x, h) /\ x.id # f.id => In(x, g)
           /\ Suits(old, f) /\ ~Has(old, f) =>
                IF Complete(s) THEN f.id \notin Ids(g) ELSE In(s, g)
  <1> DEFINE p == Place(h, f.id)
             old == h[p]
             s == Extend(old, f)
             g == Add(d, h, f)
             kept == [h EXCEPT ![p] = s]
  <1>1. old \in Sessions /\ In(old, h) /\ old.id = f.id
    BY PlaceIs
  <1>2. /\ s \in Sessions /\ s.id = f.id /\ s.raw = old.raw /\ s.total = old.total
        /\ s.parts = old.parts \cup f.data
    <2> HIDE DEF old
    <2> QED BY <1>1 DEF Extend, Sessions
  <1>3. Len(h) \in Nat /\ \A x : In(x, h) /\ x.id = f.id => x = old
    BY <1>1, OneSession DEF Hubs
  <1>4. g = IF Suits(old, f) /\ Has(old, f) THEN h
            ELSE IF ~Suits(old, f) \/ Complete(s) THEN Discard(h, f.id)
            ELSE IF d = "mac" THEN Append(Discard(h, f.id), s)
            ELSE kept
    BY DEF Add
  <1>5. /\ Discard(h, f.id) \in Hubs /\ Len(Discard(h, f.id)) = Len(h) - 1
        /\ \A x : In(x, Discard(h, f.id)) <=> In(x, h) /\ x.id # f.id
        /\ f.id \notin Ids(Discard(h, f.id))
    BY LessHub
  <1>6. /\ Append(Discard(h, f.id), s) \in Hubs
        /\ Len(Append(Discard(h, f.id), s)) = Len(Discard(h, f.id)) + 1
        /\ \A x : In(x, Append(Discard(h, f.id), s)) <=> In(x, Discard(h, f.id)) \/ x = s
    BY <1>2, <1>5, MoreHub
  <1>7. /\ kept \in Hubs /\ Len(kept) = Len(h)
        /\ \A x : In(x, kept) <=> (In(x, h) /\ x.id # f.id) \/ x = s
    <2> HIDE DEF s
    <2> QED BY <1>2, SameHub DEF p
  <1> HIDE DEF old, s, g, p, kept
  <1>8. /\ g \in Hubs /\ Len(g) <= Len(h)
        /\ \A x : In(x, g) => In(x, h) \/ (x = s /\ ~Complete(s))
        /\ \A x : In(x, h) /\ x.id # f.id => In(x, g)
        /\ Suits(old, f) /\ ~Has(old, f) =>
             IF Complete(s) THEN f.id \notin Ids(g) ELSE In(s, g)
    <2>1. CASE Suits(old, f) /\ Has(old, f)
      BY <1>3, <1>4, <2>1
    <2>2. CASE ~(Suits(old, f) /\ Has(old, f)) /\ (~Suits(old, f) \/ Complete(s))
      <3>1. g = Discard(h, f.id)
        BY <1>4, <2>2
      <3> QED BY <1>3, <1>5, <2>2, <3>1
    <2>3. CASE ~(Suits(old, f) /\ Has(old, f)) /\ Suits(old, f) /\ ~Complete(s) /\ d = "mac"
      <3>1. g = Append(Discard(h, f.id), s)
        BY <1>4, <2>3
      <3> QED BY <1>3, <1>5, <1>6, <2>3, <3>1
    <2>4. CASE ~(Suits(old, f) /\ Has(old, f)) /\ Suits(old, f) /\ ~Complete(s) /\ d # "mac"
      <3>1. g = kept
        BY <1>4, <2>4
      <3> QED BY <1>3, <1>7, <2>4, <3>1
    <2> QED BY <2>1, <2>2, <2>3, <2>4
  <1> QED BY <1>1, <1>2, <1>8 DEF old, s, g, p

(***************************************************************************)
(* The frames of a transfer, and the invariant.                            *)
(***************************************************************************)

Frames == [kind : {"manifest", "chunk"}, id : Transfers, raw : Nat, total : Int,
           data : SUBSET Slices]

\* What the frames of a transfer are: all pass, and no two are alike.
LEMMA FrameIs ==
    ASSUME NEW c \in Transfers, NEW raw \in Nat, Chunkable(raw),
           NEW n \in 0 .. TotalClipChunksForSize(raw)
    PROVE  LET f == NthFrame(c, raw, n) IN
           /\ f \in Frames /\ f.id = c /\ f.raw = raw
           /\ f.total = TotalClipChunksForSize(raw)
           /\ n = 0 => f.kind = "manifest" /\ SanitizeClipManifest(f)
           /\ n # 0 => /\ f.kind = "chunk" /\ SanitizeClipChunk(f)
                       /\ f.data = {Slice(c, raw, n - 1)}
                       /\ Slice(c, raw, n - 1) \in Slices
                       /\ Slice(c, raw, n - 1).index = n - 1
                       /\ Slice(c, raw, n - 1).of = c
  <1>1. TotalClipChunksForSize(raw) \in 2 .. MaxClipChunks /\ MaxClipChunks \in Nat
    BY TotalOK, CapsAssumption
  <1>2. CASE n = 0
    <2>1. NthFrame(c, raw, n) = Manifest(c, raw)
      BY <1>2 DEF NthFrame
    <2>2. SanitizeClipManifest(Manifest(c, raw))
      BY FramesPass
    <2>3. /\ Manifest(c, raw) \in Frames /\ Manifest(c, raw).id = c
          /\ Manifest(c, raw).raw = raw /\ Manifest(c, raw).kind = "manifest"
          /\ Manifest(c, raw).total = TotalClipChunksForSize(raw)
      BY <1>1 DEF Manifest, Frames
    <2> QED BY <1>2, <2>1, <2>2, <2>3
  <1>3. CASE n # 0
    <2>1. n - 1 \in 0 .. (TotalClipChunksForSize(raw) - 1)
      BY <1>1, <1>3
    <2>2. /\ Slice(c, raw, n - 1) \in Slices /\ Slice(c, raw, n - 1).index = n - 1
          /\ Slice(c, raw, n - 1).of = c
      BY <2>1, SliceOK
    <2>3. NthFrame(c, raw, n) = Chunk(c, raw, n - 1)
      BY <1>3 DEF NthFrame
    <2>4. SanitizeClipChunk(Chunk(c, raw, n - 1))
      BY <2>1, FramesPass
    <2>5. /\ Chunk(c, raw, n - 1) \in Frames /\ Chunk(c, raw, n - 1).id = c
          /\ Chunk(c, raw, n - 1).raw = raw /\ Chunk(c, raw, n - 1).kind = "chunk"
          /\ Chunk(c, raw, n - 1).total = TotalClipChunksForSize(raw)
          /\ Chunk(c, raw, n - 1).data = {Slice(c, raw, n - 1)}
      BY <1>1, <2>2 DEF Chunk, Frames
    <2> QED BY <1>3, <2>2, <2>3, <2>4, <2>5
  <1> QED BY <1>2, <1>3

LEMMA FrameOne ==
    ASSUME NEW c \in Transfers, NEW raw \in Nat, Chunkable(raw),
           NEW n \in 0 .. TotalClipChunksForSize(raw),
           NEW m \in 0 .. TotalClipChunksForSize(raw),
           NthFrame(c, raw, n) = NthFrame(c, raw, m)
    PROVE  n = m
  <1> DEFINE f == NthFrame(c, raw, n)
  <1>1. /\ n = 0 => f.kind = "manifest"
        /\ n # 0 => /\ f.kind = "chunk" /\ f.data = {Slice(c, raw, n - 1)}
                    /\ Slice(c, raw, n - 1).index = n - 1
    BY FrameIs
  <1>2. /\ m = 0 => f.kind = "manifest"
        /\ m # 0 => /\ f.kind = "chunk" /\ f.data = {Slice(c, raw, m - 1)}
                    /\ Slice(c, raw, m - 1).index = m - 1
    BY FrameIs
  <1>3. TotalClipChunksForSize(raw) \in Int
    BY Covers
  <1> HIDE DEF f
  <1>4. CASE n = 0 \/ m = 0
    BY <1>1, <1>2, <1>4
  <1>5. CASE n # 0 /\ m # 0
    <2>1. Slice(c, raw, n - 1) = Slice(c, raw, m - 1)
      BY <1>1, <1>2, <1>5
    <2>2. n - 1 = m - 1
      BY <1>1, <1>2, <1>5, <2>1
    <2> QED BY <1>3, <2>2
  <1> QED BY <1>4, <1>5

To(c) == Other(send[c].from)

FrameOf(c, n) == NthFrame(c, send[c].raw, n)

Chunks(c) == TotalClipChunksForSize(send[c].raw)

Begun(c) == send[c].pc # "idle"

ChunkTypes ==
  /\ online \in BOOLEAN
  /\ direction \in {"both", "android_to_mac", "mac_to_android"}
  /\ mishaps \in 0 .. MaxMishaps
  /\ send \in [Transfers -> [pc : {"idle", "sending", "sent", "failed"}, from : Devices,
                             raw : Nat, next : Nat]]
  /\ wire \in [Devices -> Seq(Frames)]
  /\ hub \in [Devices -> Hubs]
  /\ applied \subseteq got /\ got \subseteq Transfers
  /\ why \in [Transfers -> SUBSET {"lost", "swept", "mode"}]

\* A send has an image for chunks, and has reported success after the last one.
TransfersOK ==
  \A c \in Transfers : Begun(c) =>
    /\ Chunkable(send[c].raw)
    /\ send[c].next <= Chunks(c) + 1
    /\ send[c].pc = "sending" => send[c].next <= Chunks(c)
    /\ send[c].pc = "sent" => send[c].next = Chunks(c) + 1

\* A frame is one that its transfer has sent, on its way to the right device.
FramesOK ==
  \A d \in Devices : \A f : In(f, wire[d]) =>
    /\ Begun(f.id) /\ To(f.id) = d
    /\ \E n \in 0 .. (send[f.id].next - 1) : f = FrameOf(f.id, n)

\* The frames of a transfer are in the order in which they were sent.
OrderOK ==
  \A c \in Transfers : Begun(c) =>
    \A n, m \in 0 .. Chunks(c), i, j \in 1 .. Len(wire[To(c)]) :
      wire[To(c)][i] = FrameOf(c, n) /\ wire[To(c)][j] = FrameOf(c, m) /\ i < j => n < m

\* A session is one of a transfer to its device, with slices of that transfer
\* and not with all of them.
HubsOK ==
  \A d \in Devices : \A s : In(s, hub[d]) =>
    /\ Begun(s.id) /\ To(s.id) = d
    /\ ~Complete(s)
    /\ \A p \in s.parts : p.of = s.id

\* A session of transfer c after its first k frames.
Holds(s, c, k) ==
  /\ s.id = c /\ s.raw = send[c].raw /\ s.total = Chunks(c)
  /\ s.parts = {Slice(c, send[c].raw, x) : x \in 0 .. (k - 2)}
  /\ IsFiniteSet(s.parts) /\ Cardinality(s.parts) = k - 1

\* The receiver has seen the first k frames of transfer c.
Received(c, k) ==
  /\ k = 0 => c \notin Ids(hub[To(c)])
  /\ k \in 1 .. Chunks(c) => \E s : In(s, hub[To(c)]) /\ Holds(s, c, k)
  /\ k = Chunks(c) + 1 => c \in got /\ c \notin Ids(hub[To(c)])

\* It has, and those sent since are on the socket.
AtFrame(c, k) ==
  /\ \A n \in 0 .. Chunks(c) : In(FrameOf(c, n), wire[To(c)]) <=> k <= n /\ n < send[c].next
  /\ Received(c, k)

Live(c) == send[c].pc \in {"sending", "sent"} /\ why[c] = {}

\* Of a transfer that nothing has befallen, nothing is missing.
ProgressOK == \A c \in Transfers : Live(c) => \E k \in 0 .. send[c].next : AtFrame(c, k)

LaneInv == ChunkTypes /\ TransfersOK /\ FramesOK /\ OrderOK /\ HubsOK /\ ProgressOK /\ HubBounded

\* What a note adds to the history.
LEMMA NoteIs ==
    ASSUME why \in [Transfers -> SUBSET {"lost", "swept", "mode"}], NEW cs,
           NEW cause \in {"lost", "swept", "mode"}, Note(cs, cause)
    PROVE  /\ why' \in [Transfers -> SUBSET {"lost", "swept", "mode"}]
           /\ \A c \in Transfers : why'[c] = {} <=> why[c] = {} /\ c \notin cs
  BY DEF Note

LEMMA OtherIs ==
    /\ \A d \in Devices : Other(d) \in Devices /\ Other(d) # d
    /\ "mac" \in Devices /\ "android" \in Devices
  BY DEF Devices, Other

\* A new session.
LEMMA SessionIs ==
    ASSUME NEW m \in Frames
    PROVE  /\ Session(m) \in Sessions /\ Session(m).id = m.id /\ Session(m).raw = m.raw
           /\ Session(m).total = m.total /\ Session(m).parts = {}
  BY DEF Session, Sessions, Frames

LEMMA EmptyHub == <<>> \in Hubs /\ Len(<<>>) = 0 /\ Ids(<<>>) = {}
  BY DEF Hubs, Distinct, Ids

\* Sessions that grow old stay the sessions they are.
LEMMA AgedHub ==
    ASSUME NEW h \in Hubs
    PROVE  LET g == [i \in DOMAIN h |-> [h[i] EXCEPT !.old = TRUE]] IN
           /\ g \in Hubs /\ Len(g) = Len(h)
           /\ \A i \in 1 .. Len(h) :
                /\ g[i].id = h[i].id /\ g[i].raw = h[i].raw
                /\ g[i].total = h[i].total /\ g[i].parts = h[i].parts
  <1> DEFINE g == [i \in DOMAIN h |-> [h[i] EXCEPT !.old = TRUE]]
  <1>1. h \in Seq(Sessions) /\ Len(h) \in Nat /\ DOMAIN h = 1 .. Len(h)
    BY DEF Hubs
  <1>2. ASSUME NEW s \in Sessions
        PROVE  LET t == [s EXCEPT !.old = TRUE] IN
               /\ t \in Sessions /\ t.id = s.id /\ t.raw = s.raw
               /\ t.total = s.total /\ t.parts = s.parts
    BY DEF Sessions
  <1>3. \A i \in 1 .. Len(h) :
          /\ g[i] \in Sessions /\ g[i].id = h[i].id /\ g[i].raw = h[i].raw
          /\ g[i].total = h[i].total /\ g[i].parts = h[i].parts
    <2> TAKE i \in 1 .. Len(h)
    <2>1. h[i] \in Sessions /\ g[i] = [h[i] EXCEPT !.old = TRUE]
      BY <1>1
    <2> QED BY <1>2, <2>1
  <1>4. g = [i \in 1 .. Len(h) |-> [h[i] EXCEPT !.old = TRUE]]
    BY <1>1
  <1>5. \A i \in 1 .. Len(h) : [h[i] EXCEPT !.old = TRUE] \in Sessions
    BY <1>1, <1>2
  <1>6. g \in Seq(Sessions) /\ Len(g) = Len(h)
    BY <1>1, <1>4, <1>5
  <1> HIDE DEF g
  <1>7. Distinct(g)
    BY <1>3, <1>6 DEF Hubs, Distinct
  <1> QED BY <1>3, <1>6, <1>7 DEF Hubs, g

-----------------------------------------------------------------------------
(* Types *)

\* The disjuncts of the next-state relation, one by one.
LEMMA LaneSplit ==
    ASSUME [ChunkNext]_chunkVars, NEW P,
           \A c \in Transfers, d \in Devices, raw \in Sizes : StartSend(c, d, raw) => P,
           \A c \in Transfers : SendFrame(c) => P,
           \A d \in Devices : (ReceiveManifest(d) => P) /\ (ReceiveChunk(d) => P),
           \A d \in Devices : Restart(d) => P,
           \A m \in {"both", "android_to_mac", "mac_to_android"} : SwitchMode(m) => P,
           SocketDies => P, SocketOpens => P, TimePasses => P,
           UNCHANGED chunkVars => P
    PROVE  P
  BY DEF ChunkNext

LEMMA NextChunkTypes ==
    ASSUME ChunkTypes, TransfersOK, [ChunkNext]_chunkVars
    PROVE  ChunkTypes'
  <1> USE DEF ChunkTypes
  <1> USE OtherIs
  <1>1. ASSUME NEW c \in Transfers, NEW d \in Devices, NEW raw \in Sizes, StartSend(c, d, raw)
        PROVE  ChunkTypes'
    <2>1. raw \in Nat
      BY CapsAssumption
    <2> QED BY <1>1, <2>1 DEF StartSend
  <1>2. ASSUME NEW c \in Transfers, SendFrame(c) PROVE ChunkTypes'
    <2> DEFINE s == send[c]
    <2>1. s.pc = "sending" /\ s.from \in Devices /\ s.raw \in Nat /\ s.next \in Nat
      BY <1>2 DEF SendFrame
    <2>2. Chunkable(s.raw) /\ s.next \in 0 .. TotalClipChunksForSize(s.raw)
      <3>1. TotalClipChunksForSize(s.raw) \in Int
        BY <2>1, Covers
      <3> QED BY <2>1, <3>1 DEF TransfersOK, Begun, Chunks
    <2>3. NthFrame(c, s.raw, s.next) \in Frames
      BY <2>1, <2>2, FrameIs
    <2> DEFINE w == wire[Other(s.from)]
    <2>4. Append(w, NthFrame(c, s.raw, s.next)) \in Seq(Frames)
      <3>1. w \in Seq(Frames)
        BY <2>1
      <3> QED BY <2>3, <3>1
    <2>5. send' \in [Transfers -> [pc : {"idle", "sending", "sent", "failed"},
                                   from : Devices, raw : Nat, next : Nat]]
      <3>1. CASE online
        <4> DEFINE end == IF s.next = TotalClipChunksForSize(s.raw) THEN "sent" ELSE "sending"
        <4>1. send' = [send EXCEPT ![c].next = @ + 1, ![c].pc = end]
          BY <1>2, <3>1 DEF SendFrame
        <4>2. end \in {"idle", "sending", "sent", "failed"} /\ s.next + 1 \in Nat
          BY <2>1
        <4> HIDE DEF end
        <4> QED BY <4>1, <4>2
      <3>2. CASE ~online
        <4>1. send' = [send EXCEPT ![c].pc = "failed"]
          BY <1>2, <3>2 DEF SendFrame
        <4> QED BY <4>1
      <3> QED BY <3>1, <3>2
    <2>6. wire' \in [Devices -> Seq(Frames)]
      BY <1>2, <2>4 DEF SendFrame
    <2> QED BY <1>2, <2>5, <2>6 DEF SendFrame
  <1>3. ASSUME NEW d \in Devices, ReceiveManifest(d) PROVE ChunkTypes'
    <2> DEFINE m == Head(wire[d])
               h == IF d = "mac" THEN BeginOnMac(hub[d], m) ELSE BeginOnPhone(hub[d], m)
    <2>1. wire[d] \in Seq(Frames) /\ wire[d] # <<>> /\ hub[d] \in Hubs
      BY <1>3 DEF ReceiveManifest
    <2>2. m \in Frames /\ Tail(wire[d]) \in Seq(Frames)
      BY <2>1, InTail
    <2>3. h \in Hubs
      BY <2>1, <2>2, SessionIs, BeginOK
    <2>4. hub' \in [Devices -> Hubs]
      <3> HIDE DEF h
      <3>1. hub' = hub \/ hub' = [hub EXCEPT ![d] = h]
        BY <1>3 DEF ReceiveManifest, h
      <3> QED BY <2>3, <3>1
    <2>5. why' \in [Transfers -> SUBSET {"lost", "swept", "mode"}]
      <3>1. CASE SanitizeClipManifest(m) /\ ModeAllowsReceive(d)
        <4>1. Note(Ids(hub[d]) \ Ids(h), "swept")
          BY <1>3, <3>1 DEF ReceiveManifest
        <4> QED BY <4>1, NoteIs
      <3>2. CASE ~(SanitizeClipManifest(m) /\ ModeAllowsReceive(d))
        <4>1. Note(IF ModeAllowsReceive(d) THEN {} ELSE {m.id}, "mode")
          BY <1>3, <3>2 DEF ReceiveManifest
        <4> QED BY <4>1, NoteIs
      <3> QED BY <3>1, <3>2
    <2> QED BY <1>3, <2>2, <2>4, <2>5 DEF ReceiveManifest
  <1>4. ASSUME NEW d \in Devices, ReceiveChunk(d) PROVE ChunkTypes'
    <2> DEFINE f == Head(wire[d])
    <2>1. wire[d] \in Seq(Frames) /\ wire[d] # <<>> /\ hub[d] \in Hubs
      BY <1>4 DEF ReceiveChunk
    <2>2. f \in Frames /\ Tail(wire[d]) \in Seq(Frames)
      BY <2>1, InTail
    <2>3. f.id \in Transfers /\ f.data \in SUBSET Slices
      BY <2>2 DEF Frames
    <2>4. f.id \in Ids(hub[d]) => Add(d, hub[d], f) \in Hubs
      BY <2>1, <2>3, AddOK
    <2>5. hub' \in [Devices -> Hubs]
      <3>1. hub' = hub \/ (f.id \in Ids(hub[d]) /\ hub' = [hub EXCEPT ![d] = Add(d, hub[d], f)])
        BY <1>4 DEF ReceiveChunk
      <3> QED BY <2>4, <3>1
    <2>6. why' \in [Transfers -> SUBSET {"lost", "swept", "mode"}]
      <3>1. \E cs : Note(cs, "mode")
        BY <1>4, Zenon DEF ReceiveChunk
      <3> QED BY <3>1, NoteIs
    <2>7. applied' \subseteq got' /\ got' \subseteq Transfers
      BY <1>4, <2>3 DEF ReceiveChunk
    <2>8. wire' \in [Devices -> Seq(Frames)]
      BY <1>4, <2>2 DEF ReceiveChunk
    <2>9. UNCHANGED <<online, direction, mishaps, send>>
      BY <1>4 DEF ReceiveChunk
    <2> QED BY <2>5, <2>6, <2>7, <2>8, <2>9
  <1>5. Mishap => mishaps' \in 0 .. MaxMishaps
    BY CapsAssumption DEF Mishap
  <1>6. wire' = [d \in Devices |-> <<>>] => wire' \in [Devices -> Seq(Frames)]
    OBVIOUS
  <1>7. \A cs : Note(cs, "lost") => why' \in [Transfers -> SUBSET {"lost", "swept", "mode"}]
    BY NoteIs
  <1>8. ASSUME NEW d \in Devices, Restart(d) PROVE ChunkTypes'
    <2>1. hub' \in [Devices -> Hubs]
      BY <1>8, EmptyHub DEF Restart
    <2>2. send' \in [Transfers -> [pc : {"idle", "sending", "sent", "failed"},
                                   from : Devices, raw : Nat, next : Nat]]
      BY <1>8 DEF Restart
    <2> QED BY <1>5, <1>6, <1>7, <1>8, <2>1, <2>2 DEF Restart
  <1>9. ASSUME NEW m \in {"both", "android_to_mac", "mac_to_android"}, SwitchMode(m)
        PROVE  ChunkTypes'
    BY <1>5, <1>9 DEF SwitchMode
  <1>10. ASSUME SocketDies PROVE ChunkTypes'
    BY <1>5, <1>6, <1>7, <1>10 DEF SocketDies
  <1>11. ASSUME SocketOpens PROVE ChunkTypes'
    BY <1>11 DEF SocketOpens
  <1>12. ASSUME TimePasses PROVE ChunkTypes'
    <2> DEFINE g == [i \in DOMAIN hub["mac"] |-> [hub["mac"][i] EXCEPT !.old = TRUE]]
    <2>1. g \in Hubs
      <3>1. hub["mac"] \in Hubs
        OBVIOUS
      <3> QED BY <3>1, AgedHub
    <2>2. hub' = [hub EXCEPT !["mac"] = g]
      BY <1>12 DEF TimePasses
    <2> HIDE DEF g
    <2>3. hub' \in [Devices -> Hubs]
      BY <2>1, <2>2
    <2> QED BY <1>5, <1>12, <2>3 DEF TimePasses
  <1>13. ASSUME UNCHANGED chunkVars PROVE ChunkTypes'
    BY <1>13 DEF chunkVars
  <1> HIDE DEF ChunkTypes
  <1> QED BY <1>1, <1>2, <1>3, <1>4, <1>8, <1>9, <1>10, <1>11, <1>12, <1>13, LaneSplit

-----------------------------------------------------------------------------
(* Sends and frames *)

\* What the record of a send holds.
LEMMA SendIs ==
    ASSUME ChunkTypes, TransfersOK, NEW c \in Transfers
    PROVE  /\ send[c].pc \in {"idle", "sending", "sent", "failed"}
           /\ send[c].from \in Devices /\ send[c].raw \in Nat /\ send[c].next \in Nat
           /\ To(c) \in Devices
           /\ Chunks(c) \in Int
           /\ Begun(c) => /\ Chunkable(send[c].raw) /\ Chunks(c) >= 2
                          /\ send[c].next \in 0 .. (Chunks(c) + 1)
  <1>1. /\ send[c].pc \in {"idle", "sending", "sent", "failed"}
        /\ send[c].from \in Devices /\ send[c].raw \in Nat /\ send[c].next \in Nat
    BY DEF ChunkTypes
  <1>2. Chunks(c) \in Int
    BY <1>1, Covers DEF Chunks
  <1>3. Begun(c) => Chunkable(send[c].raw) /\ send[c].next <= Chunks(c) + 1
    BY DEF TransfersOK
  <1>4. Begun(c) => Chunks(c) >= 2
    <2> SUFFICES ASSUME Begun(c) PROVE Chunks(c) >= 2
      OBVIOUS
    <2>1. TotalClipChunksForSize(send[c].raw) \in 2 .. MaxClipChunks
      BY <1>1, <1>3, TotalOK
    <2> QED BY <2>1 DEF Chunks
  <1> QED BY <1>1, <1>2, <1>3, <1>4, OtherIs DEF To

\* The frames of a transfer that has begun.
LEMMA FrameOfIs ==
    ASSUME ChunkTypes, TransfersOK, NEW c \in Transfers, Begun(c), NEW n \in 0 .. Chunks(c)
    PROVE  /\ FrameOf(c, n) \in Frames /\ FrameOf(c, n).id = c
           /\ \A m \in 0 .. Chunks(c) : FrameOf(c, n) = FrameOf(c, m) => n = m
  <1>1. send[c].raw \in Nat /\ Chunkable(send[c].raw)
    BY SendIs
  <1>2. FrameOf(c, n) \in Frames /\ FrameOf(c, n).id = c
    BY <1>1, FrameIs DEF FrameOf, Chunks
  <1>3. \A m \in 0 .. Chunks(c) : FrameOf(c, n) = FrameOf(c, m) => n = m
    BY <1>1, FrameOne DEF FrameOf, Chunks
  <1> QED BY <1>2, <1>3

\* A frame is added to the queue, or the send fails.
LEMMA SendFrameIs ==
    ASSUME ChunkTypes, TransfersOK, NEW c \in Transfers, SendFrame(c)
    PROVE  /\ send[c].pc = "sending" /\ Begun(c) /\ send[c].next \in 0 .. Chunks(c)
           /\ \A e \in Transfers : e # c => send'[e] = send[e]
           /\ send'[c].raw = send[c].raw /\ send'[c].from = send[c].from
           /\ online => /\ send'[c].next = send[c].next + 1
                        /\ send'[c].pc = IF send[c].next = Chunks(c) THEN "sent" ELSE "sending"
                        /\ wire' = [wire EXCEPT ![To(c)] = Append(@, FrameOf(c, send[c].next))]
           /\ ~online => send'[c].pc = "failed" /\ send'[c].next = send[c].next /\ wire' = wire
           /\ UNCHANGED <<hub, got, why>>
  <1>1. send[c].pc = "sending" /\ UNCHANGED <<hub, got, why>>
    BY DEF SendFrame
  <1>2. Begun(c)
    BY <1>1 DEF Begun
  <1>3. send[c].next \in 0 .. Chunks(c)
    BY <1>1, <1>2, SendIs DEF TransfersOK
  <1>4. CASE online
    <2> DEFINE end == IF send[c].next = Chunks(c) THEN "sent" ELSE "sending"
    <2>1. send' = [send EXCEPT ![c].next = @ + 1, ![c].pc = end]
      BY <1>4 DEF SendFrame, Chunks
    <2>2. wire' = [wire EXCEPT ![To(c)] = Append(@, FrameOf(c, send[c].next))]
      BY <1>4 DEF SendFrame, To, FrameOf
    <2> HIDE DEF end
    <2>3. /\ \A e \in Transfers : e # c => send'[e] = send[e]
          /\ send'[c].raw = send[c].raw /\ send'[c].from = send[c].from
          /\ send'[c].next = send[c].next + 1 /\ send'[c].pc = end
      BY <2>1 DEF ChunkTypes
    <2> QED BY <1>1, <1>2, <1>3, <1>4, <2>2, <2>3 DEF end
  <1>5. CASE ~online
    <2>1. send' = [send EXCEPT ![c].pc = "failed"] /\ wire' = wire
      BY <1>5 DEF SendFrame
    <2>2. /\ \A e \in Transfers : e # c => send'[e] = send[e]
          /\ send'[c].raw = send[c].raw /\ send'[c].from = send[c].from
          /\ send'[c].next = send[c].next /\ send'[c].pc = "failed"
      BY <2>1 DEF ChunkTypes
    <2> QED BY <1>1, <1>2, <1>3, <1>5, <2>1, <2>2
  <1> QED BY <1>4, <1>5

\* A transfer is begun.
LEMMA StartSendIs ==
    ASSUME ChunkTypes, NEW c \in Transfers, NEW d \in Devices, NEW raw \in Sizes,
           StartSend(c, d, raw)
    PROVE  /\ ~Begun(c) /\ Chunkable(raw) /\ raw \in Nat
           /\ \A e \in Transfers : e # c => send'[e] = send[e]
           /\ send'[c].pc \in {"sending", "failed"} /\ send'[c].next = 0
           /\ send'[c].raw = raw /\ send'[c].from = d
           /\ UNCHANGED <<wire, hub, got, why>>
  BY CapsAssumption DEF StartSend, Begun, ChunkTypes

\* A restart makes the sends of its device fail.
LEMMA RestartIs ==
    ASSUME ChunkTypes, NEW d \in Devices, Restart(d)
    PROVE  /\ \A c \in Transfers :
                /\ send'[c].raw = send[c].raw /\ send'[c].from = send[c].from
                /\ send'[c].next = send[c].next
                /\ send'[c] = send[c] \/ (send[c].pc = "sending" /\ send'[c].pc = "failed")
           /\ wire' = [e \in Devices |-> <<>>] /\ hub' = [hub EXCEPT ![d] = <<>>]
           /\ Note(WireIds \cup Ids(hub[d]), "lost") /\ got' = got
  <1>1. /\ wire' = [e \in Devices |-> <<>>] /\ hub' = [hub EXCEPT ![d] = <<>>]
        /\ Note(WireIds \cup Ids(hub[d]), "lost") /\ got' = got
        /\ send' = [c \in Transfers |-> IF send[c].pc = "sending" /\ send[c].from = d
                                        THEN [send[c] EXCEPT !.pc = "failed"] ELSE send[c]]
    BY Zenon DEF Restart
  <1>2. \A c \in Transfers :
          /\ send'[c].raw = send[c].raw /\ send'[c].from = send[c].from
          /\ send'[c].next = send[c].next
          /\ send'[c] = send[c] \/ (send[c].pc = "sending" /\ send'[c].pc = "failed")
    <2> TAKE c \in Transfers
    <2> DEFINE s == send[c]
    <2>1. s \in [pc : {"idle", "sending", "sent", "failed"}, from : Devices,
                raw : Nat, next : Nat]
      BY DEF ChunkTypes
    <2>2. \/ send'[c] = s
          \/ s.pc = "sending" /\ send'[c] = [s EXCEPT !.pc = "failed"]
      BY <1>1
    <2> HIDE DEF s
    <2>3. CASE send'[c] = s
      BY <2>3 DEF s
    <2>4. CASE s.pc = "sending" /\ send'[c] = [s EXCEPT !.pc = "failed"]
      <3>1. /\ [s EXCEPT !.pc = "failed"].raw = s.raw
            /\ [s EXCEPT !.pc = "failed"].from = s.from
            /\ [s EXCEPT !.pc = "failed"].next = s.next
            /\ [s EXCEPT !.pc = "failed"].pc = "failed"
        BY <2>1
      <3> QED BY <2>4, <3>1 DEF s
    <2> QED BY <2>2, <2>3, <2>4
  <1> QED BY <1>1, <1>2

\* Nothing else touches a send.
LEMMA NextSends ==
    ASSUME ChunkTypes, TransfersOK, [ChunkNext]_chunkVars
    PROVE  \/ \E c \in Transfers, d \in Devices, raw \in Sizes : StartSend(c, d, raw)
           \/ \E c \in Transfers : SendFrame(c)
           \/ \E d \in Devices : Restart(d)
           \/ send' = send
  BY Zenon DEF ChunkNext, ReceiveManifest, ReceiveChunk, SwitchMode, SocketDies, SocketOpens,
    TimePasses, chunkVars

\* A transfer that has begun keeps its image and its sender, and goes on.
LEMMA NextMoves ==
    ASSUME ChunkTypes, TransfersOK, [ChunkNext]_chunkVars, NEW c \in Transfers, Begun(c)
    PROVE  /\ send'[c].pc # "idle" /\ send'[c].raw = send[c].raw
           /\ send'[c].from = send[c].from
           /\ send'[c].next \in Nat /\ send[c].next <= send'[c].next
  <1>0. send[c].next \in Nat
    BY SendIs
  <1>1. ASSUME NEW e \in Transfers, NEW d \in Devices, NEW raw \in Sizes, StartSend(e, d, raw)
        PROVE  send'[c] = send[c]
    BY <1>1, StartSendIs
  <1>2. ASSUME NEW e \in Transfers, SendFrame(e)
        PROVE  /\ send'[c].pc # "idle" /\ send'[c].raw = send[c].raw
               /\ send'[c].from = send[c].from
               /\ send'[c].next \in {send[c].next, send[c].next + 1}
    <2>1. CASE e # c
      BY <1>2, <2>1, SendFrameIs DEF Begun
    <2>2. CASE e = c
      BY <1>2, <2>2, SendFrameIs
    <2> QED BY <2>1, <2>2
  <1>3. ASSUME NEW d \in Devices, Restart(d)
        PROVE  /\ send'[c].pc # "idle" /\ send'[c].raw = send[c].raw
               /\ send'[c].from = send[c].from /\ send'[c].next = send[c].next
    BY <1>3, RestartIs DEF Begun
  <1> QED BY <1>0, <1>1, <1>2, <1>3, NextSends DEF Begun

\* So does what is derived from its record.
LEMMA NextNames ==
    ASSUME ChunkTypes, TransfersOK, [ChunkNext]_chunkVars, NEW c \in Transfers, Begun(c)
    PROVE  /\ Begun(c)' /\ To(c)' = To(c) /\ Chunks(c)' = Chunks(c)
           /\ \A n : FrameOf(c, n)' = FrameOf(c, n)
           /\ \A s, k : Holds(s, c, k)' <=> Holds(s, c, k)
  BY NextMoves DEF Begun, To, Chunks, FrameOf, Holds

LEMMA NextTransfersOK ==
    ASSUME ChunkTypes, TransfersOK, [ChunkNext]_chunkVars
    PROVE  TransfersOK'
  <1> SUFFICES ASSUME NEW c \in Transfers, Begun(c)'
               PROVE  /\ Chunkable(send'[c].raw)
                      /\ send'[c].next <= Chunks(c)' + 1
                      /\ send'[c].pc = "sending" => send'[c].next <= Chunks(c)'
                      /\ send'[c].pc = "sent" => send'[c].next = Chunks(c)' + 1
    BY DEF TransfersOK, Chunkable
  <1> DEFINE Good == /\ Chunkable(send'[c].raw)
                     /\ send'[c].next <= Chunks(c)' + 1
                     /\ send'[c].pc = "sending" => send'[c].next <= Chunks(c)'
                     /\ send'[c].pc = "sent" => send'[c].next = Chunks(c)' + 1
  <1>1. send'[c] = send[c] => Good
    BY DEF TransfersOK, Begun, Chunks
  <1>2. ASSUME NEW e \in Transfers, NEW d \in Devices, NEW raw \in Sizes, StartSend(e, d, raw)
        PROVE  Good
    <2>1. CASE e # c
      BY <1>1, <1>2, <2>1, StartSendIs
    <2>2. CASE e = c
      <3>1. /\ Chunkable(send'[c].raw) /\ send'[c].next = 0 /\ send'[c].raw \in Nat
            /\ send'[c].pc \in {"sending", "failed"}
        BY <1>2, <2>2, StartSendIs
      <3>2. TotalClipChunksForSize(send'[c].raw) \in 2 .. MaxClipChunks /\ MaxClipChunks \in Nat
        BY <3>1, TotalOK, CapsAssumption
      <3> QED BY <3>1, <3>2 DEF Chunks
    <2> QED BY <2>1, <2>2
  <1>3. ASSUME NEW e \in Transfers, SendFrame(e) PROVE Good
    <2>1. CASE e # c
      BY <1>1, <1>3, <2>1, SendFrameIs
    <2>2. CASE e = c
      <3>1. Begun(c) /\ send[c].next \in 0 .. Chunks(c) /\ send'[c].raw = send[c].raw
        BY <1>3, <2>2, SendFrameIs
      <3>2. Chunks(c)' = Chunks(c) /\ Chunks(c) \in Int /\ Chunkable(send[c].raw)
        BY <3>1, SendIs DEF Chunks
      <3>3. \/ /\ send'[c].next = send[c].next + 1
               /\ send'[c].pc = IF send[c].next = Chunks(c) THEN "sent" ELSE "sending"
            \/ send'[c].pc = "failed" /\ send'[c].next = send[c].next
        BY <1>3, <2>2, SendFrameIs
      <3> QED BY <3>1, <3>2, <3>3
    <2> QED BY <2>1, <2>2
  <1>4. ASSUME NEW d \in Devices, Restart(d) PROVE Good
    <2>1. /\ send'[c].raw = send[c].raw /\ send'[c].next = send[c].next
          /\ send'[c] = send[c] \/ (send[c].pc = "sending" /\ send'[c].pc = "failed")
      BY <1>4, RestartIs
    <2>2. CASE send[c].pc = "sending" /\ send'[c].pc = "failed"
      <3>1. Begun(c) /\ Chunks(c)' = Chunks(c)
        BY <2>1, <2>2 DEF Begun, Chunks
      <3> QED BY <2>1, <2>2, <3>1 DEF TransfersOK
    <2> QED BY <1>1, <2>1, <2>2
  <1> QED BY <1>1, <1>2, <1>3, <1>4, NextSends

-----------------------------------------------------------------------------
(* The socket *)

\* A frame comes to the end of a queue or leaves its head, or all are lost.
LEMMA NextWires ==
    ASSUME [ChunkNext]_chunkVars
    PROVE  \/ \E c \in Transfers : SendFrame(c)
           \/ \E d \in Devices : wire[d] # <<>> /\ wire' = [wire EXCEPT ![d] = Tail(@)]
           \/ wire' = [d \in Devices |-> <<>>]
           \/ wire' = wire
  BY Zenon DEF ChunkNext, StartSend, ReceiveManifest, ReceiveChunk, SwitchMode, SocketDies,
    SocketOpens, TimePasses, Restart, chunkVars

\* What is on its way is a frame that its transfer has sent.
LEMMA OnWire ==
    ASSUME ChunkTypes, TransfersOK, FramesOK, NEW d \in Devices, NEW f, In(f, wire[d])
    PROVE  /\ f \in Frames /\ f.id \in Transfers /\ Begun(f.id) /\ To(f.id) = d
           /\ \E n \in 0 .. (send[f.id].next - 1) :
                n \in 0 .. Chunks(f.id) /\ f = FrameOf(f.id, n)
  <1>1. f \in Frames
    BY DEF ChunkTypes, In
  <1>2. f.id \in Transfers
    BY <1>1 DEF Frames
  <1>3. /\ Begun(f.id) /\ To(f.id) = d
        /\ \E n \in 0 .. (send[f.id].next - 1) : f = FrameOf(f.id, n)
    BY DEF FramesOK
  <1>4. Chunks(f.id) \in Int /\ send[f.id].next \in 0 .. (Chunks(f.id) + 1)
    BY <1>2, <1>3, SendIs
  <1>5. \A n \in 0 .. (send[f.id].next - 1) : n \in 0 .. Chunks(f.id)
    BY <1>4
  <1> QED BY <1>1, <1>2, <1>3, <1>5

LEMMA NextFramesOK ==
    ASSUME ChunkTypes, TransfersOK, FramesOK, [ChunkNext]_chunkVars
    PROVE  FramesOK'
  <1> DEFINE Good(f, d) == /\ Begun(f.id)' /\ To(f.id)' = d
                           /\ \E n \in 0 .. (send'[f.id].next - 1) : f = FrameOf(f.id, n)'
  <1> SUFFICES ASSUME NEW d \in Devices, NEW f, In(f, wire'[d]) PROVE Good(f, d)
    BY DEF FramesOK, In
  <1>1. In(f, wire[d]) => Good(f, d)
    <2> SUFFICES ASSUME In(f, wire[d]) PROVE Good(f, d)
      OBVIOUS
    <2>1. /\ f.id \in Transfers /\ Begun(f.id) /\ To(f.id) = d
          /\ \E n \in 0 .. (send[f.id].next - 1) : f = FrameOf(f.id, n)
      BY OnWire
    <2>2. /\ Begun(f.id)' /\ To(f.id)' = To(f.id)
          /\ \A n : FrameOf(f.id, n)' = FrameOf(f.id, n)
      BY <2>1, NextNames
    <2>3. /\ send[f.id].next \in Nat /\ send'[f.id].next \in Nat
          /\ send[f.id].next <= send'[f.id].next
      BY <2>1, NextMoves, SendIs
    <2>4. \A n \in 0 .. (send[f.id].next - 1) : n \in 0 .. (send'[f.id].next - 1)
      BY <2>3
    <2> QED BY <2>1, <2>2, <2>4
  <1>2. ASSUME NEW c \in Transfers, SendFrame(c) PROVE Good(f, d)
    <2>1. /\ Begun(c) /\ send[c].next \in 0 .. Chunks(c)
          /\ online => /\ send'[c].next = send[c].next + 1
                       /\ wire' = [wire EXCEPT ![To(c)] = Append(@, FrameOf(c, send[c].next))]
          /\ ~online => wire' = wire
      BY <1>2, SendFrameIs
    <2>2. CASE ~online \/ To(c) # d
      <3>1. wire'[d] = wire[d]
        BY <2>1, <2>2 DEF ChunkTypes
      <3> QED BY <1>1, <3>1
    <2>3. CASE online /\ To(c) = d
      <3> PICK n : n = send[c].next
        OBVIOUS
      <3> DEFINE g == FrameOf(c, n)
      <3>1. g \in Frames /\ g.id = c
        BY <2>1, FrameOfIs
      <3>2. wire[d] \in Seq(Frames) /\ wire'[d] = Append(wire[d], g)
        BY <2>1, <2>3 DEF ChunkTypes
      <3>3. In(f, wire[d]) \/ f = g
        BY <3>1, <3>2, InAppend
      <3>4. Begun(c)' /\ To(c)' = d /\ g = FrameOf(c, n)'
        BY <2>1, <2>3, NextNames
      <3>5. n \in 0 .. (send'[c].next - 1)
        BY <2>1, <2>3
      <3> HIDE DEF g
      <3>6. f = g => Good(f, d)
        BY <3>1, <3>4, <3>5
      <3> QED BY <1>1, <3>3, <3>6
    <2> QED BY <2>2, <2>3
  <1>3. ASSUME NEW e \in Devices, wire[e] # <<>>, wire' = [wire EXCEPT ![e] = Tail(@)]
        PROVE  Good(f, d)
    <2>1. wire[d] \in Seq(Frames)
      BY DEF ChunkTypes
    <2>2. wire'[d] = wire[d] \/ (wire[d] # <<>> /\ wire'[d] = Tail(wire[d]))
      BY <1>3 DEF ChunkTypes
    <2> QED BY <1>1, <2>1, <2>2, InTail
  <1>4. wire' # [e \in Devices |-> <<>>]
    <2> SUFFICES ASSUME wire' = [e \in Devices |-> <<>>] PROVE FALSE
      OBVIOUS
    <2>1. wire'[d] = <<>>
      OBVIOUS
    <2> QED BY <2>1, InEmpty
  <1> QED BY <1>1, <1>2, <1>3, <1>4, NextWires

LEMMA NextOrderOK ==
    ASSUME ChunkTypes, TransfersOK, FramesOK, OrderOK, [ChunkNext]_chunkVars
    PROVE  OrderOK'
  <1> DEFINE Sorted(c, w) == \A n, m \in 0 .. Chunks(c), i, j \in 1 .. Len(w) :
                               w[i] = FrameOf(c, n) /\ w[j] = FrameOf(c, m) /\ i < j => n < m
  <1>1. ASSUME NEW c \in Transfers, Begun(c) PROVE Sorted(c, wire'[To(c)])
    <2> DEFINE w == wire[To(c)]
               v == wire'[To(c)]
    <2>1. To(c) \in Devices /\ w \in Seq(Frames) /\ Len(w) \in Nat
      BY SendIs DEF ChunkTypes
    <2>2. Sorted(c, w)
      BY <1>1 DEF OrderOK
    <2>3. ASSUME NEW e \in Transfers, SendFrame(e) PROVE Sorted(c, v)
      <3>1. /\ Begun(e) /\ send[e].next \in 0 .. Chunks(e)
            /\ online => wire' = [wire EXCEPT ![To(e)] = Append(@, FrameOf(e, send[e].next))]
            /\ ~online => wire' = wire
        BY <2>3, SendFrameIs
      <3> DEFINE g == FrameOf(e, send[e].next)
      <3>2. v = w \/ v = Append(w, g)
        BY <2>1, <3>1 DEF ChunkTypes
      <3>3. CASE v = Append(w, g)
        <4>1. g \in Frames /\ g.id = e
          BY <3>1, FrameOfIs
        <4> SUFFICES ASSUME NEW n \in 0 .. Chunks(c), NEW m \in 0 .. Chunks(c),
                            NEW i \in 1 .. Len(v), NEW j \in 1 .. Len(v),
                            v[i] = FrameOf(c, n), v[j] = FrameOf(c, m), i < j
                     PROVE  n < m
          OBVIOUS
        <4> HIDE DEF g, v, w
        <4>2. /\ Len(v) = Len(w) + 1 /\ v[Len(w) + 1] = g
              /\ \A k \in 1 .. Len(w) : v[k] = w[k]
          BY <2>1, <3>3, <4>1
        <4>3. i \in 1 .. Len(w) /\ v[i] = w[i]
          BY <2>1, <4>2
        <4>4. CASE j \in 1 .. Len(w)
          BY <2>2, <4>2, <4>3, <4>4 DEF w
        <4>5. CASE j = Len(w) + 1
          <5>1. FrameOf(c, m) = g /\ FrameOf(c, m).id = c
            BY <1>1, <4>2, <4>5, FrameOfIs
          <5>2. e = c
            BY <4>1, <5>1
          <5>3. m = send[c].next
            <6>1. FrameOf(c, m) = FrameOf(c, send[c].next) /\ send[c].next \in 0 .. Chunks(c)
              BY <3>1, <5>1, <5>2 DEF g
            <6> QED BY <1>1, <6>1, FrameOfIs
          <5>4. In(FrameOf(c, n), w) /\ FrameOf(c, n).id = c
            BY <1>1, <4>3, FrameOfIs DEF In
          <5>5. PICK k \in 0 .. (send[c].next - 1) :
                  k \in 0 .. Chunks(c) /\ FrameOf(c, n) = FrameOf(c, k)
            BY <2>1, <5>4, OnWire DEF w
          <5>6. n = k
            BY <1>1, <5>5, FrameOfIs
          <5>7. send[c].next \in Nat
            BY SendIs
          <5> QED BY <5>3, <5>5, <5>6, <5>7
        <4> QED BY <2>1, <4>2, <4>4, <4>5
      <3> QED BY <2>2, <3>2, <3>3
    <2>4. ASSUME NEW e \in Devices, wire[e] # <<>>, wire' = [wire EXCEPT ![e] = Tail(@)]
          PROVE  Sorted(c, v)
      <3>1. v = w \/ (w # <<>> /\ v = Tail(w))
        BY <2>1, <2>4 DEF ChunkTypes
      <3>2. CASE w # <<>> /\ v = Tail(w)
        <4> HIDE DEF v, w
        <4>1. /\ Len(v) = Len(w) - 1
              /\ \A i \in 1 .. Len(v) : v[i] = w[i + 1] /\ i + 1 \in 1 .. Len(w)
          BY <2>1, <3>2
        <4> SUFFICES ASSUME NEW n \in 0 .. Chunks(c), NEW m \in 0 .. Chunks(c),
                            NEW i \in 1 .. Len(v), NEW j \in 1 .. Len(v),
                            v[i] = FrameOf(c, n), v[j] = FrameOf(c, m), i < j
                     PROVE  n < m
          OBVIOUS
        <4>2. /\ w[i + 1] = FrameOf(c, n) /\ w[j + 1] = FrameOf(c, m) /\ i + 1 < j + 1
              /\ i + 1 \in 1 .. Len(w) /\ j + 1 \in 1 .. Len(w)
          BY <2>1, <4>1
        <4> QED BY <2>2, <4>2
      <3> QED BY <2>2, <3>1, <3>2
    <2>5. wire' = [d \in Devices |-> <<>>] => Sorted(c, v)
      <3> SUFFICES ASSUME wire' = [d \in Devices |-> <<>>] PROVE Sorted(c, v)
        OBVIOUS
      <3>1. v = <<>>
        BY <2>1
      <3>2. Len(v) = 0
        BY <3>1
      <3> QED BY <3>2
    <2> QED BY <2>2, <2>3, <2>4, <2>5, NextWires
  <1>2. ASSUME NEW c \in Transfers, Begun(c)
        PROVE  \A n, m \in 0 .. Chunks(c)', i, j \in 1 .. Len(wire'[To(c)']) :
                 (wire'[To(c)'][i] = FrameOf(c, n)' /\ wire'[To(c)'][j] = FrameOf(c, m)' /\ i < j)
                 => n < m
    <2>1. To(c)' = To(c) /\ Chunks(c)' = Chunks(c) /\ \A n : FrameOf(c, n)' = FrameOf(c, n)
      BY <1>2, NextNames
    <2> QED BY <1>1, <1>2, <2>1
  <1>3. ASSUME NEW c \in Transfers, ~Begun(c), Begun(c)'
        PROVE  \A n, m \in 0 .. Chunks(c)', i, j \in 1 .. Len(wire'[To(c)']) :
                 ~(wire'[To(c)'][i] = FrameOf(c, n)')
    <2>1. PICK e \in Transfers, d \in Devices, raw \in Sizes : StartSend(e, d, raw)
      <3>1. ASSUME NEW e \in Transfers, SendFrame(e) PROVE FALSE
        <4>1. e # c => send'[c] = send[c]
          BY <3>1, SendFrameIs
        <4> QED BY <1>3, <3>1, <4>1, SendFrameIs DEF Begun
      <3>2. ASSUME NEW d \in Devices, Restart(d) PROVE FALSE
        <4>1. send'[c] = send[c] \/ (send[c].pc = "sending" /\ send'[c].pc = "failed")
          BY <3>2, RestartIs
        <4> QED BY <1>3, <4>1 DEF Begun
      <3> QED BY <1>3, <3>1, <3>2, NextSends DEF Begun
    <2>2. wire' = wire /\ (e # c => send'[c] = send[c])
      BY <2>1, StartSendIs
    <2>3. e = c
      BY <1>3, <2>2 DEF Begun
    <2>4. Chunkable(raw) /\ raw \in Nat /\ send'[c].raw = raw /\ send'[c].from = d
      BY <2>1, <2>3, StartSendIs
    <2>5. To(c)' \in Devices
      BY <2>4, OtherIs DEF To
    <2> SUFFICES ASSUME NEW n \in 0 .. Chunks(c)', NEW i \in 1 .. Len(wire'[To(c)']),
                        wire'[To(c)'][i] = FrameOf(c, n)'
                 PROVE  FALSE
      OBVIOUS
    <2>6. FrameOf(c, n)'.id = c
      <3>1. n \in 0 .. TotalClipChunksForSize(raw)
        BY <2>4 DEF Chunks
      <3>2. NthFrame(c, raw, n).id = c
        BY <2>4, <3>1, FrameIs
      <3> QED BY <2>4, <3>2 DEF FrameOf
    <2>7. In(FrameOf(c, n)', wire[To(c)'])
      BY <2>2 DEF In
    <2>8. Begun(FrameOf(c, n)'.id)
      BY <2>5, <2>7 DEF FramesOK
    <2> QED BY <1>3, <2>6, <2>8
  <1> QED BY <1>2, <1>3 DEF OrderOK

-----------------------------------------------------------------------------
(* The hubs *)

\* The manifest at the head of a queue opens a session, unless the mode forbids.
LEMMA ReceiveManifestIs ==
    ASSUME ChunkTypes, TransfersOK, FramesOK, NEW d \in Devices, ReceiveManifest(d)
    PROVE  LET f == Head(wire[d])
               h == IF d = "mac" THEN BeginOnMac(hub[d], f) ELSE BeginOnPhone(hub[d], f)
           IN
           /\ wire[d] \in Seq(Frames) /\ wire[d] # <<>>
           /\ wire' = [wire EXCEPT ![d] = Tail(@)] /\ send' = send /\ got' = got
           /\ In(f, wire[d]) /\ f.id \in Transfers /\ Begun(f.id) /\ To(f.id) = d
           /\ f = FrameOf(f.id, 0)
           /\ Session(f) \in Sessions /\ Session(f).id = f.id
           /\ Session(f).raw = send[f.id].raw /\ Session(f).total = Chunks(f.id)
           /\ Session(f).parts = {}
           /\ hub[d] \in Hubs
           /\ ModeAllowsReceive(d) =>
                hub' = [hub EXCEPT ![d] = h] /\ Note(Ids(hub[d]) \ Ids(h), "swept")
           /\ ~ModeAllowsReceive(d) => hub' = hub /\ Note({f.id}, "mode")
  <1> DEFINE f == Head(wire[d])
             c == f.id
             h == IF d = "mac" THEN BeginOnMac(hub[d], f) ELSE BeginOnPhone(hub[d], f)
  <1>1. /\ wire[d] \in Seq(Frames) /\ wire[d] # <<>> /\ hub[d] \in Hubs
        /\ wire' = [wire EXCEPT ![d] = Tail(@)] /\ send' = send /\ got' = got
        /\ f.kind = "manifest"
    BY DEF ReceiveManifest, ChunkTypes
  <1>2. In(f, wire[d])
    BY <1>1, InTail
  <1>3. /\ f \in Frames /\ c \in Transfers /\ Begun(c) /\ To(c) = d
        /\ \E n \in 0 .. (send[c].next - 1) : n \in 0 .. Chunks(c) /\ f = FrameOf(c, n)
    BY <1>2, OnWire
  <1>4. PICK n \in 0 .. Chunks(c) : f = FrameOf(c, n)
    BY <1>3
  <1>5. send[c].raw \in Nat /\ Chunkable(send[c].raw)
    BY <1>3, SendIs
  <1> HIDE DEF f
  <1>6. /\ f.raw = send[c].raw /\ f.total = Chunks(c)
        /\ n = 0 => SanitizeClipManifest(f)
        /\ n # 0 => f.kind = "chunk"
    BY <1>3, <1>4, <1>5, FrameIs DEF FrameOf, Chunks
  <1>7. n = 0 /\ SanitizeClipManifest(f)
    BY <1>1, <1>6
  <1>8. /\ ModeAllowsReceive(d) =>
             hub' = [hub EXCEPT ![d] = h] /\ Note(Ids(hub[d]) \ Ids(h), "swept")
        /\ ~ModeAllowsReceive(d) => hub' = hub /\ Note({c}, "mode")
    <2>1. CASE ModeAllowsReceive(d)
      BY <1>7, <2>1 DEF ReceiveManifest, f
    <2>2. CASE ~ModeAllowsReceive(d)
      BY <1>7, <2>2 DEF ReceiveManifest, f
    <2> QED BY <2>1, <2>2
  <1>9. /\ Session(f) \in Sessions /\ Session(f).id = c /\ Session(f).raw = send[c].raw
        /\ Session(f).total = Chunks(c) /\ Session(f).parts = {}
    BY <1>3, <1>6, SessionIs
  <1> HIDE DEF h
  <1> QED BY <1>1, <1>2, <1>3, <1>4, <1>7, <1>8, <1>9 DEF f, h

\* The chunk at the head of a queue is added to its session if that is there.
LEMMA ReceiveChunkIs ==
    ASSUME ChunkTypes, TransfersOK, FramesOK, NEW d \in Devices, ReceiveChunk(d)
    PROVE  LET f == Head(wire[d]) IN
           /\ wire[d] \in Seq(Frames) /\ wire[d] # <<>>
           /\ wire' = [wire EXCEPT ![d] = Tail(@)] /\ send' = send
           /\ In(f, wire[d]) /\ f \in Frames
           /\ f.id \in Transfers /\ Begun(f.id) /\ To(f.id) = d
           /\ f.raw = send[f.id].raw /\ f.total = Chunks(f.id)
           /\ \E n \in 1 .. Chunks(f.id) :
                /\ f = FrameOf(f.id, n) /\ f.data = {Slice(f.id, send[f.id].raw, n - 1)}
                /\ Slice(f.id, send[f.id].raw, n - 1) \in Slices
                /\ Slice(f.id, send[f.id].raw, n - 1).index = n - 1
                /\ Slice(f.id, send[f.id].raw, n - 1).of = f.id
           /\ hub[d] \in Hubs
           /\ f.id \in Ids(hub[d]) => hub' = [hub EXCEPT ![d] = Add(d, hub[d], f)]
           /\ f.id \notin Ids(hub[d]) => hub' = hub
           /\ got \subseteq got'
           /\ f.id \in Ids(hub[d]) /\ Completes(hub[d], f) => f.id \in got'
           /\ \A c \in Transfers : why'[c] = {} => why[c] = {}
  <1> DEFINE f == Head(wire[d])
             c == f.id
             part(n) == Slice(c, send[c].raw, n - 1)
  <1>1. /\ wire[d] \in Seq(Frames) /\ wire[d] # <<>> /\ hub[d] \in Hubs
        /\ wire' = [wire EXCEPT ![d] = Tail(@)] /\ send' = send
        /\ f.kind = "chunk"
    BY DEF ReceiveChunk, ChunkTypes
  <1>2. In(f, wire[d])
    BY <1>1, InTail
  <1>3. /\ f \in Frames /\ c \in Transfers /\ Begun(c) /\ To(c) = d
        /\ \E n \in 0 .. (send[c].next - 1) : n \in 0 .. Chunks(c) /\ f = FrameOf(c, n)
    BY <1>2, OnWire
  <1>4. PICK n \in 0 .. Chunks(c) : f = FrameOf(c, n)
    BY <1>3
  <1>5. send[c].raw \in Nat /\ Chunkable(send[c].raw) /\ Chunks(c) \in Int
    BY <1>3, SendIs
  <1> HIDE DEF f
  <1>6. /\ f.raw = send[c].raw /\ f.total = Chunks(c)
        /\ n = 0 => f.kind = "manifest"
        /\ n # 0 => /\ SanitizeClipChunk(f) /\ f.data = {part(n)}
                    /\ part(n) \in Slices /\ part(n).index = n - 1 /\ part(n).of = c
    BY <1>3, <1>4, <1>5, FrameIs DEF FrameOf, Chunks
  <1>7. n # 0 /\ SanitizeClipChunk(f)
    BY <1>1, <1>6
  <1>8. n \in 1 .. Chunks(c)
    BY <1>5, <1>7
  <1>9. /\ c \in Ids(hub[d]) => hub' = [hub EXCEPT ![d] = Add(d, hub[d], f)]
        /\ c \notin Ids(hub[d]) => hub' = hub
        /\ got \subseteq got'
        /\ c \in Ids(hub[d]) /\ Completes(hub[d], f) => c \in got'
    BY <1>7 DEF ReceiveChunk, f
  <1>10. \A e \in Transfers : why'[e] = {} => why[e] = {}
    <2>1. \E cs : Note(cs, "mode")
      BY Zenon DEF ReceiveChunk
    <2> QED BY <2>1, NoteIs DEF ChunkTypes
  <1>11. \E k \in 1 .. Chunks(c) :
           /\ f = FrameOf(c, k) /\ f.data = {part(k)}
           /\ part(k) \in Slices /\ part(k).index = k - 1 /\ part(k).of = c
    BY <1>4, <1>6, <1>7, <1>8
  <1> QED BY <1>1, <1>2, <1>3, <1>6, <1>9, <1>10, <1>11 DEF f

\* A session of an image for chunks is not complete without any.
LEMMA NewIncomplete ==
    ASSUME NEW s, s.parts = {}, s.total \in Int, s.total >= 2
    PROVE  ~Complete(s)
  BY FS_EmptySet DEF Complete

\* Which hubs a step touches.
LEMMA NextHubs ==
    ASSUME [ChunkNext]_chunkVars
    PROVE  \/ \E d \in Devices : ReceiveManifest(d) \/ ReceiveChunk(d) \/ Restart(d)
           \/ TimePasses
           \/ hub' = hub
  BY Zenon DEF ChunkNext, StartSend, SendFrame, SwitchMode, SocketDies, SocketOpens, chunkVars

\* Time passes for the Mac's sessions.
LEMMA TimePassesIs ==
    ASSUME ChunkTypes, TimePasses
    PROVE  /\ UNCHANGED <<send, wire, got, why>> /\ hub'["android"] = hub["android"]
           /\ hub["mac"] \in Hubs /\ hub'["mac"] \in Hubs
           /\ Len(hub'["mac"]) = Len(hub["mac"])
           /\ \A i \in 1 .. Len(hub["mac"]) :
                /\ hub'["mac"][i].id = hub["mac"][i].id
                /\ hub'["mac"][i].raw = hub["mac"][i].raw
                /\ hub'["mac"][i].total = hub["mac"][i].total
                /\ hub'["mac"][i].parts = hub["mac"][i].parts
  <1> DEFINE g == [i \in DOMAIN hub["mac"] |-> [hub["mac"][i] EXCEPT !.old = TRUE]]
  <1>1. hub["mac"] \in Hubs
    BY OtherIs DEF ChunkTypes
  <1>2. /\ g \in Hubs /\ Len(g) = Len(hub["mac"])
        /\ \A i \in 1 .. Len(hub["mac"]) :
             /\ g[i].id = hub["mac"][i].id /\ g[i].raw = hub["mac"][i].raw
             /\ g[i].total = hub["mac"][i].total /\ g[i].parts = hub["mac"][i].parts
    BY <1>1, AgedHub
  <1>3. hub' = [hub EXCEPT !["mac"] = g] /\ UNCHANGED <<send, wire, got, why>>
    BY DEF TimePasses
  <1> HIDE DEF g
  <1>4. hub'["mac"] = g /\ hub'["android"] = hub["android"]
    BY <1>3, OtherIs DEF ChunkTypes
  <1> QED BY <1>1, <1>2, <1>3, <1>4

\* The hubs stay within their bounds.
LEMMA NextHubBounded ==
    ASSUME ChunkTypes, TransfersOK, FramesOK, HubBounded, [ChunkNext]_chunkVars
    PROVE  HubBounded'
  <1> DEFINE Cap(d) == IF d = "mac" THEN MaxSessions + 1 ELSE MaxSessions
  <1>0. \A d \in Devices : Len(hub[d]) <= Cap(d) /\ Cap(d) \in Nat
    BY CapsAssumption DEF HubBounded, Devices
  <1>1. \A d \in Devices : /\ Len(hub[d]) <= Cap(d) /\ Cap(d) \in Nat
                           /\ hub[d] \in Hubs /\ Len(hub[d]) \in Nat
    <2>1. \A d \in Devices : hub[d] \in Hubs
      BY DEF ChunkTypes
    <2>2. \A h \in Hubs : Len(h) \in Nat
      BY DEF Hubs
    <2> QED BY <1>0, <2>1, <2>2
  <1>2. ASSUME NEW d \in Devices, NEW h, hub' = [hub EXCEPT ![d] = h], Len(h) <= Cap(d)
        PROVE  \A e \in Devices : Len(hub'[e]) <= Cap(e)
    BY <1>1, <1>2 DEF ChunkTypes
  <1>3. ASSUME NEW d \in Devices, ReceiveManifest(d)
        PROVE  \A e \in Devices : Len(hub'[e]) <= Cap(e)
    <2> DEFINE f == Head(wire[d])
               h == IF d = "mac" THEN BeginOnMac(hub[d], f) ELSE BeginOnPhone(hub[d], f)
    <2>1. /\ Session(f) \in Sessions /\ hub[d] \in Hubs
          /\ hub' = [hub EXCEPT ![d] = h] \/ hub' = hub
      BY <1>3, ReceiveManifestIs
    <2>2. Len(h) <= Cap(d)
      <3>1. /\ Len(hub[d]) <= MaxSessions + 1 =>
                 Len(BeginOnMac(hub[d], f)) <= MaxSessions + 1
            /\ Len(hub[d]) <= MaxSessions => Len(BeginOnPhone(hub[d], f)) <= MaxSessions
        BY <2>1, BeginOK
      <3> QED BY <1>1, <3>1
    <2> HIDE DEF h
    <2> QED BY <1>1, <1>2, <2>1, <2>2
  <1>4. ASSUME NEW d \in Devices, ReceiveChunk(d)
        PROVE  \A e \in Devices : Len(hub'[e]) <= Cap(e)
    <2> DEFINE f == Head(wire[d])
               h == Add(d, hub[d], f)
    <2>1. /\ f \in Frames /\ hub[d] \in Hubs
          /\ f.id \in Ids(hub[d]) => hub' = [hub EXCEPT ![d] = h]
          /\ f.id \notin Ids(hub[d]) => hub' = hub
      BY <1>4, ReceiveChunkIs
    <2>2. f.data \in SUBSET Slices
      BY <2>1 DEF Frames
    <2>3. CASE f.id \in Ids(hub[d])
      <3>1. h \in Hubs /\ Len(h) <= Len(hub[d])
        BY <2>1, <2>2, <2>3, AddOK
      <3>2. Len(h) <= Cap(d)
        <4>1. Len(h) \in Nat
          BY <3>1 DEF Hubs
        <4> HIDE DEF h
        <4> QED BY <1>1, <3>1, <4>1
      <3> HIDE DEF h
      <3> QED BY <1>2, <2>1, <2>3, <3>2
    <2> QED BY <1>1, <2>1, <2>3
  <1>5. ASSUME NEW d \in Devices, Restart(d)
        PROVE  \A e \in Devices : Len(hub'[e]) <= Cap(e)
    <2>1. hub' = [hub EXCEPT ![d] = <<>>]
      BY <1>5, RestartIs
    <2>2. Len(<<>>) <= Cap(d)
      BY <1>1, EmptyHub
    <2> QED BY <1>2, <2>1, <2>2
  <1>6. ASSUME TimePasses PROVE \A e \in Devices : Len(hub'[e]) <= Cap(e)
    <2>1. hub'["android"] = hub["android"] /\ Len(hub'["mac"]) = Len(hub["mac"])
      BY <1>6, TimePassesIs
    <2>2. \A e \in Devices : Len(hub'[e]) = Len(hub[e])
      BY <2>1 DEF Devices
    <2> QED BY <1>1, <2>2
  <1>7. \A e \in Devices : Len(hub'[e]) <= Cap(e)
    BY <1>1, <1>3, <1>4, <1>5, <1>6, NextHubs
  <1> QED BY <1>7, OtherIs DEF HubBounded

\* The sessions stay sessions of their transfers, and incomplete.
LEMMA NextHubsOK ==
    ASSUME ChunkTypes, TransfersOK, FramesOK, HubsOK, [ChunkNext]_chunkVars
    PROVE  HubsOK'
  <1> DEFINE Good(s, d) == /\ s.id \in Transfers /\ Begun(s.id) /\ To(s.id) = d
                           /\ ~Complete(s) /\ \A p \in s.parts : p.of = s.id
  <1>1. \A d \in Devices : hub[d] \in Hubs /\ \A s : In(s, hub[d]) => Good(s, d)
    <2> TAKE d \in Devices
    <2>1. hub[d] \in Hubs
      BY DEF ChunkTypes
    <2>2. \A s : In(s, hub[d]) => s.id \in Transfers
      <3>1. hub[d] \in Seq(Sessions)
        BY <2>1 DEF Hubs
      <3>2. \A s : In(s, hub[d]) => s \in Sessions
        BY <3>1 DEF In
      <3> QED BY <3>2 DEF Sessions
    <2> QED BY <2>1, <2>2 DEF HubsOK
  <1>2. ASSUME NEW d \in Devices, NEW s, In(s, hub'[d]) PROVE Good(s, d)
    <2>1. ASSUME NEW e \in Devices, ReceiveManifest(e) PROVE Good(s, d)
      <3> DEFINE f == Head(wire[e])
                 h == IF e = "mac" THEN BeginOnMac(hub[e], f) ELSE BeginOnPhone(hub[e], f)
                 n == Session(f)
      <3>1. /\ f.id \in Transfers /\ Begun(f.id) /\ To(f.id) = e
            /\ n \in Sessions /\ n.id = f.id /\ n.total = Chunks(f.id) /\ n.parts = {}
            /\ hub' = [hub EXCEPT ![e] = h] \/ hub' = hub
        BY <2>1, ReceiveManifestIs
      <3>2. \A x : In(x, h) => In(x, hub[e]) \/ x = n
        BY <1>1, <3>1, BeginOK
      <3>3. Good(n, e)
        <4>1. Chunks(f.id) \in Int /\ Chunks(f.id) >= 2
          BY <3>1, SendIs
        <4>2. ~Complete(n)
          BY <3>1, <4>1, NewIncomplete
        <4> QED BY <3>1, <4>2
      <3> HIDE DEF h, n, f, Good
      <3>4. In(s, hub[d]) \/ (d = e /\ In(s, h))
        BY <1>2, <3>1 DEF ChunkTypes
      <3> QED BY <1>1, <3>2, <3>3, <3>4
    <2>2. ASSUME NEW e \in Devices, ReceiveChunk(e) PROVE Good(s, d)
      <3> DEFINE f == Head(wire[e])
                 old == hub[e][Place(hub[e], f.id)]
                 x == Extend(old, f)
      <3>1. /\ f \in Frames /\ f.id \in Transfers /\ Begun(f.id) /\ To(f.id) = e
            /\ \A p \in f.data : p.of = f.id
            /\ hub[e] \in Hubs
            /\ f.id \in Ids(hub[e]) => hub' = [hub EXCEPT ![e] = Add(e, hub[e], f)]
            /\ f.id \notin Ids(hub[e]) => hub' = hub
        BY <2>2, ReceiveChunkIs
      <3>2. f.data \in SUBSET Slices
        BY <3>1 DEF Frames
      <3>3. CASE f.id \in Ids(hub[e])
        <4> DEFINE h == Add(e, hub[e], f)
        <4>1. /\ In(old, hub[e]) /\ old.id = f.id
              /\ x.id = f.id /\ x.parts = old.parts \cup f.data
              /\ \A y : In(y, h) => In(y, hub[e]) \/ (y = x /\ ~Complete(x))
          BY <3>1, <3>2, <3>3, AddOK
        <4>2. \A p \in x.parts : p.of = x.id
          BY <1>1, <3>1, <4>1
        <4>3. ~Complete(x) => Good(x, e)
          BY <3>1, <4>1, <4>2
        <4>4. hub' = [hub EXCEPT ![e] = h]
          BY <3>1, <3>3
        <4> HIDE DEF h, x, old, f, Good
        <4>5. In(s, hub[d]) \/ (d = e /\ In(s, h))
          BY <1>2, <4>4 DEF ChunkTypes
        <4> QED BY <1>1, <4>1, <4>3, <4>5
      <3> QED BY <1>1, <1>2, <3>1, <3>3
    <2>3. ASSUME NEW e \in Devices, Restart(e) PROVE Good(s, d)
      <3>1. hub' = [hub EXCEPT ![e] = <<>>]
        BY <2>3, RestartIs
      <3>2. hub'[d] = hub[d] \/ hub'[d] = <<>>
        BY <3>1 DEF ChunkTypes
      <3> QED BY <1>1, <1>2, <3>2, InEmpty
    <2>4. ASSUME TimePasses PROVE Good(s, d)
      <3>1. CASE d = "mac"
        <4>1. PICK i \in 1 .. Len(hub'["mac"]) : hub'["mac"][i] = s
          BY <1>2, <3>1 DEF In
        <4>2. /\ i \in 1 .. Len(hub["mac"])
              /\ s.id = hub["mac"][i].id /\ s.total = hub["mac"][i].total
              /\ s.parts = hub["mac"][i].parts
          BY <2>4, <4>1, TimePassesIs
        <4>3. In(hub["mac"][i], hub["mac"])
          BY <4>2 DEF In
        <4>4. Good(hub["mac"][i], d)
          BY <1>1, <3>1, <4>3
        <4> QED BY <4>2, <4>4 DEF Complete
      <3>2. CASE d = "android"
        BY <1>1, <1>2, <2>4, <3>2, TimePassesIs
      <3> QED BY <3>1, <3>2 DEF Devices
    <2>5. hub' = hub => Good(s, d)
      BY <1>1, <1>2
    <2> QED BY <2>1, <2>2, <2>3, <2>4, <2>5, NextHubs
  <1>3. ASSUME NEW d \in Devices, NEW s, In(s, hub'[d])
        PROVE  /\ Begun(s.id)' /\ To(s.id)' = d /\ ~Complete(s)
               /\ \A p \in s.parts : p.of = s.id
    BY <1>2, <1>3, NextNames
  <1> QED BY <1>3 DEF HubsOK, In, Complete

-----------------------------------------------------------------------------
(* Progress *)

\* A transfer with nothing of it moved is where it was.
LEMMA StageKept ==
    ASSUME ChunkTypes, TransfersOK, [ChunkNext]_chunkVars,
           NEW c \in Transfers, Begun(c), NEW k, AtFrame(c, k),
           send'[c].next = send[c].next,
           \A n \in 0 .. Chunks(c) :
             In(FrameOf(c, n), wire'[To(c)]) <=> In(FrameOf(c, n), wire[To(c)]),
           \A s : In(s, hub[To(c)]) /\ s.id = c =>
             \E t : /\ In(t, hub'[To(c)]) /\ t.id = s.id /\ t.raw = s.raw
                    /\ t.total = s.total /\ t.parts = s.parts,
           c \in Ids(hub'[To(c)]) => c \in Ids(hub[To(c)]),
           c \in got => c \in got'
    PROVE  AtFrame(c, k)'
  <1>1. /\ To(c)' = To(c) /\ Chunks(c)' = Chunks(c)
        /\ \A n : FrameOf(c, n)' = FrameOf(c, n)
        /\ \A s : Holds(s, c, k)' <=> Holds(s, c, k)
    BY NextNames
  <1>2. \A n \in 0 .. Chunks(c)' :
          In(FrameOf(c, n)', wire'[To(c)']) <=> k <= n /\ n < send'[c].next
    BY <1>1 DEF AtFrame
  <1>3. k = 0 => c \notin Ids(hub'[To(c)'])
    BY <1>1 DEF AtFrame, Received
  <1>4. ASSUME k \in 1 .. Chunks(c) PROVE \E s : In(s, hub'[To(c)]) /\ Holds(s, c, k)
    <2>1. PICK s : In(s, hub[To(c)]) /\ Holds(s, c, k)
      BY <1>4 DEF AtFrame, Received
    <2>2. PICK t : /\ In(t, hub'[To(c)]) /\ t.id = s.id /\ t.raw = s.raw
                   /\ t.total = s.total /\ t.parts = s.parts
      BY <2>1 DEF Holds
    <2>3. Holds(t, c, k)
      BY <2>1, <2>2 DEF Holds
    <2> QED BY <2>2, <2>3
  <1>5. k = Chunks(c) + 1 => c \in got' /\ c \notin Ids(hub'[To(c)])
    BY DEF AtFrame, Received
  <1>6. k \in 1 .. Chunks(c)' => \E s : In(s, hub'[To(c)']) /\ Holds(s, c, k)'
    BY <1>1, <1>4
  <1>7. k = Chunks(c)' + 1 => c \in got' /\ c \notin Ids(hub'[To(c)'])
    BY <1>1, <1>5
  <1>8. Received(c, k)'
    BY <1>3, <1>6, <1>7 DEF Received, In, Ids
  <1> QED BY <1>2, <1>8 DEF AtFrame, In

\* The frame of a live transfer at the head of its queue is the next one, and
\* those behind it are the rest.
LEMMA HeadIsNext ==
    ASSUME ChunkTypes, TransfersOK, FramesOK, OrderOK, NEW c \in Transfers, Begun(c),
           NEW k \in 0 .. send[c].next, AtFrame(c, k),
           wire[To(c)] # <<>>, NEW n \in 0 .. Chunks(c), Head(wire[To(c)]) = FrameOf(c, n)
    PROVE  /\ n = k /\ k < send[c].next
           /\ \A m \in 0 .. Chunks(c) :
                In(FrameOf(c, m), Tail(wire[To(c)])) <=> k + 1 <= m /\ m < send[c].next
  <1> DEFINE w == wire[To(c)]
  <1>1. /\ To(c) \in Devices /\ w \in Seq(Frames) /\ Chunks(c) \in Int
        /\ send[c].next \in 0 .. (Chunks(c) + 1)
    BY SendIs DEF ChunkTypes
  <1>2. \A m \in 0 .. Chunks(c) : In(FrameOf(c, m), w) <=> k <= m /\ m < send[c].next
    BY DEF AtFrame
  <1>3. /\ \A x : In(x, w) <=> x = Head(w) \/ In(x, Tail(w))
        /\ Tail(w) \in Seq(Frames)
    BY <1>1, InTail
  <1>4. /\ w[1] = Head(w) /\ 1 \in 1 .. Len(w)
        /\ \A i \in 1 .. Len(Tail(w)) : Tail(w)[i] = w[i + 1] /\ i + 1 \in 1 .. Len(w) /\ 1 < i + 1
    BY <1>1
  <1>5. \A m \in 0 .. Chunks(c) : In(FrameOf(c, m), Tail(w)) => n < m
    <2> SUFFICES ASSUME NEW m \in 0 .. Chunks(c), In(FrameOf(c, m), Tail(w)) PROVE n < m
      OBVIOUS
    <2>1. PICK i \in 1 .. Len(Tail(w)) : Tail(w)[i] = FrameOf(c, m)
      BY DEF In
    <2>2. /\ w[1] = FrameOf(c, n) /\ w[i + 1] = FrameOf(c, m) /\ 1 < i + 1
          /\ 1 \in 1 .. Len(w) /\ i + 1 \in 1 .. Len(w)
      BY <1>4, <2>1
    <2> QED BY <2>2 DEF OrderOK
  <1> HIDE DEF w
  <1>6. k <= n /\ n < send[c].next
    BY <1>2, <1>3 DEF w
  <1>7. k \in 0 .. Chunks(c) /\ k < send[c].next
    BY <1>1, <1>6
  <1>8. n = k
    <2> SUFFICES ASSUME n # k PROVE FALSE
      OBVIOUS
    <2>1. In(FrameOf(c, k), w)
      BY <1>1, <1>2, <1>7
    <2>2. FrameOf(c, k) # Head(w)
      BY <1>7, FrameOfIs DEF w
    <2>3. n < k
      BY <1>3, <1>5, <1>7, <2>1, <2>2
    <2> QED BY <1>1, <1>6, <2>3
  <1>9. ASSUME NEW m \in 0 .. Chunks(c)
        PROVE  In(FrameOf(c, m), Tail(w)) <=> k + 1 <= m /\ m < send[c].next
    <2>1. FrameOf(c, m) = Head(w) <=> m = k
      BY <1>7, <1>8, FrameOfIs DEF w
    <2>2. In(FrameOf(c, m), Tail(w)) => k < m
      BY <1>5, <1>8
    <2>3. In(FrameOf(c, m), w) <=> k <= m /\ m < send[c].next
      BY <1>2
    <2> QED BY <1>1, <1>3, <1>7, <2>1, <2>2, <2>3
  <1> QED BY <1>7, <1>8, <1>9 DEF w

\* A hub gains and loses nothing of a transfer.
LEMMA StageSame ==
    ASSUME ChunkTypes, TransfersOK, [ChunkNext]_chunkVars,
           NEW c \in Transfers, Begun(c), NEW k, AtFrame(c, k),
           send'[c].next = send[c].next,
           \A f : f.id = c => (In(f, wire'[To(c)]) <=> In(f, wire[To(c)])),
           \A s : s.id = c => (In(s, hub'[To(c)]) <=> In(s, hub[To(c)])),
           c \in got => c \in got'
    PROVE  AtFrame(c, k)'
  <1>1. \A n \in 0 .. Chunks(c) :
          In(FrameOf(c, n), wire'[To(c)]) <=> In(FrameOf(c, n), wire[To(c)])
    BY FrameOfIs
  <1>2. \A s : In(s, hub[To(c)]) /\ s.id = c =>
          \E t : /\ In(t, hub'[To(c)]) /\ t.id = s.id /\ t.raw = s.raw
                 /\ t.total = s.total /\ t.parts = s.parts
    OBVIOUS
  <1>3. c \in Ids(hub'[To(c)]) => c \in Ids(hub[To(c)])
    BY IdsIn
  <1> QED BY <1>1, <1>2, <1>3, StageKept

LEMMA StartProgress ==
    ASSUME LaneInv, [ChunkNext]_chunkVars, NEW e \in Transfers, NEW d \in Devices,
           NEW raw \in Sizes, StartSend(e, d, raw), NEW c \in Transfers, Live(c)'
    PROVE  \E k \in 0 .. send'[c].next : AtFrame(c, k)'
  <1> USE DEF LaneInv
  <1>1. /\ ~Begun(e) /\ Chunkable(raw) /\ raw \in Nat
        /\ \A x \in Transfers : x # e => send'[x] = send[x]
        /\ send'[e].next = 0 /\ send'[e].raw = raw /\ send'[e].from = d
        /\ UNCHANGED <<wire, hub, got, why>>
    BY StartSendIs
  <1>2. CASE c # e
    <2>1. Live(c) /\ Begun(c)
      BY <1>1, <1>2 DEF Live, Begun
    <2>2. PICK k \in 0 .. send[c].next : AtFrame(c, k)
      BY <2>1 DEF ProgressOK
    <2>3. AtFrame(c, k)'
      BY <1>1, <1>2, <2>1, <2>2, StageSame
    <2> QED BY <1>1, <1>2, <2>3
  <1>3. CASE c = e
    <2>1. To(c)' \in Devices
      BY <1>1, <1>3, OtherIs DEF To
    <2>2. c \notin Ids(hub'[To(c)'])
      BY <1>1, <1>3, <2>1, IdsIn DEF HubsOK
    <2>3. ASSUME NEW n \in 0 .. Chunks(c)' PROVE ~In(FrameOf(c, n)', wire'[To(c)'])
      <3>1. n \in 0 .. TotalClipChunksForSize(raw)
        BY <1>1, <1>3 DEF Chunks
      <3>2. NthFrame(c, raw, n).id = c
        BY <1>1, <3>1, FrameIs
      <3>3. FrameOf(c, n)'.id = c
        BY <1>1, <1>3, <3>2 DEF FrameOf
      <3> QED BY <1>1, <1>3, <2>1, <3>3 DEF FramesOK
    <2>4. Chunks(c)' \in Int /\ Chunks(c)' >= 2
      <3>1. TotalClipChunksForSize(raw) \in 2 .. MaxClipChunks
        BY <1>1, TotalOK
      <3> QED BY <1>1, <1>3, <3>1, CapsAssumption DEF Chunks
    <2>5. Received(c, 0)'
      BY <2>2, <2>4 DEF Received
    <2>6. AtFrame(c, 0)'
      <3>1. \A n \in 0 .. Chunks(c)' :
              In(FrameOf(c, n)', wire'[To(c)']) <=> 0 <= n /\ n < send'[c].next
        BY <1>1, <1>3, <2>3, <2>4
      <3> QED BY <2>5, <3>1 DEF AtFrame, In
    <2>7. 0 \in 0 .. send'[c].next
      BY <1>1, <1>3
    <2> QED BY <2>6, <2>7
  <1> QED BY <1>2, <1>3

LEMMA SendProgress ==
    ASSUME LaneInv, [ChunkNext]_chunkVars, NEW e \in Transfers, SendFrame(e),
           NEW c \in Transfers, Live(c)'
    PROVE  \E k \in 0 .. send'[c].next : AtFrame(c, k)'
  <1> USE DEF LaneInv
  <1>1. /\ send[e].pc = "sending" /\ Begun(e) /\ send[e].next \in 0 .. Chunks(e)
        /\ \A x \in Transfers : x # e => send'[x] = send[x]
        /\ online => /\ send'[e].next = send[e].next + 1
                     /\ wire' = [wire EXCEPT ![To(e)] = Append(@, FrameOf(e, send[e].next))]
        /\ ~online => send'[e].pc = "failed" /\ wire' = wire
        /\ UNCHANGED <<hub, got, why>>
    BY SendFrameIs
  <1>2. Live(c) /\ Begun(c)
    BY <1>1 DEF Live, Begun
  <1>3. PICK k \in 0 .. send[c].next : AtFrame(c, k)
    BY <1>2 DEF ProgressOK
  <1>4. To(c) \in Devices /\ wire[To(c)] \in Seq(Frames)
    BY SendIs DEF ChunkTypes
  <1> DEFINE g == FrameOf(e, send[e].next)
  <1>5. g \in Frames /\ g.id = e
    BY <1>1, FrameOfIs
  <1>6. wire'[To(c)] = wire[To(c)] \/ (online /\ To(c) = To(e)
                                       /\ wire'[To(c)] = Append(wire[To(c)], g))
    BY <1>1, <1>4 DEF ChunkTypes
  <1>7. \A f : In(f, wire'[To(c)]) <=> In(f, wire[To(c)])
                                       \/ (online /\ To(c) = To(e) /\ f = g)
    <2> HIDE DEF g
    <2>1. CASE wire'[To(c)] = Append(wire[To(c)], g) /\ online /\ To(c) = To(e)
      BY <1>4, <1>5, <2>1, InAppend
    <2>2. CASE ~(online /\ To(c) = To(e))
      BY <1>6, <2>2
    <2>3. CASE online /\ To(c) = To(e)
      <3>1. wire'[To(c)] = Append(wire[To(c)], g)
        BY <1>1, <1>4, <2>3 DEF ChunkTypes, g
      <3> QED BY <2>1, <2>3, <3>1
    <2> QED BY <2>2, <2>3
  <1>8. CASE c # e
    <2>1. \A f : f.id = c => (In(f, wire'[To(c)]) <=> In(f, wire[To(c)]))
      BY <1>5, <1>7, <1>8
    <2>2. AtFrame(c, k)'
      BY <1>1, <1>2, <1>3, <1>8, <2>1, StageSame
    <2> QED BY <1>1, <1>8, <2>2
  <1>9. CASE c = e
    <2>1. online
      BY <1>1, <1>9 DEF Live
    <2>2. Chunks(c) \in Int /\ send[c].next \in Nat
      BY SendIs
    <2>3. /\ To(c)' = To(c) /\ Chunks(c)' = Chunks(c)
          /\ \A n : FrameOf(c, n)' = FrameOf(c, n)
          /\ \A s : Holds(s, c, k)' <=> Holds(s, c, k)
      BY <1>2, NextNames
    <2>4. ASSUME NEW n \in 0 .. Chunks(c)
          PROVE  In(FrameOf(c, n), wire'[To(c)]) <=> k <= n /\ n < send'[c].next
      <3>1. In(FrameOf(c, n), wire[To(c)]) <=> k <= n /\ n < send[c].next
        BY <1>3 DEF AtFrame
      <3>2. FrameOf(c, n) = FrameOf(c, send[c].next) <=> n = send[c].next
        BY <1>1, <1>2, <1>9, FrameOfIs
      <3>3. In(FrameOf(c, n), wire'[To(c)])
              <=> In(FrameOf(c, n), wire[To(c)]) \/ FrameOf(c, n) = FrameOf(c, send[c].next)
        BY <1>7, <1>9, <2>1
      <3>4. send'[c].next = send[c].next + 1
        BY <1>1, <1>9, <2>1
      <3> HIDE DEF g
      <3> QED BY <1>3, <2>2, <3>1, <3>2, <3>3, <3>4
    <2>5. Received(c, k)'
      <3>1. Received(c, k)
        BY <1>3 DEF AtFrame
      <3> QED BY <1>1, <2>3, <3>1 DEF Received, In, Ids
    <2>6. AtFrame(c, k)'
      BY <2>3, <2>4, <2>5 DEF AtFrame, In
    <2>7. k \in 0 .. send'[c].next
      BY <1>1, <1>3, <1>9, <2>1, <2>2
    <2> QED BY <2>6, <2>7
  <1> QED BY <1>8, <1>9

\* The ids on the socket.
LEMMA WireIdsIn == \A d \in Devices : \A f : In(f, wire[d]) => f.id \in WireIds
  BY DEF WireIds, In

LEMMA ManifestProgress ==
    ASSUME LaneInv, [ChunkNext]_chunkVars, NEW d \in Devices, ReceiveManifest(d),
           NEW c \in Transfers, Live(c)'
    PROVE  \E k \in 0 .. send'[c].next : AtFrame(c, k)'
  <1> USE DEF LaneInv
  <1> DEFINE f == Head(wire[d])
             e == f.id
             h == IF d = "mac" THEN BeginOnMac(hub[d], f) ELSE BeginOnPhone(hub[d], f)
             new == Session(f)
  <1>1. /\ wire[d] \in Seq(Frames) /\ wire[d] # <<>>
        /\ wire' = [wire EXCEPT ![d] = Tail(@)] /\ send' = send /\ got' = got
        /\ e \in Transfers /\ Begun(e) /\ To(e) = d /\ f = FrameOf(e, 0)
        /\ new \in Sessions /\ new.id = e /\ new.raw = send[e].raw
        /\ new.total = Chunks(e) /\ new.parts = {}
        /\ hub[d] \in Hubs
        /\ ModeAllowsReceive(d) =>
             hub' = [hub EXCEPT ![d] = h] /\ Note(Ids(hub[d]) \ Ids(h), "swept")
        /\ ~ModeAllowsReceive(d) => hub' = hub /\ Note({e}, "mode")
    BY ReceiveManifestIs
  <1>2. /\ \A x : In(x, h) => In(x, hub[d]) \/ x = new
        /\ e \notin Ids(hub[d]) => In(new, h)
    BY <1>1, BeginOK
  <1>3. h \in Hubs
    BY <1>1, BeginOK
  <1>4. \A x : In(x, wire[d]) <=> x = f \/ In(x, Tail(wire[d]))
    BY <1>1, InTail
  <1> HIDE DEF f, h, new
  <1>5. /\ why[c] = {}
        /\ ModeAllowsReceive(d) => ~(c \in Ids(hub[d]) /\ c \notin Ids(h))
        /\ ~ModeAllowsReceive(d) => c # e
    <2>1. why'[c] = {}
      BY DEF Live
    <2>2. \A cs, cause : Note(cs, cause) /\ cause \in {"swept", "mode"} =>
            why[c] = {} /\ c \notin cs
      BY <2>1, NoteIs DEF ChunkTypes
    <2>3. CASE ModeAllowsReceive(d)
      BY <1>1, <2>2, <2>3
    <2>4. CASE ~ModeAllowsReceive(d)
      BY <1>1, <2>2, <2>4
    <2> QED BY <2>3, <2>4
  <1>6. Live(c) /\ Begun(c)
    BY <1>1, <1>5 DEF Live, Begun
  <1>7. PICK k \in 0 .. send[c].next : AtFrame(c, k)
    BY <1>6 DEF ProgressOK
  <1>8. CASE c # e
    <2>1. \A x : x.id = c => (In(x, wire'[To(c)]) <=> In(x, wire[To(c)]))
      <3>1. CASE To(c) = d
        <4>1. wire'[d] = Tail(wire[d])
          BY <1>1 DEF ChunkTypes
        <4> QED BY <1>4, <1>8, <3>1, <4>1
      <3>2. CASE To(c) # d
        <4>1. wire'[To(c)] = wire[To(c)]
          BY <1>1, <3>2, SendIs DEF ChunkTypes
        <4> QED BY <4>1
      <3> QED BY <3>1, <3>2
    <2>2. \A s : s.id = c => (In(s, hub'[To(c)]) <=> In(s, hub[To(c)]))
      <3>1. CASE To(c) = d /\ ModeAllowsReceive(d)
        <4>1. hub'[d] = h
          BY <1>1, <3>1 DEF ChunkTypes
        <4>2. ASSUME NEW s, s.id = c, In(s, h) PROVE In(s, hub[d])
          BY <1>1, <1>2, <1>8, <4>2
        <4>3. ASSUME NEW s, s.id = c, In(s, hub[d]) PROVE In(s, h)
          <5>1. c \in Ids(h)
            BY <1>5, <3>1, <4>3, IdsIn
          <5>2. PICK t : In(t, h) /\ t.id = c
            BY <5>1, IdsIn
          <5>3. In(t, hub[d])
            BY <4>2, <5>2
          <5>4. s = t
            BY <1>1, <4>3, <5>2, <5>3, OneSession DEF Hubs
          <5> QED BY <5>2, <5>4
        <4> QED BY <3>1, <4>1, <4>2, <4>3
      <3>2. CASE ~(To(c) = d /\ ModeAllowsReceive(d))
        <4>1. hub'[To(c)] = hub[To(c)]
          BY <1>1, <3>2, SendIs DEF ChunkTypes
        <4> QED BY <4>1
      <3> QED BY <3>1, <3>2
    <2>3. AtFrame(c, k)'
      BY <1>1, <1>6, <1>7, <2>1, <2>2, StageSame
    <2> QED BY <1>1, <2>3
  <1>9. CASE c = e
    <2>1. /\ To(c) = d /\ hub' = [hub EXCEPT ![d] = h]
      BY <1>1, <1>5, <1>9
    <2>2. Chunks(c) \in Int /\ Chunks(c) >= 2 /\ send[c].next \in Nat /\ 0 \in 0 .. Chunks(c)
      BY <1>6, SendIs
    <2>3. /\ 0 = k /\ k < send[c].next
          /\ \A m \in 0 .. Chunks(c) :
               In(FrameOf(c, m), Tail(wire[d])) <=> k + 1 <= m /\ m < send[c].next
      BY <1>1, <1>6, <1>7, <1>9, <2>1, <2>2, HeadIsNext DEF f
    <2>4. c \notin Ids(hub[d])
      BY <1>7, <2>1, <2>3 DEF AtFrame, Received
    <2>5. In(new, h)
      BY <1>2, <1>9, <2>4
    <2>6. Holds(new, c, 1)
      <3>1. {Slice(c, send[c].raw, x) : x \in 0 .. (1 - 2)} = {}
        OBVIOUS
      <3> QED BY <1>1, <1>9, <3>1, FS_EmptySet DEF Holds
    <2>7. PICK s : In(s, h) /\ Holds(s, c, 1)
      BY <2>5, <2>6
    <2>8. /\ To(c)' = To(c) /\ Chunks(c)' = Chunks(c)
          /\ \A n : FrameOf(c, n)' = FrameOf(c, n)
          /\ Holds(s, c, 1)'
      BY <1>6, <2>7, NextNames
    <2>9. wire'[To(c)'] = Tail(wire[d]) /\ hub'[To(c)'] = h /\ send' = send
      BY <1>1, <2>1, <2>8 DEF ChunkTypes
    <2>10. Received(c, 1)'
      BY <2>2, <2>7, <2>8, <2>9 DEF Received, In
    <2>11. \A n \in 0 .. Chunks(c)' :
             In(FrameOf(c, n)', wire'[To(c)']) <=> 1 <= n /\ n < send'[c].next
      BY <2>3, <2>8, <2>9
    <2>12. AtFrame(c, 1)'
      BY <2>10, <2>11 DEF AtFrame, In
    <2>13. 1 \in 0 .. send'[c].next
      BY <2>2, <2>3, <2>9
    <2> QED BY <2>12, <2>13
  <1> QED BY <1>8, <1>9

\* The slices of the first k chunks and the next are those of the first k + 1.
LEMMA OneMoreSlice ==
    ASSUME NEW c, NEW raw, NEW k \in Nat \ {0}
    PROVE  {Slice(c, raw, x) : x \in 0 .. (k - 2)} \cup {Slice(c, raw, k - 1)}
             = {Slice(c, raw, x) : x \in 0 .. (k + 1 - 2)}
  <1>1. \A x : x \in 0 .. (k + 1 - 2) <=> x \in 0 .. (k - 2) \/ x = k - 1
    OBVIOUS
  <1> QED BY <1>1

\* A session that has seen k frames has seen k + 1 after the next chunk, and the
\* last one completes it with an image that verifies.
LEMMA OneMoreChunk ==
    ASSUME ChunkTypes, TransfersOK, NEW c \in Transfers, Begun(c),
           NEW k \in 1 .. Chunks(c), NEW old, Holds(old, c, k),
           NEW f, f.raw = send[c].raw, f.total = Chunks(c),
           f.data = {Slice(c, send[c].raw, k - 1)},
           NEW s, s.id = old.id, s.raw = old.raw, s.total = old.total,
           s.parts = old.parts \cup f.data
    PROVE  /\ Suits(old, f) /\ ~Has(old, f) /\ Holds(s, c, k + 1)
           /\ Complete(s) <=> k = Chunks(c)
           /\ k = Chunks(c) => Verified(s)
  <1> DEFINE raw == send[c].raw
             part == Slice(c, raw, k - 1)
  <1>1. /\ raw \in Nat /\ Chunkable(raw) /\ Chunks(c) \in Int
        /\ Chunks(c) = TotalClipChunksForSize(raw)
    BY SendIs DEF Chunks
  <1>2. Suits(old, f)
    BY DEF Suits, Holds
  <1>3. \A x \in 0 .. (k - 1) : Slice(c, raw, x).index = x
    <2> TAKE x \in 0 .. (k - 1)
    <2>1. x \in 0 .. (TotalClipChunksForSize(raw) - 1)
      BY <1>1
    <2> QED BY <1>1, <2>1, SliceOK
  <1>4. part.index = k - 1
    BY <1>1, <1>3
  <1>5. \A p \in old.parts : p.index # part.index
    <2> TAKE p \in old.parts
    <2>1. PICK x \in 0 .. (k - 2) : p = Slice(c, raw, x)
      BY DEF Holds
    <2>2. x \in 0 .. (k - 1) /\ x # k - 1
      BY <1>1
    <2> QED BY <1>3, <1>4, <2>1, <2>2
  <1>6. ~Has(old, f)
    BY <1>5 DEF Has
  <1>7. part \notin old.parts
    BY <1>5
  <1>8. /\ s.parts = {Slice(c, raw, x) : x \in 0 .. (k + 1 - 2)}
        /\ IsFiniteSet(s.parts) /\ Cardinality(s.parts) = k
    <2>1. /\ old.parts = {Slice(c, raw, x) : x \in 0 .. (k - 2)}
          /\ IsFiniteSet(old.parts) /\ Cardinality(old.parts) = k - 1
          /\ s.parts = old.parts \cup {part}
      BY DEF Holds
    <2>2. IsFiniteSet(s.parts) /\ Cardinality(s.parts) = Cardinality(old.parts) + 1
      <3> HIDE DEF part
      <3>1. /\ IsFiniteSet(old.parts \cup {part})
            /\ Cardinality(old.parts \cup {part}) =
                 IF part \in old.parts THEN Cardinality(old.parts) ELSE Cardinality(old.parts) + 1
        BY <2>1, FS_AddElement
      <3> QED BY <1>7, <2>1, <3>1
    <2>3. Cardinality(s.parts) = k
      BY <1>1, <2>1, <2>2
    <2>4. k \in Nat \ {0}
      BY <1>1
    <2> QED BY <2>1, <2>2, <2>3, <2>4, OneMoreSlice
  <1>9. s.id = c /\ s.raw = raw /\ s.total = Chunks(c)
    BY DEF Holds
  <1>10. Holds(s, c, k + 1)
    <2>1. k + 1 - 1 = k
      BY <1>1
    <2> QED BY <1>8, <1>9, <2>1 DEF Holds
  <1>11. Complete(s) <=> k = Chunks(c)
    BY <1>8, <1>9 DEF Complete
  <1>12. ASSUME k = Chunks(c) PROVE Verified(s)
    <2>1. k + 1 - 2 = TotalClipChunksForSize(raw) - 1
      BY <1>1, <1>12
    <2>2. s.parts = splitClipBytes(c, raw)
      BY <1>8, <2>1 DEF splitClipBytes
    <2> QED BY <1>1, <1>9, <2>2, WholeVerifies
  <1> QED BY <1>2, <1>6, <1>10, <1>11, <1>12

LEMMA ChunkProgress ==
    ASSUME LaneInv, [ChunkNext]_chunkVars, NEW d \in Devices, ReceiveChunk(d),
           NEW c \in Transfers, Live(c)'
    PROVE  \E k \in 0 .. send'[c].next : AtFrame(c, k)'
  <1> USE DEF LaneInv
  <1>0. PICK f : f = Head(wire[d])
    OBVIOUS
  <1> DEFINE e == f.id
             h == Add(d, hub[d], f)
             part(n) == Slice(e, send[e].raw, n - 1)
  <1>1. /\ wire[d] \in Seq(Frames) /\ wire[d] # <<>>
        /\ wire' = [wire EXCEPT ![d] = Tail(@)] /\ send' = send
        /\ f \in Frames /\ e \in Transfers /\ Begun(e) /\ To(e) = d
        /\ f.raw = send[e].raw /\ f.total = Chunks(e)
        /\ \E n \in 1 .. Chunks(e) : f = FrameOf(e, n) /\ f.data = {part(n)}
        /\ hub[d] \in Hubs
        /\ e \in Ids(hub[d]) => hub' = [hub EXCEPT ![d] = h]
        /\ e \notin Ids(hub[d]) => hub' = hub
        /\ got \subseteq got'
        /\ e \in Ids(hub[d]) /\ Completes(hub[d], f) => e \in got'
        /\ \A x \in Transfers : why'[x] = {} => why[x] = {}
    BY <1>0, ReceiveChunkIs
  <1>2. \A x : In(x, wire[d]) <=> x = f \/ In(x, Tail(wire[d]))
    BY <1>0, <1>1, InTail
  <1>3. f.data \in SUBSET Slices
    BY <1>1 DEF Frames
  <1> HIDE DEF h
  <1>4. Live(c) /\ Begun(c)
    BY <1>1 DEF Live, Begun
  <1>5. PICK k \in 0 .. send[c].next : AtFrame(c, k)
    BY <1>4 DEF ProgressOK
  <1>6. CASE c # e
    <2>1. \A x : x.id = c => (In(x, wire'[To(c)]) <=> In(x, wire[To(c)]))
      <3>1. CASE To(c) = d
        <4>1. wire'[d] = Tail(wire[d])
          BY <1>1 DEF ChunkTypes
        <4> QED BY <1>2, <1>6, <3>1, <4>1
      <3>2. CASE To(c) # d
        <4>1. wire'[To(c)] = wire[To(c)]
          BY <1>1, <3>2, SendIs DEF ChunkTypes
        <4> QED BY <4>1
      <3> QED BY <3>1, <3>2
    <2>2. \A s : s.id = c => (In(s, hub'[To(c)]) <=> In(s, hub[To(c)]))
      <3>1. CASE To(c) = d /\ e \in Ids(hub[d])
        <4>1. hub'[d] = h
          BY <1>1, <3>1 DEF ChunkTypes
        <4> DEFINE s == Extend(hub[d][Place(hub[d], e)], f)
        <4>2. /\ s.id = e
              /\ \A x : In(x, h) => In(x, hub[d]) \/ (x = s /\ ~Complete(s))
              /\ \A x : In(x, hub[d]) /\ x.id # e => In(x, h)
          BY <1>1, <1>3, <3>1, AddOK DEF h
        <4> HIDE DEF s
        <4> QED BY <1>6, <3>1, <4>1, <4>2
      <3>2. CASE ~(To(c) = d /\ e \in Ids(hub[d]))
        <4>1. hub'[To(c)] = hub[To(c)]
          BY <1>1, <3>2, SendIs DEF ChunkTypes
        <4> QED BY <4>1
      <3> QED BY <3>1, <3>2
    <2>3. AtFrame(c, k)'
      BY <1>1, <1>4, <1>5, <2>1, <2>2, StageSame
    <2> QED BY <1>1, <2>3
  <1>7. CASE c = e
    <2>1. /\ To(c) = d /\ Chunks(c) \in Int /\ Chunks(c) >= 2
          /\ send[c].next \in 0 .. (Chunks(c) + 1)
      BY <1>1, <1>4, <1>7, SendIs
    <2>2. PICK n \in 1 .. Chunks(c) : f = FrameOf(c, n) /\ f.data = {part(n)}
      BY <1>1, <1>7
    <2>3. /\ n = k /\ k < send[c].next
          /\ \A m \in 0 .. Chunks(c) :
               In(FrameOf(c, m), Tail(wire[d])) <=> k + 1 <= m /\ m < send[c].next
      <3>1. n \in 0 .. Chunks(c) /\ wire[To(c)] # <<>> /\ Head(wire[To(c)]) = FrameOf(c, n)
        BY <1>0, <1>1, <2>1, <2>2
      <3> QED BY <1>4, <1>5, <2>1, <3>1, HeadIsNext
    <2>4. k \in 1 .. Chunks(c)
      BY <2>2, <2>3
    <2>5. PICK old : In(old, hub[d]) /\ Holds(old, c, k)
      BY <1>5, <2>1, <2>4 DEF AtFrame, Received
    <2>6. c \in Ids(hub[d])
      BY <2>5, IdsIn DEF Holds
    <2>7. PICK s : s = Extend(hub[d][Place(hub[d], e)], f)
      OBVIOUS
    <2> DEFINE there == hub[d][Place(hub[d], e)]
    <2>8. /\ In(there, hub[d]) /\ there.id = e
          /\ s.id = e /\ s.raw = there.raw /\ s.total = there.total
          /\ s.parts = there.parts \cup f.data
          /\ Suits(there, f) /\ ~Has(there, f) =>
               IF Complete(s) THEN e \notin Ids(h) ELSE In(s, h)
      BY <1>1, <1>3, <1>7, <2>6, <2>7, AddOK DEF h
    <2>9. there = old
      BY <1>1, <1>7, <2>5, <2>8, OneSession DEF Hubs, Holds
    <2>10. /\ Suits(old, f) /\ ~Has(old, f) /\ Holds(s, c, k + 1)
           /\ Complete(s) <=> k = Chunks(c)
           /\ k = Chunks(c) => Verified(s)
      <3>1. /\ f.raw = send[c].raw /\ f.total = Chunks(c)
            /\ f.data = {Slice(c, send[c].raw, k - 1)}
        BY <1>1, <1>7, <2>2, <2>3
      <3>2. s.id = old.id /\ s.raw = old.raw /\ s.total = old.total
            /\ s.parts = old.parts \cup f.data
        BY <2>8, <2>9
      <3> HIDE DEF there
      <3> QED BY <1>4, <2>4, <2>5, <3>1, <3>2, OneMoreChunk
    <2>11. /\ To(c)' = To(c) /\ Chunks(c)' = Chunks(c)
           /\ \A m : FrameOf(c, m)' = FrameOf(c, m)
           /\ Holds(s, c, k + 1)'
      BY <1>4, <2>10, NextNames
    <2>12. wire'[To(c)'] = Tail(wire[d]) /\ hub'[To(c)'] = h
      BY <1>1, <1>7, <2>1, <2>6, <2>11 DEF ChunkTypes
    <2>13. k + 1 \in 0 .. send'[c].next
      BY <1>1, <2>1, <2>3, <2>4
    <2>14. \A m \in 0 .. Chunks(c)' :
             In(FrameOf(c, m)', wire'[To(c)']) <=> k + 1 <= m /\ m < send'[c].next
      BY <1>1, <2>3, <2>11, <2>12
    <2>15. CASE k = Chunks(c)
      <3>1. Completes(hub[d], f)
        BY <2>7, <2>9, <2>10, <2>15 DEF Completes
      <3>2. c \in got' /\ c \notin Ids(h)
        BY <1>1, <1>7, <2>6, <2>8, <2>9, <2>10, <2>15, <3>1
      <3>3. Received(c, k + 1)'
        BY <2>1, <2>11, <2>12, <2>15, <3>2 DEF Received, Ids
      <3> QED BY <2>13, <2>14, <3>3 DEF AtFrame, In
    <2>16. CASE k # Chunks(c)
      <3>1. In(s, h)
        BY <2>8, <2>9, <2>10, <2>16
      <3>2. k + 1 # 0 /\ k + 1 # Chunks(c) + 1
        BY <2>1, <2>4, <2>16
      <3>3. Received(c, k + 1)'
        BY <2>11, <2>12, <3>1, <3>2 DEF Received, In
      <3> QED BY <2>13, <2>14, <3>3 DEF AtFrame, In
    <2> QED BY <2>15, <2>16
  <1> QED BY <1>6, <1>7

\* When the socket's frames are lost, and with them at most sessions of the
\* transfers that the loss is noted for, the others have nothing on their way.
LEMMA LossProgress ==
    ASSUME LaneInv, [ChunkNext]_chunkVars,
           NEW cs, WireIds \subseteq cs, Note(cs, "lost"),
           wire' = [d \in Devices |-> <<>>], got' = got,
           \A d \in Devices : hub'[d] = hub[d] \/ (hub'[d] = <<>> /\ Ids(hub[d]) \subseteq cs),
           NEW c \in Transfers, Live(c)', send'[c] = send[c]
    PROVE  \E k \in 0 .. send'[c].next : AtFrame(c, k)'
  <1> USE DEF LaneInv
  <1>1. why[c] = {} /\ c \notin cs
    BY NoteIs DEF Live, ChunkTypes
  <1>2. Live(c) /\ Begun(c)
    BY <1>1 DEF Live, Begun
  <1>3. PICK k \in 0 .. send[c].next : AtFrame(c, k)
    BY <1>2 DEF ProgressOK
  <1>4. To(c) \in Devices
    BY SendIs
  <1>5. \A f : f.id = c => ~In(f, wire[To(c)]) /\ ~In(f, wire'[To(c)])
    <2>1. wire'[To(c)] = <<>>
      BY <1>4
    <2> QED BY <1>1, <1>4, <2>1, InEmpty, WireIdsIn
  <1>6. \A s : s.id = c => (In(s, hub'[To(c)]) <=> In(s, hub[To(c)]))
    <2>1. CASE hub'[To(c)] = hub[To(c)]
      BY <2>1
    <2>2. CASE hub'[To(c)] = <<>> /\ Ids(hub[To(c)]) \subseteq cs
      BY <1>1, <2>2, InEmpty, IdsIn
    <2> QED BY <1>4, <2>1, <2>2
  <1>7. AtFrame(c, k)'
    BY <1>2, <1>3, <1>5, <1>6, StageSame
  <1> QED BY <1>3, <1>7

LEMMA AgedProgress ==
    ASSUME LaneInv, [ChunkNext]_chunkVars, TimePasses, NEW c \in Transfers, Live(c)'
    PROVE  \E k \in 0 .. send'[c].next : AtFrame(c, k)'
  <1> USE DEF LaneInv
  <1>1. /\ UNCHANGED <<send, wire, got, why>> /\ hub'["android"] = hub["android"]
        /\ Len(hub'["mac"]) = Len(hub["mac"])
        /\ \A i \in 1 .. Len(hub["mac"]) :
             /\ hub'["mac"][i].id = hub["mac"][i].id
             /\ hub'["mac"][i].raw = hub["mac"][i].raw
             /\ hub'["mac"][i].total = hub["mac"][i].total
             /\ hub'["mac"][i].parts = hub["mac"][i].parts
    BY TimePassesIs
  <1>2. Live(c) /\ Begun(c)
    BY <1>1 DEF Live, Begun
  <1>3. PICK k \in 0 .. send[c].next : AtFrame(c, k)
    BY <1>2 DEF ProgressOK
  <1>4. ASSUME NEW d \in Devices
        PROVE  /\ \A s : In(s, hub[d]) =>
                    \E t : /\ In(t, hub'[d]) /\ t.id = s.id /\ t.raw = s.raw
                           /\ t.total = s.total /\ t.parts = s.parts
               /\ c \in Ids(hub'[d]) => c \in Ids(hub[d])
    <2>1. CASE d = "android"
      BY <1>1, <2>1
    <2>2. CASE d = "mac"
      <3>1. ASSUME NEW s, In(s, hub["mac"])
            PROVE  \E t : /\ In(t, hub'["mac"]) /\ t.id = s.id /\ t.raw = s.raw
                          /\ t.total = s.total /\ t.parts = s.parts
        <4>1. PICK i \in 1 .. Len(hub["mac"]) : hub["mac"][i] = s
          BY <3>1 DEF In
        <4>2. In(hub'["mac"][i], hub'["mac"])
          BY <1>1, <4>1 DEF In
        <4> QED BY <1>1, <4>1, <4>2
      <3>2. Ids(hub'["mac"]) = Ids(hub["mac"])
        BY <1>1 DEF Ids
      <3> QED BY <2>2, <3>1, <3>2
    <2> QED BY <2>1, <2>2 DEF Devices
  <1>5. To(c) \in Devices
    BY SendIs
  <1>6. AtFrame(c, k)'
    BY <1>1, <1>2, <1>3, <1>4, <1>5, StageKept
  <1> QED BY <1>1, <1>3, <1>6

\* Neither the mode nor the socket's state matters to what is under way.
LEMMA IdleProgress ==
    ASSUME LaneInv, [ChunkNext]_chunkVars, UNCHANGED <<send, wire, hub, got, why>>,
           NEW c \in Transfers, Live(c)'
    PROVE  \E k \in 0 .. send'[c].next : AtFrame(c, k)'
  <1>1. Live(c) /\ Begun(c)
    BY DEF Live, Begun
  <1>2. PICK k \in 0 .. send[c].next : AtFrame(c, k)
    BY <1>1 DEF LaneInv, ProgressOK
  <1>3. AtFrame(c, k)'
    BY <1>1, <1>2, StageSame DEF LaneInv
  <1> QED BY <1>2, <1>3

LEMMA NextProgressOK ==
    ASSUME LaneInv, [ChunkNext]_chunkVars
    PROVE  ProgressOK'
  <1> SUFFICES ASSUME NEW c \in Transfers, Live(c)'
               PROVE  \E k \in 0 .. send'[c].next : AtFrame(c, k)'
    BY DEF ProgressOK
  <1> DEFINE Good == \E k \in 0 .. send'[c].next : AtFrame(c, k)'
  <1>1. \A e \in Transfers, d \in Devices, raw \in Sizes : StartSend(e, d, raw) => Good
    BY StartProgress
  <1>2. \A e \in Transfers : SendFrame(e) => Good
    BY SendProgress
  <1>3. \A d \in Devices : (ReceiveManifest(d) => Good) /\ (ReceiveChunk(d) => Good)
    BY ManifestProgress, ChunkProgress
  <1>4. ASSUME NEW d \in Devices, Restart(d) PROVE Good
    <2>1. /\ wire' = [e \in Devices |-> <<>>] /\ hub' = [hub EXCEPT ![d] = <<>>]
          /\ Note(WireIds \cup Ids(hub[d]), "lost") /\ got' = got
          /\ send'[c] = send[c] \/ (send[c].pc = "sending" /\ send'[c].pc = "failed")
      BY <1>4, RestartIs DEF LaneInv
    <2>2. send'[c] = send[c]
      BY <2>1 DEF Live
    <2>3. \A e \in Devices : \/ hub'[e] = hub[e]
                             \/ hub'[e] = <<>> /\ Ids(hub[e]) \subseteq WireIds \cup Ids(hub[d])
      BY <2>1 DEF LaneInv, ChunkTypes
    <2> HIDE DEF Good
    <2>4. \A cs : WireIds \subseteq cs /\ cs = WireIds \cup Ids(hub[d]) => Good
      BY <2>1, <2>2, <2>3, LossProgress DEF Good
    <2> QED BY <2>4
  <1>5. \A m \in {"both", "android_to_mac", "mac_to_android"} : SwitchMode(m) => Good
    BY IdleProgress DEF SwitchMode
  <1>6. ASSUME SocketDies PROVE Good
    <2>1. /\ wire' = [e \in Devices |-> <<>>] /\ Note(WireIds, "lost")
          /\ UNCHANGED <<send, hub, got>>
      BY <1>6 DEF SocketDies
    <2> QED BY <2>1, LossProgress
  <1>7. SocketOpens => Good
    BY IdleProgress DEF SocketOpens
  <1>8. TimePasses => Good
    BY AgedProgress
  <1>9. UNCHANGED chunkVars => Good
    BY IdleProgress DEF chunkVars
  <1> HIDE DEF Good
  <1>10. Good
    BY <1>1, <1>2, <1>3, <1>4, <1>5, <1>6, <1>7, <1>8, <1>9, LaneSplit
  <1> QED BY <1>10 DEF Good

LEMMA InitLaneInv == ChunkInit => LaneInv
  <1> SUFFICES ASSUME ChunkInit PROVE LaneInv
    OBVIOUS
  <1>1. \A c \in Transfers : send[c].pc = "idle" /\ send[c] = Unsent
    BY DEF ChunkInit, Unsent
  <1>2. \A d \in Devices : wire[d] = <<>> /\ hub[d] = <<>>
    BY DEF ChunkInit
  <1>3. ChunkTypes
    <2>1. Unsent \in [pc : {"idle", "sending", "sent", "failed"}, from : Devices,
                      raw : Nat, next : Nat]
      BY DEF Unsent, Devices
    <2>2. wire \in [Devices -> Seq(Frames)] /\ hub \in [Devices -> Hubs]
      BY EmptyHub DEF ChunkInit
    <2>3. 0 \in 0 .. MaxMishaps
      BY CapsAssumption
    <2> QED BY <2>1, <2>2, <2>3 DEF ChunkInit, ChunkTypes
  <1>4. TransfersOK /\ OrderOK
    BY <1>1 DEF TransfersOK, OrderOK, Begun
  <1>5. FramesOK /\ HubsOK
    BY <1>2, InEmpty DEF FramesOK, HubsOK
  <1>6. ProgressOK
    BY <1>1 DEF ProgressOK, Live
  <1>7. HubBounded
    BY <1>2, OtherIs, EmptyHub, CapsAssumption DEF HubBounded
  <1> QED BY <1>3, <1>4, <1>5, <1>6, <1>7 DEF LaneInv

LEMMA LaneInvHolds == ChunkSpec => []LaneInv
  <1>1. LaneInv /\ [ChunkNext]_chunkVars => LaneInv'
    <2> SUFFICES ASSUME LaneInv, [ChunkNext]_chunkVars PROVE LaneInv'
      OBVIOUS
    <2>1. ChunkTypes' /\ TransfersOK' /\ FramesOK' /\ OrderOK' /\ HubsOK' /\ HubBounded'
      BY NextChunkTypes, NextTransfersOK, NextFramesOK, NextOrderOK, NextHubsOK, NextHubBounded
         DEF LaneInv
    <2>2. ProgressOK'
      BY NextProgressOK
    <2> QED BY <2>1, <2>2 DEF LaneInv
  <1> QED BY <1>1, InitLaneInv, PTL DEF ChunkSpec

\* Types of the lane of large images: the frames in the queues, and sessions that
\* hold slices of their own image and are not complete.
THEOREM LargeTypesHold == ChunkSpec => []ChunkTypeOK
  <1>1. LaneInv => ChunkTypeOK
    <2> SUFFICES ASSUME LaneInv PROVE ChunkTypeOK
      OBVIOUS
    <2>1. ASSUME NEW d \in Devices, NEW i \in 1 .. Len(wire[d])
          PROVE  wire[d][i].id \in Transfers
      <3>1. wire[d][i] \in Frames
        BY DEF LaneInv, ChunkTypes
      <3> QED BY <3>1 DEF Frames
    <2>2. ASSUME NEW d \in Devices, NEW i \in 1 .. Len(hub[d])
          PROVE  /\ hub[d][i].id \in Transfers
                 /\ hub[d][i].parts \subseteq Slices
                 /\ \A p \in hub[d][i].parts : p.of = hub[d][i].id
                 /\ ~Complete(hub[d][i])
      <3>1. hub[d][i] \in Sessions
        BY DEF LaneInv, ChunkTypes, Hubs
      <3>2. In(hub[d][i], hub[d])
        BY DEF In
      <3>3. /\ ~Complete(hub[d][i])
            /\ \A p \in hub[d][i].parts : p.of = hub[d][i].id
        BY <3>2 DEF LaneInv, HubsOK
      <3> QED BY <3>1, <3>3 DEF Sessions
    <2> QED BY <2>1, <2>2 DEF LaneInv, ChunkTypes, ChunkTypeOK
  <1> QED BY <1>1, LaneInvHolds, PTL

\* Large images arrive whole: one that was reported as sent, none of whose frames
\* is on its way and that nothing has befallen, has been put together and verified
\* by the receiver, and its session is closed.
THEOREM LargeImagesArrive == ChunkSpec => []SentIsWhole
  <1>1. LaneInv => SentIsWhole
    <2> SUFFICES ASSUME LaneInv, NEW c \in Transfers,
                        send[c].pc = "sent", c \notin WireIds, why[c] = {}
                 PROVE  c \in got /\ c \notin Ids(hub["mac"]) \cup Ids(hub["android"])
      BY DEF SentIsWhole
    <2> USE DEF LaneInv
    <2>1. Begun(c) /\ Live(c)
      BY DEF Begun, Live
    <2>2. PICK k \in 0 .. send[c].next : AtFrame(c, k)
      BY <2>1 DEF ProgressOK
    <2>3. /\ To(c) \in Devices /\ Chunks(c) \in Int /\ Chunks(c) >= 2
          /\ send[c].next = Chunks(c) + 1
      BY <2>1, SendIs DEF TransfersOK
    <2>4. k = Chunks(c) + 1
      <3> SUFFICES ASSUME k # Chunks(c) + 1 PROVE FALSE
        OBVIOUS
      <3>1. k \in 0 .. Chunks(c) /\ k < send[c].next /\ k <= k
        BY <2>3
      <3>2. In(FrameOf(c, k), wire[To(c)])
        BY <2>2, <3>1 DEF AtFrame
      <3>3. FrameOf(c, k).id = c
        BY <2>1, <3>1, FrameOfIs
      <3> QED BY <2>3, <3>2, <3>3, WireIdsIn
    <2>5. c \in got /\ c \notin Ids(hub[To(c)])
      BY <2>2, <2>4 DEF AtFrame, Received
    <2>6. \A d \in Devices : c \in Ids(hub[d]) => d = To(c)
      BY IdsIn DEF HubsOK
    <2> QED BY <2>5, <2>6, OtherIs
  <1> QED BY <1>1, LaneInvHolds, PTL

\* Abandoned sessions do not pile up: neither hub exceeds its bound.
THEOREM SessionsAreFew == ChunkSpec => []HubBounded
  <1>1. LaneInv => HubBounded
    BY DEF LaneInv
  <1> QED BY <1>1, LaneInvHolds, PTL

=============================================================================
