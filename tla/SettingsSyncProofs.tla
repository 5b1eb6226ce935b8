------------------------- MODULE SettingsSyncProofs -------------------------
(***************************************************************************)
(* Proofs about SettingsSync, for any number of calls, sockets, edits,     *)
(* faults and seconds.                                                     *)
(***************************************************************************)
EXTENDS SettingsSync, TLAPS

(***************************************************************************)
(* What is in a queue.                                                     *)
(***************************************************************************)

In(x, s) == \E i \in 1..Len(s) : s[i] = x

\* Nothing is in an empty queue.
LEMMA InEmpty == \A x : ~In(x, <<>>)
  BY DEF In

\* Appending adds one element.
LEMMA InAppend ==
    ASSUME NEW S, NEW s \in Seq(S), NEW y \in S
    PROVE  Append(s, y) \in Seq(S) /\ \A x : In(x, Append(s, y)) <=> In(x, s) \/ x = y
  <1>1. /\ Append(s, y) \in Seq(S) /\ Len(Append(s, y)) = Len(s) + 1
        /\ Append(s, y)[Len(s) + 1] = y
        /\ \A i \in 1..Len(s) : Append(s, y)[i] = s[i]
    OBVIOUS
  <1>2. \A i : i \in 1..(Len(s) + 1) <=> i \in 1..Len(s) \/ i = Len(s) + 1
    OBVIOUS
  <1> QED BY <1>1, <1>2 DEF In

\* The rest of a queue has what is not at its head.
LEMMA InTail ==
    ASSUME NEW S, NEW s \in Seq(S), s # <<>>
    PROVE  /\ Head(s) \in S /\ Tail(s) \in Seq(S)
           /\ \A x : In(x, s) <=> x = Head(s) \/ In(x, Tail(s))
  <1>1. /\ Head(s) \in S /\ Tail(s) \in Seq(S) /\ Len(Tail(s)) = Len(s) - 1
        /\ Head(s) = s[1] /\ Len(s) \in Nat \ {0}
        /\ \A i \in 1..(Len(s) - 1) : Tail(s)[i] = s[i + 1]
    OBVIOUS
  <1>2. ASSUME NEW x, In(x, s) PROVE x = Head(s) \/ In(x, Tail(s))
    <2>1. PICK i \in 1..Len(s) : s[i] = x
      BY <1>2 DEF In
    <2>2. CASE i = 1
      BY <1>1, <2>1, <2>2
    <2>3. CASE i # 1
      <3>1. i - 1 \in 1..Len(Tail(s)) /\ Tail(s)[i - 1] = s[i]
        BY <1>1, <2>1, <2>3
      <3> QED BY <2>1, <3>1 DEF In
    <2> QED BY <2>2, <2>3
  <1>3. ASSUME NEW x, x = Head(s) \/ In(x, Tail(s)) PROVE In(x, s)
    <2>1. CASE x = Head(s)
      <3>1. 1 \in 1..Len(s) /\ s[1] = x
        BY <1>1, <2>1
      <3> QED BY <3>1 DEF In
    <2>2. CASE In(x, Tail(s))
      <3>1. PICK i \in 1..Len(Tail(s)) : Tail(s)[i] = x
        BY <2>2 DEF In
      <3>2. i + 1 \in 1..Len(s) /\ s[i + 1] = x
        BY <1>1, <3>1
      <3> QED BY <3>2 DEF In
    <2> QED BY <1>3, <2>1, <2>2
  <1> QED BY <1>1, <1>2, <1>3

\* Both queues are empty when nothing is in them together.
LEMMA ConcatEmpty ==
    ASSUME NEW S, NEW s \in Seq(S), NEW r \in Seq(S), s \o r = <<>>
    PROVE  s = <<>> /\ r = <<>>
  <1>1. Len(s \o r) = Len(s) + Len(r) /\ Len(s) \in Nat /\ Len(r) \in Nat
    OBVIOUS
  <1>2. Len(s \o r) = 0
    OBVIOUS
  <1>3. Len(s) = 0 /\ Len(r) = 0
    BY <1>1, <1>2
  <1> QED BY <1>3

(***************************************************************************)
(* Types.                                                                  *)
(***************************************************************************)

Places == {"idle", "read", "write", "flush", "send", "requeue"}

ProcStates == [pc : Places, blob : Blobs \cup {None}, flushes : BOOLEAN]

Saves == [blob : Blobs, dirty : BOOLEAN]

\* A goroutine holds a blob from the moment it read the store until it has
\* written or sent it.
Fits(x) == x.blob # None <=> x.pc \in {"write", "send", "requeue"}

CountOK ==
    /\ now \in 0..MaxTime /\ edits \in 0..MaxEdits /\ faults \in 0..MaxFaults
    /\ causes \subseteq Causes

StoreOK == cur \in Blobs /\ pending \in BOOLEAN /\ file \in Blobs

ProcOK == proc \in [Procs -> ProcStates] /\ \A p \in Procs : Fits(proc[p])

WireOK ==
    /\ ws \in Readers \cup {None}
    /\ toPhone \in Seq(Blobs) /\ toMac \in Seq(Blobs)
    /\ post \in [blob : Blobs \cup {None}, pc : {"none", "sent", "handled"}]

PhoneOK ==
    /\ phone \in [cur : Blobs, dirty : BOOLEAN, store : Blobs]
    /\ saving \in Seq(Saves)
    /\ flush \in Blobs \cup {None}

\* A post under way carries the blob the phone's flush awaits.
PostOK == IF post.pc = "none" THEN post.blob = None
          ELSE post.blob = flush /\ flush # None

TypeInv == CountOK /\ StoreOK /\ ProcOK /\ WireOK /\ PhoneOK /\ PostOK

\* What the assumption says of the constants, in the form the proofs cite.
LEMMA Constants ==
    /\ None \notin Blobs
    /\ Idle \in ProcStates /\ Fits(Idle) /\ Idle.pc = "idle" /\ Idle.blob = None
    /\ Idle.flushes = FALSE
    /\ Http \in Procs /\ Readers \subseteq Procs /\ Callers \subseteq Procs
    /\ None \notin Readers
  <1>1. None \notin Blobs
    BY BoundsAssumption DEF Blobs
  <1>2. Idle \in ProcStates /\ Idle.pc = "idle" /\ Idle.blob = None /\ Idle.flushes = FALSE
    BY DEF Idle, ProcStates, Places
  <1>3. Fits(Idle)
    BY <1>2 DEF Fits
  <1> QED BY <1>1, <1>2, <1>3, ProcsAssumption DEF Procs

\* A blob stamped now.
LEMMA StampOK ==
    ASSUME TypeInv, NEW n \in 0..MaxEdits, NEW by \in {"mac", "android"}
    PROVE  /\ Stamp(n, by) \in Blobs
           /\ Stamp(n, by).at = now /\ Stamp(n, by).by = by /\ Stamp(n, by).n = n
  BY DEF TypeInv, CountOK, Stamp, Blobs

\* Both sides start with the same blob, nothing pending and nothing under way.
LEMMA InitTypeInv == Init => TypeInv
  <1> SUFFICES ASSUME Init PROVE TypeInv
    OBVIOUS
  <1>1. 0 \in 0..MaxTime /\ 0 \in 0..MaxEdits /\ 0 \in 0..MaxFaults
    BY BoundsAssumption
  <1>2. cur \in Blobs /\ phone \in [cur : Blobs, dirty : BOOLEAN, store : Blobs]
    BY <1>1 DEF Init, Blobs
  <1>3. CountOK
    BY <1>1 DEF Init, CountOK
  <1>4. StoreOK
    BY <1>2 DEF Init, StoreOK
  <1>5. ProcOK
    BY Constants DEF Init, ProcOK
  <1>6. WireOK /\ PostOK
    BY DEF Init, WireOK, PostOK
  <1>7. PhoneOK
    BY <1>2 DEF Init, PhoneOK
  <1> QED BY <1>3, <1>4, <1>5, <1>6, <1>7 DEF TypeInv

\* What a step leaves alone keeps its type.
LEMMA Frame ==
    ASSUME TypeInv
    PROVE  /\ UNCHANGED <<now, edits, faults, causes>> => CountOK'
           /\ UNCHANGED <<cur, pending, file>> => StoreOK'
           /\ UNCHANGED proc => ProcOK'
           /\ UNCHANGED wireVars => WireOK'
           /\ UNCHANGED phoneVars => PhoneOK'
           /\ UNCHANGED <<post, flush>> => PostOK'
  <1>1. UNCHANGED <<now, edits, faults, causes>> => CountOK'
    BY DEF TypeInv, CountOK
  <1>2. UNCHANGED <<cur, pending, file>> => StoreOK'
    BY DEF TypeInv, StoreOK
  <1>3. UNCHANGED proc => ProcOK'
    BY DEF TypeInv, ProcOK, Fits
  <1>4. UNCHANGED wireVars => WireOK'
    BY DEF TypeInv, WireOK, wireVars
  <1>5. UNCHANGED phoneVars => PhoneOK'
    BY DEF TypeInv, PhoneOK, phoneVars
  <1>6. UNCHANGED <<post, flush>> => PostOK'
    BY DEF TypeInv, PostOK
  <1> QED BY <1>1, <1>2, <1>3, <1>4, <1>5, <1>6

\* Goroutine p moves to state x, which fits.
Moves(p, x) ==
    /\ x \in ProcStates /\ Fits(x)
    /\ proc' = [proc EXCEPT ![p] = x]

\* Nobody else does.
LEMMA Moved ==
    ASSUME TypeInv, NEW p \in Procs, NEW x, Moves(p, x)
    PROVE  /\ ProcOK'
           /\ proc'[p] = x
           /\ \A q \in Procs \ {p} : proc'[q] = proc[q]
  <1>1. proc \in [Procs -> ProcStates] /\ \A q \in Procs : Fits(proc[q])
    BY DEF TypeInv, ProcOK
  <1>2. /\ proc' \in [Procs -> ProcStates] /\ proc'[p] = x
        /\ \A q \in Procs \ {p} : proc'[q] = proc[q]
    BY <1>1 DEF Moves
  <1>3. \A q \in Procs : Fits(proc'[q])
    BY <1>1, <1>2 DEF Moves
  <1>4. (\A q \in Procs : Fits(proc[q]))'
    BY <1>3
  <1> QED BY <1>2, <1>4 DEF ProcOK

\* A goroutine's fields.
LEMMA ProcFields ==
    ASSUME TypeInv, NEW p \in Procs
    PROVE  /\ proc[p] \in ProcStates /\ Fits(proc[p])
           /\ proc[p].flushes \in BOOLEAN /\ proc[p].blob \in Blobs \cup {None}
           /\ proc[p].blob # None <=> proc[p].pc \in {"write", "send", "requeue"}
           /\ proc \in [Procs -> ProcStates]
  BY DEF TypeInv, ProcOK, Fits, ProcStates

\* The state a goroutine moves to.
LEMMA StateOK ==
    ASSUME NEW pc \in Places, NEW b \in Blobs \cup {None}, NEW f \in BOOLEAN,
           b # None <=> pc \in {"write", "send", "requeue"}
    PROVE  LET x == [pc |-> pc, blob |-> b, flushes |-> f] IN
           x \in ProcStates /\ Fits(x) /\ x.pc = pc /\ x.blob = b /\ x.flushes = f
  BY DEF ProcStates, Fits

(***************************************************************************)
(* Where each step of a goroutine leaves it.                               *)
(***************************************************************************)

St(pc, b, f) == [pc |-> pc, blob |-> b, flushes |-> f]

\* The state a goroutine moves to, by its fields.
LEMMA StOK ==
    ASSUME NEW pc \in Places, NEW b \in Blobs \cup {None}, NEW f \in BOOLEAN,
           b # None <=> pc \in {"write", "send", "requeue"}
    PROVE  /\ St(pc, b, f) \in ProcStates /\ Fits(St(pc, b, f))
           /\ St(pc, b, f).pc = pc /\ St(pc, b, f).blob = b /\ St(pc, b, f).flushes = f
  BY DEF St, ProcStates, Fits

\* A goroutine's state is its three fields, and so is one with some replaced.
LEMMA StExcept ==
    ASSUME NEW x \in ProcStates, NEW pc \in Places, NEW b \in Blobs \cup {None}
    PROVE  /\ [x EXCEPT !.pc = pc] = St(pc, x.blob, x.flushes)
           /\ [[x EXCEPT !.pc = pc] EXCEPT !.blob = b] = St(pc, b, x.flushes)
  <1> DEFINE y == [x EXCEPT !.pc = pc]
  <1>1. y = St(pc, x.blob, x.flushes)
    BY DEF St, ProcStates
  <1>2. y \in ProcStates /\ y.pc = pc /\ y.flushes = x.flushes
    BY DEF ProcStates
  <1> HIDE DEF y
  <1>3. [y EXCEPT !.blob = b] = St(y.pc, b, y.flushes)
    BY <1>2 DEF St, ProcStates
  <1>4. [y EXCEPT !.blob = b] = St(pc, b, x.flushes)
    BY <1>2, <1>3
  <1> QED BY <1>1, <1>4 DEF y

\* A setter goes on to persist: it reads the settings next.
LEMMA SetMoves ==
    ASSUME TypeInv, NEW p \in Procs, NEW f \in BOOLEAN, Set(p, f)
    PROVE  Moves(p, St("read", None, f)) /\ proc[p].pc = "idle"
  <1>1. St("read", None, f) \in ProcStates /\ Fits(St("read", None, f))
    BY StOK DEF Places
  <1> QED BY <1>1 DEF Set, Moves, St, At

\* The snapshot to be written is the blob of the moment it is read.
LEMMA ReadMoves ==
    ASSUME TypeInv, NEW p \in Procs, PersistRead(p)
    PROVE  Moves(p, St("write", cur, proc[p].flushes)) /\ proc[p].pc = "read"
  <1>1. proc[p] \in ProcStates /\ proc[p].flushes \in BOOLEAN
    BY ProcFields
  <1>2. cur \in Blobs /\ cur # None
    BY Constants DEF TypeInv, StoreOK
  <1>3. /\ St("write", cur, proc[p].flushes) \in ProcStates
        /\ Fits(St("write", cur, proc[p].flushes))
    BY <1>1, <1>2, StOK DEF Places
  <1>4. proc' = [proc EXCEPT ![p] = [[proc[p] EXCEPT !.pc = "write"] EXCEPT !.blob = cur]]
    BY ProcFields DEF PersistRead
  <1>5. proc' = [proc EXCEPT ![p] = St("write", cur, proc[p].flushes)]
    BY <1>1, <1>2, <1>4, StExcept DEF Places
  <1> QED BY <1>3, <1>5 DEF PersistRead, Moves, At

\* After the write, done or failed, a setter that flushes goes on to the outbox
\* and any other ends.
LEMMA SaveMoves ==
    ASSUME TypeInv, NEW p \in Procs, PersistWrite(p) \/ PersistFails(p)
    PROVE  /\ Moves(p, IF proc[p].flushes THEN St("flush", None, TRUE) ELSE Idle)
           /\ proc[p].pc = "write"
  <1>1. AfterSave(p) /\ proc[p].pc = "write"
    BY DEF PersistWrite, PersistFails, At
  <1>2. proc[p] \in ProcStates /\ proc[p].flushes \in BOOLEAN
    BY ProcFields
  <1>3. CASE proc[p].flushes
    <2>1. St("flush", None, TRUE) \in ProcStates /\ Fits(St("flush", None, TRUE))
      BY StOK DEF Places
    <2>2. proc' = [proc EXCEPT ![p] = [[proc[p] EXCEPT !.pc = "flush"] EXCEPT !.blob = None]]
      BY <1>1, <1>3, ProcFields DEF AfterSave
    <2>3. proc[p].flushes = TRUE
      BY <1>2, <1>3
    <2>4. proc' = [proc EXCEPT ![p] = St("flush", None, TRUE)]
      BY <1>2, <2>2, <2>3, StExcept DEF Places
    <2> QED BY <1>1, <1>3, <2>1, <2>4 DEF Moves
  <1>4. CASE ~proc[p].flushes
    BY <1>1, <1>4, Constants DEF AfterSave, Finish, Moves
  <1> QED BY <1>3, <1>4

\* A flush with nothing pending, and one that put its blob back, ends.
LEMMA FinishMoves ==
    ASSUME TypeInv, NEW p \in Procs, FlushNothing(p) \/ Requeue(p)
    PROVE  Moves(p, Idle)
  BY Constants DEF FlushNothing, Requeue, Finish, Moves

\* The flush takes the blob of the moment out of the outbox.
LEMMA TakeMoves ==
    ASSUME TypeInv, NEW p \in Procs, TakePending(p)
    PROVE  Moves(p, St("send", cur, proc[p].flushes)) /\ proc[p].pc = "flush"
  <1>1. proc[p] \in ProcStates /\ proc[p].flushes \in BOOLEAN
    BY ProcFields
  <1>2. cur \in Blobs /\ cur # None
    BY Constants DEF TypeInv, StoreOK
  <1>3. /\ St("send", cur, proc[p].flushes) \in ProcStates
        /\ Fits(St("send", cur, proc[p].flushes))
    BY <1>1, <1>2, StOK DEF Places
  <1>4. proc' = [proc EXCEPT ![p] = [[proc[p] EXCEPT !.pc = "send"] EXCEPT !.blob = cur]]
    BY ProcFields DEF TakePending
  <1>5. proc' = [proc EXCEPT ![p] = St("send", cur, proc[p].flushes)]
    BY <1>1, <1>2, <1>4, StExcept DEF Places
  <1> QED BY <1>3, <1>5 DEF TakePending, Moves, At

\* The blob goes into the socket, or back into the outbox if there is none.
LEMMA SendMoves ==
    ASSUME TypeInv, NEW p \in Procs, Send(p)
    PROVE  /\ proc[p].pc = "send" /\ proc[p].blob \in Blobs
           /\ \/ /\ ws # None /\ toPhone' = Append(toPhone, proc[p].blob)
                 /\ Moves(p, Idle)
              \/ /\ ws = None /\ toPhone' = toPhone
                 /\ Moves(p, St("requeue", proc[p].blob, proc[p].flushes))
  <1>1. /\ proc[p] \in ProcStates /\ proc[p].flushes \in BOOLEAN
        /\ proc[p].pc = "send" /\ proc[p].blob \in Blobs /\ proc[p].blob # None
    BY ProcFields DEF Send, At
  <1>2. CASE ws # None
    BY <1>1, <1>2, Constants DEF Send, Finish, Moves
  <1>3. CASE ws = None
    <2>1. /\ St("requeue", proc[p].blob, proc[p].flushes) \in ProcStates
          /\ Fits(St("requeue", proc[p].blob, proc[p].flushes))
      BY <1>1, StOK DEF Places
    <2>2. proc' = [proc EXCEPT ![p] = [proc[p] EXCEPT !.pc = "requeue"]] /\ toPhone' = toPhone
      BY <1>3, ProcFields DEF Send, Goto
    <2>3. proc' = [proc EXCEPT ![p] = St("requeue", proc[p].blob, proc[p].flushes)]
      BY <1>1, <2>2, StExcept DEF Places
    <2> QED BY <1>1, <1>3, <2>1, <2>2, <2>3 DEF Moves
  <1> QED BY <1>2, <1>3

\* A socket that connects flushes the outbox.
LEMMA ConnectMoves ==
    ASSUME TypeInv, NEW p \in Procs, Connect(p)
    PROVE  /\ Moves(p, St("flush", None, proc[p].flushes))
           /\ proc[p].pc = "idle" /\ p \in Readers
  <1>1. /\ proc[p] \in ProcStates /\ proc[p].flushes \in BOOLEAN
        /\ proc[p].pc = "idle" /\ proc[p].blob = None /\ p \in Readers
    BY ProcFields DEF Connect, At
  <1>2. /\ St("flush", None, proc[p].flushes) \in ProcStates
        /\ Fits(St("flush", None, proc[p].flushes))
    BY <1>1, StOK DEF Places
  <1>3. proc' = [proc EXCEPT ![p] = [proc[p] EXCEPT !.pc = "flush"]]
    BY ProcFields DEF Connect, Goto
  <1>4. proc' = [proc EXCEPT ![p] = St("flush", None, proc[p].flushes)]
    BY <1>1, <1>3, StExcept DEF Places
  <1> QED BY <1>1, <1>2, <1>4 DEF Moves

\* The phone's blob b is adopted, and p goes on to save it, or dropped.
Adopts(p, b) ==
    /\ RemoteSettingsWins(cur, b) /\ cur' = b /\ ~pending'
    /\ Moves(p, St("read", None, FALSE))

Drops(b) == ~RemoteSettingsWins(cur, b) /\ UNCHANGED <<cur, pending, proc>>

\* A blob of the phone is adopted and then persisted, or dropped.
LEMMA IngestMoves ==
    ASSUME TypeInv, NEW p \in Procs, NEW b, Ingest(p, b)
    PROVE  Adopts(p, b) \/ Drops(b)
  <1>1. CASE RemoteSettingsWins(cur, b)
    <2>1. St("read", None, FALSE) \in ProcStates /\ Fits(St("read", None, FALSE))
      BY StOK DEF Places
    <2>2. [Idle EXCEPT !.pc = "read"] = St("read", None, FALSE)
      BY Constants, StExcept DEF Places
    <2> QED BY <1>1, <2>1, <2>2 DEF Ingest, Adopts, Moves
  <1>2. CASE ~RemoteSettingsWins(cur, b)
    BY <1>2 DEF Ingest, Drops
  <1> QED BY <1>1, <1>2

\* The read loop and the handler of a post adopt one of the phone's blobs.
LEMMA WsMoves ==
    ASSUME TypeInv, WsIngest
    PROVE  /\ ws \in Procs /\ proc[ws].pc = "idle"
           /\ toMac # <<>> /\ Head(toMac) \in Blobs
           /\ Adopts(ws, Head(toMac)) \/ Drops(Head(toMac))
  <1>1. ws \in Procs /\ proc[ws].pc = "idle"
    BY Constants DEF WsIngest, TypeInv, WireOK, At
  <1>2. toMac # <<>> /\ Head(toMac) \in Blobs
    BY InTail DEF WsIngest, TypeInv, WireOK
  <1> QED BY <1>1, <1>2, IngestMoves DEF WsIngest

\* The same for a blob that arrives by HTTP: it is the one being flushed.
LEMMA PostMoves ==
    ASSUME TypeInv, PostIngest
    PROVE  /\ Http \in Procs /\ proc[Http].pc = "idle" /\ post.pc = "sent"
           /\ post.blob = flush /\ flush \in Blobs
           /\ Adopts(Http, flush) \/ Drops(flush)
  <1>1. Http \in Procs /\ proc[Http].pc = "idle" /\ post.pc = "sent"
    BY Constants DEF PostIngest, At
  <1>2. post.blob = flush /\ flush \in Blobs
    BY <1>1 DEF TypeInv, PhoneOK, PostOK
  <1> QED BY <1>1, <1>2, IngestMoves DEF PostIngest


(***************************************************************************)
(* No step leaves the types.                                               *)
(***************************************************************************)

\* The setters that flush, and the one that does not.
Setters(p) ==
    \/ SetNotificationsEnabled(p) \/ SetClipboardMode(p) \/ SetModeOrOutput(p)
    \/ SetAppFilter(p) \/ SetClipboardAllowSensitive(p)

\* Every setter of the Mac is a Set, with or without a flush.
LEMMA SettersSet ==
    ASSUME NEW p, Setters(p)
    PROVE  \E f \in BOOLEAN : Set(p, f)
  BY DEF Setters, SetNotificationsEnabled, SetClipboardMode, SetModeOrOutput, SetAppFilter,
         SetClipboardAllowSensitive

\* A setter keeps the types.
LEMMA SetType ==
    ASSUME TypeInv, NEW p \in Procs, NEW f \in BOOLEAN, Set(p, f)
    PROVE  TypeInv'
  <1>1. edits + 1 \in 0..MaxEdits
    BY BoundsAssumption DEF Set, TypeInv, CountOK
  <1>2. CountOK'
    BY <1>1 DEF Set, TypeInv, CountOK, Note, Causes
  <1>3. StoreOK'
    BY <1>1, StampOK DEF Set, TypeInv, StoreOK
  <1>4. ProcOK'
    BY SetMoves, Moved
  <1>5. WireOK' /\ PhoneOK' /\ PostOK'
    BY Frame DEF Set, wireVars, phoneVars
  <1> QED BY <1>2, <1>3, <1>4, <1>5 DEF TypeInv

\* Reading and writing the settings file keep the types.
LEMMA SaveType ==
    ASSUME TypeInv, NEW p \in Procs, PersistRead(p) \/ PersistWrite(p) \/ PersistFails(p)
    PROVE  TypeInv'
  <1>1. CountOK'
    BY BoundsAssumption DEF PersistRead, PersistWrite, PersistFails, TypeInv, CountOK, Causes
  <1>2. proc[p].pc = "write" => proc[p].blob \in Blobs
    BY ProcFields
  <1>3. StoreOK'
    BY <1>2 DEF PersistRead, PersistWrite, PersistFails, TypeInv, StoreOK, At
  <1>4. ProcOK'
    BY ReadMoves, SaveMoves, Moved
  <1>5. WireOK' /\ PhoneOK' /\ PostOK'
    BY Frame DEF PersistRead, PersistWrite, PersistFails, wireVars, phoneVars
  <1> QED BY <1>1, <1>3, <1>4, <1>5 DEF TypeInv

\* The steps of a flush on the Mac's side keep the types.
LEMMA FlushType ==
    ASSUME TypeInv, NEW p \in Procs,
           FlushNothing(p) \/ TakePending(p) \/ Requeue(p) \/ Connect(p)
    PROVE  TypeInv'
  <1>1. CountOK'
    BY DEF FlushNothing, TakePending, Requeue, Connect, TypeInv, CountOK, Causes
  <1>2. StoreOK'
    BY DEF FlushNothing, TakePending, Requeue, Connect, TypeInv, StoreOK
  <1>3. ProcOK'
    BY FinishMoves, TakeMoves, ConnectMoves, Moved
  <1>4. WireOK'
    BY DEF FlushNothing, TakePending, Requeue, Connect, TypeInv, WireOK, wireVars
  <1>5. PhoneOK' /\ PostOK'
    BY Frame DEF FlushNothing, TakePending, Requeue, Connect, wireVars, phoneVars
  <1> QED BY <1>1, <1>2, <1>3, <1>4, <1>5 DEF TypeInv

\* Sending a blob keeps the types.
LEMMA SendType ==
    ASSUME TypeInv, NEW p \in Procs, Send(p)
    PROVE  TypeInv'
  <1>1. CountOK' /\ StoreOK' /\ PhoneOK' /\ PostOK'
    BY Frame DEF Send, phoneVars
  <1>2. ProcOK'
    BY SendMoves, Moved
  <1>3. toPhone' \in Seq(Blobs)
    <2>1. toPhone \in Seq(Blobs) /\ proc[p].blob \in Blobs
      BY SendMoves DEF TypeInv, WireOK
    <2>2. toPhone' \in {toPhone, Append(toPhone, proc[p].blob)}
      BY SendMoves
    <2> QED BY <2>1, <2>2, InAppend
  <1>4. WireOK'
    BY <1>3 DEF Send, TypeInv, WireOK
  <1> QED BY <1>1, <1>2, <1>4 DEF TypeInv

\* Taking in a blob of the phone keeps the types, over either channel.
LEMMA IngestType ==
    ASSUME TypeInv, WsIngest \/ PostIngest
    PROVE  TypeInv'
  <1>1. CountOK' /\ PhoneOK'
    BY Frame DEF WsIngest, PostIngest, phoneVars
  <1>2. ProcOK' /\ cur' \in Blobs /\ pending' \in BOOLEAN
    <2>1. \E p \in Procs : \E b \in Blobs : Adopts(p, b) \/ Drops(b)
      BY WsMoves, PostMoves
    <2>2. PICK p \in Procs, b \in Blobs : Adopts(p, b) \/ Drops(b)
      BY <2>1
    <2>3. ProcOK'
      BY <2>2, Moved, Frame DEF Adopts, Drops
    <2>4. cur' \in Blobs
      BY <2>2 DEF Adopts, Drops, TypeInv, StoreOK
    <2>5. pending' \in BOOLEAN
      BY DEF WsIngest, PostIngest, Ingest, TypeInv, StoreOK
    <2> QED BY <2>3, <2>4, <2>5
  <1>3. StoreOK'
    BY <1>2 DEF WsIngest, PostIngest, TypeInv, StoreOK
  <1>4. WireOK' /\ PostOK'
    <2>1. CASE WsIngest
      <3>1. toMac' \in Seq(Blobs)
        BY <2>1, InTail DEF WsIngest, TypeInv, WireOK
      <3> QED BY <2>1, <3>1, Frame DEF WsIngest, TypeInv, WireOK, phoneVars
    <2>2. CASE PostIngest
      <3>1. post' = [post EXCEPT !.pc = "handled"] /\ UNCHANGED <<ws, toPhone, toMac, flush>>
        BY <2>2 DEF PostIngest, phoneVars
      <3>2. /\ post' \in [blob : Blobs \cup {None}, pc : {"none", "sent", "handled"}]
            /\ post'.pc = "handled" /\ post'.blob = post.blob
        BY <3>1 DEF TypeInv, WireOK
      <3>3. post.blob = flush /\ flush # None
        BY <2>2, PostMoves, Constants
      <3> QED BY <3>1, <3>2, <3>3 DEF TypeInv, WireOK, PostOK
    <2> QED BY <2>1, <2>2
  <1> QED BY <1>1, <1>2, <1>3, <1>4 DEF TypeInv

\* The Mac app restarts with the blob of the file or with the defaults.
LEMMA RestartMoves ==
    ASSUME TypeInv, MacRestarts
    PROVE  /\ cur' \in {file, DefaultAppSettings} /\ file' = cur' /\ pending' = FALSE
           /\ cur' \in Blobs /\ DefaultAppSettings.at = now
           /\ ProcOK' /\ \A p \in Procs : proc'[p] = Idle
  <1>1. DefaultAppSettings \in Blobs /\ DefaultAppSettings.at = now
    BY StampOK, BoundsAssumption DEF DefaultAppSettings
  <1>2. cur' \in {file, DefaultAppSettings} /\ file' = cur' /\ pending' = FALSE
    BY DEF MacRestarts
  <1>3. proc' \in [Procs -> ProcStates] /\ \A p \in Procs : proc'[p] = Idle
    BY Constants DEF MacRestarts
  <1>4. ProcOK'
    BY <1>3, Constants DEF ProcOK
  <1> QED BY <1>1, <1>2, <1>3, <1>4 DEF TypeInv, StoreOK

\* A lost socket and a restart of the Mac keep the types.
LEMMA FaultType ==
    ASSUME TypeInv, Disconnect \/ MacRestarts
    PROVE  TypeInv'
  <1>1. CountOK'
    <2>1. causes' \subseteq causes \cup {"loss", "restart"}
      BY DEF Disconnect, MacRestarts
    <2>2. faults' \in 0..MaxFaults
      BY BoundsAssumption DEF Disconnect, MacRestarts, TypeInv, CountOK
    <2> QED BY <2>1, <2>2 DEF Disconnect, MacRestarts, TypeInv, CountOK, Causes
  <1>2. StoreOK' /\ ProcOK'
    BY RestartMoves, Frame DEF Disconnect, macVars, StoreOK
  <1>3. WireOK'
    <2>1. ws' = None /\ toPhone' = <<>> /\ toMac' = <<>> /\ post' = post
      BY DEF Disconnect, MacRestarts
    <2>2. <<>> \in Seq(Blobs)
      OBVIOUS
    <2> QED BY <2>1, <2>2 DEF TypeInv, WireOK
  <1>4. PhoneOK' /\ PostOK'
    BY Frame DEF Disconnect, MacRestarts, phoneVars
  <1> QED BY <1>1, <1>2, <1>3, <1>4 DEF TypeInv

\* The fields of the phone's state.
LEMMA PhoneFields ==
    ASSUME TypeInv
    PROVE  /\ phone.cur \in Blobs /\ phone.store \in Blobs /\ phone.dirty \in BOOLEAN
           /\ saving # <<>> => /\ Head(saving) \in Saves /\ Tail(saving) \in Seq(Saves)
                               /\ Head(saving).blob \in Blobs
                               /\ Head(saving).dirty \in BOOLEAN
           /\ toPhone # <<>> => Head(toPhone) \in Blobs /\ Tail(toPhone) \in Seq(Blobs)
  <1>1. phone.cur \in Blobs /\ phone.store \in Blobs /\ phone.dirty \in BOOLEAN
    BY DEF TypeInv, PhoneOK
  <1>2. saving # <<>> => Head(saving) \in Saves /\ Tail(saving) \in Seq(Saves)
    BY InTail DEF TypeInv, PhoneOK
  <1>3. toPhone # <<>> => Head(toPhone) \in Blobs /\ Tail(toPhone) \in Seq(Blobs)
    BY InTail DEF TypeInv, WireOK
  <1> QED BY <1>1, <1>2, <1>3 DEF Saves

\* What a save the phone awaits looks like.
LEMMA SaveFields ==
    ASSUME NEW b \in Blobs, NEW d \in BOOLEAN
    PROVE  LET x == [blob |-> b, dirty |-> d] IN x \in Saves /\ x.blob = b /\ x.dirty = d
  BY DEF Saves

\* An edit, a receipt and a save on the phone keep the types.
LEMMA PhoneType ==
    ASSUME TypeInv, PhoneEdit \/ PhoneReceive \/ PhoneSaved
    PROVE  TypeInv'
  <1>1. StoreOK' /\ ProcOK'
    BY Frame DEF PhoneEdit, PhoneReceive, PhoneSaved, macVars
  <1>2. PostOK'
    BY Frame DEF PhoneEdit, PhoneReceive, PhoneSaved, wireVars
  <1>3. CountOK'
    <2>1. causes' \subseteq causes \cup {"order"}
      BY DEF PhoneEdit, PhoneReceive, PhoneSaved, Note
    <2>2. edits' \in 0..MaxEdits
      BY BoundsAssumption DEF PhoneEdit, PhoneReceive, PhoneSaved, TypeInv, CountOK
    <2> QED BY <2>1, <2>2 DEF PhoneEdit, PhoneReceive, PhoneSaved, TypeInv, CountOK, Causes
  <1>4. WireOK'
    BY PhoneFields DEF PhoneEdit, PhoneReceive, PhoneSaved, TypeInv, WireOK, wireVars
  <1>5. PhoneOK'
    <2>1. CASE PhoneEdit
      <3>1. edits + 1 \in 0..MaxEdits
        BY <2>1, BoundsAssumption DEF PhoneEdit, TypeInv, CountOK
      <3>2. [blob |-> Stamp(edits + 1, "android"), dirty |-> TRUE] \in Saves
        BY <3>1, StampOK, SaveFields
      <3>3. saving' \in Seq(Saves)
        BY <2>1, <3>2, InAppend DEF PhoneEdit, TypeInv, PhoneOK
      <3> QED BY <2>1, <3>3 DEF PhoneEdit, TypeInv, PhoneOK
    <2>2. CASE PhoneReceive
      <3>1. Head(toPhone) \in Blobs
        BY <2>2, PhoneFields DEF PhoneReceive
      <3>2. [blob |-> Head(toPhone), dirty |-> FALSE] \in Saves
        BY <3>1, SaveFields
      <3>3. saving' \in Seq(Saves)
        BY <2>2, <3>2, InAppend DEF PhoneReceive, TypeInv, PhoneOK
      <3> QED BY <2>2, <3>3 DEF PhoneReceive, TypeInv, PhoneOK
    <2>3. CASE PhoneSaved
      BY <2>3, PhoneFields DEF PhoneSaved, TypeInv, PhoneOK
    <2> QED BY <2>1, <2>2, <2>3
  <1> QED BY <1>1, <1>2, <1>3, <1>4, <1>5 DEF TypeInv

\* A flush of the phone keeps the types.
LEMMA PhoneFlushType ==
    ASSUME TypeInv, PhoneFlush
    PROVE  TypeInv'
  <1>1. StoreOK' /\ ProcOK' /\ CountOK'
    BY Frame DEF PhoneFlush, macVars
  <1>2. phone.cur \in Blobs /\ phone.cur # None /\ flush' = phone.cur
    BY PhoneFields, Constants DEF PhoneFlush
  <1>3. PhoneOK'
    BY <1>2 DEF PhoneFlush, TypeInv, PhoneOK
  <1>4. WireOK' /\ PostOK'
    <2>1. CASE ws # None
      <3>1. toMac' = Append(toMac, phone.cur) /\ UNCHANGED <<ws, toPhone, post>> /\ flush = None
        BY <2>1 DEF PhoneFlush
      <3>2. toMac' \in Seq(Blobs)
        BY <1>2, <3>1, InAppend DEF TypeInv, WireOK
      <3>3. post.pc = "none" /\ post.blob = None
        BY <3>1 DEF TypeInv, PostOK
      <3> QED BY <3>1, <3>2, <3>3 DEF TypeInv, WireOK, PostOK
    <2>2. CASE ws = None
      <3>1. /\ UNCHANGED <<ws, toPhone, toMac>>
            /\ post' = [blob |-> phone.cur, pc |-> "sent"]
        BY <2>2 DEF PhoneFlush
      <3> QED BY <1>2, <3>1 DEF TypeInv, WireOK, PostOK
    <2> QED BY <2>1, <2>2
  <1> QED BY <1>1, <1>3, <1>4 DEF TypeInv

\* The ends of a flush of the phone keep the types.
LEMMA PhoneEndType ==
    ASSUME TypeInv, PhoneSent \/ PostFails \/ PhoneRestarts
    PROVE  TypeInv'
  <1>1. StoreOK' /\ ProcOK'
    BY Frame DEF PhoneSent, PostFails, PhoneRestarts, macVars
  <1>2. CountOK'
    BY BoundsAssumption DEF PhoneSent, PostFails, PhoneRestarts, TypeInv, CountOK, Causes
  <1>3. post' = [blob |-> None, pc |-> "none"] /\ flush' = None
    BY DEF PhoneSent, PostFails, PhoneRestarts
  <1>4. WireOK' /\ PostOK'
    <2>1. \/ UNCHANGED <<ws, toPhone, toMac>>
          \/ ws' = None /\ toPhone' = <<>> /\ toMac' = <<>>
      BY DEF PhoneSent, PostFails, PhoneRestarts
    <2>2. <<>> \in Seq(Blobs)
      OBVIOUS
    <2>3. WireOK'
      BY <1>3, <2>1, <2>2 DEF TypeInv, WireOK
    <2> QED BY <1>3, <2>3 DEF PostOK
  <1>5. phone' \in [cur : Blobs, dirty : BOOLEAN, store : Blobs]
    BY PhoneFields DEF PhoneSent, PostFails, PhoneRestarts, TypeInv, PhoneOK
  <1>6. PhoneOK'
    <2>1. saving' \in {saving, <<>>} /\ <<>> \in Seq(Saves)
      BY DEF PhoneSent, PostFails, PhoneRestarts
    <2> QED BY <1>3, <1>5, <2>1 DEF TypeInv, PhoneOK
  <1> QED BY <1>1, <1>2, <1>4, <1>6 DEF TypeInv

\* Every step keeps the types.
LEMMA NextTypeInv == TypeInv /\ [Next]_vars => TypeInv'
  <1> SUFFICES ASSUME TypeInv, [Next]_vars PROVE TypeInv'
    OBVIOUS
  <1>1. CASE Tick
    <2>1. CountOK'
      BY <1>1, BoundsAssumption DEF Tick, TypeInv, CountOK
    <2> QED BY <1>1, <2>1, Frame DEF Tick, TypeInv, macVars, wireVars, phoneVars
  <1>2. ASSUME NEW p \in Procs, Setters(p) PROVE TypeInv'
    BY <1>2, SettersSet, SetType
  <1>3. ASSUME NEW p \in Procs, PersistRead(p) \/ PersistWrite(p) \/ PersistFails(p)
        PROVE  TypeInv'
    BY <1>3, SaveType
  <1>4. ASSUME NEW p \in Procs,
               FlushNothing(p) \/ TakePending(p) \/ Requeue(p) \/ Connect(p)
        PROVE  TypeInv'
    BY <1>4, FlushType
  <1>5. ASSUME NEW p \in Procs, Send(p) PROVE TypeInv'
    BY <1>5, SendType
  <1>6. CASE WsIngest \/ PostIngest
    BY <1>6, IngestType
  <1>7. CASE Disconnect \/ MacRestarts
    BY <1>7, FaultType
  <1>8. CASE PhoneEdit \/ PhoneReceive \/ PhoneSaved
    BY <1>8, PhoneType
  <1>9. CASE PhoneFlush
    BY <1>9, PhoneFlushType
  <1>10. CASE PhoneSent \/ PostFails \/ PhoneRestarts
    BY <1>10, PhoneEndType
  <1>11. CASE UNCHANGED vars
    BY <1>11, Frame DEF vars, TypeInv, macVars, wireVars, phoneVars
  <1> QED BY <1>1, <1>2, <1>3, <1>4, <1>5, <1>6, <1>7, <1>8, <1>9, <1>10, <1>11
          DEF Next, Setters

\* The types hold in every state of every behaviour.
LEMMA TypesHold == Spec => []TypeInv
  <1>1. Init => TypeInv
    BY InitTypeInv
  <1>2. TypeInv /\ [Next]_vars => TypeInv'
    BY NextTypeInv
  <1> QED BY <1>1, <1>2, PTL DEF Spec


\* Every variable has its type, and a goroutine holds a blob exactly while it
\* is about to write it to settings.json or to send it.
THEOREM TypeCorrect == Spec => []TypeOK
  <1>1. TypeInv => TypeOK
    BY DEF TypeInv, TypeOK, CountOK, StoreOK, ProcOK, WireOK, PhoneOK, ProcStates, Places,
           Saves, Fits
  <1> QED BY <1>1, TypesHold, PTL

\* Causes are only added.
LEMMA CausesGrow == TypeInv /\ [Next]_vars => causes \subseteq causes'
  BY DEF Next, vars, Tick, SetNotificationsEnabled, SetClipboardMode, SetModeOrOutput,
         SetAppFilter, SetClipboardAllowSensitive, Set, PersistRead, PersistWrite,
         PersistFails, FlushNothing, TakePending, Send, Requeue, Connect, WsIngest,
         PostIngest, Disconnect, MacRestarts, PhoneEdit, PhoneReceive, PhoneSaved,
         PhoneFlush, PhoneSent, PostFails, PhoneRestarts

(***************************************************************************)
(* Nothing is stuck in the outbox.                                         *)
(***************************************************************************)

\* A goroutine that flushes, now or when it has saved.
Eager(p) ==
    \/ proc[p].pc = "flush"
    \/ proc[p].pc \in {"read", "write"} /\ proc[p].flushes

StuckInv ==
    pending /\ ws # None => \/ "noflush" \in causes \/ "requeue" \in causes
                            \/ \E p \in Procs : Eager(p)

\* A step that raises no flag and stops no goroutine that flushes.
LEMMA StuckFrame ==
    ASSUME StuckInv, pending' => pending, ws' # None => ws # None, causes \subseteq causes',
           \A p \in Procs : Eager(p) => Eager(p)'
    PROVE  StuckInv'
  BY DEF StuckInv

\* Every step keeps: a pending change has a process that will flush it, no
\* socket, or a cause.
LEMMA NextStuckInv == TypeInv /\ StuckInv /\ [Next]_vars => StuckInv'
  <1> SUFFICES ASSUME TypeInv, StuckInv, [Next]_vars PROVE StuckInv'
    OBVIOUS
  <1>a. causes \subseteq causes'
    BY CausesGrow
  <1>b. ASSUME UNCHANGED <<pending, proc>>, ws' \in {ws, None} PROVE StuckInv'
    BY <1>a, <1>b, StuckFrame DEF Eager
  <1>1. ASSUME NEW p \in Procs, NEW f \in BOOLEAN, Set(p, f) PROVE StuckInv'
    <2>1. CASE f
      <3>1. proc'[p] = St("read", None, f)
        BY <1>1, SetMoves, Moved
      <3>2. St("read", None, f).pc = "read" /\ St("read", None, f).flushes = f
        BY DEF St
      <3>3. proc'[p].pc = "read" /\ proc'[p].flushes
        BY <2>1, <3>1, <3>2
      <3>4. Eager(p)'
        BY <3>3 DEF Eager
      <3> QED BY <3>4 DEF StuckInv
    <2>2. CASE ~f
      BY <1>1, <2>2 DEF Set, StuckInv
    <2> QED BY <2>1, <2>2
  <1>2. ASSUME NEW p \in Procs, PersistRead(p) PROVE StuckInv'
    <2>1. /\ proc'[p] = St("write", cur, proc[p].flushes)
          /\ \A q \in Procs \ {p} : proc'[q] = proc[q]
      BY <1>2, ReadMoves, Moved
    <2>2. proc[p].flushes \in BOOLEAN /\ cur \in Blobs /\ cur # None
      BY ProcFields, Constants DEF TypeInv, StoreOK
    <2>3. proc'[p].pc = "write" /\ proc'[p].flushes = proc[p].flushes
      BY <2>1, <2>2, StOK DEF Places
    <2>4. proc[p].pc = "read"
      BY <1>2, ReadMoves
    <2>5. \A q \in Procs : Eager(q) => Eager(q)'
      BY <2>1, <2>3, <2>4 DEF Eager
    <2> QED BY <1>a, <1>2, <2>5, StuckFrame DEF PersistRead, wireVars
  <1>3. ASSUME NEW p \in Procs, PersistWrite(p) \/ PersistFails(p) PROVE StuckInv'
    <2>1. /\ proc'[p] = IF proc[p].flushes THEN St("flush", None, TRUE) ELSE Idle
          /\ \A q \in Procs \ {p} : proc'[q] = proc[q]
      BY <1>3, SaveMoves, Moved
    <2>2. proc[p].pc = "write"
      BY <1>3, SaveMoves
    <2>3. proc[p].flushes => proc'[p].pc = "flush"
      BY <2>1 DEF St
    <2>4. \A q \in Procs : Eager(q) => Eager(q)'
      BY <2>1, <2>2, <2>3 DEF Eager
    <2> QED BY <1>a, <1>3, <2>4, StuckFrame DEF PersistWrite, PersistFails, wireVars
  <1>4. ASSUME NEW p \in Procs, FlushNothing(p) \/ TakePending(p) PROVE StuckInv'
    BY <1>4 DEF FlushNothing, TakePending, StuckInv, wireVars
  <1>5. ASSUME NEW p \in Procs, Send(p) PROVE StuckInv'
    <2>1. proc[p].pc = "send" /\ \A q \in Procs \ {p} : proc'[q] = proc[q]
      BY <1>5, SendMoves, Moved
    <2>2. \A q \in Procs : Eager(q) => Eager(q)'
      BY <2>1 DEF Eager
    <2> QED BY <1>a, <1>5, <2>2, StuckFrame DEF Send
  <1>6. ASSUME NEW p \in Procs, Requeue(p) PROVE StuckInv'
    BY <1>6 DEF Requeue, StuckInv, wireVars
  <1>7. ASSUME NEW p \in Procs, Connect(p) PROVE StuckInv'
    <2>1. proc'[p] = St("flush", None, proc[p].flushes) /\ proc[p].flushes \in BOOLEAN
      BY <1>7, ConnectMoves, Moved, ProcFields
    <2>2. Eager(p)'
      BY <2>1, StOK DEF Eager, Places
    <2> QED BY <2>2 DEF StuckInv
  <1>8. CASE WsIngest \/ PostIngest
    <2>1. \E p \in Procs, b \in Blobs : Adopts(p, b) \/ Drops(b)
      BY <1>8, WsMoves, PostMoves
    <2>2. ~pending' \/ UNCHANGED <<pending, proc>>
      BY <2>1 DEF Adopts, Drops
    <2> QED BY <1>b, <1>8, <2>2 DEF WsIngest, PostIngest, StuckInv
  <1>9. CASE Disconnect \/ MacRestarts
    BY <1>9 DEF Disconnect, MacRestarts, StuckInv
  <1>10. CASE \/ Tick \/ PhoneEdit \/ PhoneReceive \/ PhoneSaved \/ PhoneFlush
              \/ PhoneSent \/ PostFails \/ PhoneRestarts \/ UNCHANGED vars
    BY <1>b, <1>10 DEF Tick, PhoneEdit, PhoneReceive, PhoneSaved, PhoneFlush, PhoneSent,
         PostFails, PhoneRestarts, vars, macVars, wireVars
  <1> QED BY <1>1, <1>2, <1>3, <1>4, <1>5, <1>6, <1>7, <1>8, <1>9, <1>10, SettersSet
          DEF Next, Setters

\* With a socket up and no goroutine under way the outbox is empty, for any
\* number of setters, sockets and faults, except after the setter that never
\* flushes or a blob put back too late (flushPendingToPhone, requeueSettings,
\* OnWSConnect).
THEOREM OutboxDrains == Spec => []NothingStuck
  <1>1. Init => StuckInv
    BY DEF Init, StuckInv
  <1>2. TypeInv /\ StuckInv /\ [Next]_vars => StuckInv'
    BY NextStuckInv
  <1>3. StuckInv => NothingStuck
    BY DEF StuckInv, NothingStuck, AllIdle, At, Eager
  <1> QED BY <1>1, <1>2, <1>3, TypesHold, PTL DEF Spec


(***************************************************************************)
(* Last writer wins: the order of blobs.                                   *)
(***************************************************************************)

\* A blob wins over another by its second, then by its side, and two that do
\* not win over each other have the same of both.
LEMMA WinsOrder ==
    ASSUME NEW a \in Blobs, NEW b \in Blobs, NEW c \in Blobs
    PROVE  /\ ~RemoteSettingsWins(a, a)
           /\ RemoteSettingsWins(a, b) /\ RemoteSettingsWins(b, c) => RemoteSettingsWins(a, c)
           /\ RemoteSettingsWins(a, b) => ~RemoteSettingsWins(b, a)
           /\ ~RemoteSettingsWins(a, b) /\ RemoteSettingsWins(a, c) => RemoteSettingsWins(b, c)
           /\ ~RemoteSettingsWins(a, b) /\ ~RemoteSettingsWins(b, a)
                => a.at = b.at /\ a.by = b.by
  <1>1. /\ a.at \in Nat /\ b.at \in Nat /\ c.at \in Nat
        /\ a.by \in {"mac", "android"} /\ b.by \in {"mac", "android"}
        /\ c.by \in {"mac", "android"}
    BY BoundsAssumption DEF Blobs
  <1> QED BY <1>1 DEF RemoteSettingsWins

\* No blob is from the future, and the phone has stored what it holds.
StampsOK ==
    /\ cur.at <= now /\ file.at <= now
    /\ \A p \in Procs : proc[p].blob # None => proc[p].blob.at <= now
    /\ \A b : In(b, toPhone) \/ In(b, toMac) => b.at <= now
    /\ phone.cur.at <= now /\ phone.store = phone.cur
    /\ \A x : In(x, saving) => x.blob.at <= now
    /\ flush # None => flush.at <= now

\* The goroutines' blobs after a move: the old ones, and the one moved to.
LEMMA MovedBlobs ==
    ASSUME TypeInv, NEW p \in Procs, NEW x, Moves(p, x)
    PROVE  \A q \in Procs : \/ proc'[q].blob = proc[q].blob
                            \/ q = p /\ proc'[q].blob = x.blob
  <1>1. proc'[p] = x /\ \A q \in Procs \ {p} : proc'[q] = proc[q]
    BY Moved
  <1> QED BY <1>1

\* Every step keeps: no stamp, wherever it is, is ahead of the clock.
LEMMA NextStampsOK == TypeInv /\ StampsOK /\ [Next]_vars => StampsOK'
  <1> SUFFICES ASSUME TypeInv, StampsOK, [Next]_vars PROVE StampsOK'
    OBVIOUS
  <1>1. CASE Tick
    <2>1. /\ now \in Nat /\ now' = now + 1
          /\ UNCHANGED <<cur, file, proc, toPhone, toMac, phone, saving, flush>>
      BY <1>1 DEF Tick, TypeInv, CountOK, macVars, wireVars, phoneVars
    <2>2. \A b \in Blobs : b.at <= now => b.at <= now'
      BY <2>1 DEF Blobs
    <2>3. \A p \in Procs : proc[p].blob \in Blobs \cup {None}
      BY ProcFields
    <2>4. \A b : In(b, toPhone) \/ In(b, toMac) => b \in Blobs
      BY DEF TypeInv, WireOK, In
    <2>5. \A x : In(x, saving) => x.blob \in Blobs
      <3>1. \A x : In(x, saving) => x \in Saves
        BY DEF TypeInv, PhoneOK, In
      <3> QED BY <3>1 DEF Saves
    <2>6. cur \in Blobs /\ file \in Blobs /\ phone.cur \in Blobs /\ flush \in Blobs \cup {None}
      BY PhoneFields DEF TypeInv, StoreOK, PhoneOK
    <2> QED BY <2>1, <2>2, <2>3, <2>4, <2>5, <2>6 DEF StampsOK
  <1>2. ASSUME NEW p \in Procs, NEW f \in BOOLEAN, Set(p, f) PROVE StampsOK'
    <2>1. cur'.at = now' /\ now \in Nat
      BY <1>2, BoundsAssumption DEF Set, Stamp, TypeInv, CountOK
    <2>2. \A q \in Procs : proc'[q].blob # None => proc'[q].blob = proc[q].blob
      <3>1. Moves(p, St("read", None, f)) /\ St("read", None, f).blob = None
        BY <1>2, SetMoves DEF St
      <3> QED BY <3>1, MovedBlobs
    <2>3. UNCHANGED <<now, file, toPhone, toMac, phone, saving, flush>>
      BY <1>2 DEF Set, wireVars, phoneVars
    <2> QED BY <2>1, <2>2, <2>3 DEF StampsOK
  <1>3. ASSUME NEW p \in Procs, PersistRead(p) PROVE StampsOK'
    <2>1. Moves(p, St("write", cur, proc[p].flushes)) /\ St("write", cur, proc[p].flushes).blob = cur
      BY <1>3, ReadMoves DEF St
    <2>2. \A q \in Procs : proc'[q].blob # None => proc'[q].blob \in {proc[q].blob, cur}
      BY <2>1, MovedBlobs
    <2> QED BY <1>3, <2>2 DEF PersistRead, StampsOK, wireVars, phoneVars
  <1>4. ASSUME NEW p \in Procs, PersistWrite(p) \/ PersistFails(p) PROVE StampsOK'
    <2>1. \A q \in Procs : proc'[q].blob # None => proc'[q].blob = proc[q].blob
      <3>1. PICK x : x = IF proc[p].flushes THEN St("flush", None, TRUE) ELSE Idle
        OBVIOUS
      <3>2. Moves(p, x) /\ x.blob = None
        BY <1>4, <3>1, SaveMoves, Constants DEF St
      <3> QED BY <3>2, MovedBlobs
    <2>2. file' = file \/ (file' = proc[p].blob /\ proc[p].blob # None)
      BY <1>4, ProcFields, SaveMoves DEF PersistWrite, PersistFails
    <2> QED BY <1>4, <2>1, <2>2 DEF PersistWrite, PersistFails, StampsOK, wireVars, phoneVars
  <1>5. ASSUME NEW p \in Procs, FlushNothing(p) \/ Requeue(p) PROVE StampsOK'
    <2>1. \A q \in Procs : proc'[q].blob # None => proc'[q].blob = proc[q].blob
      BY <1>5, FinishMoves, MovedBlobs, Constants
    <2> QED BY <1>5, <2>1 DEF FlushNothing, Requeue, StampsOK, wireVars, phoneVars
  <1>6. ASSUME NEW p \in Procs, TakePending(p) PROVE StampsOK'
    <2>1. Moves(p, St("send", cur, proc[p].flushes)) /\ St("send", cur, proc[p].flushes).blob = cur
      BY <1>6, TakeMoves DEF St
    <2>2. \A q \in Procs : proc'[q].blob # None => proc'[q].blob \in {proc[q].blob, cur}
      BY <2>1, MovedBlobs
    <2> QED BY <1>6, <2>2 DEF TakePending, StampsOK, wireVars, phoneVars
  <1>7. ASSUME NEW p \in Procs, Send(p) PROVE StampsOK'
    <2>1. proc[p].blob \in Blobs /\ proc[p].blob # None
      BY <1>7, SendMoves, Constants
    <2>2. \A q \in Procs : proc'[q].blob # None => proc'[q].blob = proc[q].blob
      <3>1. \E x : Moves(p, x) /\ x.blob \in {None, proc[p].blob}
        <4>1. CASE Moves(p, Idle)
          BY <4>1, Constants
        <4>2. CASE Moves(p, St("requeue", proc[p].blob, proc[p].flushes))
          <5>1. St("requeue", proc[p].blob, proc[p].flushes).blob = proc[p].blob
            BY DEF St
          <5> QED BY <4>2, <5>1
        <4> QED BY <1>7, <4>1, <4>2, SendMoves
      <3>2. PICK x : Moves(p, x) /\ x.blob \in {None, proc[p].blob}
        BY <3>1
      <3> QED BY <3>2, MovedBlobs
    <2>3. \A b : In(b, toPhone') => In(b, toPhone) \/ b = proc[p].blob
      <3>1. toPhone' \in {toPhone, Append(toPhone, proc[p].blob)} /\ toPhone \in Seq(Blobs)
        BY <1>7, SendMoves DEF TypeInv, WireOK
      <3>2. \A b : In(b, Append(toPhone, proc[p].blob)) <=> In(b, toPhone) \/ b = proc[p].blob
        BY <2>1, <3>1, InAppend
      <3> QED BY <3>1, <3>2
    <2>4. (\A b : In(b, toPhone) => b.at <= now)'
      BY <1>7, <2>1, <2>3 DEF StampsOK, Send
    <2> QED BY <1>7, <2>2, <2>4 DEF Send, StampsOK, phoneVars
  <1>8. ASSUME NEW p \in Procs, Connect(p) PROVE StampsOK'
    <2>1. /\ Moves(p, St("flush", None, proc[p].flushes))
          /\ St("flush", None, proc[p].flushes).blob = None
      BY <1>8, ConnectMoves DEF St
    <2>2. \A q \in Procs : proc'[q].blob # None => proc'[q].blob = proc[q].blob
      BY <2>1, MovedBlobs
    <2> QED BY <1>8, <2>2 DEF Connect, StampsOK, phoneVars
  <1>9. CASE WsIngest \/ PostIngest
    <2>1. PICK p \in Procs, b \in Blobs : (Adopts(p, b) \/ Drops(b)) /\ b.at <= now
      <3>1. CASE WsIngest
        <4>1. In(Head(toMac), toMac)
          BY <3>1, WsMoves, InTail DEF TypeInv, WireOK
        <4> QED BY <3>1, <4>1, WsMoves DEF StampsOK
      <3>2. CASE PostIngest
        BY <3>2, PostMoves, Constants DEF StampsOK
      <3> QED BY <1>9, <3>1, <3>2
    <2>2. \A q \in Procs : proc'[q].blob # None => proc'[q].blob = proc[q].blob
      <3>1. St("read", None, FALSE).blob = None
        BY DEF St
      <3> QED BY <2>1, <3>1, MovedBlobs, ZenonT(60) DEF Adopts, Drops
    <2>3. cur' \in {cur, b}
      BY <2>1 DEF Adopts, Drops
    <2>4. \A c : In(c, toMac') => In(c, toMac)
      BY <1>9, InTail DEF WsIngest, PostIngest, TypeInv, WireOK
    <2>5. (\A c : In(c, toMac) => c.at <= now)'
      BY <1>9, <2>4 DEF WsIngest, PostIngest, StampsOK
    <2> QED BY <1>9, <2>1, <2>2, <2>3, <2>5 DEF WsIngest, PostIngest, StampsOK, phoneVars
  <1>10. CASE Disconnect
    BY <1>10, InEmpty DEF Disconnect, StampsOK, macVars, phoneVars
  <1>11. CASE MacRestarts
    <2>1. cur'.at <= now /\ file' = cur'
      <3>1. now \in Nat
        BY BoundsAssumption DEF TypeInv, CountOK
      <3> QED BY <1>11, <3>1, RestartMoves DEF StampsOK
    <2>2. \A q \in Procs : proc'[q].blob = None
      BY <1>11, RestartMoves, Constants
    <2> QED BY <1>11, <2>1, <2>2, InEmpty DEF MacRestarts, StampsOK, phoneVars
  <1>12. CASE PhoneEdit
    <2> DEFINE y == [blob |-> Stamp(edits + 1, "android"), dirty |-> TRUE]
    <2>1. edits + 1 \in 0..MaxEdits /\ now \in Nat
      BY <1>12, BoundsAssumption DEF PhoneEdit, TypeInv, CountOK
    <2>2. y \in Saves /\ y.blob.at <= now
      <3>1. Stamp(edits + 1, "android") \in Blobs /\ Stamp(edits + 1, "android").at = now
        BY <2>1, StampOK
      <3>2. y \in Saves /\ y.blob = Stamp(edits + 1, "android")
        BY <3>1, SaveFields
      <3> QED BY <2>1, <3>1, <3>2
    <2>3. saving' = Append(saving, y)
      BY <1>12 DEF PhoneEdit
    <2> HIDE DEF y
    <2>4. \A x : In(x, saving') => In(x, saving) \/ x = y
      BY <2>2, <2>3, InAppend DEF TypeInv, PhoneOK
    <2>5. (\A x : In(x, saving) => x.blob.at <= now)'
      <3>1. \A x : In(x, saving') => x.blob.at <= now
        BY <2>2, <2>4 DEF StampsOK
      <3> QED BY <1>12, <3>1 DEF PhoneEdit
    <2> QED BY <1>12, <2>5 DEF PhoneEdit, StampsOK, macVars, wireVars
  <1>13. CASE PhoneReceive
    <2> DEFINE y == [blob |-> Head(toPhone), dirty |-> FALSE]
    <2>1. Head(toPhone) \in Blobs /\ In(Head(toPhone), toPhone)
      BY <1>13, InTail DEF PhoneReceive, TypeInv, WireOK
    <2>2. y \in Saves /\ y.blob.at <= now
      BY <2>1, SaveFields DEF StampsOK
    <2>3. saving' \in {saving, Append(saving, y)}
      BY <1>13 DEF PhoneReceive
    <2> HIDE DEF y
    <2>4. \A x : In(x, saving') => In(x, saving) \/ x = y
      BY <2>2, <2>3, InAppend, ZenonT(60) DEF TypeInv, PhoneOK
    <2>5. (\A x : In(x, saving) => x.blob.at <= now)'
      BY <1>13, <2>2, <2>4 DEF StampsOK, PhoneReceive
    <2>6. \A c : In(c, toPhone') => In(c, toPhone)
      BY <1>13, InTail DEF PhoneReceive, TypeInv, WireOK
    <2>7. (\A c : In(c, toPhone) => c.at <= now)'
      BY <1>13, <2>6 DEF PhoneReceive, StampsOK
    <2> QED BY <1>13, <2>5, <2>7 DEF PhoneReceive, StampsOK, macVars
  <1>14. CASE PhoneSaved
    <2>1. In(Head(saving), saving) /\ \A x : In(x, saving') => In(x, saving)
      BY <1>14, InTail DEF PhoneSaved, TypeInv, PhoneOK
    <2>2. phone'.cur = Head(saving).blob /\ phone'.store = phone'.cur
      BY <1>14 DEF PhoneSaved
    <2>3. (\A x : In(x, saving) => x.blob.at <= now)'
      BY <1>14, <2>1 DEF PhoneSaved, StampsOK
    <2> QED BY <1>14, <2>1, <2>2, <2>3 DEF PhoneSaved, StampsOK, macVars, wireVars
  <1>15. CASE PhoneFlush
    <2>1. \A b : In(b, toMac') => In(b, toMac) \/ b = phone.cur
      <3>1. toMac' \in {toMac, Append(toMac, phone.cur)} /\ toMac \in Seq(Blobs)
        BY <1>15 DEF PhoneFlush, TypeInv, WireOK
      <3>2. phone.cur \in Blobs
        BY PhoneFields
      <3>3. \A b : In(b, Append(toMac, phone.cur)) <=> In(b, toMac) \/ b = phone.cur
        BY <3>1, <3>2, InAppend
      <3> QED BY <3>1, <3>3
    <2>2. (\A b : In(b, toMac) => b.at <= now)'
      BY <1>15, <2>1 DEF PhoneFlush, StampsOK
    <2> QED BY <1>15, <2>2 DEF PhoneFlush, StampsOK, macVars
  <1>16. CASE PhoneSent \/ PostFails
    <2>1. phone'.cur = phone.cur /\ phone'.store = phone.store /\ flush' = None
      BY <1>16 DEF PhoneSent, PostFails, TypeInv, PhoneOK
    <2> QED BY <1>16, <2>1 DEF PhoneSent, PostFails, StampsOK, macVars
  <1>17. CASE PhoneRestarts
    <2>1. phone'.cur = phone.store /\ phone'.store = phone.store
      BY <1>17 DEF PhoneRestarts, TypeInv, PhoneOK
    <2> QED BY <1>17, <2>1, InEmpty DEF PhoneRestarts, StampsOK, macVars
  <1>18. CASE UNCHANGED vars
    BY <1>18 DEF vars, StampsOK, macVars, wireVars, phoneVars
  <1> QED BY <1>1, <1>2, <1>3, <1>4, <1>5, <1>6, <1>7, <1>8, <1>9, <1>10, <1>11, <1>12,
             <1>13, <1>14, <1>15, <1>16, <1>17, <1>18, SettersSet
          DEF Next, Setters

\* No blob anywhere is stamped later than now, in every reachable state.
LEMMA StampsHold == Spec => []StampsOK
  <1>1. Init => StampsOK
    BY InEmpty, Constants DEF Init, StampsOK
  <1>2. TypeInv /\ StampsOK /\ [Next]_vars => StampsOK'
    BY NextStampsOK
  <1> QED BY <1>1, <1>2, TypesHold, PTL DEF Spec


(***************************************************************************)
(* settings.json keeps the last choice.                                    *)
(***************************************************************************)

\* Goroutine p is about to make the file hold the blob in memory.
WillSave(p) == proc[p].pc = "read" \/ (proc[p].pc = "write" /\ proc[p].blob = cur)

\* No goroutine is about to write a blob that would win over the one in
\* memory, and the file lags behind only while somebody is about to write.
FileInv ==
    /\ \A p \in Procs : proc[p].pc = "write" => ~RemoteSettingsWins(cur, proc[p].blob)
    /\ \/ "overlap" \in causes \/ "save" \in causes
       \/ file = cur
       \/ \E p \in Procs : WillSave(p)

\* A step that leaves the store and the file alone and moves a goroutine that
\* is not about to write to a place where it is not either.
LEMMA FileFrame ==
    ASSUME FileInv, UNCHANGED <<cur, file>>, causes \subseteq causes',
           \A p \in Procs : \/ proc'[p] = proc[p]
                            \/ proc[p].pc \notin {"read", "write"} /\ proc'[p].pc # "write"
    PROVE  FileInv'
  <1>1. \A p \in Procs : WillSave(p) => WillSave(p)'
    BY DEF WillSave
  <1>2. (\A p \in Procs : proc[p].pc = "write" => ~RemoteSettingsWins(cur, proc[p].blob))'
    BY DEF FileInv
  <1> QED BY <1>1, <1>2 DEF FileInv

\* A blob that takes the place of cur and p is about to save.
LEMMA FileReplaced ==
    ASSUME TypeInv, FileInv, NEW p \in Procs, NEW x, Moves(p, x), x.pc = "read",
           cur' \in Blobs,
           \A b \in Blobs : ~RemoteSettingsWins(cur, b) => ~RemoteSettingsWins(cur', b)
    PROVE  FileInv'
  <1>1. proc'[p] = x /\ \A q \in Procs \ {p} : proc'[q] = proc[q]
    BY Moved
  <1>2. \A q \in Procs : proc[q].pc = "write" => proc[q].blob \in Blobs
    BY ProcFields
  <1>3. \A q \in Procs : proc'[q].pc = "write" => ~RemoteSettingsWins(cur', proc'[q].blob)
    BY <1>1, <1>2 DEF FileInv
  <1>4. WillSave(p)'
    BY <1>1 DEF WillSave
  <1>5. (\A q \in Procs : proc[q].pc = "write" => ~RemoteSettingsWins(cur, proc[q].blob))'
    BY <1>3
  <1> QED BY <1>4, <1>5 DEF FileInv

\* Every step keeps: the file holds the Mac's blob, or a process that will save
\* it is under way.
LEMMA NextFileInv == TypeInv /\ StampsOK /\ FileInv /\ [Next]_vars => FileInv'
  <1> SUFFICES ASSUME TypeInv, StampsOK, FileInv, [Next]_vars PROVE FileInv'
    OBVIOUS
  <1>a. causes \subseteq causes'
    BY CausesGrow
  <1>b. ASSUME UNCHANGED <<cur, file, proc>> PROVE FileInv'
    BY <1>a, <1>b, FileFrame
  <1>1. ASSUME NEW p \in Procs, NEW f \in BOOLEAN, Set(p, f) PROVE FileInv'
    <2>1. edits + 1 \in 0..MaxEdits
      BY <1>1, BoundsAssumption DEF Set, TypeInv, CountOK
    <2>2. cur' \in Blobs /\ cur'.at = now /\ cur'.by = "mac" /\ cur \in Blobs
      BY <1>1, <2>1, StampOK DEF Set, TypeInv, StoreOK
    <2>3. now \in Nat /\ cur.at \in Nat /\ cur.at <= now
      BY <2>2, BoundsAssumption DEF TypeInv, CountOK, StampsOK, Blobs
    <2>4. ASSUME NEW b \in Blobs, ~RemoteSettingsWins(cur, b)
          PROVE  ~RemoteSettingsWins(cur', b)
      <3>1. b.at \in Nat
        BY BoundsAssumption DEF Blobs
      <3>2. b.at <= cur.at
        BY <2>3, <2>4, <3>1 DEF RemoteSettingsWins
      <3>3. b.at <= now
        BY <2>3, <3>1, <3>2
      <3> QED BY <2>2, <2>3, <3>1, <3>3 DEF RemoteSettingsWins
    <2>5. Moves(p, St("read", None, f)) /\ St("read", None, f).pc = "read"
      BY <1>1, SetMoves DEF St
    <2> QED BY <2>2, <2>4, <2>5, FileReplaced
  <1>2. ASSUME NEW p \in Procs, PersistRead(p) PROVE FileInv'
    <2>1. UNCHANGED <<cur, file>>
      BY <1>2 DEF PersistRead
    <2>2. /\ proc'[p] = St("write", cur, proc[p].flushes)
          /\ \A q \in Procs \ {p} : proc'[q] = proc[q]
      BY <1>2, ReadMoves, Moved
    <2>3. proc'[p].pc = "write" /\ proc'[p].blob = cur
      BY <2>2 DEF St
    <2>4. ~RemoteSettingsWins(cur, cur)
      BY WinsOrder DEF TypeInv, StoreOK
    <2>5. \A q \in Procs : proc'[q].pc = "write" => ~RemoteSettingsWins(cur', proc'[q].blob)
      BY <2>1, <2>2, <2>3, <2>4 DEF FileInv
    <2>6. WillSave(p)'
      BY <2>1, <2>3 DEF WillSave
    <2>7. (\A q \in Procs : proc[q].pc = "write" => ~RemoteSettingsWins(cur, proc[q].blob))'
      BY <2>5
    <2> QED BY <2>6, <2>7 DEF FileInv
  <1>3. ASSUME NEW p \in Procs, PersistWrite(p) \/ PersistFails(p) PROVE FileInv'
    <2>1. PICK x : x = IF proc[p].flushes THEN St("flush", None, TRUE) ELSE Idle
      OBVIOUS
    <2>2. Moves(p, x) /\ x.pc # "write" /\ proc[p].pc = "write"
      BY <1>3, <2>1, SaveMoves, Constants DEF St
    <2>3. proc'[p].pc # "write" /\ \A q \in Procs \ {p} : proc'[q] = proc[q]
      BY <2>2, Moved
    <2>4. UNCHANGED cur
      BY <1>3 DEF PersistWrite, PersistFails
    <2>5. (\A q \in Procs : proc[q].pc = "write" => ~RemoteSettingsWins(cur, proc[q].blob))'
      BY <2>3, <2>4 DEF FileInv
    <2>6. \A q \in Procs \ {p} : WillSave(q) => WillSave(q)'
      BY <2>3, <2>4 DEF WillSave
    <2>7. CASE PersistFails(p)
      BY <2>5, <2>7 DEF PersistFails, FileInv
    <2>8. CASE PersistWrite(p)
      <3>1. file' = proc[p].blob
        BY <2>8 DEF PersistWrite
      <3>2. CASE proc[p].blob = cur
        BY <2>4, <2>5, <3>1, <3>2 DEF FileInv
      <3>3. CASE proc[p].blob # cur
        <4>1. ~WillSave(p)
          BY <2>2, <3>3 DEF WillSave
        <4>2. CASE file = cur
          <5>1. ~RemoteSettingsWins(file, proc[p].blob) /\ file # proc[p].blob
            BY <2>2, <3>3, <4>2 DEF FileInv
          <5>2. "overlap" \in causes'
            BY <2>8, <5>1 DEF PersistWrite
          <5> QED BY <2>5, <5>2 DEF FileInv
        <4>3. CASE file # cur
          BY <1>a, <2>5, <2>6, <4>1, <4>3 DEF FileInv
        <4> QED BY <4>2, <4>3
      <3> QED BY <3>2, <3>3
    <2> QED BY <1>3, <2>7, <2>8
  <1>4. ASSUME NEW p \in Procs, NEW x, Moves(p, x), x.pc # "write",
               proc[p].pc \notin {"read", "write"}, UNCHANGED <<cur, file>>
        PROVE  FileInv'
    <2>1. proc'[p] = x /\ \A q \in Procs \ {p} : proc'[q] = proc[q]
      BY <1>4, Moved
    <2>2. \A q \in Procs : \/ proc'[q] = proc[q]
                           \/ proc[q].pc \notin {"read", "write"} /\ proc'[q].pc # "write"
      BY <1>4, <2>1
    <2> QED BY <1>a, <1>4, <2>2, FileFrame
  <1>5. ASSUME NEW p \in Procs, FlushNothing(p) \/ Requeue(p) PROVE FileInv'
    <2>1. Moves(p, Idle) /\ Idle.pc # "write"
      BY <1>5, FinishMoves, Constants
    <2>2. proc[p].pc \notin {"read", "write"} /\ UNCHANGED <<cur, file>>
      BY <1>5 DEF FlushNothing, Requeue, At
    <2> QED BY <1>4, <2>1, <2>2
  <1>6. ASSUME NEW p \in Procs, TakePending(p) PROVE FileInv'
    <2>1. PICK x : x = St("send", cur, proc[p].flushes)
      OBVIOUS
    <2>2. Moves(p, x) /\ x.pc # "write" /\ proc[p].pc \notin {"read", "write"}
      BY <1>6, <2>1, TakeMoves DEF St
    <2> QED BY <1>4, <1>6, <2>2 DEF TakePending
  <1>7. ASSUME NEW p \in Procs, Send(p) PROVE FileInv'
    <2>1. proc[p].pc \notin {"read", "write"} /\ UNCHANGED <<cur, file>>
      BY <1>7, SendMoves DEF Send
    <2>2. PICK x : Moves(p, x) /\ x.pc # "write"
      <3>1. CASE Moves(p, Idle)
        BY <3>1, Constants
      <3>2. CASE Moves(p, St("requeue", proc[p].blob, proc[p].flushes))
        <4>1. St("requeue", proc[p].blob, proc[p].flushes).pc # "write"
          BY DEF St
        <4> QED BY <3>2, <4>1
      <3> QED BY <1>7, <3>1, <3>2, SendMoves
    <2> QED BY <1>4, <2>1, <2>2
  <1>8. ASSUME NEW p \in Procs, Connect(p) PROVE FileInv'
    <2>1. PICK x : x = St("flush", None, proc[p].flushes)
      OBVIOUS
    <2>2. Moves(p, x) /\ x.pc # "write" /\ proc[p].pc \notin {"read", "write"}
      BY <1>8, <2>1, ConnectMoves DEF St
    <2> QED BY <1>4, <1>8, <2>2 DEF Connect
  <1>9. CASE WsIngest \/ PostIngest
    <2>1. PICK p \in Procs, b \in Blobs : Adopts(p, b) \/ Drops(b)
      BY <1>9, WsMoves, PostMoves
    <2>2. CASE Adopts(p, b)
      <3>1. PICK x : x = St("read", None, FALSE)
        OBVIOUS
      <3>2. Moves(p, x) /\ x.pc = "read"
        BY <2>2, <3>1 DEF Adopts, St
      <3>3. cur \in Blobs /\ cur' = b /\ RemoteSettingsWins(cur, b)
        BY <2>2 DEF Adopts, TypeInv, StoreOK
      <3>4. \A c \in Blobs : ~RemoteSettingsWins(cur, c) => ~RemoteSettingsWins(cur', c)
        BY <3>3, WinsOrder
      <3> QED BY <3>2, <3>3, <3>4, FileReplaced
    <2>3. CASE Drops(b)
      BY <1>b, <1>9, <2>3 DEF Drops, WsIngest, PostIngest
    <2> QED BY <2>1, <2>2, <2>3
  <1>10. CASE MacRestarts
    <2>1. file' = cur' /\ \A p \in Procs : proc'[p].pc = "idle"
      BY <1>10, RestartMoves, Constants
    <2> QED BY <2>1 DEF FileInv
  <1>11. CASE \/ Tick \/ Disconnect \/ PhoneEdit \/ PhoneReceive \/ PhoneSaved \/ PhoneFlush
              \/ PhoneSent \/ PostFails \/ PhoneRestarts \/ UNCHANGED vars
    BY <1>b, <1>11 DEF Tick, Disconnect, PhoneEdit, PhoneReceive, PhoneSaved, PhoneFlush,
         PhoneSent, PostFails, PhoneRestarts, vars, macVars
  <1> QED BY <1>1, <1>2, <1>3, <1>5, <1>6, <1>7, <1>8, <1>9, <1>10, <1>11, SettersSet
          DEF Next, Setters

\* With no call under way settings.json holds the blob in memory, however many
\* setters and adoptions raced, unless a save failed or an older blob was
\* written over a newer one (persistSnapshot, ingestSettingsBody).
THEOREM FileIsKept == Spec => []FileKeepsChoice
  <1>1. Init => FileInv
    BY Constants DEF Init, FileInv
  <1>2. TypeInv /\ StampsOK /\ FileInv /\ [Next]_vars => FileInv'
    BY NextFileInv
  <1>3. FileInv => FileKeepsChoice
    BY DEF FileInv, FileKeepsChoice, AllIdle, At, WillSave
  <1> QED BY <1>1, <1>2, <1>3, TypesHold, StampsHold, PTL DEF Spec


(***************************************************************************)
(* The two sides agree.                                                    *)
(***************************************************************************)

\* None of the exceptions of Agree has happened.
Calm == causes \cap {"order", "loss", "late", "restart"} = {}

Upto(b, c) == b = c \/ RemoteSettingsWins(b, c)

\* What the Mac stamped never wins over what the Mac holds, and what the phone
\* stamped never over what the phone holds; only the blob itself is as good.
Bound(b) ==
    /\ b.by = "mac" => Upto(b, cur)
    /\ b.by = "android" => Upto(b, phone.cur)

\* This is so wherever a blob is, except for the phone's edits whose save it
\* still awaits; and the phone sends and awaits only what it stamped.
BoundsOK ==
    /\ Bound(cur) /\ Bound(phone.cur)
    /\ \A p \in Procs : proc[p].blob # None => Bound(proc[p].blob)
    /\ \A b : In(b, toPhone) => Bound(b)
    /\ \A b : In(b, toMac) => b.by = "android" /\ Bound(b)
    /\ flush # None => flush.by = "android" /\ Bound(flush)
    /\ \A x : In(x, saving) => \/ x.dirty /\ x.blob.by = "android"
                               \/ ~x.dirty /\ x.blob.by = "mac" /\ Upto(x.blob, cur)

\* The blob of a flush is on its way or has been looked at, and the phone's
\* blob is dirty while it is the one being flushed.
FlushedOK ==
    /\ phone.dirty => phone.cur.by = "android"
    /\ flush # None => \/ In(flush, toMac)
                       \/ post.pc = "sent"
                       \/ ~RemoteSettingsWins(cur, flush)
    /\ flush = phone.cur => phone.dirty

\* The Mac's blob is on its way to the phone.
ToPhoneOn ==
    \/ pending
    \/ \E p \in Procs : proc[p].pc \in {"send", "requeue"} /\ proc[p].blob = cur
    \/ In(cur, toPhone)
    \/ \E x : In(x, saving) /\ x.blob = cur

\* The phone's blob is on its way to the Mac.
ToMacOn == phone.dirty \/ In(phone.cur, toMac)

\* Both sides hold the same blob, or the defaults they began with.
Same ==
    \/ cur = phone.cur
    \/ /\ cur = [n |-> 0, at |-> 0, by |-> "mac"]
       /\ phone.cur = [n |-> 0, at |-> 0, by |-> "android"]

\* When they differ, the blob that wins is on its way to the other side.
DifferOK ==
    \/ Same
    \/ RemoteSettingsWins(phone.cur, cur) /\ ToPhoneOn
    \/ RemoteSettingsWins(cur, phone.cur) /\ ToMacOn

AgreeInv == Calm => BoundsOK /\ FlushedOK /\ DifferOK

\* What follows from the absence of causes after a step.
LEMMA CalmSteps ==
    ASSUME TypeInv, Calm'
    PROVE  /\ \A p \in Procs, f \in BOOLEAN : Set(p, f) => RemoteSettingsWins(cur, cur')
           /\ PhoneSaved => RemoteSettingsWins(phone.cur, Head(saving).blob)
           /\ PhoneSent => ~phone.dirty \/ phone.cur = flush
           /\ Disconnect \/ MacRestarts \/ PhoneRestarts => toPhone = <<>> /\ toMac = <<>>
           /\ MacRestarts => ~pending /\ cur' = cur /\ \A p \in Procs : proc[p].pc = "idle"
           /\ PhoneRestarts => ~phone.dirty /\ saving = <<>>
  <1>1. \A p \in Procs, f \in BOOLEAN : Set(p, f) => RemoteSettingsWins(cur, cur')
    BY DEF Set, Note, Calm
  <1>2. PhoneSaved => RemoteSettingsWins(phone.cur, Head(saving).blob)
    BY DEF PhoneSaved, Note, Calm
  <1>3. PhoneSent => ~phone.dirty \/ phone.cur = flush
    BY DEF PhoneSent, Calm
  <1>4. Disconnect \/ MacRestarts \/ PhoneRestarts => toPhone = <<>> /\ toMac = <<>>
    <2>1. Disconnect \/ MacRestarts \/ PhoneRestarts => toPhone \o toMac = <<>>
      BY DEF Disconnect, MacRestarts, PhoneRestarts, Calm
    <2> QED BY <2>1, ConcatEmpty DEF TypeInv, WireOK
  <1>5. MacRestarts => ~pending /\ cur' = cur /\ \A p \in Procs : proc[p].pc = "idle"
    <2> SUFFICES ASSUME MacRestarts
                 PROVE  ~pending /\ cur' = cur /\ \A p \in Procs : proc[p].pc = "idle"
      OBVIOUS
    <2>1. ~(pending \/ (\E p \in Procs : ~At(p, "idle")) \/ file # cur)
      BY DEF MacRestarts, Calm
    <2>2. \A p \in Procs : proc[p].pc = "idle"
      BY <2>1 DEF At
    <2>3. cur' = file
      BY <2>2 DEF MacRestarts, At
    <2> QED BY <2>1, <2>2, <2>3
  <1>6. PhoneRestarts => ~phone.dirty /\ saving = <<>>
    BY DEF PhoneRestarts, Calm
  <1> QED BY <1>1, <1>2, <1>3, <1>4, <1>5, <1>6

\* The fields of the phone's state after a step.
LEMMA PhoneSteps ==
    ASSUME TypeInv, StampsOK
    PROVE  /\ PhoneSaved => /\ phone'.cur = Head(saving).blob
                            /\ phone'.dirty = Head(saving).dirty
           /\ PhoneSent => phone'.cur = phone.cur /\ phone'.dirty = FALSE
           /\ PhoneRestarts => phone'.cur = phone.cur /\ phone'.dirty = FALSE
  <1>1. PhoneSaved => /\ phone'.cur = Head(saving).blob
                      /\ phone'.dirty = Head(saving).dirty
    BY DEF PhoneSaved
  <1>2. PhoneSent => phone'.cur = phone.cur /\ phone'.dirty = FALSE
    BY DEF PhoneSent, TypeInv, PhoneOK
  <1>3. PhoneRestarts => phone'.cur = phone.cur /\ phone'.dirty = FALSE
    <2> SUFFICES ASSUME PhoneRestarts PROVE phone'.cur = phone.cur /\ phone'.dirty = FALSE
      OBVIOUS
    <2>1. phone'.cur = phone.store /\ phone'.dirty = FALSE
      BY DEF PhoneRestarts, TypeInv, PhoneOK
    <2>2. phone.store = phone.cur
      BY DEF StampsOK
    <2> QED BY <2>1, <2>2
  <1> QED BY <1>1, <1>2, <1>3

\* Without causes each side's blob is replaced only by one that wins over it.
LEMMA Rises ==
    ASSUME TypeInv, StampsOK, Calm', [Next]_vars
    PROVE  Upto(cur, cur') /\ Upto(phone.cur, phone'.cur)
  <1>1. Upto(cur, cur')
    <2>1. ASSUME NEW p \in Procs, Setters(p) PROVE Upto(cur, cur')
      BY <2>1, SettersSet, CalmSteps DEF Upto
    <2>2. CASE WsIngest \/ PostIngest
      BY <2>2, WsMoves, PostMoves DEF Adopts, Drops, Upto
    <2>3. CASE MacRestarts
      BY <2>3, CalmSteps DEF Upto
    <2>4. CASE UNCHANGED cur
      BY <2>4 DEF Upto
    <2> QED BY <2>1, <2>2, <2>3, <2>4 DEF Next, Setters, vars, Tick, PersistRead,
            PersistWrite, PersistFails, FlushNothing, TakePending, Send, Requeue, Connect,
            Disconnect, PhoneEdit, PhoneReceive, PhoneSaved, PhoneFlush, PhoneSent,
            PostFails, PhoneRestarts, macVars
  <1>2. Upto(phone.cur, phone'.cur)
    <2>1. CASE PhoneSaved \/ PhoneSent \/ PhoneRestarts
      BY <2>1, CalmSteps, PhoneSteps DEF Upto
    <2>2. CASE UNCHANGED phone
      BY <2>2 DEF Upto
    <2> QED BY <2>1, <2>2, SettersSet DEF Next, Setters, Set, vars, Tick, PersistRead,
            PersistWrite, PersistFails, FlushNothing, TakePending, Send, Requeue, Connect,
            WsIngest, PostIngest, Disconnect, MacRestarts, PhoneEdit, PhoneReceive,
            PhoneFlush, PostFails, phoneVars
  <1> QED BY <1>1, <1>2

\* So that a bound stays one.
LEMMA BoundKept ==
    ASSUME TypeInv, TypeInv', Upto(cur, cur'), Upto(phone.cur, phone'.cur),
           NEW b \in Blobs, Bound(b)
    PROVE  Bound(b)'
  <1>1. /\ cur \in Blobs /\ cur' \in Blobs
        /\ phone.cur \in Blobs /\ phone'.cur \in Blobs
    <2>1. cur \in Blobs /\ phone.cur \in Blobs
      BY DEF TypeInv, StoreOK, PhoneOK
    <2>2. (cur \in Blobs /\ phone.cur \in Blobs)'
      BY DEF TypeInv, StoreOK, PhoneOK
    <2> QED BY <2>1, <2>2
  <1>2. Upto(b, cur) => Upto(b, cur')
    BY <1>1, WinsOrder DEF Upto
  <1>3. Upto(b, phone.cur) => Upto(b, phone'.cur)
    BY <1>1, WinsOrder DEF Upto
  <1> QED BY <1>2, <1>3 DEF Bound


\* What is in the queues is a blob.
LEMMA Queued ==
    ASSUME TypeInv
    PROVE  /\ \A b : In(b, toPhone) \/ In(b, toMac) => b \in Blobs
           /\ \A x : In(x, saving) => /\ x \in Saves /\ x.blob \in Blobs
                                      /\ x.dirty \in BOOLEAN
           /\ cur \in Blobs /\ phone.cur \in Blobs
           /\ \A p \in Procs : proc[p].blob # None => proc[p].blob \in Blobs
           /\ flush # None => flush \in Blobs
  <1>1. \A b : In(b, toPhone) \/ In(b, toMac) => b \in Blobs
    BY DEF TypeInv, WireOK, In
  <1>2. \A x : In(x, saving) => x \in Saves
    BY DEF TypeInv, PhoneOK, In
  <1>3. cur \in Blobs /\ phone.cur \in Blobs /\ (flush # None => flush \in Blobs)
    BY DEF TypeInv, StoreOK, PhoneOK
  <1>4. \A p \in Procs : proc[p].blob # None => proc[p].blob \in Blobs
    BY ProcFields
  <1> QED BY <1>1, <1>2, <1>3, <1>4 DEF Saves

\* The bounds hold again when every blob is where it was, or new and bound.
LEMMA BoundsFrame ==
    ASSUME TypeInv, TypeInv', BoundsOK,
           Upto(cur, cur'), Upto(phone.cur, phone'.cur),
           cur' # cur => Bound(cur)',
           phone'.cur # phone.cur => Bound(phone.cur)',
           \A p \in Procs : proc'[p].blob # None =>
               proc'[p].blob = proc[p].blob \/ proc'[p].blob = cur,
           \A b : In(b, toPhone') => In(b, toPhone) \/ Bound(b),
           \A b : In(b, toMac') => In(b, toMac) \/ (b.by = "android" /\ Bound(b)),
           flush' # None => flush' = flush \/ (flush'.by = "android" /\ flush' = phone.cur),
           \A x : In(x, saving') =>
               \/ In(x, saving)
               \/ x.dirty /\ x.blob.by = "android"
               \/ ~x.dirty /\ x.blob.by = "mac" /\ Upto(x.blob, cur)
    PROVE  BoundsOK'
  <1>1. cur \in Blobs /\ cur' \in Blobs /\ phone.cur \in Blobs
    BY Queued DEF TypeInv, StoreOK
  <1>2. \A b \in Blobs : Bound(b) => Bound(b)'
    BY BoundKept
  <1>3. \A b \in Blobs : Upto(b, cur) => Upto(b, cur')
    BY <1>1, WinsOrder DEF Upto
  <1>4. Bound(cur)'
    <2>1. PICK c \in Blobs : c = cur
      BY <1>1
    <2>2. Bound(c)'
      BY <1>2, <2>1 DEF BoundsOK
    <2>3. cur' = cur => Bound(cur)'
      BY <2>1, <2>2 DEF Bound
    <2> QED BY <2>3
  <1>5. Bound(phone.cur)'
    <2>1. PICK c \in Blobs : c = phone.cur
      BY <1>1
    <2>2. Bound(c)'
      BY <1>2, <2>1 DEF BoundsOK
    <2>3. phone'.cur = phone.cur => Bound(phone.cur)'
      BY <2>1, <2>2 DEF Bound
    <2> QED BY <2>3
  <1>6. (\A p \in Procs : proc[p].blob # None => Bound(proc[p].blob))'
    <2>1. SUFFICES ASSUME NEW p \in Procs, proc'[p].blob # None PROVE Bound(proc[p].blob)'
      OBVIOUS
    <2>2. proc'[p].blob \in Blobs
      BY <2>1, Queued DEF TypeInv, ProcOK, ProcStates
    <2>3. PICK c \in Blobs : c = proc'[p].blob
      BY <2>2
    <2>4. Bound(c)
      BY <2>1, <2>3 DEF BoundsOK
    <2>5. Bound(c)'
      BY <1>2, <2>4
    <2> QED BY <2>3, <2>5 DEF Bound
  <1>7. (\A b : In(b, toPhone) => Bound(b))'
    <2>1. SUFFICES ASSUME NEW b, In(b, toPhone') PROVE Bound(b)'
      OBVIOUS
    <2>2. b \in Blobs
      BY <2>1 DEF TypeInv, WireOK, In
    <2> QED BY <1>2, <2>1, <2>2 DEF BoundsOK
  <1>8. (\A b : In(b, toMac) => b.by = "android" /\ Bound(b))'
    <2>1. SUFFICES ASSUME NEW b, In(b, toMac') PROVE b.by = "android" /\ Bound(b)'
      OBVIOUS
    <2>2. b \in Blobs
      BY <2>1 DEF TypeInv, WireOK, In
    <2> QED BY <1>2, <2>1, <2>2 DEF BoundsOK
  <1>9. (flush # None => flush.by = "android" /\ Bound(flush))'
    <2>1. SUFFICES ASSUME flush' # None PROVE flush'.by = "android" /\ Bound(flush)'
      OBVIOUS
    <2>2. PICK c \in Blobs : c = flush'
      BY <2>1 DEF TypeInv, PhoneOK
    <2>3. c.by = "android" /\ Bound(c)
      BY <2>1, <2>2 DEF BoundsOK
    <2>4. Bound(c)'
      BY <1>2, <2>3
    <2> QED BY <2>2, <2>3, <2>4 DEF Bound
  <1>10. (\A x : In(x, saving) => \/ x.dirty /\ x.blob.by = "android"
                                  \/ ~x.dirty /\ x.blob.by = "mac" /\ Upto(x.blob, cur))'
    <2>1. SUFFICES ASSUME NEW x, In(x, saving')
                   PROVE  \/ x.dirty /\ x.blob.by = "android"
                          \/ ~x.dirty /\ x.blob.by = "mac" /\ Upto(x.blob, cur')
      BY DEF Upto
    <2>2. x \in Saves
      BY <2>1 DEF TypeInv, PhoneOK, In
    <2>3. x.blob \in Blobs
      BY <2>2 DEF Saves
    <2> QED BY <1>3, <2>1, <2>3 DEF BoundsOK
  <1> QED BY <1>4, <1>5, <1>6, <1>7, <1>8, <1>9, <1>10 DEF BoundsOK


\* The blobs of the goroutines after a step.
LEMMA ProcBlobs ==
    ASSUME TypeInv, NEW p \in Procs,
           \/ \E f \in BOOLEAN : Set(p, f)
           \/ PersistRead(p) \/ PersistWrite(p) \/ PersistFails(p) \/ FlushNothing(p)
           \/ TakePending(p) \/ Send(p) \/ Requeue(p) \/ Connect(p)
    PROVE  \A q \in Procs : proc'[q].blob # None =>
               proc'[q].blob = proc[q].blob \/ proc'[q].blob = cur
  <1>1. \E x : Moves(p, x) /\ x.blob \in {None, cur, proc[p].blob}
    <2>1. ASSUME NEW f \in BOOLEAN, Set(p, f)
          PROVE  \E x : Moves(p, x) /\ x.blob \in {None, cur, proc[p].blob}
      <3>1. St("read", None, f).blob = None
        BY DEF St
      <3> QED BY <2>1, <3>1, SetMoves
    <2>2. CASE PersistRead(p)
      <3>1. St("write", cur, proc[p].flushes).blob = cur
        BY DEF St
      <3> QED BY <2>2, <3>1, ReadMoves
    <2>3. CASE PersistWrite(p) \/ PersistFails(p)
      <3>1. PICK x : x = IF proc[p].flushes THEN St("flush", None, TRUE) ELSE Idle
        OBVIOUS
      <3>2. x.blob = None
        BY <3>1, Constants DEF St
      <3> QED BY <2>3, <3>1, <3>2, SaveMoves
    <2>4. CASE FlushNothing(p) \/ Requeue(p)
      BY <2>4, FinishMoves, Constants
    <2>5. CASE TakePending(p)
      <3>1. St("send", cur, proc[p].flushes).blob = cur
        BY DEF St
      <3> QED BY <2>5, <3>1, TakeMoves
    <2>6. CASE Send(p)
      <3>1. St("requeue", proc[p].blob, proc[p].flushes).blob = proc[p].blob
        BY DEF St
      <3> QED BY <2>6, <3>1, SendMoves, Constants
    <2>7. CASE Connect(p)
      <3>1. St("flush", None, proc[p].flushes).blob = None
        BY DEF St
      <3> QED BY <2>7, <3>1, ConnectMoves
    <2> QED BY <2>1, <2>2, <2>3, <2>4, <2>5, <2>6, <2>7
  <1>2. PICK x : Moves(p, x) /\ x.blob \in {None, cur, proc[p].blob}
    BY <1>1
  <1> QED BY <1>2, MovedBlobs

\* Every step keeps: no blob under way wins over the side that stamped it.
LEMMA NextBoundsOK ==
    ASSUME TypeInv, TypeInv', StampsOK, BoundsOK, FlushedOK, Calm', [Next]_vars
    PROVE  BoundsOK'
  <1>a. Upto(cur, cur') /\ Upto(phone.cur, phone'.cur)
    BY Rises
  <1>b. \A b : In(b, toPhone) => Bound(b)
    BY DEF BoundsOK
  <1>c. ASSUME UNCHANGED <<toPhone, toMac, saving, flush, phone>>,
               cur' # cur => Bound(cur)',
               \A p \in Procs : proc'[p].blob # None =>
                   proc'[p].blob = proc[p].blob \/ proc'[p].blob = cur
        PROVE  BoundsOK'
    BY <1>a, <1>c, BoundsFrame
  <1>1. ASSUME NEW p \in Procs, NEW f \in BOOLEAN, Set(p, f) PROVE BoundsOK'
    <2>1. cur'.by = "mac"
      BY <1>1 DEF Set, Stamp
    <2>2. Bound(cur)'
      BY <2>1 DEF Bound, Upto
    <2> QED BY <1>c, <1>1, <2>2, ProcBlobs DEF Set, wireVars, phoneVars
  <1>2. ASSUME NEW p \in Procs,
               \/ PersistRead(p) \/ PersistWrite(p) \/ PersistFails(p) \/ FlushNothing(p)
               \/ TakePending(p) \/ Requeue(p) \/ Connect(p)
        PROVE  BoundsOK'
    <2>1. UNCHANGED <<cur, toPhone, toMac, saving, flush, phone>>
      BY <1>2 DEF PersistRead, PersistWrite, PersistFails, FlushNothing, TakePending,
         Requeue, Connect, wireVars, phoneVars
    <2> QED BY <1>c, <1>2, <2>1, ProcBlobs
  <1>3. ASSUME NEW p \in Procs, Send(p) PROVE BoundsOK'
    <2>1. toPhone \in Seq(Blobs) /\ proc[p].blob \in Blobs /\ proc[p].blob # None
      BY <1>3, SendMoves, Constants DEF TypeInv, WireOK
    <2>2. \A b : In(b, Append(toPhone, proc[p].blob)) <=> In(b, toPhone) \/ b = proc[p].blob
      BY <2>1, InAppend
    <2>3. toPhone' \in {toPhone, Append(toPhone, proc[p].blob)}
      BY <1>3, SendMoves
    <2>4. Bound(proc[p].blob)
      BY <2>1 DEF BoundsOK
    <2>5. \A b : In(b, toPhone') => In(b, toPhone) \/ Bound(b)
      BY <2>2, <2>3, <2>4
    <2>6. UNCHANGED <<cur, toMac, saving, flush, phone>>
      BY <1>3 DEF Send, phoneVars
    <2> QED BY <1>a, <1>3, <2>5, <2>6, ProcBlobs, BoundsFrame
  <1>4. CASE WsIngest \/ PostIngest
    <2>1. PICK p \in Procs, b \in Blobs : /\ Adopts(p, b) \/ Drops(b)
                                          /\ b.by = "android" /\ Bound(b)
      <3>1. CASE WsIngest
        <4>1. In(Head(toMac), toMac)
          BY <3>1, WsMoves, InTail DEF TypeInv, WireOK
        <4> QED BY <3>1, <4>1, WsMoves DEF BoundsOK
      <3>2. CASE PostIngest
        BY <3>2, PostMoves, Constants DEF BoundsOK
      <3> QED BY <1>4, <3>1, <3>2
    <2>2. \A q \in Procs : proc'[q].blob # None => proc'[q].blob = proc[q].blob
      <3>1. St("read", None, FALSE).blob = None
        BY DEF St
      <3> QED BY <2>1, <3>1, MovedBlobs, ZenonT(60) DEF Adopts, Drops
    <2>3. cur' # cur => cur' = b
      BY <2>1 DEF Adopts, Drops
    <2>4. Bound(b)'
      BY <1>a, <2>1, BoundKept
    <2>5. cur' # cur => Bound(cur)'
      BY <2>3, <2>4 DEF Bound
    <2>6. \A c : In(c, toMac') => In(c, toMac)
      BY <1>4, InTail DEF WsIngest, PostIngest, TypeInv, WireOK
    <2>7. UNCHANGED <<toPhone, saving, flush, phone>>
      BY <1>4 DEF WsIngest, PostIngest, phoneVars
    <2> QED BY <1>a, <2>2, <2>5, <2>6, <2>7, BoundsFrame
  <1>5. CASE Disconnect \/ MacRestarts
    <2>1. UNCHANGED <<cur, phone, saving, flush>> /\ toPhone' = <<>> /\ toMac' = <<>>
      BY <1>5, CalmSteps DEF Disconnect, MacRestarts, macVars, phoneVars
    <2>2. \A q \in Procs : proc'[q].blob # None => proc'[q].blob = proc[q].blob
      BY <1>5, RestartMoves, Constants DEF Disconnect, macVars
    <2> QED BY <1>a, <2>1, <2>2, InEmpty, BoundsFrame
  <1>6. CASE PhoneEdit
    <2> DEFINE y == [blob |-> Stamp(edits + 1, "android"), dirty |-> TRUE]
    <2>1. edits + 1 \in 0..MaxEdits
      BY <1>6, BoundsAssumption DEF PhoneEdit, TypeInv, CountOK
    <2>2. y \in Saves /\ y.dirty /\ y.blob.by = "android"
      BY <2>1, StampOK, SaveFields
    <2>3. saving' = Append(saving, y)
      BY <1>6 DEF PhoneEdit
    <2> HIDE DEF y
    <2>4. \A x : In(x, saving') => In(x, saving) \/ x = y
      BY <2>2, <2>3, InAppend DEF TypeInv, PhoneOK
    <2>5. UNCHANGED <<cur, proc, toPhone, toMac, flush, phone>>
      BY <1>6 DEF PhoneEdit, macVars, wireVars
    <2> QED BY <1>a, <2>2, <2>4, <2>5, BoundsFrame
  <1>7. CASE PhoneReceive
    <2> DEFINE b == Head(toPhone)
               y == [blob |-> b, dirty |-> FALSE]
    <2>1. b \in Blobs /\ In(b, toPhone) /\ \A c : In(c, toPhone') => In(c, toPhone)
      BY <1>7, InTail DEF PhoneReceive, TypeInv, WireOK
    <2>2. y \in Saves /\ ~y.dirty /\ y.blob = b
      BY <2>1, SaveFields
    <2>3. /\ RemoteSettingsWins(phone.cur, b) => saving' = Append(saving, y)
          /\ ~RemoteSettingsWins(phone.cur, b) => saving' = saving
      BY <1>7 DEF PhoneReceive
    <2> HIDE DEF y, b
    <2>4. RemoteSettingsWins(phone.cur, b) => b.by = "mac" /\ Upto(b, cur)
      <3>1. Bound(b) /\ phone.cur \in Blobs /\ b.by \in {"mac", "android"}
        BY <2>1, Queued DEF BoundsOK, Blobs
      <3> QED BY <2>1, <3>1, WinsOrder DEF Bound, Upto
    <2>5. \A x : In(x, saving') => In(x, saving) \/ (x = y /\ RemoteSettingsWins(phone.cur, b))
      BY <2>2, <2>3, InAppend DEF TypeInv, PhoneOK
    <2>6. UNCHANGED <<cur, proc, toMac, flush, phone>>
      BY <1>7 DEF PhoneReceive, macVars
    <2>7. \A x : In(x, saving') => \/ In(x, saving)
                                   \/ ~x.dirty /\ x.blob.by = "mac" /\ Upto(x.blob, cur)
      BY <2>2, <2>4, <2>5
    <2> QED BY <1>a, <2>1, <2>6, <2>7, BoundsFrame
  <1>8. CASE PhoneSaved
    <2>1. In(Head(saving), saving) /\ \A x : In(x, saving') => In(x, saving)
      BY <1>8, InTail DEF PhoneSaved, TypeInv, PhoneOK
    <2>2. PICK b \in Blobs : b = Head(saving).blob
      BY <2>1, Queued
    <2>3. phone'.cur = b
      BY <1>8, <2>2, PhoneSteps
    <2>4. UNCHANGED <<cur, proc, toPhone, toMac, flush>>
      BY <1>8 DEF PhoneSaved, macVars, wireVars
    <2>5. b.by = "mac" => Upto(b, cur)
      BY <2>1, <2>2 DEF BoundsOK
    <2>6. Bound(phone.cur)'
      BY <2>3, <2>4, <2>5 DEF Bound, Upto
    <2> QED BY <1>a, <2>1, <2>4, <2>6, BoundsFrame
  <1>9. CASE PhoneFlush
    <2>1. phone.cur \in Blobs /\ phone.cur.by = "android" /\ Bound(phone.cur)
      BY <1>9, Queued DEF PhoneFlush, FlushedOK, BoundsOK
    <2>2. toMac' \in {toMac, Append(toMac, phone.cur)} /\ toMac \in Seq(Blobs)
      BY <1>9 DEF PhoneFlush, TypeInv, WireOK
    <2>3. \A b : In(b, Append(toMac, phone.cur)) <=> In(b, toMac) \/ b = phone.cur
      BY <2>1, <2>2, InAppend
    <2>4. \A b : In(b, toMac') => In(b, toMac) \/ (b.by = "android" /\ Bound(b))
      BY <2>1, <2>2, <2>3
    <2>5. UNCHANGED <<cur, proc, toPhone, saving, phone>> /\ flush' = phone.cur
      BY <1>9 DEF PhoneFlush, macVars
    <2> QED BY <1>a, <2>1, <2>4, <2>5, BoundsFrame
  <1>10. CASE PhoneSent \/ PostFails \/ PhoneRestarts
    <2>1. UNCHANGED <<cur, proc>> /\ phone'.cur = phone.cur /\ flush' = None
      BY <1>10, PhoneSteps DEF PhoneSent, PostFails, PhoneRestarts, macVars
    <2>2. \/ UNCHANGED <<toPhone, toMac, saving>>
          \/ toPhone' = <<>> /\ toMac' = <<>> /\ saving' = <<>>
      BY <1>10 DEF PhoneSent, PostFails, PhoneRestarts
    <2>3. /\ \A b : In(b, toPhone') => In(b, toPhone)
          /\ \A b : In(b, toMac') => In(b, toMac)
          /\ \A x : In(x, saving') => In(x, saving)
      BY <2>2, InEmpty
    <2> QED BY <1>a, <2>1, <2>3, BoundsFrame
  <1>11. CASE Tick \/ UNCHANGED vars
    BY <1>c, <1>11 DEF Tick, vars, macVars, wireVars, phoneVars
  <1> QED BY <1>1, <1>2, <1>3, <1>4, <1>5, <1>6, <1>7, <1>8, <1>9, <1>10, <1>11, SettersSet
          DEF Next, Setters


\* Every step keeps: what the phone flushes is on its way to the Mac, or the Mac
\* has seen it.
LEMMA NextFlushedOK ==
    ASSUME TypeInv, TypeInv', StampsOK, BoundsOK, FlushedOK, Calm', [Next]_vars
    PROVE  FlushedOK'
  <1>a. Upto(cur, cur')
    BY Rises
  <1>b. cur \in Blobs /\ cur' \in Blobs /\ phone.cur \in Blobs
    BY Queued DEF TypeInv, StoreOK
  <1>c. \A b \in Blobs : ~RemoteSettingsWins(cur, b) => ~RemoteSettingsWins(cur', b)
    BY <1>a, <1>b, WinsOrder DEF Upto
  <1>d. flush # None => flush \in Blobs
    BY Queued
  <1>e. ASSUME UNCHANGED <<phone, flush, post>>, In(flush, toMac) => In(flush, toMac')
        PROVE  FlushedOK'
    BY <1>c, <1>d, <1>e DEF FlushedOK
  <1>f. ASSUME flush' = None, phone'.dirty => phone.dirty, phone'.cur = phone.cur
        PROVE  FlushedOK'
    BY <1>b, <1>f, Constants DEF FlushedOK
  <1>1. ASSUME NEW p \in Procs, NEW f \in BOOLEAN, Set(p, f) PROVE FlushedOK'
    BY <1>e, <1>1 DEF Set, wireVars, phoneVars
  <1>2. ASSUME NEW p \in Procs,
               \/ PersistRead(p) \/ PersistWrite(p) \/ PersistFails(p) \/ FlushNothing(p)
               \/ TakePending(p) \/ Requeue(p) \/ Connect(p) \/ Send(p)
        PROVE  FlushedOK'
    <2>1. UNCHANGED <<toMac, post, flush, phone>>
      BY <1>2 DEF PersistRead, PersistWrite, PersistFails, FlushNothing, TakePending,
         Requeue, Connect, Send, wireVars, phoneVars
    <2> QED BY <1>e, <2>1
  <1>3. CASE WsIngest
    <2>1. UNCHANGED <<phone, flush, post>> /\ toMac' = Tail(toMac)
      BY <1>3 DEF WsIngest, phoneVars
    <2>2. CASE flush = Head(toMac)
      <3>1. flush \in Blobs
        BY <1>3, <2>2, WsMoves
      <3>2. ~RemoteSettingsWins(cur', flush)
        BY <1>3, <2>2, <3>1, WsMoves, WinsOrder DEF Adopts, Drops
      <3> QED BY <2>1, <3>2 DEF FlushedOK
    <2>3. CASE flush # Head(toMac)
      <3>1. In(flush, toMac) => In(flush, toMac')
        BY <1>3, <2>1, <2>3, InTail, WsMoves DEF TypeInv, WireOK
      <3> QED BY <1>e, <2>1, <3>1
    <2> QED BY <2>2, <2>3
  <1>4. CASE PostIngest
    <2>1. UNCHANGED <<phone, flush>> /\ flush \in Blobs
      BY <1>4, PostMoves DEF PostIngest, phoneVars
    <2>2. ~RemoteSettingsWins(cur', flush)
      BY <1>4, <2>1, PostMoves, WinsOrder DEF Adopts, Drops
    <2> QED BY <2>1, <2>2 DEF FlushedOK
  <1>5. CASE Disconnect \/ MacRestarts
    <2>1. UNCHANGED <<phone, flush, post, toMac>>
      BY <1>5, CalmSteps DEF Disconnect, MacRestarts, phoneVars
    <2> QED BY <1>e, <2>1
  <1>6. CASE PhoneEdit \/ PhoneReceive \/ Tick \/ UNCHANGED vars
    <2>1. UNCHANGED <<phone, flush, post, toMac>>
      BY <1>6 DEF PhoneEdit, PhoneReceive, Tick, vars, wireVars, phoneVars
    <2> QED BY <1>e, <2>1
  <1>7. CASE PhoneSaved
    <2>1. In(Head(saving), saving)
      BY <1>7, InTail DEF PhoneSaved, TypeInv, PhoneOK
    <2>2. PICK b \in Blobs : b = Head(saving).blob
      BY <2>1, Queued
    <2>3. phone'.cur = b /\ phone'.dirty = Head(saving).dirty
      BY <1>7, <2>2, PhoneSteps
    <2>4. phone'.dirty => phone'.cur.by = "android"
      BY <2>1, <2>2, <2>3 DEF BoundsOK
    <2>5. UNCHANGED <<cur, toMac, post, flush>>
      BY <1>7 DEF PhoneSaved, macVars, wireVars
    <2>6. RemoteSettingsWins(phone.cur, b)
      BY <1>7, <2>2, CalmSteps
    <2>7. flush' # phone'.cur
      <3> SUFFICES ASSUME flush = b PROVE FALSE
        BY <2>3, <2>5
      <3>1. Upto(b, phone.cur)
        BY <2>2, Constants DEF BoundsOK, Bound
      <3> QED BY <1>b, <2>6, <3>1, WinsOrder DEF Upto
    <2> QED BY <2>4, <2>5, <2>7 DEF FlushedOK
  <1>8. CASE PhoneFlush
    <2>1. UNCHANGED <<cur, phone>> /\ flush' = phone.cur /\ phone.dirty
      BY <1>8 DEF PhoneFlush, macVars
    <2>2. In(flush', toMac') \/ post'.pc = "sent"
      <3>1. CASE ws # None
        <4>1. toMac' = Append(toMac, phone.cur) /\ toMac \in Seq(Blobs)
          BY <1>8, <3>1 DEF PhoneFlush, TypeInv, WireOK
        <4> QED BY <1>b, <2>1, <4>1, InAppend
      <3>2. CASE ws = None
        BY <1>8, <3>2 DEF PhoneFlush
      <3> QED BY <3>1, <3>2
    <2> QED BY <2>1, <2>2 DEF FlushedOK
  <1>9. CASE PhoneSent \/ PostFails \/ PhoneRestarts
    <2>1. flush' = None /\ phone'.cur = phone.cur
      BY <1>9, PhoneSteps DEF PhoneSent, PostFails, PhoneRestarts
    <2>2. phone'.dirty => phone.dirty
      BY <1>9, PhoneSteps DEF PostFails
    <2> QED BY <1>f, <2>1, <2>2
  <1> QED BY <1>1, <1>2, <1>3, <1>4, <1>5, <1>6, <1>7, <1>8, <1>9, SettersSet
          DEF Next, Setters

\* Both blobs stay, and so does the way of the one that wins.
LEMMA DifferFrame ==
    ASSUME DifferOK, UNCHANGED cur, phone'.cur = phone.cur,
           RemoteSettingsWins(phone.cur, cur) /\ ToPhoneOn => ToPhoneOn',
           RemoteSettingsWins(cur, phone.cur) /\ ToMacOn => ToMacOn'
    PROVE  DifferOK'
  BY DEF DifferOK, Same

\* A setter makes the sides differ, and its blob is in the outbox.
LEMMA SetDiffer ==
    ASSUME TypeInv, StampsOK, BoundsOK, Calm', NEW p \in Procs, NEW f \in BOOLEAN, Set(p, f)
    PROVE  DifferOK'
  <1>1. edits + 1 \in 0..MaxEdits
    BY BoundsAssumption DEF Set, TypeInv, CountOK
  <1>2. cur' \in Blobs /\ cur'.at = now /\ cur'.by = "mac" /\ UNCHANGED phone /\ pending'
    BY <1>1, StampOK DEF Set, phoneVars
  <1>3. RemoteSettingsWins(cur, cur') /\ cur \in Blobs /\ phone.cur \in Blobs
    BY CalmSteps, Queued
  <1>4. RemoteSettingsWins(phone.cur, cur')
    <2>1. CASE phone.cur.by = "mac"
      <3>1. Upto(phone.cur, cur)
        BY <2>1 DEF BoundsOK, Bound
      <3> QED BY <1>2, <1>3, <3>1, WinsOrder DEF Upto
    <2>2. CASE phone.cur.by # "mac"
      <3>1. phone.cur.at \in Nat /\ now \in Nat /\ phone.cur.at <= now
        BY <1>3, BoundsAssumption DEF Blobs, TypeInv, CountOK, StampsOK
      <3> QED BY <1>2, <2>2, <3>1 DEF RemoteSettingsWins
    <2> QED BY <2>1, <2>2
  <1> QED BY <1>2, <1>4 DEF DifferOK, ToPhoneOn

\* A goroutine's step that leaves both blobs alone.
LEMMA ProcDiffer ==
    ASSUME TypeInv, DifferOK, NEW p \in Procs,
           \/ PersistRead(p) \/ PersistWrite(p) \/ PersistFails(p) \/ FlushNothing(p)
           \/ TakePending(p) \/ Send(p) \/ Requeue(p) \/ Connect(p)
    PROVE  DifferOK'
  <1>1. UNCHANGED <<cur, phone, saving, toMac>>
    BY DEF PersistRead, PersistWrite, PersistFails, FlushNothing, TakePending, Requeue,
       Connect, Send, wireVars, phoneVars
  <1>2. ToPhoneOn => ToPhoneOn'
    <2>1. CASE TakePending(p)
      <3>1. proc'[p] = St("send", cur, proc[p].flushes)
        BY <2>1, TakeMoves, Moved
      <3>2. proc'[p].pc = "send" /\ proc'[p].blob = cur
        BY <3>1 DEF St
      <3> QED BY <1>1, <3>2 DEF ToPhoneOn
    <2>2. CASE Requeue(p)
      BY <2>2 DEF Requeue, ToPhoneOn
    <2>3. CASE Send(p)
      <3>1. \A q \in Procs \ {p} : proc'[q] = proc[q]
        BY <2>3, SendMoves, Moved
      <3>2. toPhone \in Seq(Blobs) /\ proc[p].blob \in Blobs /\ UNCHANGED pending
        BY <2>3, SendMoves DEF Send, TypeInv, WireOK
      <3>3. CASE toPhone' = Append(toPhone, proc[p].blob)
        <4>1. \A b : In(b, toPhone') <=> In(b, toPhone) \/ b = proc[p].blob
          BY <3>2, <3>3, InAppend
        <4> QED BY <1>1, <3>1, <3>2, <4>1 DEF ToPhoneOn
      <3>4. CASE toPhone' = toPhone /\ Moves(p, St("requeue", proc[p].blob, proc[p].flushes))
        <4>1. proc'[p] = St("requeue", proc[p].blob, proc[p].flushes)
          BY <3>4, Moved
        <4>2. proc'[p].pc = "requeue" /\ proc'[p].blob = proc[p].blob
          BY <4>1 DEF St
        <4> QED BY <1>1, <3>1, <3>2, <3>4, <4>2 DEF ToPhoneOn
      <3> QED BY <2>3, <3>3, <3>4, SendMoves
    <2>4. CASE PersistRead(p) \/ PersistWrite(p) \/ PersistFails(p) \/ FlushNothing(p) \/ Connect(p)
      <3>1. proc[p].pc \notin {"send", "requeue"}
        BY <2>4 DEF PersistRead, PersistWrite, PersistFails, FlushNothing, Connect, At
      <3>2. \A q \in Procs \ {p} : proc'[q] = proc[q]
        BY <2>4, ReadMoves, SaveMoves, FinishMoves, ConnectMoves, Moved
      <3>3. UNCHANGED <<toPhone, pending>>
        BY <2>4 DEF PersistRead, PersistWrite, PersistFails, FlushNothing, Connect, wireVars
      <3> QED BY <1>1, <3>1, <3>2, <3>3 DEF ToPhoneOn
    <2> QED BY <2>1, <2>2, <2>3, <2>4
  <1>3. ToMacOn => ToMacOn'
    BY <1>1 DEF ToMacOn
  <1> QED BY <1>1, <1>2, <1>3, DifferFrame

\* The blob the Mac adopts is the phone's, or an older one of the phone's,
\* whose own is then still on its way.
LEMMA IngestDiffer ==
    ASSUME TypeInv, BoundsOK, FlushedOK, DifferOK, WsIngest \/ PostIngest
    PROVE  DifferOK'
  <1>1. PICK p \in Procs, b \in Blobs : /\ Adopts(p, b) \/ Drops(b)
                                        /\ b.by = "android" /\ Bound(b)
                                        /\ \A c : In(c, toMac) => In(c, toMac') \/ c = b
    <2>1. CASE WsIngest
      <3>1. In(Head(toMac), toMac) /\ \A c : In(c, toMac) => In(c, toMac') \/ c = Head(toMac)
        BY <2>1, WsMoves, InTail DEF WsIngest, TypeInv, WireOK
      <3> QED BY <2>1, <3>1, WsMoves DEF BoundsOK
    <2>2. CASE PostIngest
      <3>1. \A c : In(c, toMac) => In(c, toMac')
        BY <2>2 DEF PostIngest
      <3> QED BY <2>2, <3>1, PostMoves, Constants DEF BoundsOK
    <2> QED BY <2>1, <2>2
  <1>2. UNCHANGED <<phone, toPhone, saving>>
    BY DEF WsIngest, PostIngest, phoneVars
  <1>3. cur \in Blobs /\ phone.cur \in Blobs
    BY Queued
  <1>4. CASE Drops(b)
    <2>1. ToPhoneOn => ToPhoneOn'
      BY <1>2, <1>4 DEF Drops, ToPhoneOn
    <2>2. RemoteSettingsWins(cur, phone.cur) /\ ToMacOn => ToMacOn'
      BY <1>1, <1>2, <1>4 DEF Drops, ToMacOn
    <2> QED BY <1>2, <1>4, <2>1, <2>2, DifferFrame DEF Drops
  <1>5. CASE Adopts(p, b)
    <2>1. cur' = b /\ RemoteSettingsWins(cur, b) /\ Upto(b, phone.cur)
      BY <1>1, <1>5 DEF Adopts, Bound
    <2>2. CASE b = phone.cur
      BY <1>2, <2>1, <2>2 DEF DifferOK, Same
    <2>3. CASE b # phone.cur
      <3>1. RemoteSettingsWins(b, phone.cur) /\ RemoteSettingsWins(cur, phone.cur)
        BY <1>3, <2>1, <2>3, WinsOrder DEF Upto
      <3>2. ~Same /\ ~RemoteSettingsWins(phone.cur, cur)
        <4>1. cur # phone.cur /\ ~RemoteSettingsWins(phone.cur, cur)
          BY <1>3, <3>1, WinsOrder
        <4>2. ~(/\ cur = [n |-> 0, at |-> 0, by |-> "mac"]
                /\ phone.cur = [n |-> 0, at |-> 0, by |-> "android"])
          BY <3>1 DEF RemoteSettingsWins
        <4> QED BY <4>1, <4>2 DEF Same
      <3>3. ToMacOn
        BY <3>2 DEF DifferOK
      <3>4. ToMacOn'
        BY <1>1, <1>2, <2>3, <3>3 DEF ToMacOn
      <3> QED BY <1>2, <2>1, <3>1, <3>4 DEF DifferOK
    <2> QED BY <2>2, <2>3
  <1> QED BY <1>1, <1>4, <1>5


\* A save the phone awaited is done: its blob is the Mac's, or an older one of
\* the Mac's whose own is then still on its way, or an edit, which is dirty.
LEMMA SavedDiffer ==
    ASSUME TypeInv, StampsOK, BoundsOK, DifferOK, Calm', PhoneSaved
    PROVE  DifferOK'
  <1>1. /\ In(Head(saving), saving)
        /\ \A x : In(x, saving) => In(x, saving') \/ x = Head(saving)
    BY InTail DEF PhoneSaved, TypeInv, PhoneOK
  <1>2. PICK b \in Blobs : b = Head(saving).blob
    BY <1>1, Queued
  <1>3. phone'.cur = b /\ phone'.dirty = Head(saving).dirty
    BY <1>2, PhoneSteps
  <1>4. UNCHANGED <<cur, pending, proc, toPhone, toMac>>
    BY DEF PhoneSaved, macVars, wireVars
  <1>5. RemoteSettingsWins(phone.cur, b)
    BY <1>2, CalmSteps
  <1>6. \/ phone'.dirty /\ b.by = "android"
        \/ b.by = "mac" /\ Upto(b, cur)
    BY <1>1, <1>2, <1>3 DEF BoundsOK
  <1>7. cur \in Blobs /\ phone.cur \in Blobs
    BY Queued
  <1>8. CASE b = cur
    BY <1>3, <1>4, <1>8 DEF DifferOK, Same
  <1>9. CASE b # cur /\ RemoteSettingsWins(b, cur)
    <2>1. RemoteSettingsWins(phone.cur, cur)
      BY <1>5, <1>7, <1>9, WinsOrder
    <2>2. cur # phone.cur /\ ~RemoteSettingsWins(cur, phone.cur)
      BY <1>7, <2>1, WinsOrder
    <2>3. cur.at # 0 \/ phone.cur.at # 0 \/ phone.cur.by # "android"
      <3>1. b.at \in Nat /\ cur.at \in Nat /\ phone.cur.at \in Nat
        BY <1>7, BoundsAssumption DEF Blobs
      <3> QED BY <1>5, <1>9, <3>1 DEF RemoteSettingsWins
    <2>4. ~Same
      BY <2>2, <2>3 DEF Same
    <2>5. ToPhoneOn
      BY <2>2, <2>4 DEF DifferOK
    <2>6. \A x : In(x, saving) /\ x.blob = cur => In(x, saving')
      BY <1>1, <1>2, <1>9
    <2>7. ToPhoneOn'
      BY <1>4, <2>5, <2>6 DEF ToPhoneOn
    <2> QED BY <1>3, <1>4, <1>9, <2>7 DEF DifferOK
  <1>10. CASE b # cur /\ ~RemoteSettingsWins(b, cur)
    <2>1. phone'.dirty /\ b.by = "android"
      BY <1>6, <1>10 DEF Upto
    <2>2. RemoteSettingsWins(cur, b)
      <3>1. SUFFICES ASSUME ~RemoteSettingsWins(cur, b) PROVE FALSE
        OBVIOUS
      <3>2. /\ b.at \in Nat /\ cur.at \in Nat
            /\ b.by \in {"mac", "android"} /\ cur.by \in {"mac", "android"}
        BY <1>7, BoundsAssumption DEF Blobs
      <3>3. cur.by = "android"
        BY <1>10, <2>1, <3>1, <3>2 DEF RemoteSettingsWins
      <3>4. Upto(cur, phone.cur)
        BY <3>3 DEF BoundsOK, Bound
      <3> QED BY <1>5, <1>7, <3>1, <3>4, WinsOrder DEF Upto
    <2> QED BY <1>3, <1>4, <2>1, <2>2 DEF DifferOK, ToMacOn
  <1> QED BY <1>8, <1>9, <1>10

\* A flush is answered: what it carried, if it is still the phone's, has been
\* looked at by the Mac or is on its way.
LEMMA SentDiffer ==
    ASSUME TypeInv, StampsOK, FlushedOK, DifferOK, Calm', PhoneSent
    PROVE  DifferOK'
  <1>1. UNCHANGED <<cur, pending, proc, toPhone, toMac, saving>>
    BY DEF PhoneSent, macVars
  <1>2. phone'.cur = phone.cur
    BY PhoneSteps
  <1>3. ToPhoneOn => ToPhoneOn'
    BY <1>1 DEF ToPhoneOn
  <1>4. RemoteSettingsWins(cur, phone.cur) /\ ToMacOn => ToMacOn'
    <2>1. SUFFICES ASSUME RemoteSettingsWins(cur, phone.cur), ToMacOn PROVE In(phone.cur, toMac)
      BY <1>1, <1>2 DEF ToMacOn
    <2>2. CASE ~phone.dirty
      BY <2>1, <2>2 DEF ToMacOn
    <2>3. CASE phone.dirty
      <3>1. flush = phone.cur /\ flush # None /\ post.pc # "sent"
        BY <2>3, CalmSteps DEF PhoneSent
      <3> QED BY <2>1, <3>1 DEF FlushedOK
    <2> QED BY <2>2, <2>3
  <1> QED BY <1>1, <1>2, <1>3, <1>4, DifferFrame

\* A frame reaches the phone: the Mac's blob, if it was the frame, is now being
\* saved.
LEMMA ReceiveDiffer ==
    ASSUME TypeInv, DifferOK, PhoneReceive
    PROVE  DifferOK'
  <1>1. UNCHANGED <<cur, pending, proc, toMac, phone>>
    BY DEF PhoneReceive, macVars
  <1>2. PICK b \in Blobs : b = Head(toPhone)
    BY InTail DEF PhoneReceive, TypeInv, WireOK
  <1>3. \A c : In(c, toPhone) => In(c, toPhone') \/ c = b
    BY <1>2, InTail DEF PhoneReceive, TypeInv, WireOK
  <1>4. PICK y \in Saves : y = [blob |-> b, dirty |-> FALSE]
    BY DEF Saves
  <1>5. y.blob = b
    BY <1>4
  <1>6. IF RemoteSettingsWins(phone.cur, b) THEN saving' = Append(saving, y)
                                            ELSE saving' = saving
    BY <1>2, <1>4 DEF PhoneReceive
  <1>7. saving \in Seq(Saves)
    BY DEF TypeInv, PhoneOK
  <1>8. \A x : In(x, Append(saving, y)) <=> In(x, saving) \/ x = y
    BY <1>7, InAppend
  <1>9. RemoteSettingsWins(phone.cur, cur) /\ ToPhoneOn => ToPhoneOn'
    <2>1. SUFFICES ASSUME RemoteSettingsWins(phone.cur, cur), ToPhoneOn PROVE ToPhoneOn'
      OBVIOUS
    <2>2. CASE b = cur
      <3>1. In(y, saving')
        BY <1>6, <1>8, <2>1, <2>2
      <3> QED BY <1>1, <1>5, <2>2, <3>1 DEF ToPhoneOn
    <2>3. CASE b # cur
      <3>1. \A x : In(x, saving) => In(x, saving')
        BY <1>6, <1>8
      <3> QED BY <1>1, <1>3, <2>1, <2>3, <3>1 DEF ToPhoneOn
    <2> QED BY <2>2, <2>3
  <1>10. ToMacOn => ToMacOn'
    BY <1>1 DEF ToMacOn
  <1> QED BY <1>1, <1>9, <1>10, DifferFrame

\* Edits, flushes and failures: without causes nothing that matters is lost.
LEMMA OtherDiffer ==
    ASSUME TypeInv, StampsOK, DifferOK, Calm',
           \/ Disconnect \/ MacRestarts \/ PhoneRestarts \/ PhoneEdit \/ PhoneFlush
           \/ PostFails \/ Tick \/ UNCHANGED vars
    PROVE  DifferOK'
  <1>1. CASE Disconnect \/ MacRestarts
    <2>0. pending => pending'
      BY <1>1, CalmSteps, Zenon DEF Disconnect, macVars
    <2>1. UNCHANGED <<cur, phone, saving, toPhone, toMac>> /\ (pending => pending')
      BY <1>1, <2>0, CalmSteps DEF Disconnect, MacRestarts, macVars, phoneVars
    <2>2. UNCHANGED proc \/ \A p \in Procs : proc[p].pc = "idle"
      BY <1>1, CalmSteps DEF Disconnect, macVars
    <2>3. ToPhoneOn => ToPhoneOn'
      BY <2>1, <2>2 DEF ToPhoneOn
    <2>4. ToMacOn => ToMacOn'
      BY <2>1 DEF ToMacOn
    <2> QED BY <2>1, <2>3, <2>4, DifferFrame
  <1>2. CASE PhoneRestarts
    <2>1. UNCHANGED <<cur, pending, proc, saving, toPhone, toMac>> /\ phone'.cur = phone.cur
      BY <1>2, CalmSteps, PhoneSteps DEF PhoneRestarts, macVars
    <2>2. ~phone.dirty
      BY <1>2, CalmSteps
    <2>3. ToPhoneOn => ToPhoneOn'
      BY <2>1 DEF ToPhoneOn
    <2>4. ToMacOn => ToMacOn'
      BY <2>1, <2>2 DEF ToMacOn
    <2> QED BY <2>1, <2>3, <2>4, DifferFrame
  <1>3. CASE PhoneEdit
    <2>1. UNCHANGED <<cur, pending, proc, toPhone, toMac, phone>>
      BY <1>3 DEF PhoneEdit, macVars, wireVars
    <2>2. edits + 1 \in 0..MaxEdits
      BY <1>3, BoundsAssumption DEF PhoneEdit, TypeInv, CountOK
    <2>3. PICK y \in Saves : y = [blob |-> Stamp(edits + 1, "android"), dirty |-> TRUE]
      BY <2>2, StampOK, SaveFields
    <2>4. saving' = Append(saving, y) /\ saving \in Seq(Saves)
      BY <1>3, <2>3 DEF PhoneEdit, TypeInv, PhoneOK
    <2>5. \A x : In(x, saving) => In(x, saving')
      BY <2>4, InAppend
    <2>6. ToPhoneOn => ToPhoneOn'
      BY <2>1, <2>5 DEF ToPhoneOn
    <2>7. ToMacOn => ToMacOn'
      BY <2>1 DEF ToMacOn
    <2> QED BY <2>1, <2>6, <2>7, DifferFrame
  <1>4. CASE PhoneFlush
    <2>1. UNCHANGED <<cur, pending, proc, toPhone, saving, phone>> /\ phone.dirty
      BY <1>4 DEF PhoneFlush, macVars
    <2>2. ToPhoneOn => ToPhoneOn'
      BY <2>1 DEF ToPhoneOn
    <2>3. ToMacOn'
      BY <2>1 DEF ToMacOn
    <2> QED BY <2>1, <2>2, <2>3, DifferFrame
  <1>5. CASE PostFails \/ Tick \/ UNCHANGED vars
    <2>1. UNCHANGED <<cur, pending, proc, toPhone, toMac, saving, phone>>
      BY <1>5 DEF PostFails, Tick, vars, macVars, wireVars, phoneVars
    <2>2. (ToPhoneOn => ToPhoneOn') /\ (ToMacOn => ToMacOn')
      BY <2>1 DEF ToPhoneOn, ToMacOn
    <2> QED BY <2>1, <2>2, DifferFrame
  <1> QED BY <1>1, <1>2, <1>3, <1>4, <1>5

\* Every step keeps the invariant.
LEMMA NextAgreeInv ==
    ASSUME TypeInv, TypeInv', StampsOK, AgreeInv, [Next]_vars
    PROVE  AgreeInv'
  <1>1. SUFFICES ASSUME Calm' PROVE (BoundsOK /\ FlushedOK /\ DifferOK)'
    BY DEF AgreeInv
  <1>2. Calm
    BY <1>1, CausesGrow DEF Calm
  <1>3. BoundsOK /\ FlushedOK /\ DifferOK
    BY <1>2 DEF AgreeInv
  <1>4. BoundsOK'
    BY <1>1, <1>3, NextBoundsOK
  <1>5. FlushedOK'
    BY <1>1, <1>3, NextFlushedOK
  <1>6. DifferOK'
    <2>1. ASSUME NEW p \in Procs, NEW f \in BOOLEAN, Set(p, f) PROVE DifferOK'
      BY <1>1, <1>3, <2>1, SetDiffer
    <2>2. ASSUME NEW p \in Procs,
                 \/ PersistRead(p) \/ PersistWrite(p) \/ PersistFails(p) \/ FlushNothing(p)
                 \/ TakePending(p) \/ Send(p) \/ Requeue(p) \/ Connect(p)
          PROVE  DifferOK'
      BY <1>3, <2>2, ProcDiffer
    <2>3. CASE WsIngest \/ PostIngest
      BY <1>3, <2>3, IngestDiffer
    <2>4. CASE PhoneSaved
      BY <1>1, <1>3, <2>4, SavedDiffer
    <2>5. CASE PhoneSent
      BY <1>1, <1>3, <2>5, SentDiffer
    <2>6. CASE PhoneReceive
      BY <1>3, <2>6, ReceiveDiffer
    <2>7. CASE \/ Disconnect \/ MacRestarts \/ PhoneRestarts \/ PhoneEdit \/ PhoneFlush
               \/ PostFails \/ Tick \/ UNCHANGED vars
      BY <1>1, <1>3, <2>7, OtherDiffer
    <2> QED BY <2>1, <2>2, <2>3, <2>4, <2>5, <2>6, <2>7, SettersSet DEF Next, Setters
  <1> QED BY <1>4, <1>5, <1>6

\* Both sides begin with the defaults and nothing on its way.
LEMMA InitAgreeInv == Init => AgreeInv
  <1> SUFFICES ASSUME Init PROVE BoundsOK /\ FlushedOK /\ DifferOK
    BY DEF AgreeInv
  <1>1. Bound(cur) /\ Bound(phone.cur)
    BY DEF Init, Bound, Upto
  <1>2. \A p \in Procs : proc[p].blob = None
    BY DEF Init, Idle
  <1>3. toPhone = <<>> /\ toMac = <<>> /\ saving = <<>> /\ flush = None
    BY DEF Init
  <1>4. BoundsOK
    BY <1>1, <1>2, <1>3, InEmpty DEF BoundsOK
  <1>5. TypeInv
    BY InitTypeInv
  <1>6. FlushedOK
    <2>1. ~phone.dirty /\ phone.cur # None
      BY <1>5, Queued, Constants DEF Init
    <2> QED BY <1>3, <2>1 DEF FlushedOK
  <1>7. DifferOK
    BY DEF Init, DifferOK, Same
  <1> QED BY <1>4, <1>6, <1>7

\* Whatever the goroutines, edits, drops and crashes, the two sides hold the
\* same settings once nothing is on its way, unless one of the four causes that
\* the code leaves open has occurred.
THEOREM SidesAgree == Spec => []Agree
  <1>1. Init => AgreeInv
    BY InitAgreeInv
  <1>2. TypeInv /\ TypeInv' /\ StampsOK /\ AgreeInv /\ [Next]_vars => AgreeInv'
    BY NextAgreeInv
  <1>3. AgreeInv => Agree
    <2> SUFFICES ASSUME AgreeInv, Quiet, Calm PROVE cur.n = phone.cur.n
      BY DEF Agree, Calm
    <2>1. DifferOK
      BY DEF AgreeInv
    <2>2. ~ToPhoneOn
      BY InEmpty DEF Quiet, AllIdle, At, ToPhoneOn
    <2>3. ~ToMacOn
      BY InEmpty DEF Quiet, ToMacOn
    <2>4. Same
      BY <2>1, <2>2, <2>3 DEF DifferOK
    <2> QED BY <2>4 DEF Same
  <1> QED BY <1>1, <1>2, <1>3, TypesHold, StampsHold, PTL DEF Spec

=============================================================================
