-------------------------- MODULE FileUploadProofs --------------------------
(***************************************************************************)
(* Proofs about FileUpload, for any number of files, goroutines, pieces,   *)
(* versions, faults and retries, and about UploadBatch, which has a state  *)
(* of its own.                                                             *)
(***************************************************************************)
EXTENDS FileUpload, UploadBatch, TLAPS, WellFoundedInduction

(***************************************************************************)
(* Types, and what a call is doing at each place of its code.              *)
(***************************************************************************)

Slices == [next : Index, from : Index, fed : Seq(Index)]

CallStates == [pc : Pcs, t : Transfers \cup {None},
               kind : {"none", "block", "pipe", "tab", "resume"},
               idx : 0..Chunks, sha : Versions \cup {Misfed, None},
               box : {None, "ok", "fail"}]

Pieces == [idx : Index, ver : Versions, sha : Versions \cup {Misfed, None},
           live : BOOLEAN, busy : BOOLEAN]

Answers == [type : {"ack", "statresp"}, t : Transfers, val : 0..Chunks]

RecordsOK ==
    /\ status \in [Transfers -> Status]
    /\ resumable \in [Transfers -> BOOLEAN]
    /\ source \in [Transfers -> {"none", "local", "browser"}]
    /\ session \subseteq Transfers
    /\ slice \in [Transfers -> Slices \cup {None}]

\* A call that is under way has a transfer and a kind.  Only an answer to a
\* stat names the piece behind the last; a channel is registered only for the
\* last piece; the tab's calls never go through the native loops.
CallsOK ==
    /\ call \in [Calls -> CallStates]
    /\ \A c \in Calls :
         /\ call[c].pc # "stat" => call[c].idx \in Index
         /\ call[c].pc # "idle" => call[c].t \in Transfers /\ call[c].kind # "none"
         /\ call[c].pc = "reg" => AckPeer /\ call[c].idx = Last
         /\ call[c].pc \in {"task", "poll"} => call[c].kind # "tab"

\* A registered channel belongs to a call for that transfer which is sending
\* its last piece or waiting, or to one that has asked for the stat.
WaitsOK ==
    /\ waiter \in [Transfers -> Calls \cup {None}]
    /\ statWaiter \in [Transfers -> Calls \cup {None}]
    /\ \A t \in Transfers :
         /\ waiter[t] # None =>
              /\ call[waiter[t]].t = t
              /\ call[waiter[t]].idx = Last
              /\ call[waiter[t]].pc \in {"send", "wait"}
              /\ AckPeer
         /\ statWaiter[t] # None =>
              /\ call[statWaiter[t]].t = t
              /\ call[statWaiter[t]].pc = "stat"

UserOK ==
    /\ fresh \subseteq Transfers
    /\ batch \in {"running", "cancelled"}
    /\ local \in [Transfers -> Versions]
    /\ retries \in 0..MaxRetries

LinkOK == up \in BOOLEAN /\ toMac \subseteq Answers

PhoneOK ==
    /\ chain \in [Transfers -> Seq(Pieces)]
    /\ stage \in [Transfers -> [Index -> Versions \cup {None}]]
    /\ ledger \in [Transfers -> (SUBSET Index) \cup {None}]
    /\ settled \subseteq Transfers
    /\ file \in [Transfers -> [Index -> Versions] \cup {None}]

FaultsOK == faults \in 0..MaxFaults

\* Call c is sending a slice of the tab.
TabSends(c) == call[c].kind = "tab" /\ call[c].pc \in {"reg", "send"}

\* There is one such call for a transfer, and a retry behind its back only
\* sets the session back.
TabOK ==
    \A c \in Calls : TabSends(c) =>
        /\ slice[call[c].t] # None => slice[call[c].t].next <= call[c].idx
        /\ \A d \in Calls : TabSends(d) /\ call[d].t = call[c].t => c = d

TypeInv ==
    /\ RecordsOK
    /\ CallsOK
    /\ WaitsOK
    /\ UserOK
    /\ LinkOK
    /\ PhoneOK
    /\ FaultsOK
    /\ TabOK

(***************************************************************************)
(* Facts about the operators.                                              *)
(***************************************************************************)

\* A set of numbers that is not empty has a least one.
LEMMA Least ==
    \A S \in SUBSET Nat : S # {} => \E i \in S : \A j \in S : ~(j < i)
  <1> DEFINE R == {p \in Nat \X Nat : p[1] < p[2]}
  <1>1. IsWellFoundedOn(R, Nat)
    BY NatLessThanWellFounded, Zenon DEF OpToRel
  <1>2. ASSUME NEW S \in SUBSET Nat, S # {}
        PROVE  \E i \in S : \A j \in S : <<j, i>> \notin R
    BY <1>1, <1>2, WFMin, Zenon
  <1> QED BY <1>2

\* The pieces of a file, and the digests a part may have.
LEMMA Constants ==
    /\ 0 \in Index /\ Last \in Index
    /\ Index \subseteq 0..Chunks /\ Chunks \in 0..Chunks
    /\ 1 \in 0..Chunks /\ 0 \in 0..Chunks
    /\ Versions \subseteq Nat /\ Bad \notin Versions /\ Bad # Misfed
    /\ None \notin Versions /\ None # Bad
    /\ 1 \in Versions
    /\ NoStage \in [Index -> Versions \cup {None}]
    /\ Idle \in CallStates /\ Idle.pc = "idle" /\ Idle.idx = 0 /\ Idle.box = None
    /\ Idle.kind = "none" /\ Idle.t = None
    /\ None \notin Calls /\ None \notin {"ok", "fail"}
    /\ None \notin [Index -> Versions]
  BY ConstantsAssumption
     DEF Index, Last, Versions, Bad, Misfed, NoStage, Idle, CallStates, Pcs

\* The phone's answer to a stat names one of the pieces, or the one behind
\* the last.
LEMMA NextMissing ==
    ASSUME PhoneOK, NEW t \in Transfers
    PROVE  nextMissing(t) \in 0..Chunks
  <1>1. CASE ledger[t] = None
    BY <1>1, Constants DEF nextMissing
  <1>2. CASE ledger[t] # None
    <2>1. ledger[t] \subseteq Index
      BY <1>2 DEF PhoneOK
    <2> DEFINE S == {i \in 0..Chunks : i \notin ledger[t]}
    <2>2. S \in SUBSET Nat
      OBVIOUS
    <2>3. Chunks \in S
      BY <2>1, ConstantsAssumption DEF Index
    <2>4. PICK i \in S : \A j \in S : ~(j < i)
      BY <2>2, <2>3, Least, Zenon
    <2>5. /\ i \in 0..Chunks /\ i \notin ledger[t]
          /\ \A j \in 0..Chunks : j < i => j \in ledger[t]
      BY <2>4
    <2> QED BY <1>2, <2>5 DEF nextMissing
  <1> QED BY <1>1, <1>2

\* The digest of a part is that of a version only when all its pieces are of
\* that version.
LEMMA Staged ==
    ASSUME NEW s
    PROVE  /\ staged(s) \in Versions \cup {Bad}
           /\ staged(s) # Bad => s[0] \in Versions /\ \A i \in Index : s[i] = s[0]
  BY Constants DEF staged


(***************************************************************************)
(* The steps keep TypeInv.                                                 *)
(***************************************************************************)

\* At first there is no call, no chunk under way and no file.
LEMMA InitTypeInv == Init => TypeInv
  <1> SUFFICES ASSUME Init PROVE TypeInv
    OBVIOUS
  <1> USE Constants
  <1>1. RecordsOK
    BY DEF Init, RecordsOK, Status
  <1>2. CallsOK /\ WaitsOK /\ TabOK
    BY DEF Init, CallsOK, WaitsOK, TabOK, TabSends
  <1>3. UserOK /\ LinkOK /\ FaultsOK
    BY ConstantsAssumption DEF Init, UserOK, LinkOK, FaultsOK, Answers
  <1>4. PhoneOK
    BY DEF Init, PhoneOK
  <1> QED BY <1>1, <1>2, <1>3, <1>4 DEF TypeInv

\* What a step leaves alone keeps its type.
LEMMA Frame ==
    ASSUME TypeInv
    PROVE  /\ UNCHANGED records => RecordsOK'
           /\ UNCHANGED call => CallsOK'
           /\ UNCHANGED <<waits, call>> => WaitsOK'
           /\ UNCHANGED user => UserOK'
           /\ UNCHANGED link => LinkOK'
           /\ UNCHANGED phone => PhoneOK'
           /\ UNCHANGED faults => FaultsOK'
           /\ UNCHANGED <<call, slice>> => TabOK'
  <1> USE DEF TypeInv
  <1>1. UNCHANGED records => RecordsOK'
    BY DEF RecordsOK, records
  <1>2. UNCHANGED call => CallsOK'
    BY DEF CallsOK
  <1>3. UNCHANGED <<waits, call>> => WaitsOK'
    BY DEF WaitsOK, waits
  <1>4. UNCHANGED user => UserOK'
    BY DEF UserOK, user
  <1>5. UNCHANGED link => LinkOK'
    BY DEF LinkOK, link
  <1>6. UNCHANGED phone => PhoneOK'
    BY DEF PhoneOK, phone
  <1>7. UNCHANGED faults => FaultsOK'
    BY DEF FaultsOK
  <1>8. UNCHANGED <<call, slice>> => TabOK'
    BY DEF TabOK, TabSends
  <1> QED BY <1>1, <1>2, <1>3, <1>4, <1>5, <1>6, <1>7, <1>8

\* A word in its channel is all a call sees of the others.
LEMMA Posted ==
    ASSUME CallsOK, NEW w \in Calls \cup {None}, NEW v \in {"ok", "fail"}
    PROVE  /\ Post(call, w, v) \in [Calls -> CallStates]
           /\ \A d \in Calls :
                /\ Post(call, w, v)[d].pc = call[d].pc
                /\ Post(call, w, v)[d].t = call[d].t
                /\ Post(call, w, v)[d].idx = call[d].idx
                /\ Post(call, w, v)[d].kind = call[d].kind
                /\ Post(call, w, v)[d] = call[d] \/ Post(call, w, v)[d].box = v
  <1>1. Post(call, w, v) \in [Calls -> CallStates]
    BY Constants DEF CallsOK, CallStates, Post
  <1>2. \A d \in Calls :
          /\ Post(call, w, v)[d].pc = call[d].pc /\ Post(call, w, v)[d].t = call[d].t
          /\ Post(call, w, v)[d].idx = call[d].idx
          /\ Post(call, w, v)[d].kind = call[d].kind
    BY Constants DEF CallsOK, CallStates, Post
  <1>3. \A d \in Calls : Post(call, w, v)[d] = call[d] \/ Post(call, w, v)[d].box = v
    BY Constants DEF CallsOK, CallStates, Post
  <1> QED BY <1>1, <1>2, <1>3

\* A call that returns: the channel it leaves registered is gone, and the
\* other calls are told at most.
LEMMA Returns ==
    ASSUME TypeInv, NEW c \in Calls, NEW w \in Calls \cup {None},
           NEW v \in {"ok", "fail"},
           call' = [Post(call, w, v) EXCEPT ![c] = Idle],
           waiter' = [t \in Transfers |-> IF waiter[t] = c THEN None ELSE waiter[t]],
           statWaiter' = statWaiter,
           call[c].pc # "stat",
           slice' = slice
    PROVE  CallsOK' /\ WaitsOK' /\ TabOK'
  <1> USE Constants DEF TypeInv
  <1>1. /\ \A d \in Calls : d # c =>
             /\ call'[d].pc = call[d].pc /\ call'[d].t = call[d].t
             /\ call'[d].idx = call[d].idx /\ call'[d].kind = call[d].kind
             /\ call'[d] \in CallStates
        /\ call'[c] = Idle
        /\ call' \in [Calls -> CallStates]
    BY Posted
  <1>2. CallsOK'
    BY <1>1 DEF CallsOK
  <1>3. WaitsOK'
    BY <1>1 DEF WaitsOK
  <1>4. TabOK'
    BY <1>1 DEF TabOK, TabSends
  <1> QED BY <1>2, <1>3, <1>4

\* A call that moves on within its code: it keeps its transfer and its kind,
\* and the channels it has registered fit where it goes.
LEMMA Moves ==
    ASSUME TypeInv, NEW c \in Calls, NEW x \in CallStates,
           call' = [call EXCEPT ![c] = x],
           x.t = call[c].t, x.kind = call[c].kind, x.pc # "idle", call[c].pc # "idle",
           x.pc # "stat" => x.idx \in Index,
           x.pc = "reg" => AckPeer /\ x.idx = Last,
           x.pc \in {"task", "poll"} => x.kind # "tab",
           x.pc \in {"reg", "send"} /\ x.kind = "tab" => TabSends(c) /\ x.idx = call[c].idx
    PROVE  /\ CallsOK'
           /\ slice' = slice => TabOK'
           /\ \A d \in Calls \ {c} : call'[d] = call[d]
           /\ call'[c] = x
  <1> USE Constants DEF TypeInv
  <1>1. /\ \A d \in Calls \ {c} : call'[d] = call[d]
        /\ call'[c] = x
        /\ call' \in [Calls -> CallStates]
    BY DEF CallsOK
  <1>2. CallsOK'
    BY <1>1 DEF CallsOK
  <1>3. ASSUME slice' = slice PROVE TabOK'
    BY <1>1, <1>3 DEF TabOK, TabSends
  <1> QED BY <1>1, <1>2, <1>3


\* A native upload starts, and asks before each piece whether it is wanted.
LEMMA NativeTypeInv ==
    ASSUME TypeInv, NEW c \in Calls
    PROVE  /\ \A t \in Transfers, k \in Kinds : Dispatch(c, t, k) => TypeInv'
           /\ Register(c) \/ Poll(c) \/ registerAckWaiter(c) => TypeInv'
  <1> USE Constants, Frame
  <1>1. ASSUME NEW t \in Transfers, NEW k \in Kinds, Dispatch(c, t, k) PROVE TypeInv'
    <2>1. k \in {"block", "pipe"} /\ call[c] = Idle
      BY <1>1, ConstantsAssumption DEF Dispatch
    <2> DEFINE x == [Idle EXCEPT !.pc = "task", !.t = t, !.kind = k]
    <2>2. /\ x \in CallStates /\ x.pc = "task" /\ x.t = t /\ x.kind = k /\ x.idx = 0
      BY <2>1 DEF CallStates, Idle, Pcs
    <2>3. call' = [call EXCEPT ![c] = x] /\ UNCHANGED <<slice, waits>>
      BY <1>1 DEF Dispatch, records
    <2> HIDE DEF x
    <2>4. CallsOK'
      BY <2>1, <2>2, <2>3 DEF TypeInv, CallsOK
    <2>5. WaitsOK'
      BY <2>1, <2>2, <2>3 DEF TypeInv, CallsOK, WaitsOK, waits
    <2>6. TabOK'
      BY <2>1, <2>2, <2>3 DEF TypeInv, CallsOK, TabOK, TabSends
    <2>7. UserOK'
      BY <1>1 DEF Dispatch, TypeInv, UserOK
    <2>8. RecordsOK' /\ LinkOK' /\ PhoneOK' /\ FaultsOK'
      BY <1>1 DEF Dispatch
    <2> QED BY <2>4, <2>5, <2>6, <2>7, <2>8 DEF TypeInv
  <1>2. CASE Register(c)
    <2> DEFINE x == [call[c] EXCEPT !.pc = "poll"]
    <2>1. /\ x \in CallStates /\ x.pc = "poll" /\ x.t = call[c].t
          /\ x.kind = call[c].kind /\ x.idx = call[c].idx /\ x.idx \in Index
          /\ call[c].pc = "task" /\ call[c].t \in Transfers /\ x.kind # "tab"
      BY <1>2 DEF Register, TypeInv, CallsOK, CallStates, Pcs
    <2>2. call' = [call EXCEPT ![c] = x] /\ UNCHANGED <<slice, waits>>
      BY <1>2 DEF Register, TypeInv, CallsOK
    <2> HIDE DEF x
    <2>3. /\ CallsOK' /\ TabOK' /\ call'[c] = x
          /\ \A d \in Calls \ {c} : call'[d] = call[d]
      BY <2>1, <2>2, Moves
    <2>4. WaitsOK'
      BY <2>1, <2>2, <2>3 DEF TypeInv, WaitsOK, waits
    <2>5. RecordsOK'
      BY <1>2, <2>1 DEF Register, TypeInv, RecordsOK, Status
    <2>6. UserOK' /\ LinkOK' /\ PhoneOK' /\ FaultsOK'
      BY <1>2 DEF Register
    <2> QED BY <2>3, <2>4, <2>5, <2>6 DEF TypeInv
  <1>3. CASE Poll(c)
    <2> DEFINE t == call[c].t
               x == [call[c] EXCEPT !.pc = ready(call[c].idx)]
    <2>1. /\ call[c].pc = "poll" /\ t \in Transfers /\ call[c].kind # "tab"
          /\ UNCHANGED <<slice, statWaiter>>
      BY <1>3 DEF Poll, TypeInv, CallsOK, failTransfer, Leave, waits
    <2>2. UserOK' /\ LinkOK' /\ PhoneOK' /\ FaultsOK'
      BY <1>3 DEF Poll
    <2>3. CASE status[t] # "cancelled"
      <3>1. /\ x \in CallStates /\ x.pc = ready(call[c].idx) /\ x.t = t
            /\ x.kind = call[c].kind /\ x.idx = call[c].idx /\ x.idx \in Index
            /\ x.pc \in {"reg", "send"} /\ (x.pc = "reg" => AckPeer /\ x.idx = Last)
        BY <2>1 DEF TypeInv, CallsOK, CallStates, Pcs, ready
      <3>2. call' = [call EXCEPT ![c] = x] /\ UNCHANGED <<records, waits>>
        BY <1>3, <2>3 DEF Poll, TypeInv, CallsOK, records
      <3> HIDE DEF x
      <3>3. /\ CallsOK' /\ TabOK' /\ call'[c] = x
            /\ \A d \in Calls \ {c} : call'[d] = call[d]
        BY <2>1, <3>1, <3>2, Moves
      <3>4. WaitsOK'
        BY <2>1, <3>1, <3>2, <3>3 DEF TypeInv, WaitsOK, waits
      <3> QED BY <2>2, <3>2, <3>3, <3>4 DEF TypeInv
    <2>4. CASE status[t] = "cancelled"
      <3>1. PICK w \in Calls \cup {None} :
              call' = [Post(call, w, "fail") EXCEPT ![c] = Idle]
        <4>1. CASE call[c].kind = "pipe"
          BY <1>3, <2>1, <2>4, <4>1 DEF Poll, failTransfer, TypeInv, WaitsOK
        <4>2. CASE call[c].kind # "pipe"
          BY <1>3, <2>4, <4>2 DEF Poll, Post
        <4> QED BY <4>1, <4>2
      <3>2. waiter' = [u \in Transfers |-> IF waiter[u] = c THEN None ELSE waiter[u]]
        BY <1>3, <2>4 DEF Poll, failTransfer, Leave
      <3>3. CallsOK' /\ WaitsOK' /\ TabOK'
        BY <2>1, <3>1, <3>2, Returns
      <3>4. RecordsOK'
        BY <1>3, <2>1, <2>4 DEF Poll, failTransfer, TypeInv, RecordsOK, Status
      <3> QED BY <2>2, <3>3, <3>4 DEF TypeInv
    <2> QED BY <2>3, <2>4
  <1>4. CASE registerAckWaiter(c)
    <2> DEFINE x == [call[c] EXCEPT !.pc = "send", !.box = None]
    <2>0. AckPeer /\ call[c].idx = Last /\ call[c].pc = "reg"
      BY <1>4, Zenon DEF registerAckWaiter, TypeInv, CallsOK
    <2>1. /\ x \in CallStates /\ x.pc = "send" /\ x.t = call[c].t
          /\ x.kind = call[c].kind /\ x.idx = call[c].idx /\ x.idx = Last
          /\ call[c].pc = "reg" /\ call[c].t \in Transfers
      BY <2>0, ZenonT(60) DEF TypeInv, CallsOK, CallStates, Pcs
    <2>2. /\ call' = [call EXCEPT ![c] = x] /\ UNCHANGED <<slice, statWaiter>>
          /\ waiter' = [waiter EXCEPT ![call[c].t] = c]
      BY <1>4 DEF registerAckWaiter, TypeInv, CallsOK, records
    <2> HIDE DEF x
    <2>3. /\ CallsOK' /\ TabOK' /\ call'[c] = x
          /\ \A d \in Calls \ {c} : call'[d] = call[d]
      BY <2>0, <2>1, <2>2, Moves, ZenonT(60) DEF TabSends
    <2>4. WaitsOK'
      BY <2>0, <2>1, <2>2, <2>3 DEF TypeInv, WaitsOK
    <2>5. RecordsOK' /\ UserOK' /\ LinkOK' /\ PhoneOK' /\ FaultsOK'
      BY <1>4 DEF registerAckWaiter
    <2> QED BY <2>3, <2>4, <2>5 DEF TypeInv
  <1> QED BY <1>1, <1>2, <1>3, <1>4


\* A chunk that reaches the phone is well formed and joins the chain.
LEMMA Reaches ==
    ASSUME TypeInv, NEW c \in Calls, call[c].pc = "send"
    PROVE  /\ piece(c) \in Pieces
           /\ handleChunk(call[c].t, piece(c)) /\ UNCHANGED <<stage, ledger, settled, file>>
                => PhoneOK'
  <1> USE Constants DEF TypeInv
  <1>1. call[c].t \in Transfers /\ call[c].idx \in Index
    BY DEF CallsOK
  <1>2. piece(c) \in Pieces
    <2>1. local[call[c].t] \in Versions /\ call[c].sha \in Versions \cup {Misfed, None}
      BY <1>1 DEF UserOK, CallsOK, CallStates
    <2> QED BY <1>1, <2>1 DEF piece, Chunk, Pieces
  <1>3. ASSUME handleChunk(call[c].t, piece(c)), UNCHANGED <<stage, ledger, settled, file>>
        PROVE  PhoneOK'
    <2> HIDE DEF Pieces
    <2>1. chain' \in [Transfers -> Seq(Pieces)]
      <3>1. Append(chain[call[c].t], piece(c)) \in Seq(Pieces)
        BY <1>1, <1>2 DEF PhoneOK
      <3> QED BY <1>1, <1>3, <3>1 DEF PhoneOK, handleChunk
    <2> QED BY <1>3, <2>1 DEF PhoneOK
  <1> QED BY <1>2, <1>3

\* What is retained for a retry.
LEMMA Retains ==
    ASSUME TypeInv, NEW c \in Calls, call[c].pc # "idle",
           status' \in [Transfers -> Status], UNCHANGED <<source, slice>>,
           retain(call[c].kind, call[c].t)
    PROVE  RecordsOK'
  <1> DEFINE t == call[c].t
             k == call[c].kind
  <1>1. t \in Transfers /\ k \in {"block", "pipe", "tab", "resume"}
    BY DEF TypeInv, CallsOK, CallStates
  <1>2. session' \subseteq Transfers /\ resumable' \in [Transfers -> BOOLEAN]
    <2>1. CASE k \in {"block", "pipe"}
      <3>1. /\ session' = session \cup {t}
            /\ resumable' = [resumable EXCEPT ![t] = @ \/ status[t] # "none"]
        BY <2>1, Zenon DEF retain, saveNativeSession
      <3> QED BY <1>1, <3>1 DEF TypeInv, RecordsOK
    <2>2. CASE k = "resume"
      BY <2>2 DEF retain, TypeInv, RecordsOK
    <2>3. CASE k = "tab"
      <3>1. /\ session' = session
            /\ resumable' = [resumable EXCEPT ![t] = @ \/ status[t] # "none"]
        BY <2>3 DEF retain
      <3> QED BY <1>1, <3>1 DEF TypeInv, RecordsOK
    <2> QED BY <1>1, <2>1, <2>2, <2>3
  <1> QED BY <1>2 DEF TypeInv, RecordsOK

\* Sending, waiting and failing.
LEMMA SendTypeInv ==
    ASSUME TypeInv, NEW c \in Calls
    PROVE  /\ SendChunk(c) \/ SendAgain(c) \/ SendFails(c) => TypeInv'
           /\ WaitOk(c) \/ WaitFails(c) \/ Unconfirmed(c) => TypeInv'
  <1> USE Constants, Frame
  <1> DEFINE t == call[c].t
             k == call[c].kind
             i == call[c].idx
  <1>1. call[c].pc # "idle" => t \in Transfers /\ k \in {"block", "pipe", "tab", "resume"}
    BY DEF TypeInv, CallsOK, CallStates
  <1>2. ASSUME status' = [status EXCEPT ![t] = IF @ = "none" THEN @ ELSE "error"],
               call[c].pc # "idle"
        PROVE  status' \in [Transfers -> Status]
    BY <1>1, <1>2 DEF TypeInv, RecordsOK, Status
  <1>3. ASSUME failTransfer(c, t), slice' = slice, call[c].pc \notin {"idle", "stat"}
        PROVE  CallsOK' /\ WaitsOK' /\ TabOK'
    <2>1. waiter[t] \in Calls \cup {None}
      BY <1>1, <1>3 DEF TypeInv, WaitsOK
    <2>2. /\ call' = [Post(call, waiter[t], "fail") EXCEPT ![c] = Idle]
          /\ waiter' = [u \in Transfers |-> IF waiter[u] = c THEN None ELSE waiter[u]]
          /\ statWaiter' = statWaiter
      BY <1>3 DEF failTransfer, Leave
    <2> QED BY <1>3, <2>1, <2>2, Returns
  <1>4. CASE SendChunk(c)
    <2>1. /\ call[c].pc = "send" /\ t \in Transfers /\ i \in Index
          /\ UNCHANGED <<status, resumable, source, session, waits, user, toMac, stage,
                         ledger, settled, file>>
          /\ call' = sent(c)
          /\ slice' = IF k = "tab" THEN advance(t, i) ELSE slice
      BY <1>4 DEF SendChunk, TypeInv, CallsOK
    <2>2. LinkOK' /\ FaultsOK'
      <3>1. LinkOK'
        BY <1>4, <2>1 DEF SendChunk, TypeInv, LinkOK
      <3>2. FaultsOK'
        <4>1. faults' = faults \/ (faults < MaxFaults /\ faults' = faults + 1)
          BY <1>4 DEF SendChunk
        <4> QED BY <4>1, ConstantsAssumption DEF TypeInv, FaultsOK
      <3> QED BY <3>1, <3>2
    <2>3. PhoneOK'
      BY <1>4, <2>1, Reaches DEF SendChunk, TypeInv, PhoneOK
    <2>4. UserOK'
      BY <2>1
    <2>5. CASE i = Last
      <3> DEFINE x == [call[c] EXCEPT !.pc = IF AckPeer THEN "wait" ELSE "fin"]
      <3>1. /\ x \in CallStates /\ x.t = t /\ x.kind = k /\ x.idx = i
            /\ x.pc = (IF AckPeer THEN "wait" ELSE "fin")
        BY DEF TypeInv, CallsOK, CallStates, Pcs
      <3>2. x.pc \in {"wait", "fin"} /\ (AckPeer => x.pc = "wait")
        BY <3>1
      <3>3. call' = [call EXCEPT ![c] = x]
        BY <2>1, <2>5 DEF sent, TypeInv, CallsOK
      <3>4. slice' \in [Transfers -> Slices \cup {None}]
        BY <2>1, <2>5 DEF advance, TypeInv, RecordsOK
      <3>5. \A u \in Transfers : slice'[u] # None => slice'[u] = slice[u]
        BY <2>1, <2>5 DEF advance, TypeInv, RecordsOK
      <3> HIDE DEF x
      <3>6. /\ CallsOK' /\ call'[c] = x
            /\ \A d \in Calls \ {c} : call'[d] = call[d]
        BY <2>1, <3>1, <3>2, <3>3, Moves
      <3>7. WaitsOK'
        BY <2>1, <2>5, <3>1, <3>2, <3>6 DEF TypeInv, WaitsOK, waits
      <3>8. TabOK'
        BY <2>1, <3>2, <3>5, <3>6 DEF TypeInv, CallsOK, TabOK, TabSends
      <3>9. RecordsOK'
        BY <2>1, <3>4 DEF TypeInv, RecordsOK
      <3> QED BY <2>2, <2>3, <2>4, <3>6, <3>7, <3>8, <3>9 DEF TypeInv
    <2>6. CASE i # Last /\ k = "tab"
      <3>1. call' = [call EXCEPT ![c] = Idle]
        BY <2>1, <2>6 DEF sent
      <3>2. \A d \in Calls \ {c} : call'[d] = call[d]
        BY <3>1 DEF TypeInv, CallsOK
      <3>3. call'[c] = Idle /\ call' \in [Calls -> CallStates]
        BY <3>1 DEF TypeInv, CallsOK
      <3>4. CallsOK'
        BY <3>2, <3>3 DEF TypeInv, CallsOK
      <3>5. WaitsOK'
        BY <2>1, <2>6, <3>2 DEF TypeInv, WaitsOK, waits
      <3>6. slice[t] # None => slice[t].next \in Nat /\ slice[t].next <= i /\ i < Last
        <4>1. slice[t] # None => slice[t].next <= i
          BY <2>1, <2>6 DEF TypeInv, TabOK, TabSends
        <4>2. slice[t] # None => slice[t].next \in Nat
          BY <2>1 DEF TypeInv, RecordsOK, Slices, Index
        <4>3. i < Last
          BY <2>1, <2>6, ConstantsAssumption DEF Index, Last
        <4> QED BY <4>1, <4>2, <4>3
      <3>7. RecordsOK'
        <4>1. CASE slice[t] = None
          BY <2>1, <2>6, <4>1 DEF advance, TypeInv, RecordsOK
        <4>2. CASE slice[t] # None
          <5>1. slice[t] \in Slices
            BY <2>1, <4>2 DEF TypeInv, RecordsOK
          <5>2. slice[t].next + 1 \in Index
            BY <2>1, <3>6, <4>2, ConstantsAssumption DEF Index, Last
          <5>3. [slice[t] EXCEPT !.next = @ + 1] \in Slices
            BY <5>1, <5>2 DEF Slices
          <5>4. slice' = [slice EXCEPT ![t] = [slice[t] EXCEPT !.next = @ + 1]]
            BY <2>1, <2>6, <4>2 DEF advance, TypeInv, RecordsOK
          <5> HIDE DEF Slices
          <5> QED BY <2>1, <5>3, <5>4 DEF TypeInv, RecordsOK
        <4> QED BY <4>1, <4>2
      <3>8. TabOK'
        <4>1. TabSends(c)
          BY <2>1, <2>6 DEF TabSends
        <4>2. \A d \in Calls : TabSends(d)' => d # c /\ TabSends(d) /\ call'[d] = call[d]
          BY <3>2, <3>3 DEF TabSends
        <4>3. \A d \in Calls : TabSends(d) /\ d # c => call[d].t # t
          BY <4>1 DEF TypeInv, TabOK
        <4>4. \A u \in Transfers : u # t => slice'[u] = slice[u]
          BY <2>1, <2>6 DEF advance, TypeInv, RecordsOK
        <4>5. \A d \in Calls : TabSends(d) => call[d].t \in Transfers
          BY DEF TypeInv, CallsOK, TabSends
        <4> QED BY <4>2, <4>3, <4>4, <4>5 DEF TypeInv, TabOK
      <3> QED BY <2>2, <2>3, <2>4, <3>4, <3>5, <3>7, <3>8 DEF TypeInv
    <2>7. CASE i # Last /\ k # "tab"
      <3> DEFINE x == [call[c] EXCEPT !.pc = "poll", !.idx = i + 1]
      <3>1. i + 1 \in Index /\ i + 1 \in 0..Chunks
        BY <2>1, <2>7, ConstantsAssumption DEF Index, Last
      <3>2. /\ x \in CallStates /\ x.t = t /\ x.kind = k /\ x.idx = i + 1 /\ x.pc = "poll"
        BY <3>1 DEF TypeInv, CallsOK, CallStates, Pcs
      <3>3. call' = [call EXCEPT ![c] = x] /\ slice' = slice
        BY <2>1, <2>7 DEF sent, TypeInv, CallsOK
      <3> HIDE DEF x
      <3>4. /\ CallsOK' /\ TabOK' /\ call'[c] = x
            /\ \A d \in Calls \ {c} : call'[d] = call[d]
        BY <2>1, <2>7, <3>1, <3>2, <3>3, Moves
      <3>5. WaitsOK'
        BY <2>1, <2>7, <3>4 DEF TypeInv, WaitsOK, waits
      <3>6. RecordsOK'
        BY <2>1, <3>3 DEF TypeInv, RecordsOK
      <3> QED BY <2>2, <2>3, <2>4, <3>4, <3>5, <3>6 DEF TypeInv
    <2> QED BY <2>5, <2>6, <2>7
  <1>5. CASE SendAgain(c)
    <2>1. FaultsOK'
      BY <1>5, ConstantsAssumption DEF SendAgain, TypeInv, FaultsOK
    <2>2. PhoneOK'
      BY <1>5, Reaches DEF SendAgain
    <2>3. UNCHANGED slice
      BY <1>5 DEF SendAgain, records
    <2> QED BY <1>5, <2>1, <2>2, <2>3 DEF SendAgain, TypeInv
  <1>6. CASE SendFails(c)
    <2>1. /\ call[c].pc = "send" /\ failTransfer(c, t) /\ retain(k, t)
          /\ UNCHANGED <<source, slice, user, link, stage, ledger, settled, file>>
      BY <1>6 DEF SendFails
    <2>2. CallsOK' /\ WaitsOK' /\ TabOK'
      BY <1>3, <2>1
    <2>3. RecordsOK'
      <3>1. status' \in [Transfers -> Status]
        BY <1>2, <2>1 DEF failTransfer
      <3> QED BY <2>1, <3>1, Retains
    <2>4. PhoneOK'
      BY <1>6, <2>1, Reaches DEF SendFails, TypeInv, PhoneOK
    <2>5. FaultsOK'
      BY <1>6, ConstantsAssumption DEF SendFails, TypeInv, FaultsOK
    <2> QED BY <2>1, <2>2, <2>3, <2>4, <2>5 DEF TypeInv
  <1>7. CASE WaitOk(c) \/ WaitFails(c)
    <2>1. /\ call[c].pc = "wait" /\ UNCHANGED <<records, statWaiter, user, link, phone, faults>>
          /\ waiter' = [waiter EXCEPT ![t] = None] /\ t \in Transfers /\ slice' = slice
      BY <1>1, <1>7 DEF WaitOk, WaitFails, records
    <2>2. PICK pc \in {"fin", "failed"} : call' = [call EXCEPT ![c].pc = pc]
      BY <1>7 DEF WaitOk, WaitFails
    <2> DEFINE x == [call[c] EXCEPT !.pc = pc]
    <2>3. /\ x \in CallStates /\ x.t = t /\ x.kind = k /\ x.idx = i /\ x.pc = pc
          /\ i \in Index
      BY <2>1 DEF TypeInv, CallsOK, CallStates, Pcs
    <2>4. call' = [call EXCEPT ![c] = x]
      BY <2>2 DEF TypeInv, CallsOK
    <2> HIDE DEF x
    <2>5. /\ CallsOK' /\ TabOK' /\ call'[c] = x
          /\ \A d \in Calls \ {c} : call'[d] = call[d]
      BY <2>1, <2>2, <2>3, <2>4, Moves
    <2>6. WaitsOK'
      BY <2>1, <2>5 DEF TypeInv, WaitsOK
    <2> QED BY <2>1, <2>5, <2>6 DEF TypeInv
  <1>8. CASE Unconfirmed(c)
    <2>1. /\ call[c].pc = "failed" /\ failTransfer(c, t) /\ retain(k, t)
          /\ UNCHANGED <<source, slice, user, link, phone, faults>>
      BY <1>8 DEF Unconfirmed
    <2>2. CallsOK' /\ WaitsOK' /\ TabOK'
      BY <1>3, <2>1
    <2>3. RecordsOK'
      <3>1. status' \in [Transfers -> Status]
        BY <1>2, <2>1 DEF failTransfer
      <3> QED BY <2>1, <3>1, Retains
    <2> QED BY <2>1, <2>2, <2>3 DEF TypeInv
  <1> QED BY <1>4, <1>5, <1>6, <1>7, <1>8


\* The end of an upload.
LEMMA CompleteTypeInv ==
    ASSUME TypeInv, NEW c \in Calls, Complete(c)
    PROVE  TypeInv'
  <1> USE Constants, Frame
  <1> DEFINE t == call[c].t
             k == call[c].kind
  <1>1. /\ call[c].pc = "fin" /\ t \in Transfers
        /\ UNCHANGED <<source, slice, user, link, phone, faults>>
    BY DEF Complete, TypeInv, CallsOK
  <1>2. CallsOK' /\ WaitsOK' /\ TabOK'
    <2>1. /\ call' = [Post(call, None, "fail") EXCEPT ![c] = Idle]
          /\ waiter' = [u \in Transfers |-> IF waiter[u] = c THEN None ELSE waiter[u]]
          /\ statWaiter' = statWaiter
      BY DEF Complete, Leave, Post
    <2> QED BY <1>1, <2>1, Returns
  <1>3. RecordsOK'
    <2>1. status' \in [Transfers -> Status]
      <3>1. \E v : status' = [status EXCEPT ![t] = v] /\ v \in {status[t], "done"}
        BY DEF Complete
      <3> QED BY <1>1, <3>1 DEF TypeInv, RecordsOK, Status
    <2>2. session' \subseteq Transfers
      BY DEF Complete, TypeInv, RecordsOK
    <2>3. resumable' \in [Transfers -> BOOLEAN]
      BY DEF Complete, TypeInv, RecordsOK
    <2> QED BY <1>1, <2>1, <2>2, <2>3 DEF TypeInv, RecordsOK
  <1> QED BY <1>1, <1>2, <1>3 DEF TypeInv

\* A call that asks the phone for its stat, or cannot.
LEMMA QueryTypeInv ==
    ASSUME TypeInv, NEW c \in Calls, NEW t \in Transfers, NEW k \in {"resume", "tab"},
           queryUploadStat(c, t, k)
    PROVE  TypeInv'
  <1> USE Constants, Frame
  <1>1. /\ call[c] = Idle
        /\ UNCHANGED <<records, waiter, fresh, batch, local, up, phone>>
        /\ UNCHANGED slice
    BY DEF queryUploadStat, records
  <1>2. UserOK'
    BY <1>1, ConstantsAssumption DEF queryUploadStat, TypeInv, UserOK
  <1>3. PICK pc \in {"stat", "begin"} :
          /\ call' = [call EXCEPT ![c] = [Idle EXCEPT !.pc = pc, !.t = t, !.kind = k]]
          /\ \/ pc = "stat" /\ statWaiter' = [statWaiter EXCEPT ![t] = c]
             \/ pc = "begin" /\ statWaiter' = statWaiter
    BY DEF queryUploadStat
  <1> DEFINE x == [Idle EXCEPT !.pc = pc, !.t = t, !.kind = k]
  <1>4. /\ x \in CallStates /\ x.t = t /\ x.kind = k /\ x.idx = 0 /\ x.pc = pc
    BY DEF Idle, CallStates, Pcs
  <1>5. call' = [call EXCEPT ![c] = x]
    BY <1>3
  <1> HIDE DEF x
  <1>6. /\ call' \in [Calls -> CallStates] /\ call'[c] = x
        /\ \A d \in Calls \ {c} : call'[d] = call[d]
    BY <1>4, <1>5 DEF TypeInv, CallsOK
  <1>7. CallsOK'
    BY <1>3, <1>4, <1>6 DEF TypeInv, CallsOK
  <1>8. WaitsOK'
    BY <1>1, <1>3, <1>4, <1>6 DEF TypeInv, WaitsOK
  <1>9. TabOK'
    BY <1>1, <1>3, <1>4, <1>6 DEF TypeInv, TabOK, TabSends
  <1>10. LinkOK'
    <2>1. nextMissing(t) \in 0..Chunks
      BY NextMissing DEF TypeInv
    <2>2. StatResp(t, nextMissing(t)) \in Answers
      BY <2>1 DEF StatResp, Answers
    <2> QED BY <1>1, <2>2 DEF queryUploadStat, handleStat, TypeInv, LinkOK
  <1>11. FaultsOK'
    BY ConstantsAssumption DEF queryUploadStat, TypeInv, FaultsOK
  <1> QED BY <1>1, <1>2, <1>7, <1>8, <1>9, <1>10, <1>11 DEF TypeInv

\* The answer to the stat, and the second run.
LEMMA RetryTypeInv ==
    ASSUME TypeInv, NEW c \in Calls
    PROVE  AlreadyThere(c) \/ StatEnds(c) \/ Restart(c) => TypeInv'
  <1> USE Constants, Frame
  <1> DEFINE t == call[c].t
             k == call[c].kind
  <1>1. CASE AlreadyThere(c)
    <2>1. /\ call[c].pc = "stat" /\ t \in Transfers
          /\ call' = [call EXCEPT ![c] = Idle]
          /\ statWaiter' = [statWaiter EXCEPT ![t] = None]
          /\ UNCHANGED <<status, source, slice, waiter, user, link, phone, faults>>
      BY <1>1 DEF AlreadyThere, TypeInv, CallsOK
    <2>2. /\ call' \in [Calls -> CallStates] /\ call'[c] = Idle
          /\ \A d \in Calls \ {c} : call'[d] = call[d]
      BY <2>1 DEF TypeInv, CallsOK
    <2>3. CallsOK'
      BY <2>2 DEF TypeInv, CallsOK
    <2>4. WaitsOK'
      BY <2>1, <2>2 DEF TypeInv, WaitsOK
    <2>5. TabOK'
      BY <2>1, <2>2 DEF TypeInv, TabOK, TabSends
    <2>6. RecordsOK'
      BY <1>1, <2>1 DEF AlreadyThere, TypeInv, RecordsOK
    <2> QED BY <2>1, <2>3, <2>4, <2>5, <2>6 DEF TypeInv
  <1>2. CASE StatEnds(c)
    <2>1. /\ call[c].pc = "stat" /\ t \in Transfers
          /\ statWaiter' = [statWaiter EXCEPT ![t] = None]
          /\ UNCHANGED <<records, waiter, user, link, phone, faults>>
          /\ slice' = slice
      BY <1>2 DEF StatEnds, TypeInv, CallsOK, records
    <2>2. PICK n \in Index :
            call' = [call EXCEPT ![c] = [call[c] EXCEPT !.pc = "begin", !.box = None, !.idx = n]]
      <3>1. call[c] \in CallStates
        BY DEF TypeInv, CallsOK
      <3>2. CASE call' = [call EXCEPT ![c].pc = "begin", ![c].box = None, ![c].idx = 0]
        <4>1. call' = [call EXCEPT ![c] =
                         [call[c] EXCEPT !.pc = "begin", !.box = None, !.idx = 0]]
          BY <3>1, <3>2 DEF TypeInv, CallsOK
        <4> QED BY <4>1
      <3>3. CASE /\ call[c].idx < Chunks
                 /\ call' = [call EXCEPT ![c].pc = "begin", ![c].box = None]
        <4>1. call[c].idx \in Index
          BY <3>1, <3>3, ConstantsAssumption DEF CallStates, Index
        <4>2. [call[c] EXCEPT !.pc = "begin", !.box = None, !.idx = call[c].idx]
                = [call[c] EXCEPT !.pc = "begin", !.box = None]
          BY <3>1 DEF CallStates
        <4> QED BY <3>3, <4>1, <4>2, ZenonT(60) DEF TypeInv, CallsOK
      <3> QED BY <1>2, <3>2, <3>3 DEF StatEnds
    <2> DEFINE x == [call[c] EXCEPT !.pc = "begin", !.box = None, !.idx = n]
    <2>3. /\ x \in CallStates /\ x.t = t /\ x.kind = k /\ x.idx = n /\ x.pc = "begin"
      <3>1. n \in 0..Chunks /\ call[c] \in CallStates
        BY <2>2 DEF TypeInv, CallsOK
      <3> QED BY <3>1 DEF CallStates, Pcs
    <2>4. call' = [call EXCEPT ![c] = x]
      BY <2>2
    <2> HIDE DEF x
    <2>5. /\ CallsOK' /\ TabOK' /\ call'[c] = x
          /\ \A d \in Calls \ {c} : call'[d] = call[d]
      BY <2>1, <2>3, <2>4, Moves
    <2>6. WaitsOK'
      BY <2>1, <2>5 DEF TypeInv, WaitsOK
    <2> QED BY <2>1, <2>5, <2>6 DEF TypeInv
  <1>3. CASE Restart(c)
    <2>1. /\ call[c].pc = "begin" /\ t \in Transfers /\ call[c].idx \in Index
          /\ UNCHANGED <<source, session, waits, user, link, phone, faults>>
      BY <1>3 DEF Restart, TypeInv, CallsOK
    <2>2. status' \in [Transfers -> Status]
      BY <1>3, <2>1 DEF Restart, TypeInv, RecordsOK, Status
    <2>3. resumable' \in [Transfers -> BOOLEAN]
      <3>1. CASE k = "resume"
        <4>1. resumable' = [resumable EXCEPT ![t] = @ \/ status[t] = "none"]
          BY <1>3, <3>1 DEF Restart
        <4> QED BY <2>1, <4>1 DEF TypeInv, RecordsOK
      <3>2. CASE k # "resume"
        <4>1. resumable' = [resumable EXCEPT ![t] = @ \/ status[t] # "none"]
          BY <1>3, <3>2 DEF Restart
        <4> QED BY <2>1, <4>1 DEF TypeInv, RecordsOK
      <3> QED BY <3>1, <3>2
    <2>4. CASE k = "resume"
      <3> DEFINE x == [call[c] EXCEPT !.pc = "poll"]
      <3>1. /\ x \in CallStates /\ x.t = t /\ x.kind = k /\ x.idx \in Index /\ x.pc = "poll"
        BY <2>1 DEF TypeInv, CallsOK, CallStates, Pcs
      <3>2. call' = [call EXCEPT ![c] = x] /\ slice' = slice
        BY <1>3, <2>4 DEF Restart, TypeInv, CallsOK
      <3> HIDE DEF x
      <3>3. /\ CallsOK' /\ TabOK' /\ call'[c] = x
            /\ \A d \in Calls \ {c} : call'[d] = call[d]
        BY <2>1, <2>4, <3>1, <3>2, Moves
      <3>4. WaitsOK'
        BY <2>1, <3>3 DEF TypeInv, WaitsOK, waits
      <3>5. RecordsOK'
        BY <2>1, <2>2, <2>3, <3>2 DEF TypeInv, RecordsOK
      <3> QED BY <2>1, <3>3, <3>4, <3>5 DEF TypeInv
    <2>5. CASE k # "resume"
      <3>1. /\ call' = [call EXCEPT ![c] = Idle]
            /\ slice' = IF slice[t] = None THEN slice
                        ELSE [slice EXCEPT ![t] =
                                [next |-> 0, fed |-> <<>>, from |-> call[c].idx]]
        BY <1>3, <2>5 DEF Restart
      <3>2. /\ call' \in [Calls -> CallStates] /\ call'[c] = Idle
            /\ \A d \in Calls \ {c} : call'[d] = call[d]
        BY <3>1 DEF TypeInv, CallsOK
      <3>3. CallsOK'
        BY <3>2 DEF TypeInv, CallsOK
      <3>4. WaitsOK'
        BY <2>1, <3>2 DEF TypeInv, WaitsOK, waits
      <3>5. [next |-> 0, fed |-> <<>>, from |-> call[c].idx] \in Slices
        BY <2>1 DEF Slices
      <3>6. RecordsOK'
        BY <2>1, <2>2, <2>3, <3>1, <3>5 DEF TypeInv, RecordsOK
      <3>7. TabOK'
        <4>1. \A u \in Transfers : slice'[u] # None => slice[u] # None
                 /\ (slice'[u] = slice[u] \/ slice'[u].next = 0)
          BY <2>1, <3>1 DEF TypeInv, RecordsOK
        <4>2. \A d \in Calls : TabSends(d)' =>
                TabSends(d) /\ call'[d] = call[d] /\ call[d].t \in Transfers /\ 0 <= call[d].idx
          BY <3>2, ConstantsAssumption DEF TabSends, TypeInv, CallsOK, Index
        <4> QED BY <4>1, <4>2 DEF TypeInv, TabOK
      <3> QED BY <2>1, <3>3, <3>4, <3>6, <3>7 DEF TypeInv
    <2> QED BY <2>4, <2>5
  <1> QED BY <1>1, <1>2, <1>3


\* A cancel that reaches the phone marks what was accepted and drops the rest.
LEMMA CancelReaches ==
    ASSUME TypeInv, NEW T, handleCancel(T)
    PROVE  PhoneOK' /\ file' = file
  <1> USE Constants
  <1>1. CASE ~up
    BY <1>1, Frame DEF handleCancel, phone
  <1>2. CASE up
    <2>1. chain' = [t \in Transfers |->
                      IF t \notin T THEN chain[t]
                      ELSE [n \in DOMAIN chain[t] |-> [chain[t][n] EXCEPT !.live = FALSE]]]
      BY <1>2 DEF handleCancel
    <2>2. ASSUME NEW t \in Transfers
          PROVE  [n \in DOMAIN chain[t] |-> [chain[t][n] EXCEPT !.live = FALSE]] \in Seq(Pieces)
      <3>1. chain[t] \in Seq(Pieces)
        BY DEF TypeInv, PhoneOK
      <3>2. \A n \in DOMAIN chain[t] : chain[t][n] \in Pieces
        BY <3>1
      <3>3. \A p \in Pieces : [p EXCEPT !.live = FALSE] \in Pieces
        BY DEF Pieces
      <3> HIDE DEF Pieces
      <3>4. /\ Len(chain[t]) \in Nat /\ DOMAIN chain[t] = 1..Len(chain[t])
        BY <3>1
      <3>5. [n \in 1..Len(chain[t]) |-> [chain[t][n] EXCEPT !.live = FALSE]]
              \in [1..Len(chain[t]) -> Pieces]
        BY <3>2, <3>3, <3>4
      <3> QED BY <3>4, <3>5
    <2>3. chain' \in [Transfers -> Seq(Pieces)]
      BY <2>1, <2>2 DEF TypeInv, PhoneOK
    <2>4. /\ stage' \in [Transfers -> [Index -> Versions \cup {None}]]
          /\ ledger' \in [Transfers -> (SUBSET Index) \cup {None}]
          /\ settled' = settled /\ file' = file
      BY <1>2 DEF handleCancel, TypeInv, PhoneOK
    <2> QED BY <2>3, <2>4 DEF TypeInv, PhoneOK
  <1> QED BY <1>1, <1>2

\* The slices of the tab.
LEMMA TabTypeInv ==
    ASSUME TypeInv, NEW t \in Transfers
    PROVE  /\ BeginBrowserUpload(t) \/ RehashBrowserChunk(t) => TypeInv'
           /\ \A c \in Calls : SendBrowserChunk(c, t) => TypeInv'
  <1> USE Constants, Frame
  <1>1. ASSUME NEW s \in Slices, slice' = [slice EXCEPT ![t] = s],
               UNCHANGED call, tabIsIdle(t)
        PROVE  TabOK' /\ slice' \in [Transfers -> Slices \cup {None}]
    <2>1. \A d \in Calls : call[d].t # t
      BY <1>1 DEF tabIsIdle
    <2> QED BY <1>1, <2>1 DEF TypeInv, RecordsOK, CallsOK, TabOK, TabSends
  <1>2. ASSUME NEW s \in Slices, slice' = [slice EXCEPT ![t] = s], s.next = 0,
               UNCHANGED call
        PROVE  TabOK' /\ slice' \in [Transfers -> Slices \cup {None}]
    <2>1. slice' \in [Transfers -> Slices \cup {None}]
      BY <1>2 DEF TypeInv, RecordsOK
    <2>2. \A u \in Transfers : slice'[u] = slice[u] \/ slice'[u].next = 0
      BY <1>2 DEF TypeInv, RecordsOK
    <2>3. \A d \in Calls : TabSends(d) => call[d].t \in Transfers /\ 0 <= call[d].idx
      BY ConstantsAssumption DEF TypeInv, CallsOK, TabSends, Index
    <2> QED BY <1>2, <2>1, <2>2, <2>3 DEF TypeInv, TabOK, TabSends
  <1>3. CASE BeginBrowserUpload(t)
    <2> DEFINE s == [next |-> 0, fed |-> <<>>, from |-> 0]
    <2>1. s \in Slices /\ s.next = 0
      BY DEF Slices
    <2>2. /\ slice' = [slice EXCEPT ![t] = s] /\ UNCHANGED <<call, waits, link, phone, faults>>
          /\ UNCHANGED <<resumable, session, batch, local, retries>>
          /\ status' = [status EXCEPT ![t] = "running"]
          /\ source' = [source EXCEPT ![t] = "browser"]
          /\ fresh' = fresh \ {t}
      BY <1>3 DEF BeginBrowserUpload
    <2> HIDE DEF s
    <2>3. TabOK' /\ slice' \in [Transfers -> Slices \cup {None}]
      BY <1>2, <2>1, <2>2
    <2>4. RecordsOK'
      BY <2>2, <2>3 DEF TypeInv, RecordsOK, Status
    <2>5. UserOK'
      BY <2>2 DEF TypeInv, UserOK
    <2> QED BY <2>2, <2>3, <2>4, <2>5 DEF TypeInv
  <1>4. CASE RehashBrowserChunk(t)
    <2> DEFINE s == [slice[t] EXCEPT !.next = @ + 1, !.fed = Append(@, slice[t].next)]
    <2>1. /\ slice[t] \in Slices /\ slice[t].next < slice[t].from /\ tabIsIdle(t)
          /\ UNCHANGED <<call, waits, user, link, phone, faults>>
          /\ UNCHANGED <<status, resumable, source, session>>
      BY <1>4 DEF RehashBrowserChunk, TypeInv, RecordsOK
    <2>2. slice[t].next + 1 \in Index
      BY <2>1, ConstantsAssumption DEF Slices, Index
    <2>3. s \in Slices
      <3>1. /\ slice[t].fed \in Seq(Index) /\ slice[t].next \in Index
            /\ slice[t].from \in Index
        BY <2>1 DEF Slices
      <3>2. Append(slice[t].fed, slice[t].next) \in Seq(Index)
        BY <3>1
      <3> QED BY <2>1, <2>2, <3>2 DEF Slices
    <2>4. slice' = [slice EXCEPT ![t] = s]
      BY <1>4 DEF RehashBrowserChunk, TypeInv, RecordsOK
    <2> HIDE DEF s
    <2>5. TabOK' /\ slice' \in [Transfers -> Slices \cup {None}]
      BY <1>1, <2>1, <2>3, <2>4
    <2>6. RecordsOK'
      BY <2>1, <2>5 DEF TypeInv, RecordsOK
    <2> QED BY <2>1, <2>5, <2>6 DEF TypeInv
  <1>5. ASSUME NEW c \in Calls, SendBrowserChunk(c, t) PROVE TypeInv'
    <2> DEFINE fed == Append(slice[t].fed, slice[t].next)
               s == [slice[t] EXCEPT !.fed = fed]
               x == [Idle EXCEPT !.pc = ready(slice[t].next), !.t = t, !.kind = "tab",
                                 !.idx = slice[t].next, !.sha = digest(fed, local[t])]
    <2>1. /\ slice[t] \in Slices /\ tabIsIdle(t) /\ call[c] = Idle
          /\ UNCHANGED <<waits, user, link, phone, faults>>
          /\ UNCHANGED <<status, resumable, source, session>>
          /\ call' = [call EXCEPT ![c] = x]
      BY <1>5 DEF SendBrowserChunk, TypeInv, RecordsOK
    <2>2. s \in Slices /\ s.next = slice[t].next /\ slice[t].next \in Index
      <3>1. /\ slice[t].fed \in Seq(Index) /\ slice[t].next \in Index
        BY <2>1 DEF Slices
      <3>2. fed \in Seq(Index)
        BY <3>1
      <3> QED BY <2>1, <3>1, <3>2 DEF Slices
    <2>3. slice' = [slice EXCEPT ![t] = s]
      BY <1>5 DEF SendBrowserChunk, TypeInv, RecordsOK
    <2>4. digest(fed, local[t]) \in Versions \cup {Misfed, None}
      BY DEF digest, TypeInv, UserOK
    <2>5. /\ x.t = t /\ x.kind = "tab" /\ x.idx = slice[t].next
          /\ x.pc = ready(slice[t].next) /\ x.box = None
          /\ x.sha = digest(fed, local[t])
      BY DEF Idle
    <2>6. /\ ready(slice[t].next) \in {"reg", "send"}
          /\ ready(slice[t].next) = "reg" => AckPeer /\ slice[t].next = Last
      BY DEF ready
    <2>7. x \in CallStates
      BY <2>2, <2>4, <2>6 DEF Idle, CallStates, Pcs
    <2> HIDE DEF s, x
    <2>8. /\ call' \in [Calls -> CallStates] /\ call'[c] = x
          /\ \A d \in Calls \ {c} : call'[d] = call[d]
      BY <2>1, <2>7 DEF TypeInv, CallsOK
    <2>9. CallsOK'
      BY <2>2, <2>5, <2>6, <2>8 DEF TypeInv, CallsOK
    <2>10. WaitsOK'
      BY <2>1, <2>8 DEF TypeInv, WaitsOK, waits
    <2>11. RecordsOK'
      BY <2>1, <2>2, <2>3 DEF TypeInv, RecordsOK
    <2>12. TabOK'
      <3>1. \A d \in Calls \ {c} : call'[d].t # t
        BY <2>1, <2>8 DEF tabIsIdle
      <3>2. \A u \in Transfers \ {t} : slice'[u] = slice[u]
        BY <2>3 DEF TypeInv, RecordsOK
      <3>3. slice'[t].next = x.idx
        BY <2>2, <2>3, <2>5 DEF TypeInv, RecordsOK
      <3>4. x.idx \in Int
        BY <2>2, <2>5 DEF Index
      <3>5. \A d \in Calls \ {c} : TabSends(d)' => TabSends(d) /\ call[d].t \in Transfers \ {t}
        BY <2>8, <3>1 DEF TabSends, TypeInv, CallsOK
      <3> QED BY <2>5, <2>8, <3>1, <3>2, <3>3, <3>4, <3>5 DEF TypeInv, TabOK
    <2> QED BY <2>1, <2>9, <2>10, <2>11, <2>12 DEF TypeInv
  <1> QED BY <1>3, <1>4, <1>5

\* A step that leaves the calls alone and ends sessions of the tab at most.
LEMMA SliceEnds ==
    ASSUME TypeInv, UNCHANGED <<waits, call>>,
           \A t \in Transfers : slice'[t] \in {slice[t], None},
           slice' \in [Transfers -> Slices \cup {None}]
    PROVE  CallsOK' /\ WaitsOK' /\ TabOK'
  <1>1. \A c \in Calls : TabSends(c) => call[c].t \in Transfers
    BY DEF TabSends, TypeInv, CallsOK
  <1>2. TabOK'
    BY <1>1 DEF TypeInv, TabOK, TabSends
  <1> QED BY <1>2, Frame

\* Aborting, sweeping, pruning and editing.
LEMMA SweepTypeInv ==
    ASSUME TypeInv, NEW t \in Transfers
    PROVE  /\ ResumeChanged(t) \/ AbortBrowserUpload(t) \/ SweepSession(t) => TypeInv'
           /\ SweepSlice(t) \/ Prune(t) \/ Edit(t) => TypeInv'
  <1> USE Constants, Frame
  <1>0. slice \in [Transfers -> Slices \cup {None}]
    BY DEF TypeInv, RecordsOK
  <1>1. CASE ResumeChanged(t)
    <2>1. RecordsOK'
      BY <1>1 DEF ResumeChanged, TypeInv, RecordsOK
    <2> QED BY <1>1, <2>1 DEF ResumeChanged, TypeInv
  <1>2. CASE AbortBrowserUpload(t)
    <2>1. RecordsOK'
      BY <1>2 DEF AbortBrowserUpload, TypeInv, RecordsOK, Status
    <2>2. PhoneOK'
      BY <1>2, CancelReaches DEF AbortBrowserUpload
    <2>3. CallsOK' /\ WaitsOK' /\ TabOK'
      BY <1>0, <1>2, SliceEnds DEF AbortBrowserUpload
    <2> QED BY <1>2, <2>1, <2>2, <2>3 DEF AbortBrowserUpload, TypeInv
  <1>3. CASE SweepSession(t)
    <2>1. RecordsOK'
      BY <1>3 DEF SweepSession, TypeInv, RecordsOK
    <2>2. PhoneOK'
      BY <1>3, CancelReaches DEF SweepSession
    <2> QED BY <1>3, <2>1, <2>2 DEF SweepSession, TypeInv
  <1>4. CASE SweepSlice(t)
    <2>1. /\ slice' = [slice EXCEPT ![t] = None]
          /\ status' = [status EXCEPT ![t] = IF @ = "running" THEN "error" ELSE @]
          /\ resumable' = [resumable EXCEPT ![t] = status[t] # "running" /\ @]
          /\ handleCancel({t})
          /\ UNCHANGED <<source, session, waits, call, user, link, faults>>
      BY <1>4 DEF SweepSlice
    <2>2. resumable' \in [Transfers -> BOOLEAN]
      BY <2>1, Zenon DEF TypeInv, RecordsOK
    <2>3. RecordsOK'
      BY <2>1, <2>2 DEF TypeInv, RecordsOK, Status
    <2>4. PhoneOK'
      BY <2>1, CancelReaches
    <2>5. CallsOK' /\ WaitsOK' /\ TabOK'
      BY <1>0, <2>1, SliceEnds
    <2> QED BY <2>1, <2>3, <2>4, <2>5 DEF TypeInv
  <1>5. CASE Prune(t)
    <2>1. RecordsOK'
      BY <1>5 DEF Prune, TypeInv, RecordsOK, Status
    <2> QED BY <1>5, <2>1 DEF Prune, TypeInv
  <1>6. CASE Edit(t)
    <2>1. UserOK'
      BY <1>6 DEF Edit, TypeInv, UserOK
    <2>2. slice' = slice
      BY <1>6 DEF Edit, records
    <2> QED BY <1>6, <2>1, <2>2 DEF Edit, TypeInv
  <1> QED BY <1>1, <1>2, <1>3, <1>4, <1>5, <1>6

\* Cancelling tells the waiting calls and the phone.
LEMMA CancelTypeInv ==
    ASSUME TypeInv, NEW T \in SUBSET Transfers, cancel(T),
           batch' \in {"running", "cancelled"}
    PROVE  TypeInv'
  <1> USE Constants, Frame
  <1>1. status' = [t \in Transfers |-> IF t \in T THEN "cancelled" ELSE status[t]]
    BY DEF cancel
  <1>2. resumable' \in [Transfers -> BOOLEAN]
    <2>1. resumable' = [t \in Transfers |-> t \notin T /\ resumable[t]]
      BY DEF cancel
    <2> QED BY <2>1
  <1>3. slice' = [t \in Transfers |-> IF t \in T THEN None ELSE slice[t]]
    BY DEF cancel
  <1>4. RecordsOK'
    BY <1>1, <1>2, <1>3 DEF cancel, TypeInv, RecordsOK, Status
  <1>5. /\ call' \in [Calls -> CallStates]
        /\ \A c \in Calls : /\ call'[c].pc = call[c].pc /\ call'[c].t = call[c].t
                            /\ call'[c].kind = call[c].kind /\ call'[c].idx = call[c].idx
    <2>1. \A c \in Calls : call[c] \in CallStates
      BY DEF TypeInv, CallsOK
    <2>2. \A c \in Calls : Post(call, c, "fail")[c] \in {call[c], [call[c] EXCEPT !.box = "fail"]}
      BY DEF Post, TypeInv, CallsOK
    <2>3. call' = [c \in Calls |-> IF \E t \in T : waiter[t] = c
                                   THEN Post(call, c, "fail")[c] ELSE call[c]]
      BY DEF cancel
    <2>4. \A x \in CallStates :
            /\ [x EXCEPT !.box = "fail"] \in CallStates
            /\ [x EXCEPT !.box = "fail"].pc = x.pc
            /\ [x EXCEPT !.box = "fail"].t = x.t
            /\ [x EXCEPT !.box = "fail"].kind = x.kind
            /\ [x EXCEPT !.box = "fail"].idx = x.idx
      BY DEF CallStates
    <2>5. \A c \in Calls : call'[c] \in {call[c], [call[c] EXCEPT !.box = "fail"]}
      BY <2>2, <2>3
    <2> HIDE DEF CallStates
    <2>6. \A c \in Calls : /\ call'[c] \in CallStates
                           /\ call'[c].pc = call[c].pc /\ call'[c].t = call[c].t
                           /\ call'[c].kind = call[c].kind /\ call'[c].idx = call[c].idx
      BY <2>1, <2>4, <2>5, ZenonT(60)
    <2> QED BY <2>3, <2>6
  <1>6. CallsOK'
    BY <1>5 DEF TypeInv, CallsOK
  <1>7. waiter' = waiter /\ statWaiter' = statWaiter
    BY DEF cancel, waits
  <1>8. WaitsOK'
    BY <1>5, <1>7 DEF TypeInv, WaitsOK
  <1>9. TabOK'
    BY <1>3, <1>5 DEF TypeInv, CallsOK, TabOK, TabSends
  <1>10. PhoneOK'
    BY CancelReaches DEF cancel
  <1>11. UserOK'
    BY DEF cancel, TypeInv, UserOK
  <1> QED BY <1>4, <1>6, <1>8, <1>9, <1>10, <1>11 DEF cancel, TypeInv


\* The answers of the phone reach the calls that wait for them.
LEMMA AnswerTypeInv ==
    ASSUME TypeInv, NEW m \in toMac
    PROVE  ingestFileAck(m) \/ ingestFileStatResp(m) \/ LoseAnswer(m) => TypeInv'
  <1> USE Constants, Frame
  <1>0. m \in Answers /\ m.t \in Transfers /\ m.val \in 0..Chunks
    BY DEF TypeInv, LinkOK, Answers
  <1>1. ASSUME consume(m), up' = up PROVE LinkOK' /\ FaultsOK'
    <2>1. LinkOK'
      BY <1>1 DEF consume, TypeInv, LinkOK
    <2>2. FaultsOK'
      BY <1>1, ConstantsAssumption DEF consume, TypeInv, FaultsOK
    <2> QED BY <2>1, <2>2
  <1>2. CASE ingestFileAck(m)
    <2> DEFINE v == IF m.val = 1 THEN "ok" ELSE "fail"
               w == waiter[m.t]
    <2>1. /\ call' = Post(call, w, v) /\ slice' = slice
          /\ UNCHANGED <<resumable, source, session, slice, waits, user, up, phone>>
          /\ w \in Calls \cup {None} /\ v \in {"ok", "fail"}
      BY <1>0, <1>2 DEF ingestFileAck, TypeInv, WaitsOK
    <2>2. /\ call' \in [Calls -> CallStates]
          /\ \A c \in Calls : /\ call'[c].pc = call[c].pc /\ call'[c].t = call[c].t
                              /\ call'[c].kind = call[c].kind /\ call'[c].idx = call[c].idx
      <3> HIDE DEF v, w
      <3> QED BY <2>1, Posted DEF TypeInv
    <2>3. CallsOK'
      BY <2>2 DEF TypeInv, CallsOK
    <2>4. WaitsOK'
      BY <2>1, <2>2 DEF TypeInv, WaitsOK, waits
    <2>5. TabOK'
      <3>1. \A c \in Calls : TabSends(c)' <=> TabSends(c)
        BY <2>2 DEF TabSends
      <3>2. slice' = slice
        BY <2>1
      <3>3. \A c \in Calls : call'[c].t = call[c].t /\ call'[c].idx = call[c].idx
        BY <2>2
      <3>4. TabOK
        BY DEF TypeInv
      <3> QED BY <3>1, <3>2, <3>3, <3>4 DEF TabOK
    <2>6. RecordsOK'
      BY <1>0, <1>2 DEF ingestFileAck, TypeInv, RecordsOK, Status
    <2>7. LinkOK' /\ FaultsOK'
      BY <1>1, <1>2 DEF ingestFileAck
    <2> QED BY <2>1, <2>3, <2>4, <2>5, <2>6, <2>7 DEF TypeInv
  <1>3. CASE ingestFileStatResp(m)
    <2> DEFINE w == statWaiter[m.t]
    <2>1. /\ UNCHANGED <<records, waits, user, up, phone>> /\ slice' = slice
          /\ w \in Calls \cup {None}
          /\ consume(m)
      BY <1>0, <1>3 DEF ingestFileStatResp, TypeInv, WaitsOK, records
    <2>2. LinkOK' /\ FaultsOK'
      BY <1>1, <2>1
    <2>3. CASE call' = call
      BY <2>1, <2>2, <2>3 DEF TypeInv
    <2>4. CASE call' # call
      <3>1. /\ w \in Calls /\ w # None
            /\ call' = [call EXCEPT ![w].box = "ok", ![w].idx = m.val]
        BY <1>3, <2>1, <2>4 DEF ingestFileStatResp
      <3> DEFINE x == [call[w] EXCEPT !.box = "ok", !.idx = m.val]
      <3>2. call[w] \in CallStates /\ call[w].pc = "stat" /\ call[w].t = m.t
        <4>1. call[w] \in CallStates
          BY <3>1 DEF TypeInv, CallsOK
        <4>2. call[w].pc = "stat" /\ call[w].t = m.t
          <5>1. \A t \in Transfers : statWaiter[t] # None =>
                  call[statWaiter[t]].pc = "stat" /\ call[statWaiter[t]].t = t
            BY DEF TypeInv, WaitsOK
          <5> QED BY <1>0, <3>1, <5>1
        <4> QED BY <4>1, <4>2
      <3>3. /\ x \in CallStates /\ x.pc = "stat" /\ x.t = call[w].t /\ x.kind = call[w].kind
        BY <1>0, <3>2 DEF CallStates
      <3>4. call' = [call EXCEPT ![w] = x]
        BY <3>1 DEF TypeInv, CallsOK
      <3> HIDE DEF x, w
      <3>5. /\ CallsOK' /\ TabOK' /\ call'[w] = x
            /\ \A d \in Calls \ {w} : call'[d] = call[d]
        BY <2>1, <3>1, <3>2, <3>3, <3>4, Moves
      <3>6. WaitsOK'
        <4>1. \A u \in Transfers : waiter[u] # w
          BY <3>1, <3>2 DEF TypeInv, WaitsOK
        <4>2. waiter' = waiter /\ statWaiter' = statWaiter
          BY <2>1 DEF waits
        <4> QED BY <3>2, <3>3, <3>5, <4>1, <4>2 DEF TypeInv, WaitsOK
      <3> QED BY <2>1, <2>2, <3>5, <3>6 DEF TypeInv
    <2> QED BY <2>3, <2>4
  <1>4. CASE LoseAnswer(m)
    <2>1. LinkOK' /\ slice' = slice
      BY <1>4 DEF LoseAnswer, TypeInv, LinkOK, records
    <2>2. FaultsOK'
      BY <1>4, ConstantsAssumption DEF LoseAnswer, TypeInv, FaultsOK
    <2> QED BY <1>4, <2>1, <2>2 DEF LoseAnswer, TypeInv
  <1> QED BY <1>2, <1>3, <1>4

\* A file the phone commits is one version from end to end.
LEMMA Verified ==
    ASSUME TypeInv, NEW t \in Transfers, chain[t] # <<>>,
           verify([stage[t] EXCEPT ![Head(chain[t]).idx] = Head(chain[t]).ver],
                  Head(chain[t]).sha)
    PROVE  LET part == [stage[t] EXCEPT ![Head(chain[t]).idx] = Head(chain[t]).ver]
           IN  part \in [Index -> Versions] /\ part # None /\ staged(part) \in Versions
  <1> USE Constants
  <1> DEFINE k == Head(chain[t])
             part == [stage[t] EXCEPT ![k.idx] = k.ver]
  <1>1. k \in Pieces
    BY DEF TypeInv, PhoneOK
  <1>2. k.sha \in Versions \cup {Misfed, None} /\ k.ver \in Versions
    BY <1>1 DEF Pieces
  <1>3. part \in [Index -> Versions \cup {None}]
    BY <1>2 DEF TypeInv, PhoneOK
  <1>4. staged(part) = k.sha
    BY DEF verify
  <1> HIDE DEF k, part
  <1>5. staged(part) # Bad /\ staged(part) \in Versions
    BY <1>2, <1>4, Staged, ConstantsAssumption
  <1>6. part[0] \in Versions /\ \A i \in Index : part[i] = part[0]
    BY <1>5, Staged
  <1>7. part \in [Index -> Versions]
    BY <1>3, <1>6
  <1> QED BY <1>5, <1>7 DEF part, k

\* The phone works off its chains; the link breaks and comes back.
LEMMA PhoneTypeInv ==
    ASSUME TypeInv
    PROVE  /\ \A t \in Transfers : CommitBegin(t) \/ CommitEnd(t) \/ CommitFails(t) => TypeInv'
           /\ PhoneRestart \/ LinkDown \/ LinkUp => TypeInv'
  <1> USE Constants, Frame
  <1>1. ASSUME NEW t \in Transfers, chain[t] # <<>>
        PROVE  /\ Head(chain[t]) \in Pieces
               /\ Tail(chain[t]) \in Seq(Pieces)
               /\ chain[t] \in Seq(Pieces)
               /\ [chain EXCEPT ![t] = Tail(chain[t])] \in [Transfers -> Seq(Pieces)]
    <2> HIDE DEF Pieces
    <2>1. chain[t] \in Seq(Pieces)
      BY DEF TypeInv, PhoneOK
    <2>2. Tail(chain[t]) \in Seq(Pieces) /\ Head(chain[t]) \in Pieces
      BY <1>1, <2>1
    <2> QED BY <2>1, <2>2 DEF TypeInv, PhoneOK
  <1>2. ASSUME NEW t \in Transfers, CommitBegin(t) PROVE TypeInv'
    <2> DEFINE k == Head(chain[t])
    <2>1. /\ chain[t] # <<>>
          /\ UNCHANGED <<records, waits, call, user, link, stage, settled, file, faults>>
          /\ slice' = slice
      BY <1>2 DEF CommitBegin, records
    <2>2. k \in Pieces /\ k.idx \in Index
      BY <1>1, <2>1 DEF Pieces
    <2>3. PhoneOK'
      <3>1. CASE k.live
        <4>1. /\ chain' = [chain EXCEPT ![t][1].busy = TRUE]
              /\ ledger' = [ledger EXCEPT ![t] = (IF @ = None THEN {} ELSE @) \cup {k.idx}]
          BY <1>2, <3>1 DEF CommitBegin
        <4>2. ledger' \in [Transfers -> (SUBSET Index) \cup {None}]
          BY <2>2, <4>1 DEF TypeInv, PhoneOK
        <4>3. \A p \in Pieces : [p EXCEPT !.busy = TRUE] \in Pieces
          BY DEF Pieces
        <4>4. chain[t] \in Seq(Pieces)
          BY <1>1, <2>1
        <4> HIDE DEF Pieces
        <4>5. [chain[t] EXCEPT ![1] = [chain[t][1] EXCEPT !.busy = TRUE]] \in Seq(Pieces)
          <5>1. chain[t] \in [1..Len(chain[t]) -> Pieces] /\ Len(chain[t]) \in Nat
            BY <4>4
          <5>2. [chain[t] EXCEPT ![1] = [chain[t][1] EXCEPT !.busy = TRUE]]
                  \in [1..Len(chain[t]) -> Pieces]
            BY <4>3, <5>1
          <5> QED BY <5>1, <5>2, SMTT(30)
        <4>6. chain' \in [Transfers -> Seq(Pieces)]
          BY <4>1, <4>5 DEF TypeInv, PhoneOK
        <4> QED BY <2>1, <4>2, <4>6 DEF TypeInv, PhoneOK
      <3>2. CASE ~k.live
        <4>1. chain' = [chain EXCEPT ![t] = Tail(chain[t])] /\ ledger' = ledger
          BY <1>2, <3>2 DEF CommitBegin
        <4> QED BY <1>1, <2>1, <4>1 DEF TypeInv, PhoneOK
      <3> QED BY <3>1, <3>2
    <2> QED BY <2>1, <2>3 DEF TypeInv
  <1>3. ASSUME NEW t \in Transfers, CommitEnd(t) PROVE TypeInv'
    <2> DEFINE k == Head(chain[t])
               part == [stage[t] EXCEPT ![k.idx] = k.ver]
               whole == verify(part, k.sha)
    <2>1. /\ chain[t] # <<>>
          /\ UNCHANGED <<records, waits, call, user, up, faults>>
          /\ slice' = slice
          /\ chain' = [chain EXCEPT ![t] = Tail(chain[t])]
      BY <1>3 DEF CommitEnd, records
    <2>2. k \in Pieces /\ k.idx \in Index /\ k.ver \in Versions
      BY <1>1, <2>1 DEF Pieces
    <2>3. part \in [Index -> Versions \cup {None}]
      BY <2>2 DEF TypeInv, PhoneOK
    <2>4. whole => part \in [Index -> Versions]
      BY <2>1, Verified
    <2>5. /\ stage' = [stage EXCEPT ![t] = IF k.idx # Last /\ k.live THEN part ELSE NoStage]
          /\ ledger' \in {ledger, [ledger EXCEPT ![t] = None]}
          /\ file' \in {file, [file EXCEPT ![t] = part]}
          /\ file' # file => whole
          /\ settled' \in {settled, settled \cup {t}}
          /\ toMac' = toMac \/ \E b \in BOOLEAN : toMac' = toMac \cup {Ack(t, b)}
      <3> HIDE DEF k, part
      <3>1. CASE k.idx # Last
        <4>1. /\ stage' = [stage EXCEPT ![t] = IF k.live THEN part ELSE NoStage]
              /\ ledger' = [ledger EXCEPT ![t] = IF k.live THEN @ ELSE None]
              /\ UNCHANGED <<file, settled, toMac>>
          BY <1>3, <3>1 DEF CommitEnd, k, part
        <4>2. ledger' \in {ledger, [ledger EXCEPT ![t] = None]}
          BY <4>1 DEF TypeInv, PhoneOK
        <4> QED BY <3>1, <4>1, <4>2
      <3>2. CASE k.idx = Last
        <4>1. /\ stage' = [stage EXCEPT ![t] = NoStage]
              /\ ledger' = [ledger EXCEPT ![t] = None]
              /\ file' = IF whole THEN [file EXCEPT ![t] = part] ELSE file
              /\ settled' = IF whole /\ k.live THEN settled \cup {t} ELSE settled
              /\ toMac' = IF k.live \/ ~whole THEN toMac \cup {Ack(t, whole)} ELSE toMac
          BY <1>3, <3>2 DEF CommitEnd, k, part
        <4>2. whole \in BOOLEAN
          BY DEF verify
        <4> HIDE DEF whole
        <4> QED BY <3>2, <4>1, <4>2
      <3> QED BY <3>1, <3>2
    <2> HIDE DEF k, part, whole
    <2>6. PhoneOK'
      <3>1. stage' \in [Transfers -> [Index -> Versions \cup {None}]]
        BY <2>3, <2>5 DEF TypeInv, PhoneOK
      <3>2. ledger' \in [Transfers -> (SUBSET Index) \cup {None}] /\ settled' \subseteq Transfers
        BY <2>5 DEF TypeInv, PhoneOK
      <3>3. file' \in [Transfers -> [Index -> Versions] \cup {None}]
        BY <2>4, <2>5 DEF TypeInv, PhoneOK
      <3>4. chain' \in [Transfers -> Seq(Pieces)]
        BY <1>1, <2>1
      <3> QED BY <3>1, <3>2, <3>3, <3>4 DEF PhoneOK
    <2>7. LinkOK'
      <3>1. \A b \in BOOLEAN : Ack(t, b) \in Answers
        BY DEF Ack, Answers
      <3> QED BY <2>1, <2>5, <3>1 DEF TypeInv, LinkOK
    <2> QED BY <2>1, <2>6, <2>7 DEF TypeInv
  <1>4. ASSUME NEW t \in Transfers, CommitFails(t) PROVE TypeInv'
    <2>1. /\ chain[t] # <<>> /\ faults < MaxFaults /\ faults' = faults + 1
          /\ UNCHANGED <<records, waits, call, user, up, stage, settled, file>>
          /\ slice' = slice
          /\ chain' = [chain EXCEPT ![t] = Tail(chain[t])]
          /\ ledger' = [ledger EXCEPT ![t] = None]
          /\ toMac' \in {toMac, toMac \cup {Ack(t, FALSE)}}
      BY <1>4 DEF CommitFails, records
    <2>2. PhoneOK'
      BY <1>1, <2>1 DEF TypeInv, PhoneOK
    <2>3. Ack(t, FALSE) \in Answers
      BY DEF Ack, Answers
    <2>4. LinkOK'
      BY <2>1, <2>3 DEF TypeInv, LinkOK
    <2>5. FaultsOK'
      BY <2>1, ConstantsAssumption DEF TypeInv, FaultsOK
    <2> QED BY <2>1, <2>2, <2>4, <2>5 DEF TypeInv
  <1>5. CASE PhoneRestart
    <2>1. PhoneOK'
      BY <1>5 DEF PhoneRestart, TypeInv, PhoneOK
    <2>2. LinkOK' /\ slice' = slice
      BY <1>5 DEF PhoneRestart, TypeInv, LinkOK, records
    <2>3. FaultsOK'
      BY <1>5, ConstantsAssumption DEF PhoneRestart, TypeInv, FaultsOK
    <2> QED BY <1>5, <2>1, <2>2, <2>3 DEF PhoneRestart, TypeInv
  <1>6. CASE LinkDown
    <2>1. LinkOK' /\ slice' = slice
      BY <1>6 DEF LinkDown, TypeInv, LinkOK, records
    <2>2. FaultsOK'
      BY <1>6, ConstantsAssumption DEF LinkDown, TypeInv, FaultsOK
    <2> QED BY <1>6, <2>1, <2>2 DEF LinkDown, TypeInv
  <1>7. CASE LinkUp
    <2>1. LinkOK' /\ slice' = slice
      BY <1>7 DEF LinkUp, TypeInv, LinkOK, records
    <2> QED BY <1>7, <2>1 DEF LinkUp, TypeInv
  <1> QED BY <1>2, <1>3, <1>4, <1>5, <1>6, <1>7

\* Every step keeps the types.
LEMMA NextTypeInv == TypeInv /\ [Next]_vars => TypeInv'
  <1> SUFFICES ASSUME TypeInv, [Next]_vars PROVE TypeInv'
    OBVIOUS
  <1>1. CASE UNCHANGED vars
    <2>1. /\ UNCHANGED <<records, waits, call, user, link, phone, faults>>
          /\ UNCHANGED slice
      BY <1>1 DEF vars, records
    <2> QED BY <2>1, Frame DEF TypeInv
  <1>2. ASSUME NEW c \in Calls, CallStep(c) PROVE TypeInv'
    BY <1>2, NativeTypeInv, SendTypeInv, CompleteTypeInv, RetryTypeInv DEF CallStep
  <1>3. ASSUME NEW c \in Calls, NEW t \in Transfers,
               \/ \E k \in Kinds : Dispatch(c, t, k)
               \/ ResumeUpload(c, t)
               \/ ResumeBrowserUpload(c, t)
               \/ SendBrowserChunk(c, t)
        PROVE  TypeInv'
    <2>1. queryUploadStat(c, t, "resume") \/ queryUploadStat(c, t, "tab") => TypeInv'
      BY QueryTypeInv
    <2> QED BY <1>3, <2>1, NativeTypeInv, TabTypeInv DEF ResumeUpload, ResumeBrowserUpload
  <1>4. ASSUME NEW t \in Transfers,
               \/ ResumeChanged(t) \/ BeginBrowserUpload(t) \/ RehashBrowserChunk(t)
               \/ AbortBrowserUpload(t) \/ SweepSession(t) \/ SweepSlice(t)
               \/ Prune(t) \/ Edit(t) \/ CommitFails(t)
        PROVE  TypeInv'
    BY <1>4, TabTypeInv, SweepTypeInv, PhoneTypeInv
  <1>5. ASSUME NEW t \in Transfers, CancelTransfer(t) PROVE TypeInv'
    <2>1. cancel({t}) /\ batch' \in {"running", "cancelled"}
      BY <1>5 DEF CancelTransfer, TypeInv, UserOK
    <2> QED BY <2>1, CancelTypeInv
  <1>6. CASE CancelUploadBatch
    BY <1>6, CancelTypeInv DEF CancelUploadBatch
  <1>7. ASSUME NEW m \in toMac, ingestFileAck(m) \/ ingestFileStatResp(m) \/ LoseAnswer(m)
        PROVE  TypeInv'
    BY <1>7, AnswerTypeInv
  <1>8. CASE PhoneStep
    BY <1>8, PhoneTypeInv DEF PhoneStep
  <1>9. CASE PhoneRestart \/ LinkDown \/ LinkUp
    BY <1>9, PhoneTypeInv
  <1> QED BY <1>1, <1>2, <1>3, <1>4, <1>5, <1>6, <1>7, <1>8, <1>9 DEF Next

\* Every variable has its type, and a registered channel belongs to a call for
\* that transfer: a confirmation never reaches the call of another file
\* (registerAckWaiter, ingestFileAckBody).
THEOREM TypeCorrect == Spec => []TypeOK
  <1>1. Spec => []TypeInv
    BY InitTypeInv, NextTypeInv, PTL DEF Spec
  <1>2. TypeInv => TypeOK
    <2> SUFFICES ASSUME TypeInv PROVE TypeOK
      OBVIOUS
    <2>1. \A t \in Transfers : slice[t] # None => slice[t] \in Slices
      BY DEF TypeInv, RecordsOK
    <2>2. \A t \in Transfers : \A n \in 1..Len(chain[t]) : chain[t][n] \in Pieces
      BY DEF TypeInv, PhoneOK
    <2>3. /\ call \in [Calls -> CallStates]
          /\ \A t \in Transfers : waiter[t] # None => call[waiter[t]].t = t
      BY DEF TypeInv, CallsOK, WaitsOK
    <2> QED BY <2>1, <2>2, <2>3
            DEF TypeInv, TypeOK, RecordsOK, WaitsOK, UserOK, LinkOK, PhoneOK, FaultsOK,
                Slices, Pieces, CallStates, Answers
  <1> QED BY <1>1, <1>2, PTL


(***************************************************************************)
(* What the phone has committed.                                           *)
(***************************************************************************)

\* The commit of the last piece of t is the only step that changes a file, and
\* it commits one version.
Commits(t) ==
    \E part \in [Index -> Versions] :
        /\ file' = [file EXCEPT ![t] = part]
        /\ staged(part) \in Versions

\* A file of the phone is replaced by one step only, the commit of a staged file
\* whose digest agreed.
LEMMA FileStep ==
    ASSUME TypeInv, Next
    PROVE  \/ UNCHANGED file
           \/ \E t \in Transfers : CommitEnd(t) /\ Commits(t)
  <1>1. ASSUME NEW t \in Transfers, CommitEnd(t)
        PROVE  UNCHANGED file \/ Commits(t)
    <2> DEFINE k == Head(chain[t])
               part == [stage[t] EXCEPT ![k.idx] = k.ver]
               whole == verify(part, k.sha)
    <2>1. chain[t] # <<>>
      BY <1>1 DEF CommitEnd
    <2>2. whole => part \in [Index -> Versions] /\ staged(part) \in Versions
      BY <2>1, Verified
    <2>3. file' = file \/ (whole /\ file' = [file EXCEPT ![t] = part])
      BY <1>1 DEF CommitEnd
    <2> HIDE DEF k, part, whole
    <2> QED BY <2>2, <2>3 DEF Commits
  <1>2. ASSUME NEW T, handleCancel(T) PROVE UNCHANGED file
    BY <1>2, CancelReaches
  <1>3. ASSUME NEW c \in Calls, CallStep(c) PROVE UNCHANGED file
    BY <1>3 DEF CallStep, Register, Poll, registerAckWaiter, SendChunk, SendAgain, SendFails,
       WaitOk, WaitFails, Unconfirmed, Complete, AlreadyThere, StatEnds, Restart, phone
  <1>4. ASSUME NEW c \in Calls, NEW t \in Transfers,
               \/ \E k \in Kinds : Dispatch(c, t, k)
               \/ ResumeUpload(c, t)
               \/ ResumeBrowserUpload(c, t)
               \/ SendBrowserChunk(c, t)
        PROVE  UNCHANGED file
    BY <1>4 DEF Dispatch, ResumeUpload, ResumeBrowserUpload, queryUploadStat,
       SendBrowserChunk, phone
  <1>5. ASSUME NEW t \in Transfers,
               \/ ResumeChanged(t) \/ BeginBrowserUpload(t) \/ RehashBrowserChunk(t)
               \/ AbortBrowserUpload(t) \/ CancelTransfer(t) \/ SweepSession(t)
               \/ SweepSlice(t) \/ Prune(t) \/ Edit(t) \/ CommitFails(t) \/ CommitBegin(t)
        PROVE  UNCHANGED file
    BY <1>2, <1>5 DEF ResumeChanged, BeginBrowserUpload, RehashBrowserChunk,
       AbortBrowserUpload, CancelTransfer, cancel, SweepSession, SweepSlice, Prune, Edit,
       CommitFails, CommitBegin, phone
  <1>6. CASE CancelUploadBatch
    BY <1>2, <1>6 DEF CancelUploadBatch, cancel
  <1>7. ASSUME NEW m \in toMac, ingestFileAck(m) \/ ingestFileStatResp(m) \/ LoseAnswer(m)
        PROVE  UNCHANGED file
    BY <1>7 DEF ingestFileAck, ingestFileStatResp, LoseAnswer, phone
  <1>8. CASE PhoneRestart \/ LinkDown \/ LinkUp
    BY <1>8 DEF PhoneRestart, LinkDown, LinkUp, phone
  <1> QED BY <1>1, <1>3, <1>4, <1>5, <1>6, <1>7, <1>8 DEF Next, PhoneStep

\* A commit puts one version in place, and no other step touches the files.
LEMMA NextNoSplice == TypeInv /\ NoSplice /\ [Next]_vars => NoSplice'
  <1> SUFFICES ASSUME TypeInv, NoSplice, [Next]_vars PROVE NoSplice'
    OBVIOUS
  <1>1. CASE UNCHANGED file
    BY <1>1 DEF NoSplice, staged
  <1>2. ASSUME NEW t \in Transfers, Commits(t) PROVE NoSplice'
    <2>1. PICK part : file' = [file EXCEPT ![t] = part] /\ staged(part) \in Versions
      BY <1>2 DEF Commits
    <2>2. \A u \in Transfers : file'[u] = file[u] \/ staged(file'[u]) \in Versions
      BY <2>1 DEF TypeInv, PhoneOK
    <2> HIDE DEF Commits
    <2>3. ASSUME NEW u \in Transfers, file'[u] # None PROVE staged(file'[u]) # Bad
      BY <2>2, <2>3, Constants DEF NoSplice
    <2> QED BY <2>3 DEF NoSplice, staged
  <1> QED BY <1>1, <1>2, FileStep DEF vars, phone

\* A committed file is one version of the local file from end to end, also
\* when it was edited between two attempts and the phone still had pieces of
\* the old one: pieces left from before a restart, of an abandoned epoch or of
\* another version never make up a file that verifies (resumeNativeChunks,
\* _commitChunk).
THEOREM NeverSpliced == Spec => []NoSplice
  <1>1. Init => NoSplice
    BY DEF Init, NoSplice
  <1> QED BY <1>1, InitTypeInv, NextTypeInv, NextNoSplice, PTL DEF Spec

(***************************************************************************)
(* A confirmation is earned.                                               *)
(***************************************************************************)

\* With a phone that confirms deliveries, whoever holds a confirmation (an
\* answer under way, a full channel, a call that is done waiting) is about a
\* file that is there.
Confirmed(c) ==
    /\ call[c].pc \notin {"idle", "stat"}
    /\ call[c].pc = "fin" \/ call[c].box = "ok"

EarnedOK ==
    AckPeer =>
        /\ \A m \in toMac : m.type = "ack" /\ m.val = 1 => file[m.t] # None
        /\ \A c \in Calls : Confirmed(c) => file[call[c].t] # None

\* A step after which that is still so: files stay, and a confirmation is an
\* old one or about a file that is there.
Earns ==
    /\ \A m \in toMac' : \/ m \in toMac
                         \/ m.type # "ack"
                         \/ m.val # 1
                         \/ file'[m.t] # None
    /\ \A c \in Calls : \/ call'[c].t = call[c].t /\ (Confirmed(c)' => Confirmed(c))
                        \/ ~Confirmed(c)'
                        \/ file'[call'[c].t] # None

\* Files stay.
LEMMA FilesStay ==
    ASSUME TypeInv, Next
    PROVE  \A t \in Transfers : file[t] # None => file'[t] # None
  <1>1. CASE UNCHANGED file
    BY <1>1
  <1>2. ASSUME NEW t \in Transfers, Commits(t)
        PROVE  \A u \in Transfers : file[u] # None => file'[u] # None
    BY <1>2, Constants DEF Commits, TypeInv, PhoneOK
  <1> QED BY <1>1, <1>2, FileStep

\* A step that makes no confirmation up (Earns) keeps every confirmation
\* covered by a committed file.
LEMMA EarnedKept ==
    ASSUME TypeInv, Next, EarnedOK, Earns
    PROVE  EarnedOK'
  <1> SUFFICES ASSUME AckPeer
               PROVE  /\ \A m \in toMac' : m.type = "ack" /\ m.val = 1 => file'[m.t] # None
                      /\ \A c \in Calls : Confirmed(c)' => file'[call'[c].t] # None
    BY DEF EarnedOK
  <1>1. \A m \in toMac : m.t \in Transfers
    BY DEF TypeInv, LinkOK, Answers
  <1>2. \A c \in Calls : Confirmed(c) => call[c].t \in Transfers
    BY DEF Confirmed, TypeInv, CallsOK
  <1> QED BY <1>1, <1>2, FilesStay DEF Earns, EarnedOK


\* A call without news: it has no confirmation it did not have before.
NoNews(c) ==
    \/ call'[c].t = call[c].t /\ (Confirmed(c)' => Confirmed(c))
    \/ ~Confirmed(c)'

\* The calls of the Mac.
LEMMA CallEarns ==
    ASSUME TypeInv, EarnedOK, AckPeer, NEW c \in Calls, CallStep(c)
    PROVE  Earns
  <1> USE Constants
  <1>0. call \in [Calls -> CallStates]
    BY DEF TypeInv, CallsOK
  <1>1. toMac' = toMac
    BY DEF CallStep, Register, Poll, registerAckWaiter, SendChunk, SendAgain, SendFails,
       WaitOk, WaitFails, Unconfirmed, Complete, AlreadyThere, StatEnds, Restart, link
  <1>2. ASSUME UNCHANGED call PROVE \A d \in Calls : NoNews(d)
    BY <1>2 DEF NoNews, Confirmed
  <1>3. ASSUME NEW x \in CallStates, call' = [call EXCEPT ![c] = x],
               \/ x.pc = "idle"
               \/ /\ x.t = call[c].t /\ x.pc # "fin"
                  /\ x.box = None \/ (x.box = call[c].box /\ call[c].pc \notin {"idle", "stat"})
               \/ Confirmed(c) /\ x.t = call[c].t
        PROVE  \A d \in Calls : NoNews(d)
    <2>1. \A d \in Calls \ {c} : call'[d] = call[d]
      BY <1>0, <1>3
    <2>2. call'[c] = x
      BY <1>0, <1>3
    <2>3. \A d \in Calls \ {c} : NoNews(d)
      BY <2>1 DEF NoNews, Confirmed
    <2>4. NoNews(c)
      BY <1>3, <2>2 DEF NoNews, Confirmed
    <2> QED BY <2>3, <2>4
  <1>4. ASSUME failTransfer(c, call[c].t), call[c].t \in Transfers PROVE \A d \in Calls : NoNews(d)
    <2>1. PICK w \in Calls \cup {None} : call' = [Post(call, w, "fail") EXCEPT ![c] = Idle]
      BY <1>4 DEF failTransfer, TypeInv, WaitsOK
    <2>2. call'[c] = Idle
      BY <1>0, <2>1 DEF Post
    <2>3. \A d \in Calls \ {c} : call'[d] = Post(call, w, "fail")[d]
      <3>1. Post(call, w, "fail") \in [Calls -> CallStates]
        BY Posted DEF TypeInv
      <3> QED BY <2>1, <3>1
    <2>5. \A d \in Calls \ {c} :
            \/ call'[d] = call[d]
            \/ call'[d].box = "fail" /\ call'[d].pc = call[d].pc /\ call'[d].t = call[d].t
      BY <2>3, Posted DEF TypeInv
    <2>6. \A d \in Calls \ {c} : NoNews(d)
      BY <2>5 DEF NoNews, Confirmed
    <2>7. NoNews(c)
      BY <2>2 DEF NoNews, Confirmed
    <2> QED BY <2>6, <2>7
  <1>5. call[c].pc # "idle" => call[c].t \in Transfers
    BY DEF TypeInv, CallsOK
  <1>6. ASSUME NEW pc \in Pcs, call' = [call EXCEPT ![c].pc = pc], pc # "fin",
               call[c].pc \notin {"idle", "stat"}
        PROVE  \A d \in Calls : NoNews(d)
    <2> DEFINE x == [call[c] EXCEPT !.pc = pc]
    <2>1. x \in CallStates /\ x.t = call[c].t /\ x.pc = pc /\ x.box = call[c].box
      BY <1>0 DEF CallStates
    <2>2. call' = [call EXCEPT ![c] = x]
      BY <1>0, <1>6
    <2> HIDE DEF x
    <2> QED BY <1>3, <1>6, <2>1, <2>2
  <1>7. ASSUME call' = [call EXCEPT ![c] = Idle] PROVE \A d \in Calls : NoNews(d)
    BY <1>3, <1>7
  <1>8. \A d \in Calls : NoNews(d)
    <2>1. CASE Register(c)
      <3>1. call' = [call EXCEPT ![c].pc = "poll"] /\ call[c].pc = "task" /\ "poll" \in Pcs
        BY <2>1 DEF Register, Pcs
      <3> QED BY <1>6, <3>1
    <2>2. CASE Poll(c)
      <3>1. call[c].pc = "poll"
        BY <2>2 DEF Poll
      <3>2. CASE call' = [call EXCEPT ![c].pc = ready(call[c].idx)]
        <4>1. ready(call[c].idx) \in {"reg", "send"} /\ {"reg", "send"} \subseteq Pcs
          BY DEF ready, Pcs
        <4> HIDE DEF ready
        <4> QED BY <1>6, <3>1, <3>2, <4>1
      <3> QED BY <1>4, <1>5, <1>7, <2>2, <3>1, <3>2 DEF Poll
    <2>3. CASE registerAckWaiter(c)
      <3> DEFINE x == [call[c] EXCEPT !.pc = "send", !.box = None]
      <3>1. x \in CallStates /\ x.t = call[c].t /\ x.pc = "send" /\ x.box = None
        BY <1>0 DEF CallStates, Pcs
      <3>2. call' = [call EXCEPT ![c] = x]
        BY <1>0, <2>3 DEF registerAckWaiter
      <3> HIDE DEF x
      <3> QED BY <1>3, <3>1, <3>2
    <2>4. CASE SendChunk(c)
      <3>1. call[c].pc = "send" /\ call' = sent(c)
        BY <2>4 DEF SendChunk
      <3>2. CASE call[c].idx = Last
        <4>1. call' = [call EXCEPT ![c].pc = "wait"]
          BY <3>1, <3>2 DEF sent
        <4>2. "wait" \in Pcs
          BY DEF Pcs
        <4> QED BY <1>6, <3>1, <4>1, <4>2
      <3>3. CASE call[c].idx # Last /\ call[c].kind = "tab"
        BY <1>7, <3>1, <3>3 DEF sent
      <3>4. CASE call[c].idx # Last /\ call[c].kind # "tab"
        <4> DEFINE x == [call[c] EXCEPT !.pc = "poll", !.idx = call[c].idx + 1]
        <4>0. call[c].idx \in Index
          BY <3>1 DEF TypeInv, CallsOK
        <4>1. call[c].idx + 1 \in 0..Chunks
          BY <3>4, <4>0, ConstantsAssumption DEF Index, Last
        <4>2. x \in CallStates /\ x.t = call[c].t /\ x.pc = "poll" /\ x.box = call[c].box
          BY <1>0, <4>1 DEF CallStates, Pcs
        <4>3. call' = [call EXCEPT ![c] = x]
          BY <1>0, <3>1, <3>4 DEF sent
        <4> HIDE DEF x
        <4> QED BY <1>3, <3>1, <4>2, <4>3
      <3> QED BY <3>2, <3>3, <3>4
    <2>5. CASE SendAgain(c)
      BY <1>2, <2>5 DEF SendAgain
    <2>6. CASE SendFails(c)
      BY <1>4, <1>5, <2>6 DEF SendFails
    <2>7. CASE WaitOk(c)
      <3> DEFINE x == [call[c] EXCEPT !.pc = "fin"]
      <3>1. x \in CallStates /\ x.t = call[c].t
        BY <1>0 DEF CallStates, Pcs
      <3>2. call' = [call EXCEPT ![c] = x]
        BY <1>0, <2>7 DEF WaitOk
      <3>3. Confirmed(c)
        BY <2>7 DEF WaitOk, Confirmed
      <3> HIDE DEF x
      <3> QED BY <1>3, <3>1, <3>2, <3>3
    <2>8. CASE WaitFails(c)
      <3>1. call[c].pc = "wait" /\ call' = [call EXCEPT ![c].pc = "failed"] /\ "failed" \in Pcs
        BY <2>8 DEF WaitFails, Pcs
      <3> QED BY <1>6, <3>1
    <2>9. CASE Unconfirmed(c)
      BY <1>4, <1>5, <2>9 DEF Unconfirmed
    <2>10. CASE Complete(c)
      BY <1>7, <2>10 DEF Complete
    <2>11. CASE AlreadyThere(c)
      BY <1>7, <2>11 DEF AlreadyThere
    <2>12. CASE StatEnds(c)
      <3> DEFINE x == [call[c] EXCEPT !.pc = "begin", !.box = None]
                 y == [call[c] EXCEPT !.pc = "begin", !.box = None, !.idx = 0]
      <3>1. /\ x \in CallStates /\ x.t = call[c].t /\ x.pc = "begin" /\ x.box = None
            /\ y \in CallStates /\ y.t = call[c].t /\ y.pc = "begin" /\ y.box = None
        BY <1>0 DEF CallStates, Pcs
      <3>2. call' = [call EXCEPT ![c] = x] \/ call' = [call EXCEPT ![c] = y]
        BY <1>0, <2>12 DEF StatEnds
      <3> HIDE DEF x, y
      <3> QED BY <1>3, <3>1, <3>2
    <2>13. CASE Restart(c)
      <3>1. call[c].pc = "begin" /\ "poll" \in Pcs
        BY <2>13 DEF Restart, Pcs
      <3>2. \/ call' = [call EXCEPT ![c].pc = "poll"]
            \/ call' = [call EXCEPT ![c] = Idle]
        BY <2>13 DEF Restart
      <3> QED BY <1>6, <1>7, <3>1, <3>2
    <2> QED BY <2>1, <2>2, <2>3, <2>4, <2>5, <2>6, <2>7, <2>8, <2>9, <2>10, <2>11, <2>12,
               <2>13 DEF CallStep
  <1> QED BY <1>1, <1>8 DEF Earns, NoNews

\* Steps of the user, the answers and the phone.
LEMMA OthersEarn ==
    ASSUME TypeInv, EarnedOK, AckPeer, Next
    PROVE  Earns
  <1> USE Constants
  <1>0. call \in [Calls -> CallStates]
    BY DEF TypeInv, CallsOK
  <1>1. ASSUME UNCHANGED call PROVE \A d \in Calls : NoNews(d)
    BY <1>1 DEF NoNews, Confirmed
  <1>2. ASSUME \A d \in Calls : NoNews(d), toMac' \subseteq toMac PROVE Earns
    BY <1>2 DEF Earns, NoNews
  <1>3. ASSUME NEW c \in Calls, NEW x, call' = [call EXCEPT ![c] = x],
               x.pc \in {"idle", "stat"} \/ (x.box # "ok" /\ x.pc # "fin")
        PROVE  \A d \in Calls : NoNews(d)
    <2>1. \A d \in Calls \ {c} : call'[d] = call[d]
      BY <1>0, <1>3
    <2>2. call'[c] = x
      BY <1>0, <1>3
    <2>3. \A d \in Calls \ {c} : NoNews(d)
      BY <2>1 DEF NoNews, Confirmed
    <2>4. NoNews(c)
      BY <1>3, <2>2 DEF NoNews, Confirmed
    <2> QED BY <2>3, <2>4
  <1>4. ASSUME NEW c \in Calls, NEW t \in Transfers,
               \/ \E k \in Kinds : Dispatch(c, t, k)
               \/ ResumeUpload(c, t)
               \/ ResumeBrowserUpload(c, t)
               \/ SendBrowserChunk(c, t)
        PROVE  Earns
    <2>1. ASSUME NEW k \in Kinds, Dispatch(c, t, k) PROVE Earns
      <3> DEFINE x == [Idle EXCEPT !.pc = "task", !.t = t, !.kind = k]
      <3>1. x.box = None /\ x.pc = "task" /\ None # "ok"
        BY DEF Idle
      <3>2. call' = [call EXCEPT ![c] = x] /\ toMac' = toMac
        BY <2>1 DEF Dispatch, link
      <3> HIDE DEF x
      <3> QED BY <1>2, <1>3, <3>1, <3>2
    <2>2. ASSUME NEW k, queryUploadStat(c, t, k) PROVE Earns
      <3>1. PICK pc \in {"stat", "begin"} :
              call' = [call EXCEPT ![c] = [Idle EXCEPT !.pc = pc, !.t = t, !.kind = k]]
        BY <2>2 DEF queryUploadStat
      <3> DEFINE x == [Idle EXCEPT !.pc = pc, !.t = t, !.kind = k]
      <3>2. x.box = None /\ x.pc = pc /\ None # "ok"
        BY DEF Idle
      <3> HIDE DEF x
      <3>3. call' = [call EXCEPT ![c] = x]
        BY <3>1 DEF x
      <3>4. \A d \in Calls : NoNews(d)
        BY <1>3, <3>2, <3>3
      <3>5. \A m \in toMac' : m \in toMac \/ m.type # "ack"
        BY <2>2 DEF queryUploadStat, handleStat, StatResp
      <3> QED BY <3>4, <3>5 DEF Earns, NoNews
    <2>3. CASE SendBrowserChunk(c, t)
      <3> DEFINE fed == Append(slice[t].fed, slice[t].next)
                 x == [Idle EXCEPT !.pc = ready(slice[t].next), !.t = t, !.kind = "tab",
                                   !.idx = slice[t].next, !.sha = digest(fed, local[t])]
      <3>1. x.box = None /\ x.pc \in {"reg", "send"} /\ None # "ok"
        BY DEF Idle, ready
      <3>2. call' = [call EXCEPT ![c] = x] /\ toMac' = toMac
        BY <2>3 DEF SendBrowserChunk, link
      <3> HIDE DEF x
      <3> QED BY <1>2, <1>3, <3>1, <3>2
    <2> QED BY <1>4, <2>1, <2>2, <2>3 DEF ResumeUpload, ResumeBrowserUpload
  <1>5. ASSUME NEW T, cancel(T) PROVE Earns
    <2>1. toMac' = toMac
      BY <1>5 DEF cancel, link
    <2>2. \A d \in Calls : call'[d] \in {call[d], Post(call, d, "fail")[d]}
      BY <1>5 DEF cancel
    <2>4. \A d \in Calls :
            \/ call'[d] = call[d]
            \/ call'[d].box = "fail" /\ call'[d].pc = call[d].pc /\ call'[d].t = call[d].t
      BY <2>2, Posted DEF TypeInv
    <2>5. \A d \in Calls : NoNews(d)
      BY <2>4 DEF NoNews, Confirmed
    <2> QED BY <1>2, <2>1, <2>5
  <1>6. ASSUME NEW t \in Transfers,
               \/ ResumeChanged(t) \/ BeginBrowserUpload(t) \/ RehashBrowserChunk(t)
               \/ AbortBrowserUpload(t) \/ SweepSession(t) \/ SweepSlice(t)
               \/ Prune(t) \/ Edit(t) \/ CommitBegin(t)
        PROVE  Earns
    <2>1. UNCHANGED <<call, toMac>>
      BY <1>6 DEF ResumeChanged, BeginBrowserUpload, RehashBrowserChunk,
         AbortBrowserUpload, SweepSession, SweepSlice, Prune, Edit, CommitBegin, link
    <2> QED BY <1>1, <1>2, <2>1
  <1>7. ASSUME NEW t \in Transfers, CommitFails(t) PROVE Earns
    <2>1. call' = call /\ toMac' \in {toMac, toMac \cup {Ack(t, FALSE)}}
      BY <1>7 DEF CommitFails
    <2>2. Ack(t, FALSE).val # 1
      BY DEF Ack
    <2> QED BY <1>1, <2>1, <2>2 DEF Earns, NoNews
  <1>8. ASSUME NEW t \in Transfers, CommitEnd(t) PROVE Earns
    <2> DEFINE k == Head(chain[t])
               part == [stage[t] EXCEPT ![k.idx] = k.ver]
               whole == verify(part, k.sha)
    <2>1. chain[t] # <<>> /\ call' = call
      BY <1>8 DEF CommitEnd
    <2>2. whole => part # None
      BY <2>1, Verified
    <2>3. CASE k.idx # Last
      <3>1. toMac' = toMac
        BY <1>8, <2>3 DEF CommitEnd
      <3> QED BY <1>1, <1>2, <2>1, <3>1
    <2>4. CASE k.idx = Last
      <3>1. /\ file' = IF whole THEN [file EXCEPT ![t] = part] ELSE file
            /\ toMac' = IF k.live \/ ~whole THEN toMac \cup {Ack(t, whole)} ELSE toMac
        BY <1>8, <2>4 DEF CommitEnd
      <3>2. Ack(t, whole).t = t /\ (~whole => Ack(t, whole).val # 1)
        BY DEF Ack
      <3> HIDE DEF k, part, whole
      <3>3. whole => file'[t] # None
        BY <2>2, <3>1 DEF TypeInv, PhoneOK
      <3>4. \A m \in toMac' : m \in toMac \/ m = Ack(t, whole)
        BY <3>1
      <3>5. \A m \in toMac' : m \in toMac \/ m.val # 1 \/ file'[m.t] # None
        BY <3>2, <3>3, <3>4
      <3> QED BY <1>1, <2>1, <3>5 DEF Earns, NoNews
    <2> QED BY <2>3, <2>4
  <1>9. ASSUME NEW m \in toMac, ingestFileAck(m) PROVE Earns
    <2> DEFINE v == IF m.val = 1 THEN "ok" ELSE "fail"
               w == waiter[m.t]
    <2>1. toMac' \subseteq toMac /\ call' = Post(call, w, v) /\ file' = file
      BY <1>9 DEF ingestFileAck, consume, phone
    <2>2. m.t \in Transfers /\ w \in Calls \cup {None}
      BY DEF TypeInv, LinkOK, Answers, WaitsOK
    <2>3. w # None => call[w].t = m.t
      BY <2>2 DEF TypeInv, WaitsOK
    <2>4. v = "ok" => file'[m.t] # None
      BY <1>9, <2>1 DEF ingestFileAck, EarnedOK
    <2>5. v \in {"ok", "fail"}
      OBVIOUS
    <2> HIDE DEF v, w
    <2>6. CASE call' = call
      BY <1>1, <1>2, <2>1, <2>6
    <2>7. CASE call' # call
      <3>1. PICK d \in Calls : d = w /\ call' = [call EXCEPT ![d].box = v]
        BY <2>1, <2>2, <2>7 DEF Post
      <3>2. \A e \in Calls \ {d} : call'[e] = call[e]
        BY <1>0, <3>1
      <3>3. /\ call'[d].t = call[d].t /\ call[d].t = m.t
            /\ call'[d].pc = call[d].pc /\ call'[d].box = v
        BY <1>0, <2>3, <3>1 DEF CallStates
      <3>4. \A e \in Calls \ {d} : NoNews(e)
        BY <3>2 DEF NoNews, Confirmed
      <3>5. NoNews(d) \/ file'[call'[d].t] # None
        <4>1. CASE v = "ok"
          BY <2>4, <3>3, <4>1
        <4>2. CASE v = "fail"
          BY <3>3, <4>2 DEF NoNews, Confirmed
        <4> QED BY <2>5, <4>1, <4>2
      <3> QED BY <2>1, <3>4, <3>5 DEF Earns, NoNews
    <2> QED BY <2>6, <2>7
  <1>10. ASSUME NEW m \in toMac, ingestFileStatResp(m) PROVE Earns
    <2> DEFINE w == statWaiter[m.t]
    <2>1. /\ toMac' \subseteq toMac
          /\ \/ call' = call
             \/ w # None /\ call' = [call EXCEPT ![w].box = "ok", ![w].idx = m.val]
      BY <1>10 DEF ingestFileStatResp, consume
    <2>2. m.t \in Transfers /\ (w # None => w \in Calls /\ call[w].pc = "stat")
      BY DEF TypeInv, LinkOK, Answers, WaitsOK
    <2> HIDE DEF w
    <2>3. CASE call' = call
      BY <1>1, <1>2, <2>1, <2>3
    <2>4. CASE w # None /\ call' = [call EXCEPT ![w].box = "ok", ![w].idx = m.val]
      <3>0. PICK e \in Calls : e = w
        BY <2>2, <2>4
      <3>1. \A d \in Calls \ {e} : call'[d] = call[d]
        BY <1>0, <2>4, <3>0
      <3>2. call'[e].pc = "stat"
        BY <1>0, <2>2, <2>4, <3>0 DEF CallStates
      <3>3. \A d \in Calls : NoNews(d)
        BY <3>1, <3>2 DEF NoNews, Confirmed
      <3> QED BY <1>2, <2>1, <3>3
    <2> QED BY <2>1, <2>3, <2>4
  <1>11. ASSUME NEW m \in toMac, LoseAnswer(m) PROVE Earns
    BY <1>1, <1>2, <1>11 DEF LoseAnswer
  <1>12. CASE PhoneRestart \/ LinkDown \/ LinkUp
    <2>1. UNCHANGED <<call, toMac>>
      BY <1>12 DEF PhoneRestart, LinkDown, LinkUp
    <2> QED BY <1>1, <1>2, <2>1
  <1> QED BY <1>4, <1>5, <1>6, <1>7, <1>8, <1>9, <1>10, <1>11, <1>12, CallEarns
          DEF Next, PhoneStep, CancelTransfer, CancelUploadBatch


\* At first nothing is confirmed.
LEMMA InitEarnedOK == Init => EarnedOK
  BY Constants DEF Init, EarnedOK, Confirmed

\* No confirmation is made up.
LEMMA NextEarnedOK == TypeInv /\ EarnedOK /\ [Next]_vars => EarnedOK'
  <1> SUFFICES ASSUME TypeInv, EarnedOK, [Next]_vars, AckPeer PROVE EarnedOK'
    BY DEF EarnedOK
  <1>1. CASE UNCHANGED vars
    BY <1>1 DEF vars, link, phone, EarnedOK, Confirmed
  <1>2. CASE Next
    BY <1>2, OthersEarn, EarnedKept
  <1> QED BY <1>1, <1>2

(***************************************************************************)
(* An upload is a delivery.                                                *)
(***************************************************************************)

Arrived == [t \in Transfers |-> IF file[t] = None THEN Bad ELSE staged(file[t])]

Promised == [Delivery!Next]_Delivery!vars

\* Nothing the user sees changes.
LEMMA Stutter == UNCHANGED <<status, file>> => Promised
  BY DEF Promised, Delivery!vars, staged

\* The record of one transfer changes.
LEMMA RecordStep ==
    ASSUME TypeInv, NoSplice, NEW t \in Transfers, NEW v, UNCHANGED file,
           status' = [status EXCEPT ![t] = v],
           \/ v \in {status[t], "running"}
           \/ v = "error" /\ status[t] # "none"
           \/ v = "none" /\ status[t] \in {"done", "error", "cancelled"}
           \/ v = "done" /\ status[t] = "running" /\ file[t] # None
           \/ v = "cancelled" /\ status[t] = "running"
    PROVE  Promised
  <1>0. status \in [Transfers -> Status]
    BY DEF TypeInv, RecordsOK
  <1>1. UNCHANGED Arrived
    BY DEF Arrived, staged
  <1>2. CASE v = status[t]
    <2>1. status' = status
      BY <1>0, <1>2
    <2> QED BY <2>1, Stutter
  <1>3. CASE v = "running" /\ status[t] # "running"
    <2>1. Delivery!Run(t)
      BY <1>1, <1>3 DEF Delivery!Run, Arrived
    <2> QED BY <2>1 DEF Promised, Delivery!Next
  <1>4. CASE v = "error" /\ status[t] # "none"
    <2>1. Delivery!Fail(t)
      BY <1>1, <1>4 DEF Delivery!Fail, Arrived
    <2> QED BY <2>1 DEF Promised, Delivery!Next
  <1>5. CASE v = "none" /\ status[t] \in {"done", "error", "cancelled"}
    <2>1. Delivery!Forget(t)
      BY <1>1, <1>5 DEF Delivery!Forget, Delivery!Over, Arrived
    <2> QED BY <2>1 DEF Promised, Delivery!Next
  <1>6. CASE v = "done" /\ status[t] = "running" /\ file[t] # None
    <2>1. Arrived[t] # 0
      BY <1>6 DEF Arrived, NoSplice, Bad
    <2>2. Delivery!Confirm(t)
      BY <1>1, <1>6, <2>1 DEF Delivery!Confirm, Arrived
    <2> QED BY <2>2 DEF Promised, Delivery!Next
  <1>7. CASE v = "cancelled" /\ status[t] = "running"
    <2>1. status' = [u \in Transfers |-> IF u \in {t} THEN "cancelled" ELSE status[u]]
      BY <1>0, <1>7
    <2>2. Delivery!Cancel({t})
      BY <1>1, <1>7, <2>1 DEF Delivery!Cancel, Arrived
    <2> QED BY <2>2 DEF Promised, Delivery!Next
  <1> QED BY <1>2, <1>3, <1>4, <1>5, <1>6, <1>7

\* A file arrives.
LEMMA ArriveStep ==
    ASSUME TypeInv, NEW t \in Transfers, Commits(t), UNCHANGED status
    PROVE  Promised
  <1>1. PICK part \in [Index -> Versions] :
          file' = [file EXCEPT ![t] = part] /\ staged(part) \in Versions
    BY DEF Commits
  <1>2. part # None
    BY Constants
  <1>3. file'[t] = part /\ \A u \in Transfers \ {t} : file'[u] = file[u]
    BY <1>1 DEF TypeInv, PhoneOK
  <1>4. Arrived' = [Arrived EXCEPT ![t] = staged(part)]
    <2> DEFINE A(f) == [u \in Transfers |-> IF f[u] = None THEN Bad ELSE staged(f[u])]
    <2>1. Arrived = A(file) /\ Arrived' = A(file')
      BY DEF Arrived, staged
    <2>2. A(file') = [A(file) EXCEPT ![t] = staged(part)]
      BY <1>2, <1>3
    <2> QED BY <2>1, <2>2
  <1>5. Delivery!Arrive(t)
    BY <1>1, <1>4 DEF Delivery!Arrive, Arrived
  <1> QED BY <1>5 DEF Promised, Delivery!Next

\* Every step is one the promise allows.
LEMMA NextPromised ==
    ASSUME AckPeer, TypeInv, NoSplice, EarnedOK, Next
    PROVE  Promised
  <1> HIDE DEF Promised
  <1>1. ASSUME NEW t \in Transfers, CommitEnd(t), Commits(t) PROVE Promised
    <2>1. UNCHANGED status
      BY <1>1 DEF CommitEnd, records
    <2> QED BY <1>1, <2>1, ArriveStep
  <1>2. CASE UNCHANGED file
    <2>1. ASSUME NEW c \in Calls, CallStep(c) PROVE Promised
      <3> DEFINE t == call[c].t
      <3>1. call[c].pc # "idle" => t \in Transfers
        BY DEF TypeInv, CallsOK
      <3>2. PICK u : u = t
        OBVIOUS
      <3>3. ASSUME failTransfer(c, u), u \in Transfers PROVE Promised
        <4>1. status' = [status EXCEPT ![u] = IF status[u] = "none" THEN "none" ELSE "error"]
          BY <3>3 DEF failTransfer
        <4>2. PICK v : v = IF status[u] = "none" THEN "none" ELSE "error"
          OBVIOUS
        <4>3. status' = [status EXCEPT ![u] = v]
          BY <4>1, <4>2
        <4>4. v = status[u] \/ (v = "error" /\ status[u] # "none")
          BY <4>2
        <4> QED BY <1>2, <3>3, <4>3, <4>4, RecordStep
      <3>4. CASE Register(c)
        <4>1. u \in Transfers /\ status' = [status EXCEPT ![u] = "running"]
          BY <3>1, <3>2, <3>4 DEF Register
        <4> QED BY <1>2, <4>1, RecordStep
      <3>5. CASE Poll(c)
        <4>1. u \in Transfers
          BY <3>1, <3>2, <3>5 DEF Poll
        <4>2. UNCHANGED status \/ failTransfer(c, u)
          BY <3>2, <3>5 DEF Poll
        <4> QED BY <1>2, <3>3, <4>1, <4>2, Stutter
      <3>6. CASE SendFails(c) \/ Unconfirmed(c)
        <4>1. u \in Transfers /\ failTransfer(c, u)
          BY <3>1, <3>2, <3>6 DEF SendFails, Unconfirmed
        <4> QED BY <3>3, <4>1
      <3>7. CASE Complete(c)
        <4>1. call[c].pc = "fin" /\ u \in Transfers
          BY <3>1, <3>2, <3>7 DEF Complete
        <4>2. file[u] # None
          BY <3>2, <4>1 DEF EarnedOK, Confirmed
        <4>3. PICK v : /\ status' = [status EXCEPT ![u] = v]
                       /\ v = status[u] \/ (v = "done" /\ status[u] = "running")
          BY <3>2, <3>7 DEF Complete
        <4> QED BY <1>2, <4>1, <4>2, <4>3, RecordStep
      <3>8. CASE Restart(c)
        <4>1. u \in Transfers
          BY <3>1, <3>2, <3>8 DEF Restart
        <4>2. PICK v : status' = [status EXCEPT ![u] = v] /\ v \in {status[u], "running"}
          BY <3>2, <3>8 DEF Restart
        <4> QED BY <1>2, <4>1, <4>2, RecordStep
      <3>9. CASE \/ registerAckWaiter(c) \/ SendChunk(c) \/ SendAgain(c) \/ WaitOk(c)
                 \/ WaitFails(c) \/ AlreadyThere(c) \/ StatEnds(c)
        <4>1. UNCHANGED status
          BY <3>9 DEF registerAckWaiter, SendChunk, SendAgain, WaitOk, WaitFails,
             AlreadyThere, StatEnds, records
        <4> QED BY <1>2, <4>1, Stutter
      <3> QED BY <2>1, <3>4, <3>5, <3>6, <3>7, <3>8, <3>9 DEF CallStep
    <2>2. ASSUME NEW c \in Calls, NEW t \in Transfers,
                 \/ \E k \in Kinds : Dispatch(c, t, k)
                 \/ ResumeUpload(c, t)
                 \/ ResumeBrowserUpload(c, t)
                 \/ SendBrowserChunk(c, t)
          PROVE  Promised
      <3>1. UNCHANGED status
        BY <2>2 DEF Dispatch, ResumeUpload, ResumeBrowserUpload, queryUploadStat,
           SendBrowserChunk, records
      <3> QED BY <1>2, <3>1, Stutter
    <2>3. ASSUME NEW t \in Transfers,
                 \/ ResumeChanged(t) \/ RehashBrowserChunk(t) \/ SweepSession(t)
                 \/ Edit(t) \/ CommitFails(t) \/ CommitBegin(t) \/ CommitEnd(t)
          PROVE  Promised
      <3>1. UNCHANGED status
        BY <2>3 DEF ResumeChanged, RehashBrowserChunk, SweepSession, Edit, CommitFails,
           CommitBegin, CommitEnd, records
      <3> QED BY <1>2, <3>1, Stutter
    <2>4. ASSUME NEW t \in Transfers,
                 \/ BeginBrowserUpload(t) \/ AbortBrowserUpload(t) \/ SweepSlice(t) \/ Prune(t)
          PROVE  Promised
      <3>1. PICK v : /\ status' = [status EXCEPT ![t] = v]
                     /\ \/ v \in {status[t], "running"}
                        \/ v \in {"error", "cancelled"} /\ status[t] = "running"
                        \/ v = "none" /\ status[t] \in {"done", "error", "cancelled"}
        BY <2>4 DEF BeginBrowserUpload, AbortBrowserUpload, SweepSlice, Prune
      <3> QED BY <1>2, <3>1, RecordStep
    <2>5. ASSUME NEW T \in SUBSET Transfers, cancel(T), \A t \in T : status[t] = "running"
          PROVE  Promised
      <3>1. status' = [t \in Transfers |-> IF t \in T THEN "cancelled" ELSE status[t]]
        BY <2>5 DEF cancel
      <3>2. UNCHANGED Arrived
        BY <1>2 DEF Arrived, staged
      <3>3. Delivery!Cancel(T)
        BY <2>5, <3>1, <3>2 DEF Delivery!Cancel, Arrived
      <3> QED BY <3>3 DEF Promised, Delivery!Next
    <2>6. ASSUME NEW t \in Transfers, CancelTransfer(t) PROVE Promised
      BY <2>5, <2>6 DEF CancelTransfer
    <2>7. CASE CancelUploadBatch
      <3> DEFINE S == {t \in Transfers : status[t] = "running"}
      <3>1. cancel(S)
        BY <2>7 DEF CancelUploadBatch
      <3>2. PICK T \in SUBSET Transfers : T = S
        OBVIOUS
      <3> QED BY <2>5, <3>1, <3>2
    <2>8. ASSUME NEW m \in toMac, ingestFileAck(m) PROVE Promised
      <3>1. m.t \in Transfers
        BY DEF TypeInv, LinkOK, Answers
      <3>2. m.val = 1 => file[m.t] # None
        BY <2>8 DEF ingestFileAck, EarnedOK
      <3>3. PICK v : /\ status' = [status EXCEPT ![m.t] = v]
                     /\ \/ v = status[m.t]
                        \/ v = "done" /\ status[m.t] = "running" /\ m.val = 1
                        \/ v = "error" /\ status[m.t] = "running"
        BY <2>8 DEF ingestFileAck
      <3> QED BY <1>2, <3>1, <3>2, <3>3, RecordStep
    <2>9. ASSUME NEW m \in toMac, ingestFileStatResp(m) \/ LoseAnswer(m) PROVE Promised
      <3>1. UNCHANGED status
        BY <2>9 DEF ingestFileStatResp, LoseAnswer, records
      <3> QED BY <1>2, <3>1, Stutter
    <2>10. CASE PhoneRestart \/ LinkDown \/ LinkUp
      <3>1. UNCHANGED status
        BY <2>10 DEF PhoneRestart, LinkDown, LinkUp, records
      <3> QED BY <1>2, <3>1, Stutter
    <2> QED BY <2>1, <2>2, <2>3, <2>4, <2>6, <2>7, <2>8, <2>9, <2>10 DEF Next, PhoneStep
  <1> QED BY <1>1, <1>2, FileStep


\* An upload is a delivery: whole files arrive, only an arrived file is
\* reported done, and a report changes as FileDelivery lets it, whatever is
\* lost, late or repeated, and however often the user retries or cancels.  The
\* phone confirms deliveries (files-ack); one that does not confirms nothing.
THEOREM Refines == ASSUME AckPeer PROVE Spec => ImplementsDelivery
  <1>1. Init => Delivery!Init
    BY DEF Init, Delivery!Init, Bad
  <1>2. TypeInv /\ NoSplice /\ EarnedOK /\ [Next]_vars => [Delivery!Next]_Delivery!vars
    <2>1. UNCHANGED vars => UNCHANGED <<status, file>>
      BY DEF vars, records, phone
    <2> QED BY <2>1, Stutter, NextPromised DEF Promised
  <1>3. Init => NoSplice
    BY DEF Init, NoSplice
  <1> QED BY <1>1, <1>2, <1>3, InitTypeInv, NextTypeInv, NextNoSplice, InitEarnedOK,
             NextEarnedOK, PTL DEF Spec, ImplementsDelivery, Delivery!Spec

\* A transfer the Mac reports as done is a whole file on the phone.  The
\* invariant is that of FileDelivery's Confirm: a record becomes done only when
\* its file has arrived, and a file that has arrived stays.
THEOREM DoneMeansDelivered == Spec => []DoneIsDelivered
  <1>1. Init => DoneIsDelivered /\ NoSplice
    BY DEF Init, DoneIsDelivered, NoSplice
  <1>2. ASSUME TypeInv, NoSplice, EarnedOK, DoneIsDelivered, [Next]_vars
        PROVE  DoneIsDelivered'
    <2>1. CASE UNCHANGED vars
      BY <1>2, <2>1 DEF vars, records, phone, DoneIsDelivered
    <2>2. CASE Next
      <3> SUFFICES ASSUME AckPeer, NEW t \in Transfers, status'[t] = "done"
                   PROVE  file'[t] # None
        BY DEF DoneIsDelivered
      <3>1. status \in [Transfers -> Status]
        BY <1>2 DEF TypeInv, RecordsOK
      <3>2. Promised
        BY <1>2, <2>2, NextPromised
      <3>3. status[t] = "done" \/ Arrived[t] # 0
        <4>1. CASE UNCHANGED Delivery!vars
          BY <4>1 DEF Delivery!vars
        <4>2. ASSUME NEW u \in Transfers,
                     \/ Delivery!Run(u) \/ Delivery!Arrive(u) \/ Delivery!Fail(u)
                     \/ Delivery!Forget(u)
              PROVE  status[t] = "done"
          BY <3>1, <4>2 DEF Delivery!Run, Delivery!Arrive, Delivery!Fail, Delivery!Forget
        <4>3. ASSUME NEW u \in Transfers, Delivery!Confirm(u)
              PROVE  status[t] = "done" \/ Arrived[t] # 0
          BY <3>1, <4>3 DEF Delivery!Confirm, Arrived
        <4>4. ASSUME NEW T \in SUBSET Transfers, Delivery!Cancel(T)
              PROVE  status[t] = "done"
          BY <3>1, <4>4 DEF Delivery!Cancel
        <4> QED BY <3>2, <4>1, <4>2, <4>3, <4>4 DEF Promised, Delivery!Next
      <3>4. file[t] # None
        BY <1>2, <3>3 DEF DoneIsDelivered, Arrived, Bad
      <3> QED BY <1>2, <2>2, <3>4, FilesStay
    <2> QED BY <1>2, <2>1, <2>2
  <1> QED BY <1>1, <1>2, InitTypeInv, NextTypeInv, NextNoSplice, InitEarnedOK,
             NextEarnedOK, PTL DEF Spec

(***************************************************************************)
(* The drop the files come in, for drops of every size, any number of      *)
(* senders and a channel of any length.                                    *)
(***************************************************************************)

(***************************************************************************)
(* The walk.                                                               *)
(***************************************************************************)

\* What the drop is never changes.
DropOK ==
    /\ \A i \in Items : parent[i] < i
    /\ \A i \in Items : parent[i] \in bad => i \in bad
    /\ dirs \subseteq 1..size
    /\ mode = "list" => dirs = {}

\* The walker writes a folder's frame, or puts a file into the channel, at an
\* entry of the drop with a valid path; the folders it has passed are made.
WalkOK ==
    /\ walker \in {"mkdir", "mark"} => at \in dirs \ bad
    /\ walker = "put" => at \in (1..size) \ (dirs \cup bad)
    /\ walker = "mark" => at \in mkdirs
    /\ gates \subseteq mkdirs \cup {Root}
    /\ \A d \in dirs \ bad : d < at => d \in mkdirs

\* The task in the runner's hand is a file.
TaskOK == runner = "acquire" => task \in Items

DropTypeInv == DropTypeOK /\ DropOK /\ WalkOK /\ TaskOK

\* The drop starts in its types, with nothing made and nothing sent.
LEMMA DropInitTypeInv == DropInit => DropTypeInv
  <1> SUFFICES ASSUME DropInit PROVE DropTypeInv
    OBVIOUS
  <1> USE DropAssumption DEF DropInit, Items, Root
  <1>1. DropOK /\ WalkOK /\ TaskOK
    BY DEF DropOK, WalkOK, TaskOK
  <1>2. queue \in Seq(Items \ dirs) /\ size \in Items /\ at \in 1..(N + 1)
    OBVIOUS
  <1>3. /\ dirs \subseteq Items /\ bad \subseteq Items
        /\ parent \in [Items -> {Root} \cup dirs]
    OBVIOUS
  <1>4. DropTypeOK
    BY <1>2, <1>3 DEF DropTypeOK
  <1> QED BY <1>1, <1>4 DEF DropTypeInv

\* The walker keeps the types, and makes folders from the top down.
LEMMA DropWalkerTypeInv == DropTypeInv /\ Walker => DropTypeInv'
  <1> SUFFICES ASSUME DropTypeInv, Walker PROVE DropTypeInv'
    OBVIOUS
  <1> USE DropAssumption DEF DropTypeInv, DropTypeOK, DropOK, WalkOK, TaskOK, Items, Root,
          drop, walking, running, sending, dropRecords
  <1>1. CASE Visit
    BY <1>1 DEF Visit
  <1>2. CASE WalkFails
    BY <1>2 DEF WalkFails
  <1>3. CASE Mkdir
    BY <1>3 DEF Mkdir
  <1>4. CASE markSent
    BY <1>4 DEF markSent
  <1>5. CASE Put
    BY <1>5 DEF Put
  <1>6. CASE CloseTasks
    BY <1>6 DEF CloseTasks
  <1> QED BY <1>1, <1>2, <1>3, <1>4, <1>5, <1>6 DEF Walker

\* The runner hands files to senders and gives a slot to each.
LEMMA DropRunnerTypeInv == DropTypeInv /\ Runner => DropTypeInv'
  <1> SUFFICES ASSUME DropTypeInv, Runner PROVE DropTypeInv'
    OBVIOUS
  <1> USE DropAssumption DEF DropTypeInv, DropTypeOK, DropOK, WalkOK, TaskOK, Items, Root,
          drop, walking, running, sending, dropRecords
  <1>1. CASE Alone
    BY <1>1 DEF Alone
  <1>2. CASE Receive
    BY <1>2 DEF Receive
  <1>3. CASE Drain
    <2>1. firstErr' = TRUE /\ UNCHANGED <<drop, walking, task, sending, dropRecords>>
      BY <1>3 DEF Drain
    <2>2. queue' \in Seq(Items \ dirs) /\ runner' \in {"recv", "wait"}
      <3>1. CASE mode = "stream"
        <4>1. queue # <<>> /\ queue' = Tail(queue) /\ runner' = "recv"
          BY <1>3, <3>1 DEF Drain
        <4> QED BY <4>1
      <3>2. CASE mode # "stream"
        BY <1>3, <3>2 DEF Drain
      <3> QED BY <3>1, <3>2
    <2> QED BY <2>1, <2>2
  <1>4. CASE Acquire
    BY <1>4 DEF Acquire
  <1>5. CASE NoMore
    BY <1>5 DEF NoMore
  <1>6. CASE Refuse
    BY <1>6 DEF Refuse
  <1>7. CASE Return
    BY <1>7 DEF Return
  <1> QED BY <1>1, <1>2, <1>3, <1>4, <1>5, <1>6, <1>7 DEF Runner

\* A sender only moves on and gives its slot back.
LEMMA DropSenderTypeInv == \A i \in Items : DropTypeInv /\ Sender(i) => DropTypeInv'
  <1> SUFFICES ASSUME NEW i \in Items, DropTypeInv, Sender(i) PROVE DropTypeInv'
    OBVIOUS
  <1> USE DropAssumption DEF DropTypeInv, DropTypeOK, DropOK, WalkOK, TaskOK, Root,
          drop, walking, running, sending, dropRecords
  <1>1. CASE Start(i)
    <2>1. CASE isBatchCancelled
      BY <1>1, <2>1, ZenonT(60) DEF Start, endInError, isBatchCancelled
    <2>2. CASE ~isBatchCancelled
      <3>1. /\ sender[i] = "start" /\ sender' = [sender EXCEPT ![i] = "open"]
            /\ UNCHANGED <<slots, firstErr, drop, walking, running, begun, dropRecords>>
        BY <1>1, <2>2 DEF Start, endInError, isBatchCancelled
      <3> QED BY <3>1
    <2> QED BY <2>1, <2>2
  <1>2. CASE OpenFails(i)
    BY <1>2 DEF OpenFails, endInError
  <1>3. CASE RegisterFile(i)
    BY <1>3, SMTT(30) DEF RegisterFile
  <1>4. CASE FirstChunk(i)
    BY <1>4 DEF FirstChunk
  <1>5. CASE FoundCancelled(i)
    BY <1>5 DEF FoundCancelled, endInError, failed
  <1>6. CASE ChunkFails(i)
    BY <1>6, SMTT(30) DEF ChunkFails, endInError, failed, refreshBatchCompletion
  <1>7. CASE Sent(i)
    BY <1>7 DEF Sent
  <1>8. CASE SendConfirmed(i)
    BY <1>8, ZenonT(60) DEF SendConfirmed, refreshBatchCompletion
  <1>9. CASE SendUnconfirmed(i)
    BY <1>9, SMTT(30) DEF SendUnconfirmed, endInError, failed, refreshBatchCompletion
  <1> QED BY <1>1, <1>2, <1>3, <1>4, <1>5, <1>6, <1>7, <1>8, <1>9 DEF Sender

\* What the user and the progress view do.
User == (\E i \in Items : CancelOne(i)) \/ CancelDrop \/ Stamp \/ PruneDrop

\* They only change records.
LEMMA DropUserTypeInv == DropTypeInv /\ User => DropTypeInv'
  <1> SUFFICES ASSUME DropTypeInv, User PROVE DropTypeInv'
    OBVIOUS
  <1>1. UNCHANGED <<drop, walking, running, sending, firstErr>>
    BY DEF User, CancelOne, CancelDrop, Stamp, PruneDrop
  <1> USE DEF DropTypeInv, DropTypeOK
  <1>2. transfer' \in [Items -> {"none", "running", "done", "error", "cancelled", "gone"}]
    <2>1. CASE \E i \in Items : CancelOne(i)
      BY <2>1 DEF CancelOne
    <2>2. CASE CancelDrop
      BY <2>2 DEF CancelDrop
    <2>3. CASE Stamp
      BY <2>3 DEF Stamp
    <2>4. CASE PruneDrop
      BY <2>4 DEF PruneDrop
    <2> QED BY <2>1, <2>2, <2>3, <2>4 DEF User
  <1>3. dropStatus' \in {"running", "cancelled", "gone"} /\ stamped' \in BOOLEAN
    BY DEF User, CancelOne, CancelDrop, Stamp, PruneDrop
  <1> QED BY <1>1, <1>2, <1>3
          DEF DropOK, WalkOK, TaskOK, drop, walking, running, sending

\* Every step keeps the types.
LEMMA DropNextTypeInv == DropTypeInv /\ [DropNext]_dropVars => DropTypeInv'
  <1> SUFFICES ASSUME DropTypeInv, [DropNext]_dropVars PROVE DropTypeInv'
    OBVIOUS
  <1>1. CASE UNCHANGED dropVars
    BY <1>1 DEF dropVars, DropTypeInv, DropTypeOK, DropOK, WalkOK, TaskOK, drop, walking,
                running,
                sending, dropRecords
  <1> QED BY <1>1, DropWalkerTypeInv, DropRunnerTypeInv, DropSenderTypeInv, DropUserTypeInv
             DEF DropNext, User

\* Every variable of a drop has its type, and only goroutines that send hold
\* a slot of the semaphore.
THEOREM DropTypeCorrect == DropSpec => []DropTypeOK
  <1>1. DropTypeInv => DropTypeOK
    BY DEF DropTypeInv
  <1> QED BY <1>1, DropInitTypeInv, DropNextTypeInv, PTL DEF DropSpec

(***************************************************************************)
(* Folders before what is in them.                                         *)
(***************************************************************************)

\* At first nothing was sent.
LEMMA InitMkdirFirst == DropInit => MkdirFirst
  BY DEF DropInit, MkdirFirst

\* A frame or a first chunk goes out into a folder that is made: the gate of
\* the folder is open, or the walk has passed it.
LEMMA NextMkdirFirst == DropTypeInv /\ MkdirFirst /\ [DropNext]_dropVars => MkdirFirst'
  <1> SUFFICES ASSUME DropTypeInv, MkdirFirst, [DropNext]_dropVars PROVE MkdirFirst'
    OBVIOUS
  <1> USE DEF MkdirFirst, drop, walking, running, sending, dropRecords
  <1>1. CASE Mkdir
    <2>1. at \in dirs \ bad /\ at \in Items /\ at \in Nat
      BY <1>1, DropAssumption DEF Mkdir, DropTypeInv, DropTypeOK, WalkOK, Items
    <2>2. parent[at] < at /\ parent[at] \notin bad /\ parent[at] \in {Root} \cup dirs
      BY <2>1 DEF DropTypeInv, DropTypeOK, DropOK
    <2>3. parent[at] \in mkdirs \cup {Root}
      BY <2>2 DEF DropTypeInv, WalkOK
    <2> QED BY <1>1, <2>3 DEF Mkdir
  <1>2. ASSUME NEW i \in Items, FirstChunk(i) PROVE MkdirFirst'
    <2>1. parent[i] \in mkdirs \cup {Root}
      <3>1. CASE mode = "stream"
        BY <1>2, <3>1 DEF FirstChunk, DropTypeInv, WalkOK
      <3>2. CASE mode = "list"
        BY <1>2, <3>2 DEF DropTypeInv, DropTypeOK, DropOK
      <3> QED BY <3>1, <3>2 DEF DropTypeInv, DropTypeOK
    <2> QED BY <1>2, <2>1 DEF FirstChunk
  <1>3. CASE Walker /\ ~Mkdir
    BY <1>3 DEF Walker, Visit, WalkFails, markSent, Put, CloseTasks
  <1>4. CASE Runner
    BY <1>4 DEF Runner, Alone, Receive, Drain, Acquire, NoMore, Refuse, Return
  <1>5. ASSUME NEW i \in Items, Sender(i), ~FirstChunk(i) PROVE MkdirFirst'
    BY <1>5 DEF Sender, Start, OpenFails, RegisterFile, FoundCancelled, ChunkFails, Sent,
                SendConfirmed, SendUnconfirmed
  <1>6. CASE User
    BY <1>6 DEF User, CancelOne, CancelDrop, Stamp, PruneDrop
  <1>7. CASE UNCHANGED dropVars
    BY <1>7 DEF dropVars
  <1> QED BY <1>1, <1>2, <1>3, <1>4, <1>5, <1>6, <1>7 DEF DropNext, User

\* No chunk overtakes the mkdir of its folder, and no folder that of its
\* parent (mkdirGate), in a drop of any shape.
THEOREM FoldersFirst == DropSpec => []MkdirFirst
  BY DropInitTypeInv, DropNextTypeInv, InitMkdirFirst, NextMkdirFirst, PTL DEF DropSpec

(***************************************************************************)
(* A drop without an error is a drop sent.                                 *)
(***************************************************************************)

\* Where a sender stands tells what its file's record says.
SenderOK ==
    \A i \in Items :
        /\ sender[i] \in {"send", "confirm"} => i \in begun
        /\ sender[i] \in {"gate", "send", "confirm"} =>
              transfer[i] \in {"running", "cancelled", "gone"}
        /\ sender[i] = "ended" =>
              firstErr \/ (i \in begun /\ transfer[i] \in {"done", "cancelled", "gone"})

\* File i waits in the channel.
Queued(i) == \E j \in 1..Len(queue) : queue[j] = i

\* A file the walk has passed is in the channel, in the runner's hand or with
\* a sender, or an error was noted.
NoneLost ==
    /\ \A j \in 1..Len(queue) : queue[j] \in 1..size
    /\ \A i \in (1..size) \ (dirs \cup bad) :
          i < at => \/ firstErr
                    \/ sender[i] # "none"
                    \/ runner = "acquire" /\ task = i
                    \/ Queued(i)

\* The walk closes the channel at its end, and the runner leaves it when it is
\* empty, unless there was an error.
EndsOK ==
    /\ walker = "closed" /\ ~walkErr => at > size
    /\ runner \in {"wait", "returned"} /\ ~walkErr /\ ~firstErr =>
          walker = "closed" /\ queue = <<>>
    /\ runner = "returned" /\ ~walkErr => \A i \in Items : sender[i] \in {"none", "ended"}

SentInv == SenderOK /\ NoneLost /\ EndsOK

\* At first the walk has everything before it.
LEMMA InitSentInv == DropInit => SentInv
  BY DropAssumption DEF DropInit, SentInv, SenderOK, NoneLost, EndsOK, Items

\* What the channel holds after a task is put and after one is taken.
LEMMA QueueSteps ==
    ASSUME DropTypeInv, NEW i \in Items, NEW x \in Items \ dirs
    PROVE  /\ queue' = Append(queue, x) => (Queued(i)' <=> Queued(i) \/ i = x)
           /\ queue # <<>> /\ queue' = Tail(queue) =>
                 (Queued(i) => Queued(i)' \/ i = Head(queue))
  <1> USE DEF Queued, DropTypeInv, DropTypeOK
  <1>1. ASSUME queue' = Append(queue, x) PROVE Queued(i)' <=> Queued(i) \/ i = x
    <2>1. /\ Len(queue') = Len(queue) + 1
          /\ queue'[Len(queue) + 1] = x
          /\ \A j \in 1..Len(queue) : queue'[j] = queue[j]
      BY <1>1
    <2> QED BY <2>1
  <1>2. ASSUME queue # <<>>, queue' = Tail(queue), Queued(i)
        PROVE  Queued(i)' \/ i = Head(queue)
    <2>1. PICK j \in 1..Len(queue) : queue[j] = i
      BY <1>2
    <2>2. CASE j = 1
      BY <1>2, <2>1, <2>2
    <2>3. CASE j # 1
      <3>1. j - 1 \in 1..Len(queue') /\ queue'[j - 1] = queue[j]
        BY <1>2, <2>1, <2>3
      <3> QED BY <2>1, <3>1
    <2> QED BY <2>2, <2>3
  <1> QED BY <1>1, <1>2

\* The walker puts every file it passes into the channel.
LEMMA WalkerSentInv == DropTypeInv /\ SentInv /\ Walker => SentInv'
  <1> SUFFICES ASSUME DropTypeInv, SentInv, Walker PROVE SentInv'
    OBVIOUS
  <1> USE DropAssumption DEF SentInv, drop, walking, running, sending, dropRecords
  <1>1. CASE Put
    <2>1. /\ at \in (1..size) \ (dirs \cup bad) /\ at \in Items \ dirs
          /\ queue \in Seq(Items \ dirs) /\ size \in Nat
      BY <1>1 DEF Put, DropTypeInv, DropTypeOK, WalkOK, Items
    <2>2. SenderOK'
      BY <1>1 DEF Put, SenderOK
    <2>3. NoneLost'
      <3>1. \A j \in 1..Len(queue') : queue'[j] \in 1..size
        BY <1>1, <2>1 DEF Put, NoneLost
      <3>2. \A i \in 1..size : Queued(i)' <=> Queued(i) \/ i = at
        BY <1>1, <2>1, QueueSteps DEF Put, DropTypeInv, DropTypeOK, Items
      <3>3. \A i \in 1..size : i < at + 1 => i < at \/ i = at
        BY <2>1
      <3> QED BY <1>1, <3>1, <3>2, <3>3 DEF Put, NoneLost
    <2>4. EndsOK'
      BY <1>1 DEF Put, EndsOK
    <2> QED BY <2>2, <2>3, <2>4
  <1>2. CASE Walker /\ ~Put
    <2>1. UNCHANGED <<drop, running, sending, dropRecords, firstErr>>
      BY <1>2 DEF Walker, Visit, WalkFails, Mkdir, markSent, CloseTasks
    <2>2. SenderOK'
      BY <2>1 DEF SenderOK
    <2>3. \A i \in (1..size) \ (dirs \cup bad) : i < at' => i < at
      BY <1>2 DEF Walker, Visit, WalkFails, Mkdir, markSent, CloseTasks, DropTypeInv,
                  DropTypeOK,
                  WalkOK, Items
    <2>4. NoneLost'
      BY <2>1, <2>3 DEF NoneLost, Queued
    <2>5. EndsOK'
      BY <1>2, <2>1 DEF EndsOK, Walker, Visit, WalkFails, Mkdir, markSent, CloseTasks
    <2> QED BY <2>2, <2>4, <2>5
  <1> QED BY <1>1, <1>2

\* The runner loses no task without noting an error.
LEMMA RunnerSentInv == DropTypeInv /\ SentInv /\ Runner => SentInv'
  <1> SUFFICES ASSUME DropTypeInv, SentInv, Runner PROVE SentInv'
    OBVIOUS
  <1> USE DropAssumption DEF SentInv, drop, walking, running, sending, dropRecords
  <1>1. queue \in Seq(Items \ dirs) /\ size \in Items
    BY DEF DropTypeInv, DropTypeOK
  <1>2. CASE Alone
    <2>1. Head(queue) = 1
      BY <1>1, <1>2 DEF Alone, NoneLost
    <2>2. SenderOK'
      BY <1>2 DEF Alone, SenderOK, DropTypeInv, DropTypeOK
    <2>3. NoneLost'
      BY <1>2, <2>1 DEF Alone, NoneLost, DropTypeInv, DropTypeOK, Items
    <2>4. EndsOK'
      BY <1>2 DEF Alone, EndsOK, open
    <2> QED BY <2>2, <2>3, <2>4
  <1>3. CASE Receive
    <2>1. \A i \in 1..size : Queued(i) => Queued(i)' \/ i = task'
      BY <1>1, <1>3, QueueSteps DEF Receive, Items
    <2>2. \A j \in 1..Len(queue') : queue'[j] \in 1..size
      BY <1>1, <1>3 DEF Receive, NoneLost
    <2>3. NoneLost'
      BY <1>3, <2>1, <2>2 DEF Receive, NoneLost
    <2> QED BY <1>3, <2>3 DEF Receive, SenderOK, EndsOK
  <1>4. CASE Drain
    <2>1. firstErr' /\ UNCHANGED <<drop, walking, task, sending, dropRecords>>
      BY <1>4 DEF Drain
    <2>2. \A j \in 1..Len(queue') : queue'[j] \in 1..size
      <3>1. queue # <<>> /\ (queue' = queue \/ queue' = Tail(queue))
        BY <1>4 DEF Drain
      <3> QED BY <1>1, <3>1, SMTT(30) DEF NoneLost
    <2>3. runner' # "returned"
      BY <1>4 DEF Drain
    <2> QED BY <2>1, <2>2, <2>3 DEF SenderOK, NoneLost, EndsOK
  <1>5. CASE Acquire
    <2>1. task \in Items
      BY <1>5 DEF Acquire, DropTypeInv, DropTypeOK, TaskOK
    <2> QED BY <1>5, <2>1 DEF Acquire, SenderOK, NoneLost, EndsOK, Queued, DropTypeInv,
                              DropTypeOK
  <1>6. CASE NoMore
    BY <1>6 DEF NoMore, SenderOK, NoneLost, EndsOK, Queued
  <1>7. CASE Refuse
    BY <1>7 DEF Refuse, SenderOK, NoneLost, EndsOK, Queued
  <1>8. CASE Return
    BY <1>8 DEF Return, SenderOK, NoneLost, EndsOK, Queued
  <1> QED BY <1>2, <1>3, <1>4, <1>5, <1>6, <1>7, <1>8 DEF Runner

\* A sender ends with its file sent, or with an error.
LEMMA SenderSentInv == \A i \in Items : DropTypeInv /\ SentInv /\ Sender(i) => SentInv'
  <1> SUFFICES ASSUME NEW i \in Items, DropTypeInv, SentInv, Sender(i) PROVE SentInv'
    OBVIOUS
  <1>1. /\ UNCHANGED <<drop, walking, running>>
        /\ sender[i] \notin {"none", "ended"} /\ sender'[i] # "none"
        /\ \A k \in Items \ {i} : sender'[k] = sender[k]
        /\ firstErr => firstErr'
    BY DEF Sender, Start, OpenFails, RegisterFile, FirstChunk, FoundCancelled, ChunkFails,
           Sent,
           SendConfirmed, SendUnconfirmed, endInError, DropTypeInv, DropTypeOK
  <1>2. SenderOK'
    <2> USE DEF SentInv, SenderOK, DropTypeInv, DropTypeOK
    <2>1. CASE Start(i)
      BY <2>1 DEF Start, endInError, dropRecords
    <2>2. CASE OpenFails(i)
      BY <2>2 DEF OpenFails, endInError, dropRecords
    <2>3. CASE RegisterFile(i)
      BY <2>3 DEF RegisterFile
    <2>4. CASE FirstChunk(i)
      BY <2>4 DEF FirstChunk, dropRecords
    <2>5. CASE FoundCancelled(i)
      BY <2>5 DEF FoundCancelled, endInError, failed
    <2>6. CASE ChunkFails(i)
      BY <2>6 DEF ChunkFails, endInError, failed
    <2>7. CASE Sent(i)
      BY <2>7 DEF Sent, dropRecords
    <2>8. CASE SendConfirmed(i)
      BY <2>8 DEF SendConfirmed
    <2>9. CASE SendUnconfirmed(i)
      BY <2>9 DEF SendUnconfirmed, endInError, failed
    <2> QED BY <2>1, <2>2, <2>3, <2>4, <2>5, <2>6, <2>7, <2>8, <2>9 DEF Sender
  <1>3. NoneLost'
    <2>1. \A k \in Items : sender[k] # "none" => sender'[k] # "none"
      BY <1>1
    <2>2. 1..size \subseteq Items
      BY DropAssumption DEF DropTypeInv, DropTypeOK, Items
    <2> QED BY <1>1, <2>1, <2>2 DEF SentInv, NoneLost, Queued, drop, walking, running
  <1>4. EndsOK'
    BY <1>1 DEF SentInv, EndsOK, drop, walking, running
  <1> QED BY <1>2, <1>3, <1>4 DEF SentInv

\* A cancelled transfer stays one, and a pruned one is gone.
LEMMA UserSentInv == DropTypeInv /\ SentInv /\ User => SentInv'
  <1> SUFFICES ASSUME DropTypeInv, SentInv, User PROVE SentInv'
    OBVIOUS
  <1>1. UNCHANGED <<drop, walking, running, sending, firstErr>>
    BY DEF User, CancelOne, CancelDrop, Stamp, PruneDrop
  <1>2. \A i \in Items :
          /\ transfer[i] \in {"running", "cancelled", "gone"} =>
                transfer'[i] \in {"running", "cancelled", "gone"}
          /\ transfer[i] \in {"done", "cancelled", "gone"} =>
                transfer'[i] \in {"done", "cancelled", "gone"}
    BY DEF User, CancelOne, CancelDrop, Stamp, PruneDrop, DropTypeInv, DropTypeOK
  <1> QED BY <1>1, <1>2 DEF SentInv, SenderOK, NoneLost, EndsOK, Queued, drop, walking,
                            running, sending

\* Every step keeps the account of the files.
LEMMA NextSentInv == DropTypeInv /\ SentInv /\ [DropNext]_dropVars => SentInv'
  <1> SUFFICES ASSUME DropTypeInv, SentInv, UNCHANGED dropVars PROVE SentInv'
    BY WalkerSentInv, RunnerSentInv, SenderSentInv, UserSentInv DEF DropNext, User
  <1> QED BY DEF dropVars, SentInv, SenderOK, NoneLost, EndsOK, Queued, drop, walking,
                 running,
                 sending, dropRecords

\* The account at the end of a drop.
LEMMA SentAtTheEnd == DropTypeInv /\ SentInv => NothingLeftOut
  <1> SUFFICES ASSUME DropTypeInv, SentInv, runner = "returned", ~walkErr, ~firstErr,
                      NEW i \in (1..size) \ (dirs \cup bad)
               PROVE  i \in begun /\ transfer[i] \in {"done", "cancelled", "gone"}
    BY DEF NothingLeftOut
  <1>1. i \in Items /\ i < at /\ queue = <<>>
    BY DropAssumption DEF SentInv, EndsOK, DropTypeInv, DropTypeOK, Items
  <1>2. sender[i] = "ended"
    BY <1>1 DEF SentInv, NoneLost, EndsOK, Queued
  <1> QED BY <1>1, <1>2 DEF SentInv, SenderOK

\* A drop that returns without an error has sent every file with a valid path
\* to the end, apart from files cancelled one by one, whatever the size of
\* the drop, the channel and the semaphore (runUploadStream, runUploadTasks).
THEOREM ReturnsWhole == DropSpec => []NothingLeftOut
  BY DropInitTypeInv, DropNextTypeInv, InitSentInv, NextSentInv, SentAtTheEnd, PTL
     DEF DropSpec

=============================================================================
