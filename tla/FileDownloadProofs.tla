------------------------- MODULE FileDownloadProofs -------------------------
(***************************************************************************)
(* Proofs about FileDownload, for any number of downloads, pieces and      *)
(* faults.                                                                 *)
(***************************************************************************)
EXTENDS FileDownload, TLAPS

(***************************************************************************)
(* Types.                                                                  *)
(***************************************************************************)

Statuses == {"none", "running", "done", "error", "cancelled"}

HandlerStates == [pc : {"idle", "open", "write", "finish", "good", "bad"},
                  t : Transfers \cup {None}, idx : Index, fh : BOOLEAN]

RecordOK ==
    /\ status \in [Transfers -> Statuses]
    /\ handle \in [Transfers -> BOOLEAN]
    /\ fed \in [Transfers -> 0..Chunks]
    /\ dirty \in [Transfers -> BOOLEAN]
    /\ away \in [Transfers -> BOOLEAN]

DiskOK ==
    /\ part \in [Transfers -> (SUBSET Index) \cup {None}]
    /\ holder \in Transfers \cup {None, "user"}
    /\ target \in SUBSET Index
    /\ aside \in [Transfers -> SUBSET SUBSET Index]

WaitsOK ==
    /\ call \in [Transfers -> {"none", "wait", "nil", "err"}]
    /\ box \in [Transfers -> {None, "nil", "err"}]

\* A handler at work has a download, and a handle only while the part file is
\* open.
HandlersOK ==
    /\ handler \in [Handlers -> HandlerStates]
    /\ \A h \in Handlers :
         /\ handler[h].pc # "idle" => handler[h].t \in Transfers
         /\ handler[h].fh => handler[h].t \in Transfers /\ handle[handler[h].t]

PhoneOK ==
    /\ pull \subseteq Transfers
    /\ next \in [Transfers -> Index]
    /\ aborted \subseteq Transfers
    /\ there \in [Transfers -> BOOLEAN]

ListsOK ==
    /\ list \in [pc : {"idle", "wait"}, dir : Dirs \cup {None}, req : 0..2,
                 box : Dirs \cup {None}]
    /\ answers \subseteq [req : 1..2, dir : Dirs]
    /\ shown \in Dirs \cup {None}

\* Nothing is known of a download that has not been asked for.
FreshOK ==
    /\ fresh \subseteq Transfers
    /\ toMac \subseteq [t : Transfers, idx : Index]
    /\ \A t \in fresh : /\ t \notin pull
                        /\ \A m \in toMac : m.t # t
                        /\ \A h \in Handlers : handler[h].t # t

CountOK == faults \in 0..MaxFaults /\ cut \subseteq Transfers

TypeInv ==
    /\ RecordOK
    /\ DiskOK
    /\ WaitsOK
    /\ HandlersOK
    /\ PhoneOK
    /\ ListsOK
    /\ FreshOK
    /\ CountOK

\* What the assumption says of the constants, in the form the proofs cite.
LEMMA Constants ==
    /\ 0 \in Index /\ Last \in Index /\ 0 \in 0..Chunks
    /\ None \notin Transfers /\ None # "nil" /\ None # "err" /\ None # "user"
    /\ "user" \notin Transfers
    /\ None \notin SUBSET Index
    /\ Idle \in HandlerStates /\ Idle.pc = "idle" /\ Idle.t = None /\ Idle.fh = FALSE
  <1>1. /\ 0 \in Index /\ Last \in Index /\ 0 \in 0..Chunks
        /\ None \notin Transfers /\ None # "nil" /\ None # "err" /\ None # "user"
    /\ "user" \notin Transfers
        /\ None \notin SUBSET Index
    BY DownloadAssumption DEF Index, Last
  <1>2. Idle \in HandlerStates /\ Idle.pc = "idle" /\ Idle.t = None /\ Idle.fh = FALSE
    BY <1>1 DEF Idle, HandlerStates
  <1> QED BY <1>1, <1>2

\* Before the first request every record is empty and every handler idle.
LEMMA InitTypeInv == Init => TypeInv
  <1> SUFFICES ASSUME Init PROVE TypeInv
    OBVIOUS
  <1> USE Constants DEF Init
  <1>1. RecordOK /\ DiskOK /\ WaitsOK
    BY DEF RecordOK, DiskOK, WaitsOK, Statuses, place
  <1>2. HandlersOK
    BY DEF HandlersOK
  <1>3. PhoneOK /\ FreshOK
    BY DEF PhoneOK, FreshOK
  <1>4. ListsOK
    BY DEF ListsOK, Listing
  <1>5. CountOK
    BY DownloadAssumption DEF CountOK
  <1> QED BY <1>1, <1>2, <1>3, <1>4, <1>5 DEF TypeInv

\* What a step leaves alone keeps its type.
LEMMA Frame ==
    ASSUME TypeInv
    PROVE  /\ UNCHANGED record => RecordOK'
           /\ UNCHANGED disk => DiskOK'
           /\ UNCHANGED waits => WaitsOK'
           /\ UNCHANGED <<handler, handle>> => HandlersOK'
           /\ UNCHANGED phone => PhoneOK'
           /\ UNCHANGED lists => ListsOK'
           /\ UNCHANGED <<fresh, toMac, pull, handler>> => FreshOK'
           /\ UNCHANGED <<faults, cut>> => CountOK'
  <1> USE DEF TypeInv
  <1>1. UNCHANGED record => RecordOK'
    BY DEF RecordOK, record
  <1>2. UNCHANGED disk => DiskOK'
    BY DEF DiskOK, disk, place
  <1>3. UNCHANGED waits => WaitsOK'
    BY DEF WaitsOK, waits
  <1>4. UNCHANGED <<handler, handle>> => HandlersOK'
    BY DEF HandlersOK
  <1>5. UNCHANGED phone => PhoneOK'
    BY DEF PhoneOK, phone
  <1>6. UNCHANGED lists => ListsOK'
    BY DEF ListsOK, lists
  <1>7. UNCHANGED <<fresh, toMac, pull, handler>> => FreshOK'
    BY DEF FreshOK
  <1>8. UNCHANGED <<faults, cut>> => CountOK'
    BY DEF CountOK
  <1> QED BY <1>1, <1>2, <1>3, <1>4, <1>5, <1>6, <1>7, <1>8

\* One more fault is within the bound.
LEMMA FaultOK == ASSUME TypeInv, fault PROVE faults' \in 0..MaxFaults
  BY DownloadAssumption DEF TypeInv, CountOK, fault

\* Telling a call fills its channel at most.
LEMMA TellOK ==
    ASSUME TypeInv, NEW t \in Transfers, NEW v \in {"nil", "err"}, tell(t, v)
    PROVE  /\ box' \in [Transfers -> {None, "nil", "err"}]
           /\ \A u \in Transfers : box'[u] = box[u] \/ (u = t /\ box'[u] = v)
  BY DEF TypeInv, WaitsOK, tell

\* Closing the part file of t leaves the handlers where they are, and no open
\* handle for t.
LEMMA CloseOK ==
    ASSUME TypeInv, NEW t \in Transfers
    PROVE  /\ closeFile(t) \in [Handlers -> HandlerStates]
           /\ \A h \in Handlers :
                /\ closeFile(t)[h].pc = handler[h].pc
                /\ closeFile(t)[h].t = handler[h].t
                /\ closeFile(t)[h].idx = handler[h].idx
                /\ closeFile(t)[h].fh => handler[h].fh /\ handler[h].t # t
  <1>1. \A x \in HandlerStates :
          /\ [x EXCEPT !.fh = FALSE] \in HandlerStates
          /\ [x EXCEPT !.fh = FALSE].pc = x.pc /\ [x EXCEPT !.fh = FALSE].t = x.t
          /\ [x EXCEPT !.fh = FALSE].idx = x.idx /\ ~[x EXCEPT !.fh = FALSE].fh
    BY DEF HandlerStates
  <1>2. \A h \in Handlers : handler[h] \in HandlerStates
    BY DEF TypeInv, HandlersOK
  <1>3. \A h \in Handlers :
          closeFile(t)[h] = IF handler[h].t = t THEN [handler[h] EXCEPT !.fh = FALSE] ELSE handler[h]
    BY DEF closeFile
  <1>4. \A h \in Handlers : closeFile(t)[h] \in HandlerStates
    BY <1>1, <1>2, <1>3
  <1>5. closeFile(t) \in [Handlers -> HandlerStates]
    BY <1>4 DEF closeFile
  <1>6. ASSUME NEW h \in Handlers
        PROVE  /\ closeFile(t)[h].pc = handler[h].pc
               /\ closeFile(t)[h].t = handler[h].t
               /\ closeFile(t)[h].idx = handler[h].idx
               /\ closeFile(t)[h].fh => handler[h].fh /\ handler[h].t # t
    <2>1. CASE handler[h].t = t
      <3>1. closeFile(t)[h] = [handler[h] EXCEPT !.fh = FALSE]
        BY <1>3, <2>1
      <3> QED BY <1>1, <1>2, <3>1
    <2>2. CASE handler[h].t # t
      <3>1. closeFile(t)[h] = handler[h]
        BY <1>3, <2>2
      <3> QED BY <2>2, <3>1
    <2> QED BY <2>1, <2>2
  <1> QED BY <1>5, <1>6


\* A new state of handler h is one of its states, and the rest stays.
LEMMA HandlerOK ==
    ASSUME TypeInv, NEW f \in [Handlers -> HandlerStates], NEW h \in Handlers,
           NEW x \in HandlerStates
    PROVE  /\ [f EXCEPT ![h] = x] \in [Handlers -> HandlerStates]
           /\ [f EXCEPT ![h] = x][h] = x
           /\ \A g \in Handlers \ {h} : [f EXCEPT ![h] = x][g] = f[g]
  OBVIOUS

\* A request, sent or not, takes an id that was not used before.
LEMMA RequestType ==
    ASSUME TypeInv, NEW t \in Transfers, NEW exact \in BOOLEAN,
           RequestPhoneFile(t, exact) \/ RequestFails(t, exact)
    PROVE  TypeInv'
  <1>1. t \in fresh /\ fresh' = fresh \ {t}
    BY DEF RequestPhoneFile, RequestFails
  <1>2. RecordOK'
    BY DEF RequestPhoneFile, RequestFails, TypeInv, RecordOK, Statuses
  <1>3. DiskOK' /\ HandlersOK' /\ ListsOK'
    BY Frame DEF RequestPhoneFile, RequestFails
  <1>4. WaitsOK'
    BY DEF RequestPhoneFile, RequestFails, TypeInv, WaitsOK
  <1>5. PhoneOK'
    BY DEF RequestPhoneFile, RequestFails, TypeInv, PhoneOK, phone
  <1>6. FreshOK'
    BY <1>1 DEF RequestPhoneFile, RequestFails, TypeInv, FreshOK, phone
  <1>7. CountOK'
    BY FaultOK DEF RequestPhoneFile, RequestFails, TypeInv, CountOK
  <1> QED BY <1>2, <1>3, <1>4, <1>5, <1>6, <1>7 DEF TypeInv

\* The call takes what is in its channel.
LEMMA ReturnsType ==
    ASSUME TypeInv, NEW t \in Transfers, CallReturns(t)
    PROVE  TypeInv'
  <1>1. WaitsOK'
    BY DEF CallReturns, TypeInv, WaitsOK
  <1>2. RecordOK' /\ DiskOK' /\ HandlersOK' /\ ListsOK' /\ PhoneOK' /\ FreshOK' /\ CountOK'
    BY Frame DEF CallReturns, record, phone
  <1> QED BY <1>1, <1>2 DEF TypeInv

\* Closing the part file of a download whose handle goes down with it.
LEMMA ClosedHandlers ==
    ASSUME TypeInv, NEW t \in Transfers,
           handle' = [handle EXCEPT ![t] = FALSE], handler' = closeFile(t)
    PROVE  HandlersOK' /\ (\A h \in Handlers : handler'[h].t = handler[h].t)
  <1>1. handler' \in [Handlers -> HandlerStates]
    BY CloseOK
  <1>2. \A h \in Handlers : /\ handler'[h].pc = handler[h].pc
                            /\ handler'[h].t = handler[h].t
                            /\ handler'[h].fh => handler[h].fh /\ handler[h].t # t
    BY CloseOK
  <1>3. \A h \in Handlers : handler'[h].fh => /\ handler'[h].t \in Transfers
                                              /\ handle'[handler'[h].t]
    BY <1>2 DEF TypeInv, HandlersOK, RecordOK
  <1> QED BY <1>1, <1>2, <1>3 DEF TypeInv, HandlersOK

\* The same, with handler h done.
LEMMA SettledHandlers ==
    ASSUME TypeInv, NEW t \in Transfers, NEW h \in Handlers,
           handle' = [handle EXCEPT ![t] = FALSE],
           handler' = [closeFile(t) EXCEPT ![h] = Idle]
    PROVE  /\ HandlersOK'
           /\ handler'[h] = Idle
           /\ \A g \in Handlers \ {h} : /\ handler'[g].pc = handler[g].pc
                                        /\ handler'[g].t = handler[g].t
                                        /\ handler'[g].idx = handler[g].idx
  <1>1. /\ handler' \in [Handlers -> HandlerStates]
        /\ handler'[h] = Idle
        /\ \A g \in Handlers \ {h} : handler'[g] = closeFile(t)[g]
    BY CloseOK, HandlerOK, Constants
  <1>2. \A g \in Handlers \ {h} : /\ handler'[g].pc = handler[g].pc
                                  /\ handler'[g].t = handler[g].t
                                  /\ handler'[g].idx = handler[g].idx
                                  /\ handler'[g].fh => handler[g].fh /\ handler[g].t # t
    BY CloseOK, <1>1
  <1>3. \A g \in Handlers \ {h} : handler'[g].fh => /\ handler'[g].t \in Transfers
                                                    /\ handle'[handler'[g].t]
    BY <1>2 DEF TypeInv, HandlersOK, RecordOK
  <1>4. ~handler'[h].fh /\ handler'[h].pc = "idle"
    BY <1>1, Constants
  <1> QED BY <1>1, <1>2, <1>3, <1>4 DEF TypeInv, HandlersOK

\* What failTransfer leaves.
LEMMA FailOK ==
    ASSUME TypeInv, NEW t \in Transfers, failTransfer(t)
    PROVE  /\ status' \in [Transfers -> Statuses]
           /\ handle' \in [Transfers -> BOOLEAN]
           /\ part' \in [Transfers -> (SUBSET Index) \cup {None}]
           /\ box' \in [Transfers -> {None, "nil", "err"}]
  <1>1. box' \in [Transfers -> {None, "nil", "err"}]
    BY TellOK DEF failTransfer
  <1>2. status' \in [Transfers -> Statuses] /\ handle' \in [Transfers -> BOOLEAN]
    BY DEF failTransfer, TypeInv, RecordOK, Statuses
  <1>3. part' \in [Transfers -> (SUBSET Index) \cup {None}]
    BY DEF failTransfer, TypeInv, DiskOK, place
  <1> QED BY <1>1, <1>2, <1>3

\* The handlers of a fresh download are none, so that closing files changes
\* nothing for it.
LEMMA FreshKept ==
    ASSUME TypeInv, UNCHANGED <<fresh, toMac, pull>>,
           \A h \in Handlers : handler'[h].t = handler[h].t \/ handler'[h].t = None
    PROVE  FreshOK'
  BY Constants DEF TypeInv, FreshOK

\* A call or the user ends a download.
LEMMA CutType ==
    ASSUME TypeInv, NEW t \in Transfers, CallTimesOut(t) \/ CancelTransfer(t)
    PROVE  TypeInv'
  <1>1. handle' = [handle EXCEPT ![t] = FALSE] /\ handler' = closeFile(t)
    BY DEF CallTimesOut, CancelTransfer, failTransfer
  <1>2. HandlersOK' /\ (\A h \in Handlers : handler'[h].t = handler[h].t)
    BY <1>1, ClosedHandlers
  <1>3. FreshOK'
    BY <1>2, FreshKept DEF CallTimesOut, CancelTransfer, phone
  <1>4. ListsOK'
    BY Frame DEF CallTimesOut, CancelTransfer
  <1>5. PhoneOK'
    BY DEF CallTimesOut, CancelTransfer, TypeInv, PhoneOK, phone
  <1>6. CountOK'
    BY DEF CallTimesOut, CancelTransfer, TypeInv, CountOK
  <1>7. RecordOK' /\ DiskOK' /\ WaitsOK'
    <2>1. CASE CallTimesOut(t)
      <3>1. failTransfer(t) /\ UNCHANGED <<fed, dirty, away, place>>
        BY <2>1 DEF CallTimesOut
      <3>2. call' \in [Transfers -> {"none", "wait", "nil", "err"}]
        BY <2>1 DEF CallTimesOut, TypeInv, WaitsOK
      <3> QED BY <3>1, <3>2, FailOK DEF TypeInv, RecordOK, DiskOK, WaitsOK, place
    <2>2. CASE CancelTransfer(t)
      <3>1. box' \in [Transfers -> {None, "nil", "err"}] /\ UNCHANGED call
        BY <2>2, TellOK DEF CancelTransfer
      <3>2. RecordOK'
        BY <2>2 DEF CancelTransfer, TypeInv, RecordOK, Statuses
      <3>3. DiskOK'
        BY <2>2 DEF CancelTransfer, TypeInv, DiskOK, place
      <3> QED BY <3>1, <3>2, <3>3 DEF TypeInv, WaitsOK
    <2> QED BY <2>1, <2>2
  <1> QED BY <1>2, <1>3, <1>4, <1>5, <1>6, <1>7 DEF TypeInv

\* A record is dropped when no handler works for it.
LEMMA PruneType ==
    ASSUME TypeInv, NEW t \in Transfers, Prune(t)
    PROVE  TypeInv'
  <1>1. RecordOK'
    BY Constants DEF Prune, TypeInv, RecordOK, Statuses
  <1>2. DiskOK'
    BY DEF Prune, TypeInv, DiskOK, place
  <1>3. HandlersOK'
    BY DEF Prune, TypeInv, HandlersOK, RecordOK
  <1>4. WaitsOK' /\ ListsOK' /\ PhoneOK' /\ CountOK' /\ FreshOK'
    BY Frame DEF Prune, phone
  <1> QED BY <1>1, <1>2, <1>3, <1>4 DEF TypeInv


\* The phone sends a piece, stops a pull, loses the file, or a chunk gets lost.
LEMMA PhoneType ==
    ASSUME TypeInv, NEW t \in Transfers, SendPiece(t) \/ StopPull(t) \/ DeletePhone(t)
    PROVE  TypeInv'
  <1>1. RecordOK' /\ DiskOK' /\ WaitsOK' /\ HandlersOK' /\ ListsOK'
    BY Frame DEF SendPiece, StopPull, DeletePhone, record
  <1>2. CountOK'
    BY FaultOK DEF SendPiece, StopPull, DeletePhone, TypeInv, CountOK
  <1>3. pull' \subseteq pull /\ aborted' \subseteq Transfers /\ there' \in [Transfers -> BOOLEAN]
    BY DEF SendPiece, StopPull, DeletePhone, TypeInv, PhoneOK, endPull
  <1>4. next' \in [Transfers -> Index]
    <2>1. CASE SendPiece(t) /\ next[t] # Last
      <3>1. next' = [next EXCEPT ![t] = @ + 1]
        BY <2>1 DEF SendPiece
      <3>2. next[t] + 1 \in Index
        BY <2>1, DownloadAssumption DEF TypeInv, PhoneOK, Index, Last
      <3> QED BY <3>1, <3>2 DEF TypeInv, PhoneOK
    <2>2. CASE SendPiece(t) /\ next[t] = Last
      BY <2>2, Constants DEF SendPiece, endPull, TypeInv, PhoneOK
    <2>3. CASE StopPull(t)
      BY <2>3, Constants DEF StopPull, endPull, TypeInv, PhoneOK
    <2>4. CASE DeletePhone(t)
      BY <2>4 DEF DeletePhone, TypeInv, PhoneOK
    <2> QED BY <2>1, <2>2, <2>3, <2>4
  <1>5. UNCHANGED <<fresh, handler>>
    BY DEF SendPiece, StopPull, DeletePhone
  <1>6. toMac' \subseteq [t : Transfers, idx : Index]
    BY DEF SendPiece, StopPull, DeletePhone, TypeInv, PhoneOK, FreshOK, Piece
  <1>7. \A m \in toMac' : m \in toMac \/ (m.t = t /\ t \in pull)
    BY DEF SendPiece, StopPull, DeletePhone, Piece
  <1>8. FreshOK'
    BY <1>3, <1>5, <1>6, <1>7 DEF TypeInv, FreshOK
  <1> QED BY <1>1, <1>2, <1>3, <1>4, <1>8 DEF TypeInv, PhoneOK

\* A chunk on its way disappears.
LEMMA LoseType ==
    ASSUME TypeInv, NEW m \in toMac, LoseChunk(m)
    PROVE  TypeInv'
  <1>1. RecordOK' /\ DiskOK' /\ WaitsOK' /\ HandlersOK' /\ ListsOK' /\ PhoneOK'
    BY Frame DEF LoseChunk, record
  <1>2. CountOK'
    BY FaultOK DEF LoseChunk, TypeInv, CountOK
  <1>3. FreshOK'
    BY DEF LoseChunk, TypeInv, FreshOK, phone
  <1> QED BY <1>1, <1>2, <1>3 DEF TypeInv

\* The listing call and its answers.
LEMMA ListType ==
    ASSUME TypeInv,
           \/ \E d \in Dirs : ListPhoneFiles(d)
           \/ \E m \in answers : ListResp(m)
           \/ ListReturns
    PROVE  TypeInv'
  <1>1. /\ RecordOK' /\ DiskOK' /\ WaitsOK' /\ HandlersOK' /\ PhoneOK' /\ FreshOK'
    BY Frame DEF ListPhoneFiles, ListResp, ListReturns, record, phone
  <1>3. CountOK'
    BY FaultOK DEF ListPhoneFiles, ListResp, ListReturns, TypeInv, CountOK
  <1>2. ListsOK'
    <2>1. ASSUME NEW d \in Dirs, ListPhoneFiles(d) PROVE ListsOK'
      <3>1. list.req + 1 \in 1..2
        BY <2>1 DEF ListPhoneFiles, TypeInv, ListsOK
      <3>2. list' \in [pc : {"idle", "wait"}, dir : Dirs \cup {None}, req : 0..2,
                       box : Dirs \cup {None}]
        BY <2>1, <3>1 DEF ListPhoneFiles
      <3> QED BY <2>1, <3>1, <3>2 DEF ListPhoneFiles, TypeInv, ListsOK
    <2>2. ASSUME NEW m \in answers, ListResp(m) PROVE ListsOK'
      <3>1. m.dir \in Dirs
        BY DEF TypeInv, ListsOK
      <3>2. answers' \subseteq answers /\ shown' \in Dirs \cup {None}
        BY <2>2, <3>1 DEF ListResp, TypeInv, ListsOK
      <3>3. list' = list \/ list' = [list EXCEPT !.box = m.dir] \/ list' = [list EXCEPT !.box = @]
        BY <2>2 DEF ListResp
      <3>4. list' \in [pc : {"idle", "wait"}, dir : Dirs \cup {None}, req : 0..2,
                       box : Dirs \cup {None}]
        BY <3>1, <3>3 DEF TypeInv, ListsOK
      <3> QED BY <3>2, <3>4 DEF TypeInv, ListsOK
    <2>3. CASE ListReturns
      BY <2>3 DEF ListReturns, Listing, TypeInv, ListsOK
    <2> QED BY <2>1, <2>2, <2>3
  <1> QED BY <1>1, <1>2, <1>3 DEF TypeInv

\* A handler takes a chunk.
LEMMA TakeType ==
    ASSUME TypeInv, NEW h \in Handlers, NEW m \in toMac, TakeChunk(h, m)
    PROVE  TypeInv'
  <1> DEFINE x == [pc |-> "open", t |-> m.t, idx |-> m.idx, fh |-> FALSE]
  <1>1. m.t \in Transfers /\ m.idx \in Index
    BY DEF TypeInv, FreshOK
  <1>2. x \in HandlerStates /\ x.t = m.t /\ x.pc = "open" /\ x.fh = FALSE
    BY <1>1 DEF HandlerStates
  <1>3. handler' = handler \/ handler' = [handler EXCEPT ![h] = x]
    BY DEF TakeChunk
  <1> HIDE DEF x
  <1>4. handler \in [Handlers -> HandlerStates]
    BY DEF TypeInv, HandlersOK
  <1>5. /\ handler' \in [Handlers -> HandlerStates]
        /\ handler'[h] \in {handler[h], x}
        /\ \A g \in Handlers \ {h} : handler'[g] = handler[g]
    BY <1>2, <1>3, <1>4, HandlerOK
  <1>6. HandlersOK'
    BY <1>1, <1>2, <1>5 DEF TakeChunk, TypeInv, HandlersOK
  <1>7. FreshOK'
    BY <1>2, <1>5 DEF TakeChunk, TypeInv, FreshOK, phone
  <1>8. RecordOK'
    BY <1>1 DEF TakeChunk, TypeInv, RecordOK, Statuses
  <1>9. DiskOK' /\ WaitsOK' /\ PhoneOK' /\ ListsOK'
    BY Frame DEF TakeChunk
  <1>10. CountOK'
    BY FaultOK DEF TakeChunk, TypeInv, CountOK
  <1> QED BY <1>6, <1>7, <1>8, <1>9, <1>10 DEF TypeInv

\* The states of a handler that moves on.
LEMMA Moved ==
    ASSUME TypeInv, NEW h \in Handlers,
           NEW p \in {"idle", "open", "write", "finish", "good", "bad"},
           handler' = [handler EXCEPT ![h].pc = p]
    PROVE  /\ handler' \in [Handlers -> HandlerStates]
           /\ handler'[h].pc = p /\ handler'[h].t = handler[h].t
           /\ handler'[h].idx = handler[h].idx /\ handler'[h].fh = handler[h].fh
           /\ \A g \in Handlers \ {h} : handler'[g] = handler[g]
  <1> DEFINE x == [handler[h] EXCEPT !.pc = p]
  <1>1. handler[h] \in HandlerStates /\ handler \in [Handlers -> HandlerStates]
    BY DEF TypeInv, HandlersOK
  <1>2. /\ x \in HandlerStates /\ x.pc = p /\ x.t = handler[h].t
        /\ x.idx = handler[h].idx /\ x.fh = handler[h].fh
    BY <1>1 DEF HandlerStates
  <1>3. handler' = [handler EXCEPT ![h] = x]
    OBVIOUS
  <1> HIDE DEF x
  <1> QED BY <1>1, <1>2, <1>3, HandlerOK

\* The part file is opened.
LEMMA OpenType ==
    ASSUME TypeInv, NEW h \in Handlers, OpenPart(h)
    PROVE  /\ TypeInv'
           /\ handler[h].t \in Transfers
           /\ handler'[h].pc = "write" /\ handler'[h].t = handler[h].t
           /\ handler'[h].idx = handler[h].idx
           /\ \A g \in Handlers \ {h} : handler'[g] = handler[g]
  <1> DEFINE x == [[handler[h] EXCEPT !.pc = "write"] EXCEPT !.fh = TRUE]
             t == handler[h].t
  <1>1. handler[h] \in HandlerStates /\ handler \in [Handlers -> HandlerStates]
    BY DEF TypeInv, HandlersOK
  <1>2. t \in Transfers /\ handler[h].idx \in Index
    BY <1>1 DEF OpenPart, TypeInv, HandlersOK, HandlerStates
  <1>3. /\ x \in HandlerStates /\ x.pc = "write" /\ x.t = t
        /\ x.idx = handler[h].idx /\ x.fh
    BY <1>1 DEF HandlerStates
  <1>4. handler' = [handler EXCEPT ![h] = x]
    BY <1>1 DEF OpenPart
  <1> HIDE DEF x
  <1>5. /\ handler' \in [Handlers -> HandlerStates] /\ handler'[h] = x
        /\ \A g \in Handlers \ {h} : handler'[g] = handler[g]
    BY <1>1, <1>3, <1>4, HandlerOK
  <1>6. handle' = [handle EXCEPT ![t] = TRUE]
    BY DEF OpenPart
  <1>7. HandlersOK'
    BY <1>2, <1>3, <1>5, <1>6 DEF TypeInv, HandlersOK, RecordOK
  <1>8. FreshOK'
    BY <1>3, <1>5 DEF OpenPart, TypeInv, FreshOK, phone
  <1>9. DiskOK'
    BY <1>2 DEF OpenPart, TypeInv, DiskOK, place
  <1>10. fed' \in [Transfers -> 0..Chunks]
    <2>1. CASE ~dirty[t] /\ handler[h].idx = fed[t]
      <3>1. fed' = [fed EXCEPT ![t] = @ + 1]
        BY <2>1 DEF OpenPart
      <3>2. fed[t] + 1 \in 0..Chunks
        BY <1>2, <2>1, DownloadAssumption DEF Index
      <3> QED BY <3>1, <3>2 DEF TypeInv, RecordOK
    <2>2. CASE ~(~dirty[t] /\ handler[h].idx = fed[t])
      <3>1. fed' = [fed EXCEPT ![t] = @]
        BY <2>2 DEF OpenPart
      <3> QED BY <3>1 DEF TypeInv, RecordOK
    <2> QED BY <2>1, <2>2
  <1>11. dirty' \in [Transfers -> BOOLEAN]
    BY DEF OpenPart, TypeInv, RecordOK
  <1>12. RecordOK'
    BY <1>6, <1>10, <1>11 DEF OpenPart, TypeInv, RecordOK
  <1>13. WaitsOK' /\ PhoneOK' /\ ListsOK' /\ CountOK'
    BY Frame DEF OpenPart
  <1> QED BY <1>2, <1>3, <1>5, <1>7, <1>8, <1>9, <1>12, <1>13 DEF TypeInv

\* The piece is written.
LEMMA WriteType ==
    ASSUME TypeInv, NEW h \in Handlers, WriteChunk(h)
    PROVE  TypeInv'
  <1>1. handler[h].t \in Transfers /\ handler[h].idx \in Index
    BY DEF WriteChunk, TypeInv, HandlersOK, HandlerStates
  <1>2. handler' = [handler EXCEPT ![h].pc = "finish"]
    BY DEF WriteChunk
  <1>3. HandlersOK' /\ FreshOK'
    <2>1. /\ handler' \in [Handlers -> HandlerStates]
          /\ handler'[h].t = handler[h].t /\ handler'[h].fh = handler[h].fh
          /\ \A g \in Handlers \ {h} : handler'[g] = handler[g]
      BY <1>2, Moved
    <2>2. UNCHANGED <<fresh, toMac, pull, handle>>
      BY DEF WriteChunk, record, phone
    <2>3. HandlersOK'
      BY <1>1, <2>1, <2>2 DEF TypeInv, HandlersOK
    <2> QED BY <2>1, <2>2, <2>3, FreshKept
  <1>4. DiskOK'
    BY <1>1 DEF WriteChunk, TypeInv, DiskOK, place
  <1>5. RecordOK' /\ WaitsOK' /\ PhoneOK' /\ ListsOK' /\ CountOK'
    BY Frame DEF WriteChunk
  <1> QED BY <1>3, <1>4, <1>5 DEF TypeInv

\* The write fails.
LEMMA WriteFailsType ==
    ASSUME TypeInv, NEW h \in Handlers, WriteFails(h)
    PROVE  TypeInv'
  <1> DEFINE t == handler[h].t
  <1>1. t \in Transfers
    BY DEF WriteFails, TypeInv, HandlersOK
  <1>2. failTransfer(t) /\ handler' = [closeFile(t) EXCEPT ![h] = Idle]
    BY DEF WriteFails
  <1>3. handle' = [handle EXCEPT ![t] = FALSE]
    BY <1>2 DEF failTransfer
  <1>4. HandlersOK' /\ (\A g \in Handlers : handler'[g].t = handler[g].t \/ handler'[g].t = None)
    BY <1>1, <1>2, <1>3, SettledHandlers, Constants
  <1>5. FreshOK'
    BY <1>4, FreshKept DEF WriteFails, phone
  <1>6. RecordOK' /\ DiskOK' /\ WaitsOK'
    BY <1>1, <1>2, FailOK DEF WriteFails, TypeInv, RecordOK, DiskOK, WaitsOK, place
  <1>7. PhoneOK' /\ ListsOK'
    BY Frame DEF WriteFails
  <1>8. CountOK'
    BY FaultOK DEF WriteFails, TypeInv, CountOK
  <1> QED BY <1>4, <1>5, <1>6, <1>7, <1>8 DEF TypeInv

\* A piece that is not the last is done with.
LEMMA FinishType ==
    ASSUME TypeInv, NEW h \in Handlers, Finish(h)
    PROVE  TypeInv'
  <1>1. handler[h].t \in Transfers /\ handler \in [Handlers -> HandlerStates]
    BY DEF Finish, TypeInv, HandlersOK
  <1>2. handler' = [handler EXCEPT ![h] = Idle]
    BY DEF Finish
  <1>3. /\ handler' \in [Handlers -> HandlerStates] /\ handler'[h] = Idle
        /\ \A g \in Handlers \ {h} : handler'[g] = handler[g]
    BY <1>1, <1>2, HandlerOK, Constants
  <1>4. HandlersOK'
    BY <1>3, Constants DEF Finish, TypeInv, HandlersOK
  <1>5. FreshOK'
    BY <1>3, Constants, FreshKept DEF Finish, phone
  <1>6. RecordOK'
    BY <1>1 DEF Finish, TypeInv, RecordOK, Statuses
  <1>7. DiskOK' /\ WaitsOK' /\ PhoneOK' /\ ListsOK' /\ CountOK'
    BY Frame DEF Finish
  <1> QED BY <1>4, <1>5, <1>6, <1>7 DEF TypeInv

\* What a download that is not committed leaves on the disk: everything, or
\* a part file that its record no longer names.
Leaves(t) ==
    /\ UNCHANGED place
    /\ \E taken \in BOOLEAN :
         /\ away' = [away EXCEPT ![t] = @ \/ taken]
         /\ part' = [part EXCEPT ![t] = IF taken THEN None ELSE @]

\* A promoted part file is in one of the two places.
LEMMA PromoteOK ==
    ASSUME TypeInv, NEW t \in Transfers, promotable(t), promote(t)
    PROVE  /\ DiskOK' /\ away' \in [Transfers -> BOOLEAN]
           /\ part'[t] = None /\ \A u \in Transfers \ {t} : part'[u] = part[u]
           /\ \A u \in Transfers \ {t} : aside'[u] = aside[u] /\ away'[u] = away[u]
           /\ \/ /\ holder = None /\ ~away[t] /\ holder' = t /\ target' = part[t]
                 /\ UNCHANGED <<aside, away>>
              \/ /\ holder # None \/ away[t]
                 /\ aside'[t] = aside[t] \cup {part[t]}
                 /\ UNCHANGED <<holder, target>>
  <1>1. part[t] \in SUBSET Index
    BY DEF TypeInv, DiskOK, promotable, place
  <1>2. part' = [part EXCEPT ![t] = None]
    BY DEF promote
  <1>3. CASE away[t] \/ holder # None
    <2>1. /\ away' = [away EXCEPT ![t] = TRUE]
          /\ aside' = [aside EXCEPT ![t] = @ \cup {part[t]}]
          /\ UNCHANGED <<holder, target>>
      BY <1>3 DEF promote
    <2> QED BY <1>1, <1>2, <1>3, <2>1 DEF TypeInv, DiskOK, RecordOK, place
  <1>4. CASE ~away[t] /\ holder = None
    <2>1. holder' = t /\ target' = part[t] /\ UNCHANGED <<away, aside>>
      BY <1>4 DEF promote
    <2> QED BY <1>1, <1>2, <1>4, <2>1 DEF TypeInv, DiskOK, RecordOK, place
  <1> QED BY <1>3, <1>4

LEMMA LeavesOK ==
    ASSUME TypeInv, NEW t \in Transfers, Leaves(t)
    PROVE  /\ DiskOK' /\ away' \in [Transfers -> BOOLEAN]
           /\ part'[t] \in {part[t], None}
           /\ \A u \in Transfers \ {t} : part'[u] = part[u] /\ away'[u] = away[u]
  <1>1. PICK taken \in BOOLEAN :
          /\ away' = [away EXCEPT ![t] = @ \/ taken]
          /\ part' = [part EXCEPT ![t] = IF taken THEN None ELSE @]
    BY DEF Leaves
  <1>2. UNCHANGED <<holder, target, aside>>
    BY DEF Leaves, place
  <1> QED BY <1>1, <1>2 DEF TypeInv, DiskOK, RecordOK, place

\* The last piece settles the download, once it is known whose it is.
LEMMA SettleType ==
    ASSUME TypeInv, NEW h \in Handlers, handler[h].pc # "idle",
           NEW ok \in BOOLEAN, settle(h, ok), faults' \in 0..MaxFaults,
           DiskOK', away' \in [Transfers -> BOOLEAN]
    PROVE  TypeInv'
  <1> DEFINE t == handler[h].t
  <1>1. t \in Transfers
    BY DEF TypeInv, HandlersOK
  <1>2. /\ handle' = [handle EXCEPT ![t] = FALSE]
        /\ handler' = [closeFile(t) EXCEPT ![h] = Idle]
    BY DEF settle
  <1>3. HandlersOK' /\ (\A g \in Handlers : handler'[g].t = handler[g].t \/ handler'[g].t = None)
    BY <1>1, <1>2, SettledHandlers, Constants
  <1>4. FreshOK'
    BY <1>3, FreshKept DEF settle, phone
  <1>5. RecordOK'
    BY <1>1 DEF settle, TypeInv, RecordOK, Statuses
  <1>6. WaitsOK'
    <2>1. \E v \in {"nil", "err"} : tell(t, v)
      BY DEF settle
    <2> QED BY <1>1, <2>1, TellOK DEF settle, TypeInv, WaitsOK
  <1>7. PhoneOK' /\ ListsOK'
    BY Frame DEF settle
  <1>8. CountOK'
    BY DEF settle, TypeInv, CountOK
  <1> QED BY <1>3, <1>4, <1>5, <1>6, <1>7, <1>8 DEF TypeInv

\* The part file is read again.
LEMMA VerifyType ==
    ASSUME TypeInv, NEW h \in Handlers, VerifyPart(h)
    PROVE  TypeInv'
  <1>1. PICK p \in {"good", "bad"} : p = IF part[handler[h].t] = Index THEN "good" ELSE "bad"
    OBVIOUS
  <1>2. handler' = [handler EXCEPT ![h].pc = p]
    BY <1>1 DEF VerifyPart
  <1>3. HandlersOK' /\ FreshOK'
    <2>1. /\ handler' \in [Handlers -> HandlerStates]
          /\ handler'[h].t = handler[h].t /\ handler'[h].fh = handler[h].fh
          /\ \A g \in Handlers \ {h} : handler'[g] = handler[g]
      BY <1>2, Moved
    <2>2. UNCHANGED <<fresh, toMac, pull, handle>> /\ handler[h].t \in Transfers
      BY DEF VerifyPart, record, phone, TypeInv, HandlersOK
    <2>3. HandlersOK'
      BY <2>1, <2>2 DEF TypeInv, HandlersOK
    <2> QED BY <2>1, <2>2, <2>3, FreshKept
  <1>4. RecordOK' /\ DiskOK' /\ WaitsOK' /\ PhoneOK' /\ ListsOK' /\ CountOK'
    BY Frame DEF VerifyPart
  <1> QED BY <1>3, <1>4 DEF TypeInv


Settling(h) == Commit(h) \/ CommitVerified(h) \/ RenameFails(h)

\* A download is settled well only if the part file is there in its full
\* size, and either the digest or a second look at the part file says that
\* all of it is; then it is renamed.
LEMMA Outcome ==
    ASSUME TypeInv, NEW h \in Handlers, Settling(h)
    PROVE  /\ handler[h].pc # "idle" /\ handler[h].t \in Transfers
           /\ \E ok \in BOOLEAN :
                /\ settle(h, ok)
                /\ ok => /\ promotable(handler[h].t)
                         /\ \/ handler[h].pc = "good"
                            \/ fed[handler[h].t] = Chunks /\ ~dirty[handler[h].t]
                         /\ promote(handler[h].t)
                /\ ~ok => Leaves(handler[h].t)
           /\ faults' \in 0..MaxFaults
  <1>1. handler[h].pc # "idle" /\ handler[h].t \in Transfers
    BY DEF Settling, Commit, CommitVerified, RenameFails, TypeInv, HandlersOK
  <1>2. faults' \in 0..MaxFaults
    BY FaultOK DEF Settling, Commit, CommitVerified, RenameFails, TypeInv, CountOK
  <1>3. UNCHANGED <<away, disk>> => Leaves(handler[h].t)
    <2> SUFFICES ASSUME UNCHANGED <<away, disk>> PROVE Leaves(handler[h].t)
      OBVIOUS
    <2>1. UNCHANGED place /\ part' = part /\ away' = away
      BY DEF disk
    <2>2. away' = [away EXCEPT ![handler[h].t] = @ \/ FALSE]
      BY <1>1, <2>1 DEF TypeInv, RecordOK
    <2>3. part' = [part EXCEPT ![handler[h].t] = IF FALSE THEN None ELSE @]
      BY <1>1, <2>1 DEF TypeInv, DiskOK, place
    <2> QED BY <2>1, <2>2, <2>3 DEF Leaves
  <1>4. CASE Commit(h)
    <2> DEFINE ok == fed[handler[h].t] = Chunks /\ promotable(handler[h].t)
    <2>1. conclude(h, ok) /\ ~dirty[handler[h].t]
      BY <1>4 DEF Commit
    <2>2. ok \in BOOLEAN
      OBVIOUS
    <2>3. settle(h, ok)
      BY <2>1 DEF conclude
    <2>4. ok => promote(handler[h].t)
      BY <2>1 DEF conclude
    <2>5. ~ok => Leaves(handler[h].t)
      BY <1>3, <2>1 DEF conclude
    <2> QED BY <1>1, <1>2, <2>1, <2>2, <2>3, <2>4, <2>5
  <1>5. CASE CommitVerified(h)
    <2> DEFINE ok == handler[h].pc = "good" /\ promotable(handler[h].t)
    <2>1. conclude(h, ok)
      BY <1>5 DEF CommitVerified
    <2>2. ok \in BOOLEAN
      OBVIOUS
    <2>3. settle(h, ok)
      BY <2>1 DEF conclude
    <2>4. ok => promote(handler[h].t)
      BY <2>1 DEF conclude
    <2>5. ~ok => Leaves(handler[h].t)
      BY <1>3, <2>1 DEF conclude
    <2> QED BY <1>1, <1>2, <2>1, <2>2, <2>3, <2>4, <2>5
  <1>6. CASE RenameFails(h)
    <2>1. settle(h, FALSE) /\ Leaves(handler[h].t)
      BY <1>6 DEF RenameFails, Leaves
    <2> QED BY <1>1, <1>2, <2>1
  <1> QED BY <1>4, <1>5, <1>6 DEF Settling

\* No step leaves the types.
LEMMA NextTypeInv == TypeInv /\ [Next]_vars => TypeInv'
  <1> SUFFICES ASSUME TypeInv, [Next]_vars PROVE TypeInv'
    OBVIOUS
  <1>1. ASSUME NEW t \in Transfers, NEW exact \in BOOLEAN,
               RequestPhoneFile(t, exact) \/ RequestFails(t, exact)
        PROVE  TypeInv'
    BY <1>1, RequestType
  <1>2. ASSUME NEW t \in Transfers, CallReturns(t) PROVE TypeInv'
    BY <1>2, ReturnsType
  <1>3. ASSUME NEW t \in Transfers, CallTimesOut(t) \/ CancelTransfer(t) PROVE TypeInv'
    BY <1>3, CutType
  <1>4. ASSUME NEW t \in Transfers, Prune(t) PROVE TypeInv'
    BY <1>4, PruneType
  <1>5. ASSUME NEW t \in Transfers, SendPiece(t) \/ StopPull(t) \/ DeletePhone(t)
        PROVE  TypeInv'
    BY <1>5, PhoneType
  <1>6. ASSUME NEW h \in Handlers, NEW m \in toMac, TakeChunk(h, m) PROVE TypeInv'
    BY <1>6, TakeType
  <1>7. ASSUME NEW h \in Handlers, HandlerStep(h) PROVE TypeInv'
    <2>1. CASE Settling(h)
      <3>1. /\ handler[h].pc # "idle" /\ handler[h].t \in Transfers
            /\ faults' \in 0..MaxFaults
        BY <2>1, Outcome
      <3>2. PICK ok \in BOOLEAN :
              /\ settle(h, ok)
              /\ ok => promotable(handler[h].t) /\ promote(handler[h].t)
              /\ ~ok => Leaves(handler[h].t)
        BY <2>1, Outcome
      <3>3. DiskOK' /\ away' \in [Transfers -> BOOLEAN]
        BY <3>1, <3>2, PromoteOK, LeavesOK
      <3> QED BY <3>1, <3>2, <3>3, SettleType
    <2>2. CASE OpenPart(h)
      BY <2>2, OpenType
    <2>3. CASE WriteChunk(h)
      BY <2>3, WriteType
    <2>4. CASE WriteFails(h)
      BY <2>4, WriteFailsType
    <2>5. CASE Finish(h)
      BY <2>5, FinishType
    <2>6. CASE VerifyPart(h)
      BY <2>6, VerifyType
    <2> QED BY <1>7, <2>1, <2>2, <2>3, <2>4, <2>5, <2>6 DEF HandlerStep, Settling
  <1>8. ASSUME NEW m \in toMac, LoseChunk(m) PROVE TypeInv'
    BY <1>8, LoseType
  <1>9. CASE \/ \E d \in Dirs : ListPhoneFiles(d)
             \/ \E m \in answers : ListResp(m)
             \/ ListReturns
    BY <1>9, ListType
  <1>10. CASE UNCHANGED vars
    BY <1>10, Frame DEF TypeInv, vars, record, phone
  <1> QED BY <1>1, <1>2, <1>3, <1>4, <1>5, <1>6, <1>7, <1>8, <1>9, <1>10 DEF Next

\* The types hold in every state of every behaviour.
LEMMA TypesHold == Spec => []TypeInv
  <1>1. Init => TypeInv
    BY InitTypeInv
  <1>2. TypeInv /\ [Next]_vars => TypeInv'
    BY NextTypeInv
  <1> QED BY <1>1, <1>2, PTL DEF Spec

\* Every variable has its type, and a handler writes only through a handle
\* that is open (the tr.file a handler copied under fileMu is the record's).
THEOREM TypeCorrect == Spec => []TypeOK
  <1>1. TypeInv => TypeOK
    BY DEF TypeInv, TypeOK, RecordOK, DiskOK, WaitsOK, HandlersOK, PhoneOK, ListsOK,
           FreshOK, CountOK, Statuses, HandlerStates, place
  <1> QED BY <1>1, TypesHold, PTL

(***************************************************************************)
(* A call that returns without an error has its file.                      *)
(***************************************************************************)

\* The file of t is at the path, or beside it because the path is taken.
Arrived(t) == holder = t \/ (holder # None /\ aside[t] # {})

\* The answer in a channel is already as good as the one returned, and the
\* record of a call that waits without one is its own.
AnswerInv ==
    \A t \in Transfers :
        /\ call[t] = "nil" \/ box[t] = "nil" => Arrived(t)
        /\ call[t] = "wait" /\ box[t] = None => status[t] = "running" /\ ~away[t]
        /\ t \in fresh => ~away[t]

\* Steps that neither fill a channel with good news nor touch a call or a
\* committed file.
LEMMA AnswerKept ==
    ASSUME TypeInv, AnswerInv,
           \A t \in Transfers : call'[t] = "nil" => call[t] = "nil" \/ box[t] = "nil",
           \A t \in Transfers : box'[t] = "nil" => box[t] = "nil",
           \A t \in Transfers : call'[t] = "wait" /\ box'[t] = None =>
               \/ /\ call[t] = "wait" /\ box[t] = None
                  /\ status'[t] = status[t] \/ status'[t] = "running"
                  /\ away'[t] = away[t]
               \/ status'[t] = "running" /\ ~away'[t],
           \A t \in Transfers : t \in fresh' => t \in fresh /\ away'[t] = away[t],
           UNCHANGED place
    PROVE  AnswerInv'
  BY DEF AnswerInv, Arrived, place

\* A caller is told nil only by the handler that renamed the file or found it
\* there, and no later step takes the file away.
LEMMA NextAnswerInv == TypeInv /\ AnswerInv /\ [Next]_vars => AnswerInv'
  <1> SUFFICES ASSUME TypeInv, AnswerInv, [Next]_vars PROVE AnswerInv'
    OBVIOUS
  <1>a. ASSUME UNCHANGED <<call, box, status, away, fresh, place>> PROVE AnswerInv'
    BY <1>a, AnswerKept
  <1>1. ASSUME NEW t \in Transfers, NEW exact \in BOOLEAN,
               RequestPhoneFile(t, exact) \/ RequestFails(t, exact)
        PROVE  AnswerInv'
    <2>1. UNCHANGED <<box, away, place>> /\ fresh' = fresh \ {t} /\ t \in fresh
      BY <1>1 DEF RequestPhoneFile, RequestFails, disk
    <2>2. call'[t] = "wait" => status'[t] = "running" /\ ~away'[t]
      BY <1>1, <2>1 DEF RequestPhoneFile, RequestFails, TypeInv, RecordOK, WaitsOK, AnswerInv
    <2>3. call'[t] # "nil" /\ \A u \in Transfers \ {t} : call'[u] = call[u] /\ status'[u] = status[u]
      BY <1>1 DEF RequestPhoneFile, RequestFails, TypeInv, RecordOK, WaitsOK
    <2> QED BY <2>1, <2>2, <2>3, AnswerKept
  <1>2. ASSUME NEW t \in Transfers, CallReturns(t) PROVE AnswerInv'
    <2>1. UNCHANGED <<box, status, away, fresh, place>>
      BY <1>2 DEF CallReturns, record, disk
    <2>2. /\ call'[t] = box[t] /\ box[t] # None
          /\ \A u \in Transfers \ {t} : call'[u] = call[u]
      BY <1>2 DEF CallReturns, TypeInv, WaitsOK
    <2> QED BY <2>1, <2>2, AnswerKept
  <1>3. ASSUME NEW t \in Transfers, CallTimesOut(t) \/ CancelTransfer(t) PROVE AnswerInv'
    <2>1. UNCHANGED <<place, away, fresh>> /\ tell(t, "err")
      BY <1>3 DEF CallTimesOut, CancelTransfer, failTransfer
    <2>2. /\ \A u \in Transfers \ {t} : call'[u] = call[u] /\ status'[u] = status[u]
          /\ call'[t] \in {"err", call[t]}
      BY <1>3 DEF CallTimesOut, CancelTransfer, failTransfer, TypeInv, WaitsOK, RecordOK
    <2>3. call'[t] = "wait" => box'[t] # None
      BY <1>3, <2>1, <2>2, Constants DEF CallTimesOut, CancelTransfer, tell, TypeInv, WaitsOK
    <2> QED BY <2>1, <2>2, <2>3, TellOK, AnswerKept
  <1>4. ASSUME NEW t \in Transfers, Prune(t) PROVE AnswerInv'
    <2>1. UNCHANGED <<call, box, away, fresh, place>> /\ status[t] # "running"
      BY <1>4 DEF Prune, waits
    <2>2. \A u \in Transfers \ {t} : status'[u] = status[u]
      BY <1>4 DEF Prune, TypeInv, RecordOK
    <2>3. ~(call[t] = "wait" /\ box[t] = None)
      BY <2>1 DEF AnswerInv
    <2> QED BY <2>1, <2>2, <2>3, AnswerKept
  <1>5. ASSUME NEW t \in Transfers, SendPiece(t) \/ StopPull(t) \/ DeletePhone(t)
        PROVE  AnswerInv'
    BY <1>5, <1>a DEF SendPiece, StopPull, DeletePhone, waits, disk, record
  <1>6. ASSUME NEW h \in Handlers, NEW m \in toMac, TakeChunk(h, m) PROVE AnswerInv'
    <2>1. m.t \in Transfers /\ m.t \notin fresh
      BY <1>6 DEF TypeInv, FreshOK
    <2>2. UNCHANGED <<call, box, fresh, place>>
      BY <1>6 DEF TakeChunk, waits, disk
    <2>3. /\ \A u \in Transfers : u # m.t \/ status[u] # "none" =>
               status'[u] = status[u] /\ away'[u] = away[u]
      BY <1>6, <2>1 DEF TakeChunk, TypeInv, RecordOK
    <2>4. \A u \in Transfers : call[u] = "wait" /\ box[u] = None => status[u] # "none"
      BY DEF AnswerInv
    <2> QED BY <2>1, <2>2, <2>3, <2>4, AnswerKept
  <1>7. ASSUME NEW h \in Handlers, HandlerStep(h) PROVE AnswerInv'
    <2>1. CASE Settling(h)
      <3>1. PICK t \in Transfers : t = handler[h].t
        BY <2>1, Outcome
      <3>2. PICK ok \in BOOLEAN :
              settle(h, ok) /\ (ok => promotable(t) /\ promote(t)) /\ (~ok => Leaves(t))
        BY <2>1, <3>1, Outcome
      <3>3. /\ UNCHANGED <<call, fresh>>
            /\ tell(t, IF ok THEN "nil" ELSE "err")
            /\ \A u \in Transfers \ {t} : status'[u] = status[u]
        BY <3>1, <3>2 DEF settle, TypeInv, RecordOK
      <3>4. t \notin fresh
        BY <3>1 DEF TypeInv, FreshOK
      <3>5. ~(call[t] = "wait" /\ box'[t] = None)
        BY <3>3, Constants DEF tell, TypeInv, WaitsOK
      <3>6. CASE ok
        <4>1. tell(t, "nil") /\ promotable(t) /\ promote(t)
          BY <3>2, <3>3, <3>6
        <4>2. /\ \A u \in Transfers \ {t} : aside'[u] = aside[u] /\ away'[u] = away[u]
              /\ \/ /\ holder = None /\ ~away[t] /\ holder' = t
                    /\ UNCHANGED <<aside, away>>
                 \/ /\ holder # None \/ away[t]
                    /\ aside'[t] = aside[t] \cup {part[t]}
                    /\ UNCHANGED holder
          BY <4>1, PromoteOK
        <4>3. \A u \in Transfers : Arrived(u) => Arrived(u)'
          BY <4>2, Constants DEF Arrived
        <4>4. \A u \in Transfers : box'[u] = box[u] \/ (u = t /\ box'[u] = "nil")
          BY <4>1, TellOK
        <4>5. box'[t] # box[t] => call[t] = "wait" /\ box[t] = None
          BY <4>1 DEF tell, TypeInv, WaitsOK
        <4>6. box'[t] # box[t] => Arrived(t)'
          BY <4>2, <4>5, Constants DEF Arrived, AnswerInv
        <4> QED BY <3>3, <3>4, <3>5, <4>2, <4>3, <4>4, <4>6 DEF AnswerInv
      <3>7. CASE ~ok
        <4>1. tell(t, "err") /\ Leaves(t)
          BY <3>2, <3>3, <3>7
        <4>2. UNCHANGED place /\ \A u \in Transfers \ {t} : away'[u] = away[u]
          BY <4>1, LeavesOK DEF Leaves
        <4> QED BY <3>3, <3>4, <3>5, <4>1, <4>2, TellOK, AnswerKept
      <3> QED BY <3>6, <3>7
    <2>2. CASE OpenPart(h) \/ WriteChunk(h) \/ VerifyPart(h)
      BY <2>2, <1>a DEF OpenPart, WriteChunk, VerifyPart, waits, disk, record
    <2>3. CASE Finish(h)
      <3>1. PICK t \in Transfers : t = handler[h].t
        BY <2>3 DEF Finish, TypeInv, HandlersOK
      <3>2. UNCHANGED <<call, box, away, fresh, place>> /\ status' = [status EXCEPT ![t] = "running"]
        BY <2>3, <3>1 DEF Finish, waits, disk
      <3>3. \A u \in Transfers : status'[u] = status[u] \/ status'[u] = "running"
        BY <3>2 DEF TypeInv, RecordOK
      <3> QED BY <3>2, <3>3, AnswerKept
    <2>4. CASE WriteFails(h)
      <3>1. PICK t \in Transfers : t = handler[h].t
        BY <2>4 DEF WriteFails, TypeInv, HandlersOK
      <3>2. UNCHANGED <<place, call, away, fresh>> /\ tell(t, "err")
        BY <2>4, <3>1 DEF WriteFails, failTransfer
      <3>3. \A u \in Transfers \ {t} : status'[u] = status[u]
        BY <2>4, <3>1 DEF WriteFails, failTransfer, TypeInv, RecordOK
      <3>4. ~(call[t] = "wait" /\ box'[t] = None)
        BY <3>2, Constants DEF tell, TypeInv, WaitsOK
      <3> QED BY <3>2, <3>3, <3>4, TellOK, AnswerKept
    <2> QED BY <1>7, <2>1, <2>2, <2>3, <2>4 DEF HandlerStep, Settling
  <1>8. ASSUME NEW m \in toMac, LoseChunk(m) PROVE AnswerInv'
    BY <1>8, <1>a DEF LoseChunk, waits, disk, record
  <1>9. CASE \/ \E d \in Dirs : ListPhoneFiles(d)
             \/ \E m \in answers : ListResp(m)
             \/ ListReturns
    BY <1>9, <1>a DEF ListPhoneFiles, ListResp, ListReturns, waits, disk, record
  <1>10. CASE UNCHANGED vars
    BY <1>10, <1>a DEF vars, waits, disk, record
  <1> QED BY <1>1, <1>2, <1>3, <1>4, <1>5, <1>6, <1>7, <1>8, <1>9, <1>10 DEF Next

\* DownloadFileToExactPath reports success only for a file that was renamed
\* to the path, or next to it when another file has the path, and that no
\* other download wrote over, however many handlers and downloads there are.
THEOREM NilNeedsFile == Spec => []NilMeansFile
  <1>1. Init => AnswerInv
    BY Constants DEF Init, AnswerInv
  <1>2. TypeInv /\ AnswerInv /\ [Next]_vars => AnswerInv'
    BY NextAnswerInv
  <1>3. AnswerInv => NilMeansFile
    BY DEF AnswerInv, Arrived, NilMeansFile
  <1> QED BY <1>1, <1>2, <1>3, TypesHold, PTL DEF Spec


(***************************************************************************)
(* No part file is left open.                                              *)
(***************************************************************************)

\* As the property says, and nothing is known of a download not asked for.
OpenInv == OpenIsRunning /\ \A t \in fresh : status[t] = "none"

\* What a step must be like for each download: its handle was not opened, or
\* somebody answers for it.
LEMMA OpenKept ==
    ASSUME TypeInv, OpenInv, fresh' \subseteq fresh,
           \A t \in Transfers :
               \/ handle'[t] => handle[t]
               \/ \E h \in Handlers : handler'[h].t = t,
           \A t \in Transfers :
               \/ ~handle'[t]
               \/ status'[t] = "running"
               \/ /\ status'[t] = status[t]
                  /\ \A h \in Handlers : handler[h].t = t => handler'[h].t = t
               \/ \E h \in Handlers : handler'[h].t = t,
           \A t \in fresh' : status'[t] = status[t]
    PROVE  OpenInv'
  BY DEF OpenInv, OpenIsRunning, TypeInv, FreshOK

\* Whoever ends a download closes its part file.
LEMMA OpenClosed ==
    ASSUME TypeInv, OpenInv, NEW t \in Transfers,
           UNCHANGED fresh, t \notin fresh \/ status'[t] = status[t],
           handle' = [handle EXCEPT ![t] = FALSE],
           \A h \in Handlers : handler'[h].t = handler[h].t \/ handler[h].t = t,
           \A u \in Transfers \ {t} : status'[u] = status[u]
    PROVE  OpenInv'
  <1>1. ~handle'[t] /\ \A u \in Transfers \ {t} : handle'[u] = handle[u]
    BY DEF TypeInv, RecordOK
  <1> QED BY <1>1 DEF OpenInv, OpenIsRunning, TypeInv, FreshOK

\* A part file is opened by a handler, which either closes it, or fails, or
\* sets the download running when it is done.
LEMMA NextOpenInv == TypeInv /\ OpenInv /\ [Next]_vars => OpenInv'
  <1> SUFFICES ASSUME TypeInv, OpenInv, [Next]_vars PROVE OpenInv'
    OBVIOUS
  <1>a. ASSUME UNCHANGED <<handle, handler, status, fresh>> PROVE OpenInv'
    BY <1>a, OpenKept
  <1>1. ASSUME NEW t \in Transfers, NEW exact \in BOOLEAN,
               RequestPhoneFile(t, exact) \/ RequestFails(t, exact)
        PROVE  OpenInv'
    <2>1. t \in fresh /\ fresh' = fresh \ {t} /\ UNCHANGED <<handle, handler>>
      BY <1>1 DEF RequestPhoneFile, RequestFails
    <2>2. \A u \in Transfers \ {t} : status'[u] = status[u]
      BY <1>1 DEF RequestPhoneFile, RequestFails, TypeInv, RecordOK
    <2>3. ~handle[t]
      BY <2>1 DEF OpenInv, OpenIsRunning, TypeInv, FreshOK
    <2> QED BY <2>1, <2>2, <2>3, OpenKept DEF TypeInv, FreshOK
  <1>2. ASSUME NEW t \in Transfers, CallReturns(t) PROVE OpenInv'
    BY <1>2, <1>a DEF CallReturns, record
  <1>3. ASSUME NEW t \in Transfers, CallTimesOut(t) \/ CancelTransfer(t) PROVE OpenInv'
    <2>1. /\ UNCHANGED fresh /\ handle' = [handle EXCEPT ![t] = FALSE]
          /\ handler' = closeFile(t)
          /\ \A u \in Transfers \ {t} : status'[u] = status[u]
      BY <1>3 DEF CallTimesOut, CancelTransfer, failTransfer, TypeInv, RecordOK
    <2>2. t \in fresh => status'[t] = status[t]
      BY <1>3 DEF CallTimesOut, CancelTransfer, failTransfer, OpenInv, TypeInv, RecordOK
    <2>3. \A h \in Handlers : handler'[h].t = handler[h].t
      BY <2>1, CloseOK
    <2> QED BY <2>1, <2>2, <2>3, OpenClosed
  <1>4. ASSUME NEW t \in Transfers, Prune(t) PROVE OpenInv'
    <2>1. /\ UNCHANGED <<handle, handler, fresh>>
          /\ \A h \in Handlers : handler[h].t # t
          /\ status[t] # "running"
          /\ status'[t] = "none" /\ \A u \in Transfers \ {t} : status'[u] = status[u]
      BY <1>4 DEF Prune, TypeInv, RecordOK
    <2>2. ~handle[t]
      BY <2>1 DEF OpenInv, OpenIsRunning
    <2>3. t \in fresh => status'[t] = status[t]
      BY <2>1 DEF OpenInv
    <2> QED BY <2>1, <2>2, <2>3, OpenKept DEF TypeInv, FreshOK
  <1>5. ASSUME NEW t \in Transfers, SendPiece(t) \/ StopPull(t) \/ DeletePhone(t)
        PROVE  OpenInv'
    BY <1>5, <1>a DEF SendPiece, StopPull, DeletePhone, record
  <1>6. ASSUME NEW h \in Handlers, NEW m \in toMac, TakeChunk(h, m) PROVE OpenInv'
    <2>1. PICK t \in Transfers : t = m.t /\ t \notin fresh
      BY DEF TypeInv, FreshOK
    <2>2. /\ UNCHANGED <<handle, fresh>>
          /\ status'[t] = (IF status[t] = "none" THEN "running" ELSE status[t])
          /\ \A u \in Transfers \ {t} : status'[u] = status[u]
          /\ handler[h].t = None
      BY <1>6, <2>1, Constants DEF TakeChunk, TypeInv, RecordOK
    <2>3. \A g \in Handlers \ {h} : handler'[g] = handler[g]
      BY <1>6 DEF TakeChunk, TypeInv, HandlersOK
    <2> QED BY <2>1, <2>2, <2>3, Constants, OpenKept DEF TypeInv, FreshOK
  <1>7. ASSUME NEW h \in Handlers, HandlerStep(h) PROVE OpenInv'
    <2>1. CASE Settling(h) \/ WriteFails(h)
      <3>1. PICK t \in Transfers : t = handler[h].t
        BY <2>1, Outcome DEF WriteFails, TypeInv, HandlersOK
      <3>2. /\ UNCHANGED fresh /\ handle' = [handle EXCEPT ![t] = FALSE]
            /\ handler' = [closeFile(t) EXCEPT ![h] = Idle]
            /\ \A u \in Transfers \ {t} : status'[u] = status[u]
        <4>1. CASE Settling(h)
          BY <3>1, <4>1, Outcome DEF settle, TypeInv, RecordOK
        <4>2. CASE WriteFails(h)
          BY <3>1, <4>2 DEF WriteFails, failTransfer, TypeInv, RecordOK
        <4> QED BY <2>1, <4>1, <4>2
      <3>3. \A g \in Handlers : handler'[g].t = handler[g].t \/ handler[g].t = t
        BY <3>1, <3>2, SettledHandlers
      <3>4. t \notin fresh
        BY <3>1 DEF TypeInv, FreshOK
      <3> QED BY <3>2, <3>3, <3>4, OpenClosed
    <2>2. CASE OpenPart(h)
      <3>1. PICK t \in Transfers : t = handler[h].t
        BY <2>2 DEF OpenPart, TypeInv, HandlersOK
      <3>2. handler'[h].t = t /\ \A g \in Handlers \ {h} : handler'[g] = handler[g]
        BY <2>2, <3>1 DEF OpenPart, TypeInv, HandlersOK, HandlerStates
      <3>3. /\ UNCHANGED <<status, fresh>>
            /\ \A u \in Transfers \ {t} : handle'[u] = handle[u]
        BY <2>2, <3>1 DEF OpenPart, TypeInv, RecordOK
      <3> QED BY <3>1, <3>2, <3>3, OpenKept DEF TypeInv, FreshOK
    <2>3. CASE WriteChunk(h) \/ VerifyPart(h)
      <3>1. UNCHANGED <<handle, status, fresh>>
        BY <2>3 DEF WriteChunk, VerifyPart, record
      <3>2. \A g \in Handlers : handler'[g].t = handler[g].t
        BY <2>3 DEF WriteChunk, VerifyPart, TypeInv, HandlersOK, HandlerStates
      <3> QED BY <3>1, <3>2, OpenKept DEF TypeInv, FreshOK
    <2>4. CASE Finish(h)
      <3>1. PICK t \in Transfers : t = handler[h].t
        BY <2>4 DEF Finish, TypeInv, HandlersOK
      <3>2. /\ UNCHANGED <<handle, fresh>>
            /\ status'[t] = "running"
            /\ \A u \in Transfers \ {t} : status'[u] = status[u]
            /\ \A g \in Handlers \ {h} : handler'[g] = handler[g]
        BY <2>4, <3>1 DEF Finish, TypeInv, RecordOK, HandlersOK
      <3>3. t \notin fresh
        BY <3>1 DEF TypeInv, FreshOK
      <3> QED BY <3>1, <3>2, <3>3, OpenKept DEF TypeInv, FreshOK
    <2> QED BY <1>7, <2>1, <2>2, <2>3, <2>4 DEF HandlerStep, Settling
  <1>8. ASSUME NEW m \in toMac, LoseChunk(m) PROVE OpenInv'
    BY <1>8, <1>a DEF LoseChunk, record
  <1>9. CASE \/ \E d \in Dirs : ListPhoneFiles(d)
             \/ \E m \in answers : ListResp(m)
             \/ ListReturns
    BY <1>9, <1>a DEF ListPhoneFiles, ListResp, ListReturns, record
  <1>10. CASE UNCHANGED vars
    BY <1>10, <1>a DEF vars, record
  <1> QED BY <1>1, <1>2, <1>3, <1>4, <1>5, <1>6, <1>7, <1>8, <1>9, <1>10 DEF Next

\* A part file is open only while its download runs or is worked on, so that
\* GetTransfers forgets no open one, for any number of handlers at once.
THEOREM NoneLeftOpen == Spec => []OpenIsRunning
  <1>1. Init => OpenInv
    BY DEF Init, OpenInv, OpenIsRunning
  <1>2. TypeInv /\ OpenInv /\ [Next]_vars => OpenInv'
    BY NextOpenInv
  <1>3. OpenInv => OpenIsRunning
    BY DEF OpenInv
  <1> QED BY <1>1, <1>2, <1>3, TypesHold, PTL DEF Spec

(***************************************************************************)
(* A committed file is whole, when chunks are handled one by one and the   *)
(* download was not cut short.                                             *)
(***************************************************************************)

\* A piece is in the part file or about to be.
Held(t, i) ==
    \/ i \in part[t]
    \/ \E h \in Handlers : /\ handler[h].t = t
                           /\ handler[h].pc = "write"
                           /\ handler[h].idx = i

\* While the digest counts, the pieces it has seen are in the part file, and a
\* download without a part file has just begun or is done.
DigestOK(t) ==
    ~dirty[t] /\ status[t] \notin {"error", "cancelled"} =>
        \/ part[t] = None /\ fed[t] \in {0, Chunks}
        \/ part[t] # None /\ \A i \in 0..(fed[t] - 1) : Held(t, i)

\* A handler works on a download that goes on, with a part file from the
\* moment it opened it, and what it found good still is.
WorkOK(t) ==
    \A h \in Handlers : handler[h].t = t =>
        /\ status[t] \in {"running", "done"}
        /\ handler[h].pc \in {"write", "finish"} => part[t] # None
        /\ handler[h].pc = "good" => part[t] = Index /\ dirty[t]

\* What was committed is whole.
CommittedOK(t) ==
    /\ holder = t => target = Index
    /\ aside[t] \subseteq {Index}

DownloadOK(t) ==
    /\ t \in fresh => status[t] = "none"
    /\ t \notin cut => DigestOK(t) /\ WorkOK(t) /\ CommittedOK(t)

WholeInv == \A t \in Transfers : DownloadOK(t)

\* The same handlers are at the same place with t as before.
SameWork(t) ==
    \A h \in Handlers :
        /\ handler'[h].t = t <=> handler[h].t = t
        /\ handler[h].t = t => /\ handler'[h].pc = handler[h].pc
                               /\ handler'[h].idx = handler[h].idx

SameFile(t) ==
    /\ dirty'[t] = dirty[t] /\ fed'[t] = fed[t]
    /\ part'[t] = part[t] /\ aside'[t] = aside[t]
    /\ holder' = t => holder = t /\ target' = target

\* A step that is not about t.
LEMMA DownloadFrame ==
    ASSUME NEW t \in Transfers, DownloadOK(t), SameWork(t), SameFile(t),
           status'[t] = status[t], fresh' \subseteq fresh, cut \subseteq cut'
    PROVE  DownloadOK(t)'
  <1>1. \A i : Held(t, i) => Held(t, i)'
    BY DEF Held, SameWork, SameFile, place
  <1>2. DigestOK(t) => DigestOK(t)'
    BY <1>1 DEF DigestOK, SameFile, place
  <1>3. WorkOK(t) => WorkOK(t)'
    BY DEF WorkOK, SameWork, SameFile, place
  <1> QED BY <1>2, <1>3 DEF DownloadOK, SameFile, place, CommittedOK

\* A download that has just been cut is out of the question.
LEMMA CutOK ==
    ASSUME NEW t \in Transfers, t \in cut', t \in fresh' => status'[t] = "none"
    PROVE  DownloadOK(t)'
  BY DEF DownloadOK, CommittedOK, place

\* A request, sent or failed, takes a fresh transfer: nothing was written for it.
LEMMA RequestWhole ==
    ASSUME TypeInv, WholeInv, NEW t \in Transfers, NEW exact \in BOOLEAN,
           RequestPhoneFile(t, exact) \/ RequestFails(t, exact)
    PROVE  WholeInv'
  <1>1. /\ t \in fresh /\ fresh' = fresh \ {t}
        /\ UNCHANGED <<dirty, fed, part, place, handler, cut>>
    BY DEF RequestPhoneFile, RequestFails, disk, place
  <1>2. \A u \in Transfers : SameWork(u) /\ SameFile(u)
    BY <1>1 DEF SameWork, SameFile, place
  <1>3. \A u \in Transfers \ {t} : status'[u] = status[u]
    BY DEF RequestPhoneFile, RequestFails, TypeInv, RecordOK
  <1>4. \A u \in Transfers \ {t} : DownloadOK(u)'
    BY <1>1, <1>2, <1>3, DownloadFrame DEF WholeInv
  <1>5. DownloadOK(t)'
    <2>1. DownloadOK(t) /\ status[t] = "none"
      BY <1>1 DEF WholeInv, DownloadOK, CommittedOK, place
    <2>2. \A h \in Handlers : handler[h].t # t
      BY <1>1 DEF TypeInv, FreshOK
    <2>3. WorkOK(t)'
      BY <1>1, <2>2 DEF WorkOK
    <2>4. DigestOK(t) => DigestOK(t)'
      <3>1. \A i : Held(t, i) => Held(t, i)'
        BY <1>1 DEF Held
      <3> QED BY <1>1, <2>1, <3>1 DEF DigestOK
    <2> QED BY <1>1, <2>1, <2>3, <2>4 DEF DownloadOK, CommittedOK, place
  <1> QED BY <1>4, <1>5 DEF WholeInv

\* A timeout or a cancel marks the transfer as cut, and drops its part file.
LEMMA CutWhole ==
    ASSUME TypeInv, WholeInv, NEW t \in Transfers, CallTimesOut(t) \/ CancelTransfer(t)
    PROVE  WholeInv'
  <1>1. /\ handler' = closeFile(t) /\ cut' = cut \cup {t} /\ fresh' = fresh
        /\ UNCHANGED <<dirty, fed, place>> /\ part' = [part EXCEPT ![t] = None]
    BY DEF CallTimesOut, CancelTransfer, failTransfer
  <1>2. \A u \in Transfers : SameWork(u)
    BY <1>1, CloseOK DEF SameWork
  <1>3. \A u \in Transfers \ {t} : SameFile(u) /\ status'[u] = status[u]
    BY <1>1 DEF CallTimesOut, CancelTransfer, failTransfer, SameFile, TypeInv, RecordOK, DiskOK, place
  <1>4. \A u \in Transfers \ {t} : DownloadOK(u)'
    BY <1>1, <1>2, <1>3, DownloadFrame DEF WholeInv
  <1>5. t \in fresh' => status'[t] = "none"
    <2>1. t \in fresh => status[t] = "none"
      BY DEF WholeInv, DownloadOK, CommittedOK, place
    <2>2. CASE CallTimesOut(t)
      BY <1>1, <2>1, <2>2 DEF CallTimesOut, failTransfer, TypeInv, RecordOK
    <2>3. CASE CancelTransfer(t)
      BY <1>1, <2>1, <2>3 DEF CancelTransfer
    <2> QED BY <2>2, <2>3
  <1>6. DownloadOK(t)'
    BY <1>1, <1>5, CutOK
  <1> QED BY <1>4, <1>6 DEF WholeInv

\* The record is pruned when no handler works on it, and leaves the target alone.
LEMMA PruneWhole ==
    ASSUME TypeInv, WholeInv, NEW t \in Transfers, Prune(t)
    PROVE  WholeInv'
  <1>1. /\ UNCHANGED <<place, handler, fresh, cut>>
        /\ status'[t] = "none" /\ fed'[t] = 0 /\ part'[t] = None
        /\ \A h \in Handlers : handler[h].t # t
        /\ \A u \in Transfers \ {t} : SameFile(u) /\ status'[u] = status[u]
    BY DEF Prune, SameFile, TypeInv, RecordOK, DiskOK, place
  <1>2. \A u \in Transfers : SameWork(u)
    BY <1>1 DEF SameWork
  <1>3. \A u \in Transfers \ {t} : DownloadOK(u)'
    BY <1>1, <1>2, DownloadFrame DEF WholeInv
  <1>4. DigestOK(t)' /\ WorkOK(t)'
    BY <1>1 DEF DigestOK, WorkOK
  <1>5. DownloadOK(t)'
    BY <1>1, <1>4 DEF WholeInv, DownloadOK, CommittedOK, place
  <1> QED BY <1>3, <1>5 DEF WholeInv

\* Only the handlers that work on t, or the one that now does, matter.
LEMMA TakeWhole ==
    ASSUME TypeInv, WholeInv, NEW h \in Handlers, NEW m \in toMac, TakeChunk(h, m)
    PROVE  WholeInv'
  <1> DEFINE x == [pc |-> "open", t |-> m.t, idx |-> m.idx, fh |-> FALSE]
  <1>1. PICK t \in Transfers : t = m.t
    BY DEF TypeInv, FreshOK
  <1>2. t \notin fresh
    BY <1>1 DEF TypeInv, FreshOK
  <1>3. /\ UNCHANGED <<dirty, fed, part, place, fresh, cut>>
        /\ \A u \in Transfers \ {t} : status'[u] = status[u]
        /\ status'[t] = IF status[t] = "none" THEN "running" ELSE status[t]
        /\ handler[h] = Idle
    BY <1>1 DEF TakeChunk, disk, place, TypeInv, RecordOK
  <1>4. \A u \in Transfers : SameFile(u)
    BY <1>3 DEF SameFile, place
  <1>5. handler[h].t = None /\ handler[h].t \notin Transfers
    BY <1>3, Constants
  <1>6. handler \in [Handlers -> HandlerStates]
    BY DEF TypeInv, HandlersOK
  <1>7. x.t = t /\ x.pc = "open"
    BY <1>1
  <1>8. \/ handler' = handler /\ status[t] \in {"error", "cancelled"}
        \/ handler' = [handler EXCEPT ![h] = x] /\ status[t] \notin {"error", "cancelled"}
    BY <1>1 DEF TakeChunk
  <1> HIDE DEF x
  <1>9. \A u \in Transfers \ {t} : SameWork(u)
    BY <1>5, <1>6, <1>7, <1>8 DEF SameWork
  <1>10. \A u \in Transfers \ {t} : DownloadOK(u)'
    BY <1>3, <1>4, <1>9, DownloadFrame DEF WholeInv
  <1>11. DownloadOK(t)'
    <2>1. DownloadOK(t)
      BY DEF WholeInv
    <2>2. CASE t \in cut
      BY <1>2, <1>3, <2>2 DEF DownloadOK, CommittedOK, place
    <2>3. CASE t \notin cut
      <3>1. DigestOK(t) /\ WorkOK(t) /\ CommittedOK(t)
        BY <2>1, <2>3 DEF DownloadOK, CommittedOK, place
      <3>2. \A g \in Handlers : g # h => handler'[g] = handler[g]
        BY <1>6, <1>8
      <3>3. \A i : Held(t, i) => Held(t, i)'
        BY <1>3, <1>5, <3>2 DEF Held
      <3>4. DigestOK(t)'
        BY <1>3, <3>1, <3>3 DEF DigestOK
      <3>5. WorkOK(t)'
        <4>1. CASE handler' = handler
          BY <1>3, <3>1, <4>1 DEF WorkOK
        <4>2. CASE handler' = [handler EXCEPT ![h] = x] /\ status[t] \notin {"error", "cancelled"}
          <5>1. handler'[h] = x
            BY <1>6, <4>2
          <5>2. status'[t] \in {"running", "done"}
            BY <1>3, <4>2 DEF TypeInv, RecordOK, Statuses
          <5> QED BY <1>3, <1>7, <3>1, <3>2, <5>1, <5>2 DEF WorkOK
        <4> QED BY <1>8, <4>1, <4>2
      <3> QED BY <1>2, <1>3, <3>1, <3>4, <3>5 DEF DownloadOK, CommittedOK, place
    <2> QED BY <2>2, <2>3
  <1> QED BY <1>10, <1>11 DEF WholeInv


\* One chunk is handled at a time: the socket's read loop is the only way in.
OneByOne == \A g, h \in Handlers : g = h

\* A handler's step is about the download it works on, and it is the only
\* handler there is.
LEMMA OtherDownloads ==
    ASSUME TypeInv, WholeInv, OneByOne, NEW h \in Handlers, NEW t \in Transfers,
           t = handler[h].t, handler'[h].t \in {t, None},
           fresh' \subseteq fresh, UNCHANGED cut,
           \A u \in Transfers \ {t} : SameFile(u) /\ status'[u] = status[u],
           DownloadOK(t)'
    PROVE  WholeInv'
  <1>1. \A u \in Transfers \ {t} : SameWork(u)
    BY Constants DEF SameWork, OneByOne
  <1>2. \A u \in Transfers \ {t} : DownloadOK(u)'
    BY <1>1, DownloadFrame DEF WholeInv
  <1> QED BY <1>2 DEF WholeInv

\* What is known of a download under way.
LEMMA AtWork ==
    ASSUME TypeInv, WholeInv, NEW h \in Handlers, NEW t \in Transfers, t = handler[h].t,
           t \notin cut
    PROVE  /\ t \notin fresh
           /\ DigestOK(t) /\ WorkOK(t) /\ CommittedOK(t)
           /\ status[t] \in {"running", "done"}
           /\ handler[h].pc \in {"write", "finish"} => part[t] # None
           /\ handler[h].pc = "good" => part[t] = Index /\ dirty[t]
  <1>1. t \notin fresh
    BY DEF TypeInv, FreshOK
  <1>2. DigestOK(t) /\ WorkOK(t) /\ CommittedOK(t)
    BY DEF WholeInv, DownloadOK, CommittedOK, place
  <1> QED BY <1>1, <1>2 DEF WorkOK

\* Opening makes an empty part file or keeps the one there is; the digest is fed
\* the chunk that is next, and is dirty after any other.
LEMMA OpenWhole ==
    ASSUME TypeInv, WholeInv, OneByOne, NEW h \in Handlers, OpenPart(h)
    PROVE  WholeInv'
  <1>1. PICK t \in Transfers : t = handler[h].t
    BY OpenType
  <1>2. handler'[h].pc = "write" /\ handler'[h].t = t /\ handler'[h].idx = handler[h].idx
    BY <1>1, OpenType
  <1>3. UNCHANGED <<status, place, fresh, cut>> /\ handler[h].pc = "open"
    BY DEF OpenPart
  <1>4. \A u \in Transfers \ {t} : SameFile(u) /\ status'[u] = status[u]
    BY <1>1 DEF OpenPart, SameFile, TypeInv, RecordOK, DiskOK, place
  <1>5. t \notin fresh
    BY <1>1 DEF TypeInv, FreshOK
  <1>6. DownloadOK(t)'
    <2>1. CASE t \in cut
      BY <1>3, <1>5, <2>1 DEF DownloadOK, CommittedOK, place
    <2>2. CASE t \notin cut
      <3>1. /\ DigestOK(t) /\ CommittedOK(t)
            /\ status[t] \in {"running", "done"}
        BY <1>1, <2>2, AtWork
      <3>2. part'[t] = IF part[t] = None THEN {} ELSE part[t]
        BY <1>1 DEF OpenPart, TypeInv, DiskOK, place
      <3>3. part'[t] # None
        BY <3>2, Constants
      <3>4. WorkOK(t)'
        BY <1>2, <1>3, <3>1, <3>3 DEF WorkOK, OneByOne
      <3>5. DigestOK(t)'
        <4> SUFFICES ASSUME ~dirty'[t] PROVE \A i \in 0..(fed'[t] - 1) : Held(t, i)'
          BY <3>3 DEF DigestOK
        <4>1. ~dirty[t] /\ handler[h].idx = fed[t] /\ fed'[t] = fed[t] + 1
          BY <1>1 DEF OpenPart, TypeInv, RecordOK
        <4>2. fed[t] \in Nat
          BY DEF TypeInv, RecordOK
        <4>3. \A i : i = fed[t] => Held(t, i)'
          BY <1>2, <4>1 DEF Held
        <4>4. handler[h].idx \in 0..(Chunks - 1)
          BY DEF TypeInv, HandlersOK, HandlerStates, Index
        <4>5. fed[t] # Chunks
          BY <4>1, <4>4, DownloadAssumption
        <4>6. \A i \in 0..(fed[t] - 1) : part[t] # None /\ Held(t, i)
          BY <3>1, <4>1, <4>2, <4>5 DEF DigestOK
        <4>7. \A i \in 0..(fed[t] - 1) : i \in part[t]
          BY <1>3, <4>6 DEF Held, OneByOne
        <4>8. \A i \in 0..(fed[t] - 1) : Held(t, i)'
          BY <3>2, <4>6, <4>7 DEF Held
        <4>9. \A i \in 0..(fed'[t] - 1) : i = fed[t] \/ i \in 0..(fed[t] - 1)
          BY <4>1, <4>2
        <4> QED BY <4>3, <4>8, <4>9
      <3> QED BY <1>3, <1>5, <3>1, <3>4, <3>5 DEF DownloadOK, CommittedOK, place
    <2> QED BY <2>1, <2>2
  <1> QED BY <1>1, <1>2, <1>3, <1>4, <1>6, OtherDownloads

\* A chunk that was counted as fed is written to the part file.
LEMMA WriteWhole ==
    ASSUME TypeInv, WholeInv, OneByOne, NEW h \in Handlers, WriteChunk(h)
    PROVE  WholeInv'
  <1>1. PICK t \in Transfers : t = handler[h].t
    BY DEF WriteChunk, TypeInv, HandlersOK
  <1>2. handler[h].pc = "write" /\ handler' = [handler EXCEPT ![h].pc = "finish"]
    BY DEF WriteChunk
  <1>3. handler'[h].pc = "finish" /\ handler'[h].t = t
    BY <1>1, <1>2, Moved
  <1>4. UNCHANGED <<status, dirty, fed, place, fresh, cut>>
    BY DEF WriteChunk, record
  <1>5. part' = [part EXCEPT ![t] = (IF @ = None THEN {} ELSE @) \cup {handler[h].idx}]
    BY <1>1 DEF WriteChunk
  <1>6. \A u \in Transfers \ {t} : SameFile(u) /\ status'[u] = status[u]
    BY <1>4, <1>5 DEF SameFile, TypeInv, DiskOK, place
  <1>7. t \notin fresh
    BY <1>1 DEF TypeInv, FreshOK
  <1>8. DownloadOK(t)'
    <2>1. CASE t \in cut
      BY <1>4, <1>7, <2>1 DEF DownloadOK, CommittedOK, place
    <2>2. CASE t \notin cut
      <3>1. /\ DigestOK(t) /\ CommittedOK(t)
            /\ status[t] \in {"running", "done"} /\ part[t] # None
        BY <1>1, <1>2, <2>2, AtWork
      <3>2. part'[t] = part[t] \cup {handler[h].idx}
        BY <1>5, <3>1 DEF TypeInv, DiskOK, place
      <3>3. part'[t] # None
        <4>1. handler[h].idx \in Index /\ part[t] \in SUBSET Index
          BY <3>1 DEF TypeInv, DiskOK, HandlersOK, HandlerStates, place
        <4> QED BY <3>2, <4>1, Constants
      <3>4. \A i : Held(t, i) => Held(t, i)'
        BY <3>2 DEF Held, OneByOne
      <3>5. DigestOK(t)'
        BY <1>4, <3>1, <3>3, <3>4 DEF DigestOK
      <3>6. WorkOK(t)'
        BY <1>3, <1>4, <3>1, <3>3 DEF WorkOK, OneByOne
      <3> QED BY <1>4, <1>7, <3>1, <3>5, <3>6 DEF DownloadOK, CommittedOK, place
    <2> QED BY <2>1, <2>2
  <1> QED BY <1>1, <1>3, <1>4, <1>6, <1>8, OtherDownloads

\* A failed write ends the download.
LEMMA WriteFailsWhole ==
    ASSUME TypeInv, WholeInv, OneByOne, NEW h \in Handlers, WriteFails(h)
    PROVE  WholeInv'
  <1>1. PICK t \in Transfers : t = handler[h].t
    BY DEF WriteFails, TypeInv, HandlersOK
  <1>2. failTransfer(t) /\ handler' = [closeFile(t) EXCEPT ![h] = Idle]
    BY <1>1 DEF WriteFails
  <1>3. handle' = [handle EXCEPT ![t] = FALSE]
    BY <1>2 DEF failTransfer
  <1>4. handler'[h] = Idle /\ handler'[h].t = None
    BY <1>2, <1>3, SettledHandlers, Constants
  <1>5. UNCHANGED <<dirty, fed, place, fresh, cut>>
    BY DEF WriteFails
  <1>6. \A u \in Transfers \ {t} : SameFile(u) /\ status'[u] = status[u]
    BY <1>2, <1>5 DEF failTransfer, SameFile, TypeInv, RecordOK, DiskOK, place
  <1>7. t \notin fresh
    BY <1>1 DEF TypeInv, FreshOK
  <1>8. DownloadOK(t)'
    <2>1. CASE t \in cut
      BY <1>5, <1>7, <2>1 DEF DownloadOK, CommittedOK, place
    <2>2. CASE t \notin cut
      <3>1. status[t] \in {"running", "done"} /\ CommittedOK(t)
        BY <1>1, <2>2, AtWork
      <3>2. status'[t] = "error"
        BY <1>2, <3>1 DEF failTransfer, TypeInv, RecordOK
      <3>3. WorkOK(t)'
        BY <1>4, Constants DEF WorkOK, OneByOne
      <3> QED BY <1>5, <1>7, <3>1, <3>2, <3>3 DEF DownloadOK, DigestOK, CommittedOK, place
    <2> QED BY <2>1, <2>2
  <1> QED BY <1>1, <1>4, <1>5, <1>6, <1>8, OtherDownloads

\* A chunk that was not the last leaves the part file as it is.
LEMMA FinishWhole ==
    ASSUME TypeInv, WholeInv, OneByOne, NEW h \in Handlers, Finish(h)
    PROVE  WholeInv'
  <1>1. PICK t \in Transfers : t = handler[h].t
    BY DEF Finish, TypeInv, HandlersOK
  <1>2. handler'[h] = Idle /\ handler'[h].t = None
    BY Constants DEF Finish, TypeInv, HandlersOK
  <1>3. UNCHANGED <<dirty, fed, part, place, fresh, cut>> /\ handler[h].pc = "finish"
    BY DEF Finish, disk, place
  <1>4. status' = [status EXCEPT ![t] = "running"]
    BY <1>1 DEF Finish
  <1>5. \A u \in Transfers \ {t} : SameFile(u) /\ status'[u] = status[u]
    BY <1>3, <1>4 DEF SameFile, TypeInv, RecordOK, place
  <1>6. t \notin fresh
    BY <1>1 DEF TypeInv, FreshOK
  <1>7. DownloadOK(t)'
    <2>1. CASE t \in cut
      BY <1>3, <1>6, <2>1 DEF DownloadOK, CommittedOK, place
    <2>2. CASE t \notin cut
      <3>1. /\ DigestOK(t) /\ CommittedOK(t)
            /\ status[t] \in {"running", "done"}
        BY <1>1, <2>2, AtWork
      <3>2. \A i : Held(t, i) => Held(t, i)'
        BY <1>3 DEF Held, OneByOne
      <3>3. DigestOK(t)'
        BY <1>3, <3>1, <3>2 DEF DigestOK
      <3>4. WorkOK(t)'
        BY <1>2, Constants DEF WorkOK, OneByOne
      <3> QED BY <1>3, <1>6, <3>1, <3>3, <3>4 DEF DownloadOK, CommittedOK, place
    <2> QED BY <2>1, <2>2
  <1> QED BY <1>1, <1>2, <1>3, <1>5, <1>7, OtherDownloads

\* The digest that has seen every piece of an intact part file, or the look
\* at all of it, vouches for the file that is renamed into place.
LEMMA SettleWhole ==
    ASSUME TypeInv, WholeInv, OneByOne, NEW h \in Handlers, Settling(h)
    PROVE  WholeInv'
  <1>1. PICK t \in Transfers : t = handler[h].t
    BY Outcome
  <1>2. PICK ok \in BOOLEAN :
          /\ settle(h, ok)
          /\ ok => /\ promotable(t) /\ promote(t)
                   /\ handler[h].pc = "good" \/ (fed[t] = Chunks /\ ~dirty[t])
          /\ ~ok => Leaves(t)
    BY <1>1, Outcome
  <1>3. /\ handle' = [handle EXCEPT ![t] = FALSE]
        /\ handler' = [closeFile(t) EXCEPT ![h] = Idle]
        /\ UNCHANGED <<fed, dirty, fresh, cut>>
        /\ status'[t] = (IF ok THEN "done" ELSE "error")
        /\ \A u \in Transfers \ {t} : status'[u] = status[u]
    BY <1>1, <1>2 DEF settle, TypeInv, RecordOK
  <1>4. handler'[h] = Idle /\ handler'[h].t = None
    BY <1>3, SettledHandlers, Constants
  <1>p. ok => /\ part'[t] = None /\ \A u \in Transfers \ {t} : part'[u] = part[u]
              /\ \A u \in Transfers \ {t} : aside'[u] = aside[u]
              /\ \/ /\ holder' = t /\ target' = part[t]
                    /\ UNCHANGED aside
                 \/ /\ aside'[t] = aside[t] \cup {part[t]}
                    /\ UNCHANGED <<holder, target>>
    BY <1>2, PromoteOK
  <1>l. ~ok => /\ UNCHANGED <<holder, target, aside>>
               /\ \A u \in Transfers \ {t} : part'[u] = part[u]
    BY <1>2, LeavesOK DEF Leaves, place
  <1>5. \A u \in Transfers \ {t} : SameFile(u) /\ status'[u] = status[u]
    BY <1>3, <1>p, <1>l DEF SameFile
  <1>6. t \notin fresh
    BY <1>1 DEF TypeInv, FreshOK
  <1>7. DownloadOK(t)'
    <2>1. CASE t \in cut
      BY <1>3, <1>6, <2>1 DEF DownloadOK
    <2>2. CASE t \notin cut
      <3>1. /\ DigestOK(t) /\ CommittedOK(t)
            /\ status[t] \in {"running", "done"}
            /\ handler[h].pc = "good" => part[t] = Index /\ dirty[t]
        BY <1>1, <2>2, AtWork
      <3>2. WorkOK(t)'
        BY <1>4, Constants DEF WorkOK, OneByOne
      <3>3. CASE ~ok
        BY <1>3, <1>6, <1>l, <3>1, <3>2, <3>3 DEF DownloadOK, DigestOK, CommittedOK
      <3>4. CASE ok
        <4>1. part[t] = Index => CommittedOK(t)'
          BY <1>p, <3>1, <3>4 DEF CommittedOK
        <4>2. part[t] = Index
          <5>1. CASE handler[h].pc = "good"
            BY <3>1, <5>1
          <5>2. CASE handler[h].pc # "good"
            <6>1. fed[t] = Chunks /\ ~dirty[t] /\ promotable(t)
              BY <1>2, <3>4, <5>2
            <6>2. handler[h].pc # "write"
              BY <2>2, <1>2 DEF Settling, Commit, CommitVerified, RenameFails
            <6>3. \A i \in 0..(Chunks - 1) : Held(t, i)
              BY <3>1, <6>1 DEF DigestOK, promotable
            <6>4. Index \subseteq part[t]
              BY <6>2, <6>3 DEF Held, OneByOne, Index
            <6> QED BY <6>1, <6>4 DEF promotable, TypeInv, DiskOK
          <5> QED BY <5>1, <5>2
        <4>3. DigestOK(t)'
          <5>1. ~dirty[t] => fed[t] = Chunks
            BY <1>2, <3>1, <3>4
          <5> QED BY <1>3, <1>p, <3>4, <5>1 DEF DigestOK
        <4> QED BY <1>3, <1>6, <3>2, <4>1, <4>2, <4>3 DEF DownloadOK
      <3> QED BY <3>3, <3>4
    <2> QED BY <2>1, <2>2
  <1> QED BY <1>1, <1>3, <1>4, <1>5, <1>7, OtherDownloads

\* The verdict on a part file is good only if it holds every chunk.
LEMMA VerifyWhole ==
    ASSUME TypeInv, WholeInv, OneByOne, NEW h \in Handlers, VerifyPart(h)
    PROVE  WholeInv'
  <1>1. PICK t \in Transfers : t = handler[h].t
    BY DEF VerifyPart, TypeInv, HandlersOK
  <1>2. PICK p \in {"good", "bad"} : p = IF part[t] = Index THEN "good" ELSE "bad"
    OBVIOUS
  <1>3. handler' = [handler EXCEPT ![h].pc = p]
    BY <1>1, <1>2 DEF VerifyPart
  <1>4. handler'[h].pc = p /\ handler'[h].t = t
    BY <1>1, <1>3, Moved
  <1>5. /\ UNCHANGED <<status, dirty, fed, part, place, fresh, cut>>
        /\ dirty[t] /\ handler[h].pc = "finish"
    BY <1>1 DEF VerifyPart, record, disk, place
  <1>6. \A u \in Transfers \ {t} : SameFile(u) /\ status'[u] = status[u]
    BY <1>5 DEF SameFile, place
  <1>7. DownloadOK(t)'
    <2>1. CASE t \in cut
      BY <1>1, <1>5, <2>1 DEF DownloadOK, TypeInv, FreshOK, CommittedOK, place
    <2>2. CASE t \notin cut
      <3>1. /\ t \notin fresh /\ CommittedOK(t)
            /\ status[t] \in {"running", "done"}
        BY <1>1, <2>2, AtWork
      <3>2. WorkOK(t)'
        BY <1>2, <1>4, <1>5, <3>1 DEF WorkOK, OneByOne
      <3> QED BY <1>5, <3>1, <3>2 DEF DownloadOK, DigestOK, CommittedOK, place
    <2> QED BY <2>1, <2>2
  <1> QED BY <1>1, <1>4, <1>5, <1>6, <1>7, OtherDownloads

\* Every step keeps what a target and a part file may hold, as long as the
\* frames of the socket are handled one by one.
LEMMA NextWholeInv ==
    ASSUME OneByOne
    PROVE  TypeInv /\ WholeInv /\ [Next]_vars => WholeInv'
  <1> SUFFICES ASSUME TypeInv, WholeInv, [Next]_vars PROVE WholeInv'
    OBVIOUS
  <1>a. ASSUME UNCHANGED <<dirty, fed, part, place, status, fresh, cut, handler>>
        PROVE  WholeInv'
    <2>1. \A t \in Transfers : SameWork(t) /\ SameFile(t) /\ status'[t] = status[t]
      BY <1>a DEF SameWork, SameFile, place
    <2> QED BY <1>a, <2>1, DownloadFrame DEF WholeInv
  <1>1. ASSUME NEW t \in Transfers, NEW exact \in BOOLEAN,
               RequestPhoneFile(t, exact) \/ RequestFails(t, exact)
        PROVE  WholeInv'
    BY <1>1, RequestWhole
  <1>2. ASSUME NEW t \in Transfers, CallReturns(t) PROVE WholeInv'
    BY <1>2, <1>a DEF CallReturns, record, disk, place
  <1>3. ASSUME NEW t \in Transfers, CallTimesOut(t) \/ CancelTransfer(t) PROVE WholeInv'
    BY <1>3, CutWhole
  <1>4. ASSUME NEW t \in Transfers, Prune(t) PROVE WholeInv'
    BY <1>4, PruneWhole
  <1>5. ASSUME NEW t \in Transfers, SendPiece(t) \/ StopPull(t) \/ DeletePhone(t)
        PROVE  WholeInv'
    BY <1>5, <1>a DEF SendPiece, StopPull, DeletePhone, record, disk, place
  <1>6. ASSUME NEW h \in Handlers, NEW m \in toMac, TakeChunk(h, m) PROVE WholeInv'
    BY <1>6, TakeWhole
  <1>7. ASSUME NEW h \in Handlers, HandlerStep(h) PROVE WholeInv'
    BY <1>7, OpenWhole, WriteWhole, WriteFailsWhole, FinishWhole, SettleWhole, VerifyWhole
       DEF HandlerStep, Settling
  <1>8. ASSUME NEW m \in toMac, LoseChunk(m) PROVE WholeInv'
    BY <1>8, <1>a DEF LoseChunk, record, disk, place
  <1>9. CASE \/ \E d \in Dirs : ListPhoneFiles(d)
             \/ \E m \in answers : ListResp(m)
             \/ ListReturns
    BY <1>9, <1>a DEF ListPhoneFiles, ListResp, ListReturns, record, disk, place
  <1>10. CASE UNCHANGED vars
    BY <1>10, <1>a DEF vars, record, disk, place
  <1> QED BY <1>1, <1>2, <1>3, <1>4, <1>5, <1>6, <1>7, <1>8, <1>9, <1>10 DEF Next

\* When chunks come over the socket, whose frames are handled one by one, a
\* download that was not cancelled or timed out commits the whole file or
\* none (ingestFileChunkBody), for any number of pieces, whatever was lost or
\* came again or late.
THEOREM WholeFiles == ASSUME OneByOne PROVE Spec => []WholeUnlessCut
  <1>1. Init => WholeInv
    BY Constants DEF Init, WholeInv, DownloadOK, DigestOK, WorkOK, CommittedOK, place
  <1>2. TypeInv /\ WholeInv /\ [Next]_vars => WholeInv'
    BY NextWholeInv
  <1>3. WholeInv => WholeUnlessCut
    BY DEF WholeInv, DownloadOK, WholeUnlessCut, CommittedOK, place
  <1> QED BY <1>1, <1>2, <1>3, TypesHold, PTL DEF Spec

=============================================================================
