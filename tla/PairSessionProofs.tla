------------------------- MODULE PairSessionProofs -------------------------
(***************************************************************************)
(* Proofs about PairSession, for every number of phones, sockets, requests *)
(* and outbound pings, every bound and every set of faults.                *)
(***************************************************************************)
EXTENDS PairSession, TLAPS

(***************************************************************************)
(* Types.                                                                  *)
(***************************************************************************)

\* The record x suits thread t, whatever kind of thread t is.
Suits(t, x) ==
    /\ x \in ThreadState
    /\ t \in Socks => ServesSocket(x)
    /\ t \in Reqs => ServesRequest(x)
    /\ t \in Outs => ServesPing(x)

\* TypeOK's part about the threads.
ThreadsOK ==
    /\ th \in [Threads -> ThreadState]
    /\ \A c \in Socks : ServesSocket(th[c])
    /\ \A r \in Reqs : ServesRequest(th[r])
    /\ \A o \in Outs : ServesPing(th[o])

\* A thread without work suits every kind of thread.
LEMMA IdleSuits == \A t \in Threads : Suits(t, Idle)
  <1>1. Idle \in ThreadState
    BY ConstantsAssumption
    DEF Idle, ThreadState, SockPC, ReqPC, OutPC, SockMsg, ReqMsg, OutMsg
  <1>2. ServesSocket(Idle) /\ ServesRequest(Idle) /\ ServesPing(Idle)
    BY DEF Idle, ServesSocket, ServesRequest, ServesPing, SockPC, ReqPC,
           OutPC, SockMsg, ReqMsg, OutMsg
  <1> QED BY <1>1, <1>2 DEF Suits

\* The initial state is well typed.
LEMMA InitType == Init => TypeOK
  <1> SUFFICES ASSUME Init PROVE TypeOK
    OBVIOUS
  <1>1. \A t \in Threads : th[t] = Idle
    BY DEF Init
  <1>2. /\ th \in [Threads -> ThreadState]
        /\ \A c \in Socks : ServesSocket(th[c])
        /\ \A r \in Reqs : ServesRequest(th[r])
        /\ \A o \in Outs : ServesPing(th[o])
    BY <1>1, IdleSuits DEF Init, Suits, Threads
  <1> QED BY <1>2, ConstantsAssumption DEF Init, TypeOK, FgPC

\* Giving one thread a record that suits it keeps all threads in order.
LEMMA ThreadStep ==
  ASSUME TypeOK, NEW t \in Threads, NEW x, Suits(t, x),
         th' = [th EXCEPT ![t] = x]
  PROVE  ThreadsOK'
  <1>1. /\ th' \in [Threads -> ThreadState]
        /\ th'[t] = x
        /\ \A u \in Threads : u # t => th'[u] = th[u]
    BY DEF TypeOK, Suits
  <1>2. ASSUME NEW u \in Threads PROVE Suits(u, th'[u])
    <2>1. Suits(u, th[u])
      BY DEF TypeOK, Suits
    <2> QED BY <1>1, <2>1
  <1> QED BY <1>1, <1>2 DEF ThreadsOK, Suits, Threads

\* Every thread's record suits it.
LEMMA ThreadsSuit == ASSUME TypeOK, NEW t \in Threads PROVE Suits(t, th[t])
  BY DEF TypeOK, Suits

\* A thread that works for a phone goes on to its message or to the end of
\* it, and to a write it may do.
LEMMA HelpersSuit ==
  ASSUME TypeOK, NEW t \in Threads, th[t].pc # "idle",
         t \notin Outs \/ th[t].pc \notin {"dialing", "clear"},
         NEW snap \in Phones \cup {None}
  PROVE  /\ th[t].phone # None
         /\ Suits(t, Finish(t))
         /\ Suits(t, Dispatch(t))
         /\ Suits(t, Writing(t, "save", snap))
         /\ Suits(t, [th[t] EXCEPT !.pc = "save", !.snap = snap])
         /\ t \notin Outs => Suits(t, Writing(t, "delete", snap))
  <1>1. Suits(t, th[t])
    BY ThreadsSuit
  <1>2. th[t].phone # None
    BY <1>1 DEF Suits, Threads, ServesSocket, ServesRequest, ServesPing
  <1>3. Suits(t, Finish(t))
    <2>1. CASE t \in Socks
      BY <1>1, <1>2, <2>1, ConstantsAssumption
      DEF Suits, Finish, ThreadState, ServesSocket, SockPC, SockMsg
    <2>2. CASE t \notin Socks
      BY <2>2, IdleSuits DEF Finish
    <2> QED BY <2>1, <2>2
  <1>4. Suits(t, Dispatch(t))
    <2> DEFINE x == [th[t] EXCEPT !.pc = "dispatch", !.snap = None]
    <2>1. Suits(t, x)
      BY <1>1, <1>2
      DEF Suits, ThreadState, ServesSocket, ServesRequest, ServesPing,
          SockPC, ReqPC, OutPC
    <2> QED BY <1>3, <2>1 DEF Dispatch
  <1>5. Suits(t, Writing(t, "save", snap))
    BY <1>1, <1>2, ZenonT(60)
    DEF Suits, Writing, ThreadState, ServesSocket, ServesRequest,
        ServesPing, SockPC, ReqPC, OutPC, SockMsg, ReqMsg, OutMsg
  <1>6. Suits(t, [th[t] EXCEPT !.pc = "save", !.snap = snap])
    BY <1>1, <1>2, ZenonT(60)
    DEF Suits, ThreadState, ServesSocket, ServesRequest,
        ServesPing, SockPC, ReqPC, OutPC, SockMsg, ReqMsg, OutMsg
  <1>7. t \notin Outs => Suits(t, Writing(t, "delete", snap))
    BY <1>1, <1>2
    DEF Suits, Writing, ThreadState, ServesSocket, ServesRequest,
        SockPC, ReqPC, SockMsg, ReqMsg
  <1> QED BY <1>2, <1>3, <1>4, <1>5, <1>6, <1>7

\* Every step of a socket's own goroutine keeps the types.
LEMMA SocketType ==
  ASSUME TypeOK, NEW c \in Socks
  PROVE  /\ \A p \in Phones : Upgrade(c, p) => TypeOK'
         /\ \A m \in SockMsg : ReadEnvelope(c, m) => TypeOK'
         /\ OnWSConnect(c) \/ CloseOld(c) \/ Disconnect(c) \/ LoseSocket(c)
            => TypeOK'
  <1> USE DEF tokens, peer
  <1>0. c \in Threads /\ Suits(c, th[c]) /\ Suits(c, Idle)
    BY ThreadsSuit, IdleSuits DEF Threads
  <1>1. ASSUME NEW p \in Phones, Upgrade(c, p) PROVE TypeOK'
    <2> DEFINE x == [Idle EXCEPT !.pc = "upgrading", !.phone = p,
                                 !.tok = held[p]]
    <2>1. held[p] \in 0..MaxToken
      BY DEF TypeOK
    <2>2. Suits(c, x)
      BY <1>0, <2>1, ConstantsAssumption
      DEF Suits, Idle, ThreadState, ServesSocket, SockPC, SockMsg
    <2>3. th' = [th EXCEPT ![c] = x]
      BY <1>1 DEF Upgrade
    <2>4. ThreadsOK'
      BY <1>0, <2>2, <2>3, ThreadStep
    <2>5. \A d \in Socks : th'[d].pc # "closeOld" => oldWS'[d] = None
      BY <1>0, <1>1, <2>2, <2>3, ThreadStep DEF TypeOK, Upgrade, Threads, Idle
    <2> QED BY <1>1, <2>4, <2>5 DEF TypeOK, Upgrade, ThreadsOK
  <1>2. ASSUME NEW m \in SockMsg, ReadEnvelope(c, m) PROVE TypeOK'
    <2> DEFINE x == [th[c] EXCEPT !.pc = "learn", !.msg = m]
    <2>1. Suits(c, x)
      BY <1>0, <1>2, ConstantsAssumption
      DEF ReadEnvelope, Suits, ThreadState, ServesSocket, SockPC, SockMsg
    <2>2. th' = [th EXCEPT ![c] = x]
      BY <1>0, <1>2 DEF ReadEnvelope, TypeOK
    <2>3. /\ held' \in [Phones -> 0..MaxToken]
          /\ open' \in [Socks -> BOOLEAN]
      <3>1. HangUp(th[c].phone) \in [Socks -> BOOLEAN]
        BY DEF HangUp
      <3>2. th[c].phone \in Phones
        BY <1>0, <1>2 DEF ReadEnvelope, Suits, ThreadState, ServesSocket
      <3>3. [held EXCEPT ![th[c].phone] = 0] \in [Phones -> 0..MaxToken]
        BY <3>2, ConstantsAssumption DEF TypeOK
      <3> QED BY <1>2, <3>1, <3>3 DEF TypeOK, ReadEnvelope
    <2>4. ThreadsOK'
      BY <1>0, <2>1, <2>2, ThreadStep
    <2>5. \A d \in Socks : th'[d].pc # "closeOld" => oldWS'[d] = None
      <3>1. oldWS' = oldWS /\ oldWS[c] = None
        BY <1>2 DEF TypeOK, ReadEnvelope
      <3>2. \A d \in Socks : d # c => th'[d] = th[d]
        BY <2>2 DEF TypeOK, Threads
      <3> QED BY <3>1, <3>2 DEF TypeOK
    <2> QED BY <1>2, <2>3, <2>4, <2>5 DEF TypeOK, ReadEnvelope, ThreadsOK
  <1>3. ASSUME OnWSConnect(c) PROVE TypeOK'
    <2> DEFINE x == [th[c] EXCEPT !.pc = "closeOld"]
    <2>1. Suits(c, x) /\ th[c].phone \in Phones
      BY <1>0, <1>3, ConstantsAssumption
      DEF OnWSConnect, Suits, ThreadState, ServesSocket, SockPC
    <2>2. th' = [th EXCEPT ![c] = x]
      BY <1>0, <1>3 DEF OnWSConnect, TypeOK
    <2>3. ThreadsOK'
      BY <1>0, <2>1, <2>2, ThreadStep
    <2>4. \A d \in Socks : th'[d].pc # "closeOld" => oldWS'[d] = None
      BY <1>0, <1>3, <2>2 DEF TypeOK, OnWSConnect, Threads, ThreadState
    <2> QED BY <1>3, <2>1, <2>3, <2>4 DEF TypeOK, OnWSConnect, ThreadsOK
  <1>4. ASSUME CloseOld(c) PROVE TypeOK'
    <2> DEFINE x == [th[c] EXCEPT !.pc = "reading"]
    <2>1. Suits(c, x)
      BY <1>0, <1>4, ConstantsAssumption
      DEF CloseOld, Suits, ThreadState, ServesSocket, SockPC
    <2>2. th' = [th EXCEPT ![c] = x]
      BY <1>0, <1>4 DEF CloseOld, TypeOK
    <2>3. ThreadsOK'
      BY <1>0, <2>1, <2>2, ThreadStep
    <2>4. \A d \in Socks : th'[d].pc # "closeOld" => oldWS'[d] = None
      BY <1>0, <1>4, <2>2 DEF TypeOK, CloseOld
    <2> QED BY <1>4, <2>3, <2>4 DEF TypeOK, CloseOld, ThreadsOK
  <1>5. ASSUME Disconnect(c) PROVE TypeOK'
    <2>1. ThreadsOK'
      BY <1>0, <1>5, ThreadStep DEF Disconnect
    <2>2. \A d \in Socks : th'[d].pc # "closeOld" => oldWS'[d] = None
      BY <1>0, <1>5 DEF TypeOK, Disconnect
    <2> QED BY <1>5, <2>1, <2>2 DEF TypeOK, Disconnect, Deregister, ThreadsOK
  <1>6. ASSUME LoseSocket(c) PROVE TypeOK'
    BY <1>6 DEF TypeOK, LoseSocket
  <1> QED BY <1>1, <1>2, <1>3, <1>4, <1>5, <1>6

\* A request is accepted for a phone that holds the server's token.
LEMMA AcceptType ==
  ASSUME TypeOK, NEW r \in Reqs, NEW p \in Phones, NEW m \in ReqMsg,
         Accept(r, p, m)
  PROVE  TypeOK'
  <1> USE DEF tokens, peer
  <1> DEFINE x == [Idle EXCEPT !.pc = "dispatch", !.phone = p, !.msg = m]
  <1>0. r \in Threads /\ Suits(r, th[r]) /\ Suits(r, Idle) /\ r \notin Socks
    BY ThreadsSuit, IdleSuits, ConstantsAssumption DEF Threads
  <1>1. Suits(r, x)
    <2>1. x \in ThreadState
      BY <1>0 DEF Suits, ThreadState, SockPC
    <2>2. ServesRequest(x)
      BY ConstantsAssumption DEF Idle, ServesRequest, ReqPC, ReqMsg
    <2> QED BY <1>0, <2>1, <2>2, ConstantsAssumption DEF Suits
  <1>2. th' = [th EXCEPT ![r] = x]
    BY DEF Accept
  <1>3. ThreadsOK'
    BY <1>0, <1>1, <1>2, ThreadStep
  <1>4. \A d \in Socks : th'[d] = th[d]
    BY <1>0, <1>2 DEF TypeOK, Threads
  <1>5. /\ HangUp(p) \in [Socks -> BOOLEAN]
        /\ [held EXCEPT ![p] = 0] \in [Phones -> 0..MaxToken]
    <2>1. HangUp(p) \in [Socks -> BOOLEAN]
      BY Zenon DEF HangUp
    <2> QED BY <2>1, ConstantsAssumption DEF TypeOK
  <1>6. held' \in [Phones -> 0..MaxToken] /\ open' \in [Socks -> BOOLEAN]
    BY <1>5 DEF TypeOK, Accept
  <1> QED BY <1>3, <1>4, <1>6 DEF TypeOK, Accept, ThreadsOK

\* Every handler step keeps the types.
LEMMA HandleType ==
  ASSUME TypeOK, NEW t \in Threads, Handle(t)
  PROVE  TypeOK'
  <1> USE DEF tokens, peer
  <1>0. /\ Suits(t, th[t])
        /\ last \in Phones \cup {None}
        /\ dev \in Phones \cup {None}
        /\ None \notin Phones
        /\ th[t].phone \in Phones \cup {None}
        /\ th[t].snap \in Phones \cup {None}
    BY ThreadsSuit, ConstantsAssumption DEF TypeOK, Suits, ThreadState
  <1>1. ASSUME th[t].pc \in {"learn", "dispatch", "save", "delete"}
        PROVE  th[t].pc # "idle" /\ th[t].pc \notin {"dialing", "clear"}
               /\ (t \in Socks => oldWS[t] = None)
    BY <1>1 DEF TypeOK
  <1>2. ASSUME NEW x, th' = [th EXCEPT ![t] = x], Suits(t, x),
               oldWS' = oldWS,
               th[t].pc \in {"learn", "dispatch", "save", "delete"}
        PROVE  /\ ThreadsOK'
               /\ \A c \in Socks : th'[c].pc # "closeOld" => oldWS'[c] = None
    <2>1. ThreadsOK'
      BY <1>2, ThreadStep
    <2>2. \A c \in Socks : c # t => th'[c] = th[c]
      BY <1>2 DEF TypeOK, Threads
    <2> QED BY <1>1, <1>2, <2>1, <2>2 DEF TypeOK
  <1>3. ASSUME NEW changed \in BOOLEAN, Learn(t, changed) PROVE TypeOK'
    <2>1. Suits(t, IF changed THEN [th[t] EXCEPT !.pc = "save", !.snap = last]
                              ELSE Dispatch(t))
      BY <1>0, <1>1, <1>3, HelpersSuit DEF Learn
    <2>2. /\ ThreadsOK'
          /\ \A c \in Socks : th'[c].pc # "closeOld" => oldWS'[c] = None
      BY <1>2, <1>3, <2>1 DEF Learn
    <2> QED BY <1>3, <2>2 DEF TypeOK, Learn, ThreadsOK
  <1>4. ASSUME Capture(t) PROVE TypeOK'
    <2>1. Suits(t, Writing(t, "save", th[t].phone)) /\ th[t].phone \in Phones
      BY <1>0, <1>1, <1>4, HelpersSuit DEF Capture
    <2>2. /\ ThreadsOK'
          /\ \A c \in Socks : th'[c].pc # "closeOld" => oldWS'[c] = None
      BY <1>2, <1>4, <2>1 DEF Capture
    <2> QED BY <1>4, <2>1, <2>2 DEF TypeOK, Capture, ThreadsOK
  <1>5. ASSUME MergeFacts(t) PROVE TypeOK'
    <2>1. Suits(t, IF last = None THEN Finish(t) ELSE Writing(t, "save", last))
      BY <1>0, <1>1, <1>5, HelpersSuit DEF MergeFacts
    <2>2. /\ ThreadsOK'
          /\ \A c \in Socks : th'[c].pc # "closeOld" => oldWS'[c] = None
      BY <1>2, <1>5, <2>1 DEF MergeFacts
    <2> QED BY <1>5, <2>2 DEF TypeOK, MergeFacts, ThreadsOK
  <1>6. ASSUME IngestUnpair(t) PROVE TypeOK'
    <2>1. t \notin Outs
      BY <1>0, <1>6 DEF IngestUnpair, Suits, ServesPing, OutMsg
    <2>2. Suits(t, IF last = None THEN Finish(t)
                                  ELSE Writing(t, "delete", None))
      BY <1>0, <1>1, <1>6, <2>1, HelpersSuit DEF IngestUnpair
    <2>3. /\ ThreadsOK'
          /\ \A c \in Socks : th'[c].pc # "closeOld" => oldWS'[c] = None
      BY <1>2, <1>6, <2>2 DEF IngestUnpair
    <2> QED BY <1>6, <2>3 DEF TypeOK, IngestUnpair, ThreadsOK, clearPeer
  <1>7. ASSUME NEW ok \in BOOLEAN, SaveSnapshot(t, ok) PROVE TypeOK'
    <2>1. Suits(t, Dispatch(t))
      BY <1>0, <1>1, <1>7, HelpersSuit DEF SaveSnapshot
    <2>2. /\ ThreadsOK'
          /\ \A c \in Socks : th'[c].pc # "closeOld" => oldWS'[c] = None
      BY <1>2, <1>7, <2>1 DEF SaveSnapshot
    <2> QED BY <1>0, <1>7, <2>2 DEF TypeOK, SaveSnapshot, ThreadsOK
  <1>8. ASSUME NEW ok \in BOOLEAN, DeleteSnapshot(t, ok) PROVE TypeOK'
    <2>1. Suits(t, Finish(t))
      BY <1>0, <1>1, <1>8, HelpersSuit DEF DeleteSnapshot
    <2>2. /\ ThreadsOK'
          /\ \A c \in Socks : th'[c].pc # "closeOld" => oldWS'[c] = None
      BY <1>2, <1>8, <2>1 DEF DeleteSnapshot
    <2> QED BY <1>0, <1>8, <2>2 DEF TypeOK, DeleteSnapshot, ThreadsOK
  <1> QED BY <1>3, <1>4, <1>5, <1>6, <1>7, <1>8 DEF Handle

\* Every step of an outbound ping keeps the types.
LEMMA PingType ==
  ASSUME TypeOK, NEW o \in Outs, Ping(o)
  PROVE  TypeOK'
  <1> USE DEF tokens, peer
  <1>0. /\ o \in Threads
        /\ Suits(o, th[o])
        /\ Suits(o, Idle)
        /\ o \notin Socks \cup Reqs
    BY ThreadsSuit, IdleSuits, ConstantsAssumption DEF Threads
  <1>1. ASSUME NEW x, th' = [th EXCEPT ![o] = x], Suits(o, x)
        PROVE  ThreadsOK' /\ \A c \in Socks : th'[c] = th[c]
    <2>1. ThreadsOK'
      BY <1>0, <1>1, ThreadStep
    <2>2. \A c \in Socks : th'[c] = th[c]
      BY <1>0, <1>1 DEF TypeOK, Threads
    <2> QED BY <2>1, <2>2
  <1>2. ASSUME NEW h \in Phones \cup {None}, NEW m \in {"manual", "reconnect"}
        PROVE  Suits(o, [Idle EXCEPT !.pc = "dialing", !.phone = h,
                                     !.tok = svc, !.msg = m])
    <2> DEFINE x == [Idle EXCEPT !.pc = "dialing", !.phone = h, !.tok = svc,
                                 !.msg = m]
    <2>1. svc \in 0..MaxToken
      BY ConstantsAssumption DEF TypeOK
    <2>2. x \in ThreadState
      BY <2>1, ConstantsAssumption DEF Idle, ThreadState, OutPC, OutMsg
    <2>3. ServesPing(x)
      BY DEF Idle, ServesPing, OutPC, OutMsg
    <2> QED BY <1>0, <2>2, <2>3 DEF Suits
  <1>3. ASSUME th[o].phone # None, NEW m \in {"none", "refresh"}
        PROVE  Suits(o, Replied(o, m))
    <2>1. Replied(o, m) \in ThreadState
      <3>1. m \in OutMsg /\ "learn" \in OutPC /\ 0 \in 0..MaxToken
        BY ConstantsAssumption DEF OutPC, OutMsg
      <3>2. th[o] \in ThreadState
        BY <1>0 DEF Suits
      <3> QED BY <3>1, <3>2 DEF Replied, ThreadState
    <2>2. ServesPing(Replied(o, m))
      BY <1>0, <1>3 DEF Suits, ThreadState, Replied, ServesPing, OutPC, OutMsg
    <2> QED BY <1>0, <2>1, <2>2 DEF Suits
  <1>4. CASE SendPingToPhone(o)
    <2>1. Reached(peerHost, peerPort) \in Phones \cup {None}
      BY DEF TypeOK, Reached
    <2>2. ThreadsOK' /\ \A c \in Socks : th'[c] = th[c]
      BY <1>1, <1>2, <1>4, <2>1 DEF SendPingToPhone
    <2> QED BY <1>4, <2>2 DEF TypeOK, SendPingToPhone, ThreadsOK
  <1>5. CASE ReconnectToLastDevice(o)
    <2>1. ThreadsOK' /\ \A c \in Socks : th'[c] = th[c]
      BY <1>1, <1>2, <1>5 DEF ReconnectToLastDevice, TypeOK
    <2> QED BY <1>5, <2>1 DEF TypeOK, ReconnectToLastDevice, ThreadsOK
  <1>6. CASE PingAnswered(o)
    <2>1. ThreadsOK' /\ \A c \in Socks : th'[c] = th[c]
      BY <1>1, <1>3, <1>6 DEF PingAnswered
    <2> QED BY <1>6, <2>1 DEF TypeOK, PingAnswered, ThreadsOK
  <1>7. CASE PingOutdated(o)
    <2>1. ThreadsOK' /\ \A c \in Socks : th'[c] = th[c]
      BY <1>1, <1>3, <1>7 DEF PingOutdated
    <2> QED BY <1>7, <2>1 DEF TypeOK, PingOutdated, ThreadsOK
  <1>8. CASE PingRefused(o)
    <2>1. ThreadsOK' /\ \A c \in Socks : th'[c] = th[c]
      BY <1>0, <1>1, <1>8 DEF PingRefused
    <2> QED BY <1>8, <2>1 DEF TypeOK, PingRefused, ThreadsOK
  <1>9. CASE PingLost(o)
    <2>1. Suits(o, [th[o] EXCEPT !.pc = "clear"])
      BY <1>0 DEF Suits, ThreadState, ServesPing, OutPC
    <2>2. ThreadsOK' /\ \A c \in Socks : th'[c] = th[c]
      BY <1>0, <1>1, <1>9, <2>1 DEF PingLost
    <2> QED BY <1>9, <2>2 DEF TypeOK, PingLost, ThreadsOK
  <1>10. CASE ClearLostPeer(o)
    <2>1. ThreadsOK' /\ \A c \in Socks : th'[c] = th[c]
      BY <1>0, <1>1, <1>10 DEF ClearLostPeer
    <2> QED BY <1>10, <2>1 DEF TypeOK, ClearLostPeer, ThreadsOK, clearPeer
  <1>11. CASE NextTarget(o)
    <2>1. svc \in 0..MaxToken
      BY ConstantsAssumption DEF TypeOK
    <2>2. Suits(o, [th[o] EXCEPT !.tok = svc])
      BY <1>0, <2>1 DEF Suits, ThreadState, ServesPing
    <2>3. ThreadsOK' /\ \A c \in Socks : th'[c] = th[c]
      BY <1>1, <1>11, <2>2 DEF NextTarget
    <2> QED BY <1>11, <2>3 DEF TypeOK, NextTarget, ThreadsOK
  <1>12. CASE SetCustomName(o)
    <2> DEFINE x == [Idle EXCEPT !.pc = "save", !.phone = last,
                                 !.snap = last]
    <2>1. last \in Phones
      BY <1>12 DEF TypeOK, SetCustomName
    <2>2. x \in ThreadState
      BY <1>0, <2>1 DEF Suits, ThreadState, OutPC
    <2>3. ServesPing(x)
      BY <2>1, ConstantsAssumption DEF Idle, ServesPing, OutPC, OutMsg
    <2>4. Suits(o, x)
      BY <1>0, <2>2, <2>3 DEF Suits
    <2>5. ThreadsOK' /\ \A c \in Socks : th'[c] = th[c]
      BY <1>1, <1>12, <2>4 DEF SetCustomName
    <2> QED BY <1>12, <2>5 DEF TypeOK, SetCustomName, ThreadsOK
  <1> QED
    BY <1>0, <1>4, <1>5, <1>6, <1>7, <1>8, <1>9, <1>10, <1>11, <1>12,
       HandleType
    DEF Ping

\* Every step of ForgetLastDevice keeps the types.
LEMMA ForgetType == ASSUME TypeOK, Forget PROVE TypeOK'
  <1> USE ConstantsAssumption DEF tokens, peer, FgPC
  <1>1. CASE ForgetClear
    BY <1>1 DEF TypeOK, ForgetClear, clearPeer
  <1>2. ASSUME NEW ok \in BOOLEAN, ForgetDelete(ok) PROVE TypeOK'
    BY <1>2 DEF TypeOK, ForgetDelete
  <1>3. ASSUME NEW out \in {"ok", "write", "chmod"}, RotatePairFileToken(out)
        PROVE  TypeOK'
    BY <1>3 DEF TypeOK, RotatePairFileToken
  <1>4. CASE SetToken
    BY <1>4 DEF TypeOK, SetToken
  <1>5. CASE SetKey
    BY <1>5 DEF TypeOK, SetKey
  <1>6. CASE PublishQR
    BY <1>6 DEF TypeOK, PublishQR
  <1> QED BY <1>1, <1>2, <1>3, <1>4, <1>5, <1>6 DEF Forget

\* Every step keeps the types.
LEMMA NextType == TypeOK /\ [Next]_vars => TypeOK'
  <1> SUFFICES ASSUME TypeOK, [Next]_vars PROVE TypeOK'
    OBVIOUS
  <1> USE ConstantsAssumption DEF tokens, peer
  <1>1. ASSUME NEW p \in Phones, Scan(p) PROVE TypeOK'
    BY <1>1 DEF TypeOK, Scan
  <1>2. ASSUME NEW p \in Phones, PhoneWipe(p) PROVE TypeOK'
    BY <1>2 DEF TypeOK, PhoneWipe, HangUp
  <1>3. CASE Drop
    <2>1. CASE SnapshotWS
      BY <2>1 DEF TypeOK, SnapshotWS
    <2>2. CASE DropSocket
      BY <2>2 DEF TypeOK, DropSocket, Deregister
    <2>3. CASE DropPeer
      BY <2>3 DEF TypeOK, DropPeer, clearPeer
    <2> QED BY <1>3, <2>1, <2>2, <2>3 DEF Drop
  <1>4. CASE Restart
    <2>1. \A t \in Threads : th'[t] = Idle
      BY <1>4 DEF Restart
    <2>2. ThreadsOK'
      BY <1>4, <2>1, IdleSuits DEF Restart, ThreadsOK, Suits, Threads
    <2> QED BY <1>4, <2>2 DEF TypeOK, Restart, clearPeer, ThreadsOK, FgPC
  <1>5. CASE UNCHANGED vars
    BY <1>5 DEF TypeOK, vars
  <1>6. ASSUME NEW c \in Socks, Handle(c) PROVE TypeOK'
    BY <1>6, HandleType DEF Threads
  <1>7. ASSUME NEW r \in Reqs, Handle(r) PROVE TypeOK'
    BY <1>7, HandleType DEF Threads
  <1> QED
    BY <1>1, <1>2, <1>3, <1>4, <1>5, <1>6, <1>7, SocketType, AcceptType,
       PingType, ForgetType
    DEF Next, Serve

\* Every reachable state is well typed, and every thread's record suits its
\* program counter.
THEOREM TypeCorrect == Spec => []TypeOK
  BY InitType, NextType, PTL DEF Spec

(***************************************************************************)
(* Tokens.                                                                 *)
(***************************************************************************)

\* What the steps outside ForgetLastDevice and a restart do to the tokens:
\* a phone scans or wipes its own, nothing else changes.
TokenFrame ==
    /\ UNCHANGED <<tokens, fg>>
    /\ \A p \in Phones : held'[p] \in {0, held[p], svc}

\* Every step is a step of ForgetLastDevice, a restart, or leaves the Mac's
\* tokens alone.
LEMMA TokenSteps ==
  ASSUME TypeOK, [Next]_vars
  PROVE  TokenFrame \/ Forget \/ Restart
  <1> USE DEF TokenFrame, tokens, peer
  <1>0. \A q \in Phones : held' = [held EXCEPT ![q] = 0] =>
           \A p \in Phones : held'[p] \in {0, held[p], svc}
    BY DEF TypeOK
  <1>1. ASSUME NEW p \in Phones, Scan(p) \/ PhoneWipe(p) PROVE TokenFrame
    BY <1>0, <1>1 DEF Scan, PhoneWipe, TypeOK
  <1>2. ASSUME NEW c \in Socks, NEW p \in Phones, Upgrade(c, p)
        PROVE  TokenFrame
    BY <1>2 DEF Upgrade
  <1>3. ASSUME NEW c \in Socks, NEW m \in SockMsg, ReadEnvelope(c, m)
        PROVE  TokenFrame
    <2>1. th[c].phone \in Phones
      BY <1>3, ThreadsSuit
      DEF ReadEnvelope, Suits, ThreadState, ServesSocket, Threads
    <2> QED BY <1>0, <1>3, <2>1 DEF ReadEnvelope
  <1>4. ASSUME NEW t \in Threads, Handle(t) PROVE TokenFrame
    BY <1>4
    DEF Handle, Learn, Capture, MergeFacts, IngestUnpair, SaveSnapshot,
        DeleteSnapshot
  <1>5. ASSUME NEW c \in Socks, Serve(c) \/ LoseSocket(c) PROVE TokenFrame
    BY <1>4, <1>5
    DEF Serve, OnWSConnect, CloseOld, Disconnect, LoseSocket, Threads
  <1>6. ASSUME NEW r \in Reqs, NEW p \in Phones, NEW m \in ReqMsg,
               Accept(r, p, m)
        PROVE  TokenFrame
    BY <1>0, <1>6 DEF Accept
  <1>7. ASSUME NEW o \in Outs, Ping(o) PROVE TokenFrame
    BY <1>4, <1>7
    DEF Ping, SendPingToPhone, ReconnectToLastDevice, PingAnswered,
        PingOutdated, PingRefused, PingLost, ClearLostPeer, NextTarget,
        SetCustomName, Threads
  <1>8. CASE Drop
    BY <1>8 DEF Drop, SnapshotWS, DropSocket, DropPeer
  <1>9. CASE UNCHANGED vars
    BY <1>9 DEF vars
  <1> QED
    BY <1>1, <1>2, <1>3, <1>4, <1>5, <1>6, <1>7, <1>8, <1>9
    DEF Next, Threads

\* The order of the four copies is inductive, whatever fails.
LEMMA NextTokenOrder ==
  ASSUME TypeOK, TokenOrder, [Next]_vars
  PROVE  TokenOrder'
  <1> USE ConstantsAssumption DEF TokenOrder, tokens, peer
  <1>1. CASE TokenFrame
    BY <1>1 DEF TokenFrame, TypeOK
  <1>2. CASE Forget
    BY <1>2
    DEF Forget, ForgetClear, ForgetDelete, RotatePairFileToken, SetToken,
        SetKey, PublishQR, TypeOK
  <1>3. CASE Restart
    BY <1>3 DEF Restart, TypeOK
  <1> QED BY <1>1, <1>2, <1>3, TokenSteps

\* A token is in order wherever it is kept: pair.json is replaced before the
\* server, the server before the database key, the key before the QR, in
\* every interleaving and through every fault.
THEOREM TokensInOrder == Spec => []TokenOrder
  <1>1. Init => TokenOrder
    BY DEF Init, TokenOrder
  <1>2. TypeOK /\ TokenOrder /\ [Next]_vars => TokenOrder'
    BY NextTokenOrder
  <1> QED BY <1>1, <1>2, TypeCorrect, PTL DEF Spec

\* Unless a chmod can fail after the write, the copies agree outside a
\* rotation.
LEMMA NextTokenAgreement ==
  ASSUME "chmod" \notin Faults, TypeOK, TokenAgreement, [Next]_vars
  PROVE  TokenAgreement'
  <1> USE ConstantsAssumption DEF TokenAgreement, tokens, peer
  <1>1. TokenOrder'
    BY NextTokenOrder
  <1>2. CASE TokenFrame
    BY <1>1, <1>2 DEF TokenFrame, TypeOK
  <1>3. CASE Forget
    BY <1>1, <1>3
    DEF Forget, ForgetClear, ForgetDelete, RotatePairFileToken, SetToken,
        SetKey, PublishQR, TypeOK, TokenOrder
  <1>4. CASE Restart
    BY <1>1, <1>4 DEF Restart, TypeOK
  <1> QED BY <1>2, <1>3, <1>4, TokenSteps

\* Where no chmod fails after a write, the token in pair.json, the server,
\* the database key and the QR are one whenever no rotation is under way.
THEOREM TokensAgree ==
  ASSUME "chmod" \notin Faults
  PROVE  Spec => []TokenAgreement
  <1>1. Init => TokenAgreement
    BY DEF Init, TokenAgreement, TokenOrder
  <1>2. TypeOK /\ TokenAgreement /\ [Next]_vars => TokenAgreement'
    BY NextTokenAgreement
  <1> QED BY <1>1, <1>2, TypeCorrect, PTL DEF Spec

(***************************************************************************)
(* Sockets.                                                                *)
(***************************************************************************)

\* c has passed OnWSConnect and its read loop has not ended.
Connected(c) == th[c].pc \notin {"idle", "upgrading"}

\* What the steps that do not connect, close, replace or deregister a socket
\* do to the sockets: they close some.
SocketFrame ==
    /\ UNCHANGED <<activeWS, oldWS>>
    /\ \A c \in Socks : open'[c] => open[c]
    /\ \A c \in Socks : Connected(c)' = Connected(c)

\* A step that only closes sockets leaves none astray.
LEMMA SocketFrameKeeps ==
  ASSUME TypeOK, NoStraySocket, SocketFrame
  PROVE  NoStraySocket'
  BY DEF TypeOK, NoStraySocket, SocketFrame, Connected

\* A handler step keeps a socket connected, and an idle one idle.
LEMMA HandleFrame ==
  ASSUME TypeOK, NEW t \in Threads, Handle(t)
  PROVE  SocketFrame
  <1> USE DEF tokens, peer
  <1>0. ASSUME t \in Socks
        PROVE  /\ Finish(t).pc = "reading"
               /\ Dispatch(t).pc \in {"reading", "dispatch"}
               /\ \A pc, snap : Writing(t, pc, snap).pc = pc
               /\ [th[t] EXCEPT !.pc = "save", !.snap = last].pc = "save"
    BY <1>0, ThreadsSuit DEF Finish, Dispatch, Writing, Suits, ThreadState
  <1>1. /\ UNCHANGED <<activeWS, oldWS, open>>
        /\ th[t].pc \in {"learn", "dispatch", "save", "delete"}
    BY DEF Handle, Learn, Capture, MergeFacts, IngestUnpair, SaveSnapshot,
           DeleteSnapshot
  <1>2. /\ \A u \in Threads : u # t => th'[u] = th[u]
        /\ t \in Socks =>
              th'[t].pc \in {"reading", "dispatch", "save", "delete"}
    <2>1. ASSUME NEW x, th' = [th EXCEPT ![t] = x]
          PROVE  th'[t] = x /\ \A u \in Threads : u # t => th'[u] = th[u]
      BY <2>1 DEF TypeOK
    <2>2. CASE \E changed \in BOOLEAN : Learn(t, changed)
      BY <1>0, <2>1, <2>2 DEF Learn
    <2>3. CASE Capture(t) \/ MergeFacts(t) \/ IngestUnpair(t)
      BY <1>0, <2>1, <2>3 DEF Capture, MergeFacts, IngestUnpair
    <2>4. CASE \E ok \in BOOLEAN : SaveSnapshot(t, ok)
      BY <1>0, <2>1, <2>4 DEF SaveSnapshot
    <2>5. CASE \E ok \in BOOLEAN : DeleteSnapshot(t, ok)
      BY <1>0, <2>1, <2>5 DEF DeleteSnapshot
    <2> QED BY <2>2, <2>3, <2>4, <2>5 DEF Handle
  <1> QED BY <1>1, <1>2 DEF SocketFrame, Connected, TypeOK, Threads

\* No step lets a socket astray.
LEMMA NextNoStraySocket ==
  ASSUME TypeOK, NoStraySocket, [Next]_vars
  PROVE  NoStraySocket'
  <1> USE ConstantsAssumption DEF tokens, peer
  <1>1. ASSUME NEW p \in Phones, Scan(p) \/ PhoneWipe(p) PROVE NoStraySocket'
    BY <1>1, SocketFrameKeeps
    DEF Scan, PhoneWipe, HangUp, SocketFrame, Connected
  <1>2. ASSUME NEW c \in Socks, NEW p \in Phones, Upgrade(c, p)
        PROVE  NoStraySocket'
    BY <1>2 DEF Upgrade, TypeOK, NoStraySocket, Threads, Idle
  <1>3. ASSUME NEW c \in Socks, NEW m \in SockMsg, ReadEnvelope(c, m)
        PROVE  NoStraySocket'
    <2>1. SocketFrame
      BY <1>3
      DEF ReadEnvelope, HangUp, SocketFrame, Connected, TypeOK, Threads,
          ThreadState
    <2> QED BY <2>1, SocketFrameKeeps
  <1>4. ASSUME NEW c \in Socks, OnWSConnect(c) PROVE NoStraySocket'
    BY <1>4 DEF OnWSConnect, TypeOK, NoStraySocket, Threads, ThreadState
  <1>5. ASSUME NEW c \in Socks, CloseOld(c) PROVE NoStraySocket'
    <2>1. /\ \A d \in Socks : open'[d] => open[d] /\ d # oldWS[c]
          /\ \A e \in Socks : e # c => oldWS'[e] = oldWS[e]
          /\ activeWS' = activeWS
      BY <1>5 DEF CloseOld, TypeOK
    <2>2. \A d \in Socks : Connected(d)' = Connected(d)
      BY <1>5 DEF CloseOld, TypeOK, Connected, Threads, ThreadState
    <2> QED BY <2>1, <2>2 DEF NoStraySocket, Connected, TypeOK
  <1>6. ASSUME NEW c \in Socks, Disconnect(c) PROVE NoStraySocket'
    BY <1>6
    DEF Disconnect, Deregister, TypeOK, NoStraySocket, Threads, Idle
  <1>7. ASSUME NEW c \in Socks, LoseSocket(c) PROVE NoStraySocket'
    BY <1>7, SocketFrameKeeps DEF LoseSocket, SocketFrame, Connected, TypeOK
  <1>8. ASSUME NEW r \in Reqs, NEW p \in Phones, NEW m \in ReqMsg,
               Accept(r, p, m)
        PROVE  NoStraySocket'
    <2>1. SocketFrame
      BY <1>8
      DEF Accept, HangUp, SocketFrame, Connected, TypeOK, Threads
    <2> QED BY <2>1, SocketFrameKeeps
  <1>9. ASSUME NEW t \in Threads, Handle(t) PROVE NoStraySocket'
    BY <1>9, HandleFrame, SocketFrameKeeps
  <1>10. ASSUME NEW o \in Outs, Ping(o) PROVE NoStraySocket'
    <2>1. CASE Handle(o)
      BY <1>9, <2>1 DEF Threads
    <2>2. CASE ~Handle(o)
      <3>1. UNCHANGED <<activeWS, oldWS, open>> /\ \A c \in Socks : th'[c] = th[c]
        BY <1>10, <2>2
        DEF Ping, SendPingToPhone, ReconnectToLastDevice, PingAnswered,
            PingOutdated, PingRefused, PingLost, ClearLostPeer, NextTarget,
            SetCustomName, TypeOK, Threads
      <3> QED BY <3>1, SocketFrameKeeps DEF SocketFrame, Connected
    <2> QED BY <2>1, <2>2
  <1>11. CASE Forget
    <2>1. CASE ForgetClear
      BY <2>1 DEF ForgetClear, TypeOK, NoStraySocket
    <2>2. CASE ~ForgetClear
      BY <1>11, <2>2, SocketFrameKeeps
      DEF Forget, ForgetDelete, RotatePairFileToken, SetToken, SetKey,
          PublishQR, SocketFrame, Connected
    <2> QED BY <2>1, <2>2
  <1>12. CASE Drop
    <2>1. CASE DropSocket
      BY <2>1 DEF DropSocket, Deregister, TypeOK, NoStraySocket
    <2>2. CASE SnapshotWS \/ DropPeer
      BY <2>2, SocketFrameKeeps
      DEF SnapshotWS, DropPeer, SocketFrame, Connected
    <2> QED BY <1>12, <2>1, <2>2 DEF Drop
  <1>13. CASE Restart
    BY <1>13 DEF Restart, NoStraySocket
  <1>14. CASE UNCHANGED vars
    BY <1>14, SocketFrameKeeps DEF vars, SocketFrame, Connected
  <1> QED
    BY <1>1, <1>2, <1>3, <1>4, <1>5, <1>6, <1>7, <1>8, <1>9, <1>10, <1>11,
       <1>12, <1>13, <1>14
    DEF Next, Serve, Threads

\* In every interleaving of connecting, replacing, breaking and forgetting
\* sockets, none keeps running behind the Service's back.
THEOREM NoSocketAstray == Spec => []NoStraySocket
  <1>1. Init => NoStraySocket
    BY DEF Init, NoStraySocket
  <1>2. TypeOK /\ NoStraySocket /\ [Next]_vars => NoStraySocket'
    BY NextNoStraySocket
  <1> QED BY <1>1, <1>2, TypeCorrect, PTL DEF Spec

(***************************************************************************)
(* A phone that is gone stays gone.                                        *)
(***************************************************************************)

\* The record x does not work for phone p.
NotFor(p, x) == x.pc = "idle" \/ p \notin {x.phone, x.snap}

\* An action gives thread t a record that does not work for p and captures p
\* nowhere.
LeavesAlone(p, t) ==
    /\ \E x : th' = [th EXCEPT ![t] = x] /\ NotFor(p, x)
    /\ {peerHost', peerPort', last', dev'} \subseteq
          {peerHost, peerPort, last, dev, None, th[t].phone, th[t].snap}
    /\ srv' = srv

\* Such an action keeps p gone, as long as a captured phone is one the
\* thread worked for.
LEMMA LeavesAloneKeeps ==
  ASSUME TypeOK, NEW p \in Phones, Gone(p), held'[p] = held[p],
         NEW t \in Threads, th[t].pc # "idle" \/ UNCHANGED <<peer, last, dev>>,
         LeavesAlone(p, t)
  PROVE  Gone(p)'
  <1>1. \A u \in Threads : NotFor(p, th[u])
    BY DEF Gone, InFlight, NotFor
  <1>2. PICK x : th' = [th EXCEPT ![t] = x] /\ NotFor(p, x)
    BY DEF LeavesAlone
  <1>3. \A u \in Threads : NotFor(p, th'[u])
    BY <1>1, <1>2 DEF TypeOK
  <1>4. ~InFlight(p)'
    BY <1>3 DEF InFlight, NotFor
  <1>5. p \notin {peerHost', peerPort', last', dev'}
    BY <1>1, ConstantsAssumption DEF LeavesAlone, Gone, NotFor, peer
  <1> QED BY <1>4, <1>5 DEF Gone, LeavesAlone

\* A handler step keeps the phone it works for and saves no other than the
\* remembered one.
LEMMA HandleLeavesAlone ==
  ASSUME TypeOK, NEW p \in Phones, Gone(p), NEW t \in Threads, Handle(t)
  PROVE  th[t].pc # "idle" /\ LeavesAlone(p, t)
  <1> USE DEF tokens, peer
  <1>0. th[t].pc # "idle"
    BY DEF Handle, Learn, Capture, MergeFacts, IngestUnpair, SaveSnapshot,
           DeleteSnapshot
  <1>1. /\ p # th[t].phone
        /\ p # th[t].snap
        /\ p # last
        /\ p # None
        /\ th[t] \in ThreadState
    BY <1>0, ConstantsAssumption DEF Gone, InFlight, TypeOK
  <1>2. /\ NotFor(p, Idle)
        /\ NotFor(p, Finish(t))
        /\ NotFor(p, Dispatch(t))
        /\ NotFor(p, [th[t] EXCEPT !.pc = "save", !.snap = last])
    BY <1>1 DEF NotFor, Idle, Finish, Dispatch, ThreadState
  <1>3. /\ NotFor(p, Writing(t, "save", th[t].phone))
        /\ NotFor(p, Writing(t, "save", last))
        /\ NotFor(p, Writing(t, "delete", None))
    BY <1>1 DEF NotFor, Writing, ThreadState
  <1>4. CASE \E changed \in BOOLEAN : Learn(t, changed)
    BY <1>2, <1>4 DEF Learn, LeavesAlone
  <1>5. CASE Capture(t)
    BY <1>3, <1>5 DEF Capture, LeavesAlone
  <1>6. CASE MergeFacts(t)
    BY <1>2, <1>3, <1>6 DEF MergeFacts, LeavesAlone
  <1>7. CASE IngestUnpair(t)
    BY <1>2, <1>3, <1>7 DEF IngestUnpair, LeavesAlone, clearPeer
  <1>8. CASE \E ok \in BOOLEAN : SaveSnapshot(t, ok)
    BY <1>2, <1>8 DEF SaveSnapshot, LeavesAlone
  <1>9. CASE \E ok \in BOOLEAN : DeleteSnapshot(t, ok)
    BY <1>2, <1>9 DEF DeleteSnapshot, LeavesAlone
  <1> QED BY <1>0, <1>4, <1>5, <1>6, <1>7, <1>8, <1>9 DEF Handle

\* A step of an outbound ping dials no phone that is gone.
LEMMA PingLeavesAlone ==
  ASSUME TypeOK, NEW p \in Phones, Gone(p), NEW o \in Outs, Ping(o)
  PROVE  /\ LeavesAlone(p, o)
         /\ th[o].pc # "idle" \/ UNCHANGED <<peer, last, dev>>
  <1> USE DEF tokens, peer
  <1>0. o \in Threads /\ p # None /\ NotFor(p, Idle)
        /\ p \notin {peerHost, peerPort, last, dev}
        /\ th[o] \in ThreadState
    BY ConstantsAssumption DEF Threads, NotFor, Idle, Gone, TypeOK
  <1>1. CASE Handle(o)
    BY <1>0, <1>1, HandleLeavesAlone
  <1>2. CASE SendPingToPhone(o)
    <2> DEFINE x == [Idle EXCEPT !.pc = "dialing",
                                 !.phone = Reached(peerHost, peerPort),
                                 !.tok = svc,
                                 !.msg = "manual"]
    <2>1. NotFor(p, x)
      BY <1>0 DEF NotFor, Idle, Reached
    <2> QED BY <1>2, <2>1 DEF SendPingToPhone, LeavesAlone
  <1>3. CASE ReconnectToLastDevice(o)
    <2> DEFINE x == [Idle EXCEPT !.pc = "dialing", !.phone = last,
                                 !.tok = svc, !.msg = "reconnect"]
    <2>1. NotFor(p, x)
      BY <1>0 DEF NotFor, Idle
    <2> QED BY <1>3, <2>1 DEF ReconnectToLastDevice, LeavesAlone
  <1>4. ASSUME th[o].pc # "idle"
        PROVE  /\ \A m : NotFor(p, Replied(o, m))
               /\ NotFor(p, [th[o] EXCEPT !.pc = "clear"])
               /\ NotFor(p, [th[o] EXCEPT !.tok = svc])
    BY <1>0, <1>4 DEF Gone, InFlight, NotFor, Replied, ThreadState
  <1>5. CASE PingAnswered(o) \/ PingOutdated(o)
    BY <1>4, <1>5 DEF PingAnswered, PingOutdated, LeavesAlone
  <1>6. CASE PingRefused(o)
    BY <1>0, <1>6 DEF PingRefused, LeavesAlone
  <1>7. CASE PingLost(o)
    BY <1>0, <1>4, <1>7 DEF PingLost, LeavesAlone
  <1>8. CASE ClearLostPeer(o)
    BY <1>0, <1>8 DEF ClearLostPeer, LeavesAlone, clearPeer
  <1>9. CASE NextTarget(o)
    BY <1>4, <1>9 DEF NextTarget, LeavesAlone
  <1>10. CASE SetCustomName(o)
    <2> DEFINE x == [Idle EXCEPT !.pc = "save", !.phone = last,
                                 !.snap = last]
    <2>1. NotFor(p, x)
      BY <1>0 DEF NotFor, Idle
    <2> QED BY <1>10, <2>1 DEF SetCustomName, LeavesAlone
  <1> QED
    BY <1>1, <1>2, <1>3, <1>5, <1>6, <1>7, <1>8, <1>9, <1>10 DEF Ping

\* Every step keeps a gone phone gone unless the phone's own token changes.
LEMMA NextGone ==
  ASSUME TypeOK, TokenOrder, [Next]_vars, NEW p \in Phones, Gone(p),
         held'[p] = held[p]
  PROVE  Gone(p)'
  <1> USE DEF tokens, peer
  <1>0. p # None /\ \A t \in Threads : NotFor(p, th[t])
    BY ConstantsAssumption DEF Gone, InFlight, NotFor
  <1>1. ASSUME UNCHANGED <<srv, last, dev, th>>,
               peerHost' \in {peerHost, None}, peerPort' \in {peerPort, None}
        PROVE  Gone(p)'
    BY <1>0, <1>1 DEF Gone, InFlight
  <1>2. ASSUME NEW q \in Phones, Scan(q) \/ PhoneWipe(q) PROVE Gone(p)'
    BY <1>1, <1>2 DEF Scan, PhoneWipe
  <1>3. ASSUME NEW c \in Socks, NEW q \in Phones, Upgrade(c, q)
        PROVE  Gone(p)'
    <2>1. q # p
      BY <1>3 DEF Upgrade, Gone
    <2>2. NotFor(p, [Idle EXCEPT !.pc = "upgrading", !.phone = q,
                                 !.tok = held[q]])
      BY <1>0, <2>1 DEF NotFor, Idle
    <2>3. LeavesAlone(p, c)
      BY <1>3, <2>2 DEF Upgrade, LeavesAlone
    <2> QED BY <1>3, <2>3, LeavesAloneKeeps DEF Upgrade, Threads
  <1>4. ASSUME NEW c \in Socks, NEW m \in SockMsg, ReadEnvelope(c, m)
        PROVE  Gone(p)'
    <2> DEFINE x == [th[c] EXCEPT !.pc = "learn", !.msg = m]
    <2>0. th' = [th EXCEPT ![c] = x]
      BY <1>4 DEF ReadEnvelope, TypeOK, Threads, ThreadState
    <2>1. NotFor(p, x)
      <3>1. c \in Threads /\ th[c] \in ThreadState /\ th[c].pc # "idle"
        BY <1>4 DEF ReadEnvelope, TypeOK, Threads
      <3> QED BY <1>0, <3>1 DEF NotFor, ThreadState
    <2>2. LeavesAlone(p, c)
      BY <1>4, <2>0, <2>1 DEF ReadEnvelope, LeavesAlone
    <2> QED BY <1>4, <2>2, LeavesAloneKeeps DEF ReadEnvelope, Threads
  <1>5. ASSUME NEW c \in Socks, OnWSConnect(c) PROVE Gone(p)'
    <2> DEFINE x == [th[c] EXCEPT !.pc = "closeOld"]
    <2>1. NotFor(p, x) /\ th' = [th EXCEPT ![c] = x]
      BY <1>0, <1>5
      DEF NotFor, OnWSConnect, TypeOK, Threads, ThreadState
    <2>2. LeavesAlone(p, c)
      BY <1>5, <2>1 DEF OnWSConnect, LeavesAlone
    <2> QED BY <1>5, <2>2, LeavesAloneKeeps DEF OnWSConnect, Threads
  <1>6. ASSUME NEW c \in Socks, CloseOld(c) PROVE Gone(p)'
    <2> DEFINE x == [th[c] EXCEPT !.pc = "reading"]
    <2>1. NotFor(p, x) /\ th' = [th EXCEPT ![c] = x]
      BY <1>0, <1>6
      DEF NotFor, CloseOld, TypeOK, Threads, ThreadState
    <2>2. LeavesAlone(p, c)
      BY <1>6, <2>1 DEF CloseOld, LeavesAlone
    <2> QED BY <1>6, <2>2, LeavesAloneKeeps DEF CloseOld, Threads
  <1>7. ASSUME NEW c \in Socks, Disconnect(c) PROVE Gone(p)'
    <2>1. NotFor(p, Idle)
      BY DEF NotFor, Idle
    <2>2. LeavesAlone(p, c)
      BY <1>7, <2>1 DEF Disconnect, Deregister, LeavesAlone
    <2> QED BY <1>7, <2>2, LeavesAloneKeeps DEF Disconnect, Threads
  <1>8. ASSUME NEW c \in Socks, LoseSocket(c) PROVE Gone(p)'
    BY <1>1, <1>8 DEF LoseSocket
  <1>9. ASSUME NEW r \in Reqs, NEW q \in Phones, NEW m \in ReqMsg,
               Accept(r, q, m)
        PROVE  Gone(p)'
    <2>1. q # p
      BY <1>9 DEF Accept, Gone
    <2>2. NotFor(p, [Idle EXCEPT !.pc = "dispatch", !.phone = q, !.msg = m])
      BY <1>0, <2>1 DEF NotFor, Idle
    <2>3. LeavesAlone(p, r)
      BY <1>9, <2>2 DEF Accept, LeavesAlone
    <2> QED BY <1>9, <2>3, LeavesAloneKeeps DEF Accept, Threads
  <1>10. ASSUME NEW t \in Threads, Handle(t) PROVE Gone(p)'
    BY <1>10, HandleLeavesAlone, LeavesAloneKeeps
  <1>11. ASSUME NEW o \in Outs, Ping(o) PROVE Gone(p)'
    BY <1>11, PingLeavesAlone, LeavesAloneKeeps DEF Threads
  <1>12. held[p] # srv /\ held[p] <= srv /\ srv <= disk => held[p] # disk
    BY ConstantsAssumption DEF TypeOK
  <1>13. held[p] <= srv /\ srv <= disk
    BY ConstantsAssumption DEF TypeOK, TokenOrder
  <1>14. CASE Forget
    <2>1. CASE SetToken
      BY <1>12, <1>13, <2>1 DEF SetToken, Gone, InFlight
    <2>2. ASSUME NEW ok \in BOOLEAN, ForgetDelete(ok) PROVE Gone(p)'
      BY <1>0, <2>2 DEF ForgetDelete, Gone, InFlight
    <2>3. CASE ForgetClear
      BY <1>0, <2>3 DEF ForgetClear, clearPeer, Gone, InFlight
    <2>4. ASSUME NEW out \in {"ok", "write", "chmod"},
                 RotatePairFileToken(out)
          PROVE  Gone(p)'
      BY <1>1, <2>4 DEF RotatePairFileToken
    <2>5. CASE SetKey \/ PublishQR
      BY <1>1, <2>5 DEF SetKey, PublishQR
    <2> QED BY <1>14, <2>1, <2>2, <2>3, <2>4, <2>5 DEF Forget
  <1>15. CASE Drop
    BY <1>1, <1>15
    DEF Drop, SnapshotWS, DropSocket, DropPeer, Deregister, clearPeer
  <1>16. CASE Restart
    <2>1. ~InFlight(p)'
      BY <1>16 DEF Restart, InFlight, Idle
    <2> QED BY <1>0, <1>12, <1>13, <1>16, <2>1 DEF Restart, clearPeer, Gone
  <1>17. CASE UNCHANGED vars
    BY <1>1, <1>17 DEF vars
  <1> QED
    BY <1>2, <1>3, <1>4, <1>5, <1>6, <1>7, <1>8, <1>9, <1>10, <1>11, <1>14,
       <1>15, <1>16, <1>17
    DEF Next, Serve, Threads

\* Once the Mac has no trace of a phone and has moved on from its token, no
\* retry, late write, redial, fault or restart brings the phone back: only a
\* new scan does.
THEOREM NoResurrection == Spec => GoneStaysGone
  <1>1. TypeOK /\ TokenOrder /\ [Next]_vars =>
           [\A p \in Phones : Gone(p) /\ held'[p] = held[p] => Gone(p)']_vars
    BY NextGone
  <1> QED BY <1>1, TypeCorrect, TokensInOrder, PTL DEF Spec, GoneStaysGone
=============================================================================
