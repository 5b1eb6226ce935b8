---------------------------- MODULE PairSession ----------------------------
(***************************************************************************)
(* The Mac's pairing session: the pair token, the remembered phone and the *)
(* live peer, as apps/mac/backend keeps them in Service, with the request  *)
(* and WebSocket handlers of packages/core that feed it.                   *)
(*                                                                         *)
(* Every goroutine is a thread with its own program counter.  One action   *)
(* is one critical section of Service.mu, or one write of a file, so the   *)
(* model interleaves exactly where the code releases the lock: a snapshot  *)
(* taken under the lock is written to device.json after it, a token is     *)
(* verified before the peer it authenticates is captured, and              *)
(* ForgetLastDevice is six separate steps.                                 *)
(*                                                                         *)
(* Addresses are abstracted to the phone that owns them.  Device facts     *)
(* (name, battery, build) are left out, except for whether a contact       *)
(* changed them, because a change is what makes learnPeer write            *)
(* device.json.                                                            *)
(***************************************************************************)
EXTENDS Naturals, FiniteSets

CONSTANTS
    Phones,      \* phones that may scan the QR
    Socks,       \* WebSocket connections that may exist at the same time
    Reqs,        \* HTTP requests that may be handled at the same time
    Outs,        \* calls of the front end (pings, reconnects, renames) under way
    None,        \* "no phone", "no socket"
    MaxToken,    \* bound: how many pair tokens are ever minted
    Faults       \* how a file operation may fail: "write" without effect,
                 \* "chmod" after pair.json was already replaced

Threads == Socks \cup Reqs \cup Outs

ASSUME ConstantsAssumption ==
    /\ None \notin Phones \cup Socks
    /\ Socks \cap Reqs = {}
    /\ Outs \cap (Socks \cup Reqs) = {}
    /\ MaxToken \in Nat \ {0}
    /\ Faults \subseteq {"write", "chmod"}

VARIABLES
    held,      \* held[p]: the pair token phone p stores, 0 when unpaired
    disk,      \* token in pair.json
    srv,       \* token the core server verifies requests against
    dbk,       \* token the cache database's key is derived from
    svc,       \* Service.token and the QR built from it
    peerHost,  \* whose address the live return path has, or None
    peerPort,  \* whose port the live return path has, or None
    last,      \* the remembered phone (lastHost, lastPort), or None
    dev,       \* the phone device.json restores, or None
    activeWS,  \* the registered socket, or None
    open,      \* open[c]: the Mac's read loop of c can still read
    oldWS,     \* oldWS[c]: the socket OnWSConnect(c) has yet to close
    th,        \* th[t]: where handler t stands and what it works on
    fg,        \* where ForgetLastDevice stands
    drop       \* a failed write or a network-down push, and its snapshot

vars == <<held, disk, srv, dbk, svc, peerHost, peerPort, last, dev,
          activeWS, open, oldWS, th, fg, drop>>

tokens == <<disk, srv, dbk, svc>>
peer   == <<peerHost, peerPort>>

Idle == [pc |-> "idle", phone |-> None, tok |-> 0, msg |-> "none",
         snap |-> None]

SockPC == {"idle", "upgrading", "closeOld", "reading", "learn", "dispatch",
           "save", "delete"}
ReqPC  == {"idle", "dispatch", "save", "delete"}
OutPC  == {"idle", "dialing", "clear", "learn", "dispatch", "save"}
FgPC   == {"idle", "delete", "rotate", "server", "dbkey", "publish"}

\* What is left to dispatch to this component; "none" on a socket is any
\* message of another component, of which only the sender matters here.
SockMsg == {"none", "presence", "facts", "unpair"}
ReqMsg  == {"presence", "facts", "unpair"}
OutMsg  == {"none", "manual", "reconnect", "refresh"}

ThreadState == [pc : SockPC \cup ReqPC \cup OutPC,
                phone : Phones \cup {None},
                tok : 0..MaxToken,
                msg : SockMsg \cup ReqMsg \cup OutMsg,
                snap : Phones \cup {None}]

(***************************************************************************)
(* Helpers on threads.                                                     *)
(***************************************************************************)

\* Where a handler goes when its message is done: the read loop of a
\* socket, or the end of the call.
Finish(t) == IF t \in Socks THEN [th[t] EXCEPT !.pc = "reading",
                                               !.msg = "none",
                                               !.snap = None]
                            ELSE Idle

\* Where a handler goes from learnPeer: on to its message, if any.
Dispatch(t) == IF th[t].msg = "none" THEN Finish(t)
               ELSE [th[t] EXCEPT !.pc = "dispatch", !.snap = None]

\* A handler that has left the lock and is about to write device.json.
Writing(t, pc, snap) ==
    [th[t] EXCEPT !.pc = pc, !.msg = "none", !.snap = snap]

\* No goroutine still refers to connection c, so its slot may stand for a
\* new connection.
Unreferenced(c) ==
    /\ drop.ws # c
    /\ \A d \in Socks : oldWS[d] # c

\* The sockets of phone p are closed from the phone's side.
HangUp(p) == [c \in Socks |-> open[c] /\ th[c].phone # p]

\* Mutant: OnWSDisconnect of a replaced socket takes the live peer down too.
DeregisterAny(c) ==
    /\ activeWS' = None
    /\ peerHost' = None
    /\ peerPort' = None

\* OnWSDisconnect(c): only the registered socket takes the peer down.
Deregister(c) ==
    IF activeWS = c
    THEN /\ activeWS' = None
         /\ peerHost' = None
         /\ peerPort' = None
    ELSE UNCHANGED <<activeWS, peer>>

clearPeer ==
    /\ peerHost' = None
    /\ peerPort' = None

(***************************************************************************)
(* The phone.                                                              *)
(***************************************************************************)

\* The phone scans the QR on screen and stores its token.
Scan(p) ==
    /\ held' = [held EXCEPT ![p] = svc]
    /\ UNCHANGED <<tokens, peer, last, dev, activeWS, open, oldWS, th, fg,
                   drop>>

\* The phone wipes its pairing: the user unpaired and the goodbye was lost,
\* or a request was answered 403 and the phone revoked itself.
PhoneWipe(p) ==
    /\ held[p] # 0
    /\ held' = [held EXCEPT ![p] = 0]
    /\ open' = HangUp(p)
    /\ UNCHANGED <<tokens, peer, last, dev, activeWS, oldWS, th, fg, drop>>

(***************************************************************************)
(* WebSocket handlers: core handleWS and the Service callbacks.            *)
(***************************************************************************)

\* handleWS checks the bearer token and accepts the upgrade; the Service
\* does not know of the connection yet.
Upgrade(c, p) ==
    /\ th[c].pc = "idle"
    /\ Unreferenced(c)
    /\ held[p] # 0
    /\ held[p] = srv
    /\ th' = [th EXCEPT ![c] = [Idle EXCEPT !.pc = "upgrading",
                                            !.phone = p,
                                            !.tok = held[p]]]
    /\ open' = [open EXCEPT ![c] = TRUE]
    /\ UNCHANGED <<held, tokens, peer, last, dev, activeWS, oldWS, fg, drop>>

\* OnWSConnect, its critical section: register the socket, keep a known
\* reply port or fall back on the remembered one.
OnWSConnect(c) ==
    /\ th[c].pc = "upgrading"
    /\ activeWS' = c
    /\ oldWS' = [oldWS EXCEPT ![c] = activeWS]
    /\ peerHost' = th[c].phone
    /\ peerPort' = IF peerPort = None THEN last ELSE peerPort
    /\ th' = [th EXCEPT ![c].pc = "closeOld"]
    /\ UNCHANGED <<held, tokens, last, dev, open, fg, drop>>

\* Mutant: the replaced socket is closed but its reference is kept.
CloseOldKeepsRef(c) ==
    /\ th[c].pc = "closeOld"
    /\ open' = [d \in Socks |-> open[d] /\ d # oldWS[c]]
    /\ th' = [th EXCEPT ![c].pc = "reading"]
    /\ UNCHANGED <<held, tokens, peer, last, dev, activeWS, oldWS, fg, drop>>

\* OnWSConnect after the lock: close the socket it replaced.
CloseOld(c) ==
    /\ th[c].pc = "closeOld"
    /\ open' = [d \in Socks |-> open[d] /\ d # oldWS[c]]
    /\ oldWS' = [oldWS EXCEPT ![c] = None]
    /\ th' = [th EXCEPT ![c].pc = "reading"]
    /\ UNCHANGED <<held, tokens, peer, last, dev, activeWS, fg, drop>>

\* The read loop reads one envelope.  A phone that says goodbye wipes its
\* token and hangs up behind the message.
ReadEnvelope(c, m) ==
    LET p == th[c].phone IN
    /\ th[c].pc = "reading"
    /\ open[c]
    /\ held[p] = th[c].tok
    /\ th' = [th EXCEPT ![c].pc = "learn", ![c].msg = m]
    /\ held' = IF m = "unpair" THEN [held EXCEPT ![p] = 0] ELSE held
    /\ open' = IF m = "unpair" THEN HangUp(p) ELSE open
    /\ UNCHANGED <<tokens, peer, last, dev, activeWS, oldWS, fg, drop>>

\* The connection ends under the read loop: the phone hung up, the network
\* broke, or the watchdog gave up on it.
LoseSocket(c) ==
    /\ open[c]
    /\ open' = [open EXCEPT ![c] = FALSE]
    /\ UNCHANGED <<held, tokens, peer, last, dev, activeWS, oldWS, th, fg,
                   drop>>

\* Mutant: read errors are swallowed while the socket is the registered one.
DisconnectReplaced(c) ==
    /\ th[c].pc = "reading"
    /\ ~open[c]
    /\ activeWS # c
    /\ Deregister(c)
    /\ th' = [th EXCEPT ![c] = Idle]
    /\ UNCHANGED <<held, tokens, last, dev, open, oldWS, fg, drop>>

\* The read loop sees the end of the connection and calls OnWSDisconnect.
Disconnect(c) ==
    /\ th[c].pc = "reading"
    /\ ~open[c]
    /\ Deregister(c)
    /\ th' = [th EXCEPT ![c] = Idle]
    /\ UNCHANGED <<held, tokens, last, dev, open, oldWS, fg, drop>>

(***************************************************************************)
(* HTTP handlers: the core handler verifies and answers, then WrapHandler  *)
(* ingests the body of a 200.                                              *)
(***************************************************************************)

\* Mutant: the body is ingested whatever the core handler answered.
AcceptAnyToken(r, p, m) ==
    /\ th[r].pc = "idle"
    /\ held[p] # 0
    /\ th' = [th EXCEPT ![r] = [Idle EXCEPT !.pc = "dispatch",
                                            !.phone = p,
                                            !.msg = m]]
    /\ held' = IF m = "unpair" THEN [held EXCEPT ![p] = 0] ELSE held
    /\ open' = IF m = "unpair" THEN HangUp(p) ELSE open
    /\ UNCHANGED <<tokens, peer, last, dev, activeWS, oldWS, fg, drop>>

\* The core handler verifies the bearer token and answers 200.  A phone that
\* says goodbye wipes its token behind the message.
Accept(r, p, m) ==
    /\ th[r].pc = "idle"
    /\ held[p] # 0
    /\ held[p] = srv
    /\ th' = [th EXCEPT ![r] = [Idle EXCEPT !.pc = "dispatch",
                                            !.phone = p,
                                            !.msg = m]]
    /\ held' = IF m = "unpair" THEN [held EXCEPT ![p] = 0] ELSE held
    /\ open' = IF m = "unpair" THEN HangUp(p) ELSE open
    /\ UNCHANGED <<tokens, peer, last, dev, activeWS, oldWS, fg, drop>>

(***************************************************************************)
(* What a handler does to the session once its contact is authenticated.   *)
(***************************************************************************)

\* learnPeer: when the contact changed the cached identity, device.json is
\* rewritten from a snapshot taken here and written after the unlock.
Learn(t, changed) ==
    /\ th[t].pc = "learn"
    /\ th' = [th EXCEPT ![t] =
                IF changed THEN [th[t] EXCEPT !.pc = "save", !.snap = last]
                           ELSE Dispatch(t)]
    /\ UNCHANGED <<held, tokens, peer, last, dev, activeWS, open, oldWS, fg,
                   drop>>

\* setPeerWithFacts (an accepted ping with a reply port) and refreshPeer (an
\* answered outbound ping) capture and remember the phone.
Capture(t) ==
    /\ th[t].pc = "dispatch"
    /\ th[t].msg \in {"presence", "refresh"}
    /\ peerHost' = th[t].phone
    /\ peerPort' = th[t].phone
    /\ last' = th[t].phone
    /\ th' = [th EXCEPT ![t] = Writing(t, "save", th[t].phone)]
    /\ UNCHANGED <<held, tokens, dev, activeWS, open, oldWS, fg, drop>>

\* mergeFacts (a ping without a reply port): no-op while nothing is
\* remembered.
MergeFacts(t) ==
    /\ th[t].pc = "dispatch"
    /\ th[t].msg = "facts"
    /\ th' = [th EXCEPT ![t] = IF last = None
                               THEN Finish(t)
                               ELSE Writing(t, "save", last)]
    /\ UNCHANGED <<held, tokens, peer, last, dev, activeWS, open, oldWS, fg,
                   drop>>

\* ingestUnpairBody: forget the phone, no rotation, the socket is left to
\* its own read loop.
IngestUnpair(t) ==
    /\ th[t].pc = "dispatch"
    /\ th[t].msg = "unpair"
    /\ clearPeer
    /\ last' = None
    /\ th' = [th EXCEPT ![t] = IF last = None
                               THEN Finish(t)
                               ELSE Writing(t, "delete", None)]
    /\ UNCHANGED <<held, tokens, dev, activeWS, open, oldWS, fg, drop>>

\* persistSnapshot, after the lock was released; a failure is only logged.
\* A snapshot of no phone leaves a file that restores none.
SaveSnapshot(t, ok) ==
    /\ th[t].pc = "save"
    /\ ok \/ "write" \in Faults
    /\ dev' = IF ok THEN th[t].snap ELSE dev
    /\ th' = [th EXCEPT ![t] = Dispatch(t)]
    /\ UNCHANGED <<held, tokens, peer, last, activeWS, open, oldWS, fg, drop>>

\* deleteLastDeviceFile of ingestUnpairBody; a failure is only logged.
DeleteSnapshot(t, ok) ==
    /\ th[t].pc = "delete"
    /\ ok \/ "write" \in Faults
    /\ dev' = IF ok THEN None ELSE dev
    /\ th' = [th EXCEPT ![t] = Finish(t)]
    /\ UNCHANGED <<held, tokens, peer, last, activeWS, open, oldWS, fg, drop>>

(***************************************************************************)
(* The outbound ping.                                                      *)
(***************************************************************************)

\* The phone an address and a port reach: nobody when they are two phones'.
Reached(h, q) == IF h = q THEN h ELSE None

\* An authenticated reply: its sender is learnt first.
Replied(o, m) == [th[o] EXCEPT !.pc = "learn", !.tok = 0, !.msg = m]

\* SendPingToPhone reads the live return path; it fails closed without one.
\* (It also wants contact within peerTTL: the peer is cleared or fresh when
\* it is set, and may be fresh for as long as it is set.)
SendPingToPhone(o) ==
    /\ th[o].pc = "idle"
    /\ peerHost # None
    /\ peerPort # None
    /\ th' = [th EXCEPT ![o] = [Idle EXCEPT
                                    !.pc = "dialing",
                                    !.phone = Reached(peerHost, peerPort),
                                    !.tok = svc,
                                    !.msg = "manual"]]
    /\ UNCHANGED <<held, tokens, peer, last, dev, activeWS, open, oldWS, fg,
                   drop>>

\* ReconnectToLastDevice dials the remembered phone.
ReconnectToLastDevice(o) ==
    /\ th[o].pc = "idle"
    /\ last # None
    /\ th' = [th EXCEPT ![o] = [Idle EXCEPT !.pc = "dialing",
                                              !.phone = last,
                                              !.tok = svc,
                                              !.msg = "reconnect"]]
    /\ UNCHANGED <<held, tokens, peer, last, dev, activeWS, open, oldWS, fg,
                   drop>>

\* ReconnectToLastDevice goes on to the next address it remembers of that
\* phone; each dial reads the token afresh.
NextTarget(o) ==
    /\ th[o].pc = "dialing"
    /\ th[o].msg = "reconnect"
    /\ th' = [th EXCEPT ![o] = [th[o] EXCEPT !.tok = svc]]
    /\ UNCHANGED <<held, tokens, peer, last, dev, activeWS, open, oldWS, fg,
                   drop>>

\* The phone's server verifies the token and answers.
PingAnswered(o) ==
    /\ th[o].pc = "dialing"
    /\ th[o].phone # None
    /\ held[th[o].phone] = th[o].tok
    /\ th' = [th EXCEPT ![o] = Replied(o, "refresh")]
    /\ UNCHANGED <<held, tokens, peer, last, dev, activeWS, open, oldWS, fg,
                   drop>>

\* 426: the reply still identifies the phone, nothing is captured.
PingOutdated(o) ==
    /\ th[o].pc = "dialing"
    /\ th[o].phone # None
    /\ th' = [th EXCEPT ![o] = Replied(o, "none")]
    /\ UNCHANGED <<held, tokens, peer, last, dev, activeWS, open, oldWS, fg,
                   drop>>

\* 403 or a changed certificate: the peer is kept.
PingRefused(o) ==
    /\ th[o].pc = "dialing"
    /\ th[o].phone # None
    /\ th' = [th EXCEPT ![o] = Idle]
    /\ UNCHANGED <<held, tokens, peer, last, dev, activeWS, open, oldWS, fg,
                   drop>>

\* The dial failed.  Whether a socket is alive is read in one critical
\* section, the peer is cleared in the next.
PingLost(o) ==
    /\ th[o].pc = "dialing"
    /\ th' = [th EXCEPT ![o] =
                IF activeWS = None /\ th[o].msg = "manual"
                THEN [th[o] EXCEPT !.pc = "clear"]
                ELSE Idle]
    /\ UNCHANGED <<held, tokens, peer, last, dev, activeWS, open, oldWS, fg,
                   drop>>

ClearLostPeer(o) ==
    /\ th[o].pc = "clear"
    /\ clearPeer
    /\ th' = [th EXCEPT ![o] = Idle]
    /\ UNCHANGED <<held, tokens, last, dev, activeWS, open, oldWS, fg, drop>>

\* SetCustomName: the rename travels to device.json in a snapshot like any
\* other.
SetCustomName(o) ==
    /\ th[o].pc = "idle"
    /\ last # None
    /\ th' = [th EXCEPT ![o] = [Idle EXCEPT !.pc = "save",
                                            !.phone = last,
                                            !.snap = last]]
    /\ UNCHANGED <<held, tokens, peer, last, dev, activeWS, open, oldWS, fg,
                   drop>>

(***************************************************************************)
(* ForgetLastDevice and rotatePairing.  The front end runs one at a time.  *)
(***************************************************************************)

\* The critical section: drop the peer, close and drop the socket, drop the
\* remembered phone.  MaxToken bounds how often the token is rotated.
ForgetClear ==
    /\ fg = "idle"
    /\ disk < MaxToken
    /\ last # None
    /\ clearPeer
    /\ last' = None
    /\ open' = [c \in Socks |-> open[c] /\ c # activeWS]
    /\ activeWS' = None
    /\ fg' = "delete"
    /\ UNCHANGED <<held, tokens, dev, oldWS, th, drop>>

\* deleteLastDeviceFile: an error ends the call, the token is not rotated.
ForgetDelete(ok) ==
    /\ fg = "delete"
    /\ ok \/ "write" \in Faults
    /\ dev' = IF ok THEN None ELSE dev
    /\ fg' = IF ok THEN "rotate" ELSE "idle"
    /\ UNCHANGED <<held, tokens, peer, last, activeWS, open, oldWS, th, drop>>

\* RotatePairFileToken: mint a token and write pair.json.  An error ends the
\* call: nothing was written, or the write was done and the chmod after it
\* failed.
RotatePairFileToken(out) ==
    /\ fg = "rotate"
    /\ out \in {"ok"} \cup Faults
    /\ disk' = IF out = "write" THEN disk ELSE disk + 1
    /\ fg' = IF out = "ok" THEN "server" ELSE "idle"
    /\ UNCHANGED <<held, srv, dbk, svc, peer, last, dev, activeWS, open,
                   oldWS, th, drop>>

\* Mutant: the rotation never reaches the live server.
SetTokenNotAtAll ==
    /\ fg = "server"
    /\ fg' = "dbkey"
    /\ UNCHANGED <<held, tokens, peer, last, dev, activeWS, open, oldWS, th,
                   drop>>

\* The live server verifies against the new token from here on.
SetToken ==
    /\ fg = "server"
    /\ srv' = disk
    /\ fg' = "dbkey"
    /\ UNCHANGED <<held, disk, dbk, svc, peer, last, dev, activeWS, open,
                   oldWS, th, drop>>

\* The cache database encrypts under the new token's key.
SetKey ==
    /\ fg = "dbkey"
    /\ dbk' = disk
    /\ fg' = "publish"
    /\ UNCHANGED <<held, disk, srv, svc, peer, last, dev, activeWS, open,
                   oldWS, th, drop>>

\* Service.token and the QR follow the server.
PublishQR ==
    /\ fg = "publish"
    /\ svc' = disk
    /\ fg' = "idle"
    /\ UNCHANGED <<held, disk, srv, dbk, peer, last, dev, activeWS, open,
                   oldWS, th, drop>>

(***************************************************************************)
(* A failed WriteActiveWS and NotifyLocalNetworkDown: both snapshot the    *)
(* registered socket and act on the snapshot later.                        *)
(***************************************************************************)

SnapshotWS ==
    /\ drop.pc = "idle"
    /\ \/ /\ activeWS # None
          /\ drop' = [pc |-> "close", ws |-> activeWS]
       \/ /\ activeWS = None
          /\ peerHost # None
          /\ drop' = [pc |-> "clear", ws |-> None]
    /\ UNCHANGED <<held, tokens, peer, last, dev, activeWS, open, oldWS, th,
                   fg>>

DropSocket ==
    /\ drop.pc = "close"
    /\ open' = [open EXCEPT ![drop.ws] = FALSE]
    /\ Deregister(drop.ws)
    /\ drop' = [pc |-> "idle", ws |-> None]
    /\ UNCHANGED <<held, tokens, last, dev, oldWS, th, fg>>

DropPeer ==
    /\ drop.pc = "clear"
    /\ clearPeer
    /\ drop' = [pc |-> "idle", ws |-> None]
    /\ UNCHANGED <<held, tokens, last, dev, activeWS, open, oldWS, th, fg>>

(***************************************************************************)
(* Restarts.                                                               *)
(***************************************************************************)

\* The process ends, at any point of any thread, and NewService rebuilds
\* its state from pair.json and device.json.
Restart ==
    /\ srv' = disk /\ dbk' = disk /\ svc' = disk
    /\ clearPeer
    /\ last' = dev
    /\ activeWS' = None
    /\ open' = [c \in Socks |-> FALSE]
    /\ oldWS' = [c \in Socks |-> None]
    /\ th' = [t \in Threads |-> Idle]
    /\ fg' = "idle"
    /\ drop' = [pc |-> "idle", ws |-> None]
    /\ UNCHANGED <<held, disk, dev>>

(***************************************************************************)
(* The specification.                                                      *)
(***************************************************************************)

Init ==
    /\ held = [p \in Phones |-> 0]
    /\ disk = 1 /\ srv = 1 /\ dbk = 1 /\ svc = 1
    /\ peerHost = None /\ peerPort = None
    /\ last = None /\ dev = None
    /\ activeWS = None
    /\ open = [c \in Socks |-> FALSE]
    /\ oldWS = [c \in Socks |-> None]
    /\ th = [t \in Threads |-> Idle]
    /\ fg = "idle"
    /\ drop = [pc |-> "idle", ws |-> None]

\* One handler step after authentication, whichever thread takes it.
Handle(t) ==
    \/ \E changed \in BOOLEAN : Learn(t, changed)
    \/ Capture(t)
    \/ MergeFacts(t)
    \/ IngestUnpair(t)
    \/ \E ok \in BOOLEAN : SaveSnapshot(t, ok)
    \/ \E ok \in BOOLEAN : DeleteSnapshot(t, ok)

\* The steps a connected socket's goroutine takes by itself.
Serve(c) ==
    \/ OnWSConnect(c)
    \/ CloseOld(c)
    \/ Handle(c)
    \/ Disconnect(c)

Ping(o) ==
    \/ SendPingToPhone(o)
    \/ ReconnectToLastDevice(o)
    \/ NextTarget(o)
    \/ PingAnswered(o)
    \/ PingOutdated(o)
    \/ PingRefused(o)
    \/ PingLost(o)
    \/ ClearLostPeer(o)
    \/ SetCustomName(o)
    \/ Handle(o)

Forget ==
    \/ ForgetClear
    \/ \E ok \in BOOLEAN : ForgetDelete(ok)
    \/ \E out \in {"ok", "write", "chmod"} : RotatePairFileToken(out)
    \/ SetToken
    \/ SetKey
    \/ PublishQR

Drop == SnapshotWS \/ DropSocket \/ DropPeer

Next ==
    \/ \E p \in Phones : Scan(p) \/ PhoneWipe(p)
    \/ \E c \in Socks, p \in Phones : Upgrade(c, p)
    \/ \E c \in Socks, m \in SockMsg : ReadEnvelope(c, m)
    \/ \E c \in Socks : Serve(c) \/ LoseSocket(c)
    \/ \E r \in Reqs, p \in Phones, m \in ReqMsg : Accept(r, p, m)
    \/ \E r \in Reqs : Handle(r)
    \/ \E o \in Outs : Ping(o)
    \/ Forget
    \/ Drop
    \/ Restart

Spec == Init /\ [][Next]_vars

\* A connection's goroutine runs on: none of its own steps waits for anybody.
FairSpec == Spec /\ \A c \in Socks : WF_vars(Serve(c))

(***************************************************************************)
(* Properties.                                                             *)
(***************************************************************************)

\* What the program counter of a thread's record x says of its other fields:
\* a handler past authentication works for a phone, on a message of its own
\* kind.
ServesSocket(x) ==
    /\ x.pc \in SockPC
    /\ x.msg \in SockMsg
    /\ x.pc # "idle" => x.phone # None

ServesRequest(x) ==
    /\ x.pc \in ReqPC
    /\ x.msg \in ReqMsg \cup {"none"}
    /\ x.pc # "idle" => x.phone # None

ServesPing(x) ==
    /\ x.pc \in OutPC
    /\ x.msg \in OutMsg
    /\ x.pc \notin {"idle", "dialing", "clear"} => x.phone # None

\* Types, and how the parts of the state fit: every thread's record suits its
\* program counter, OnWSConnect owes a close only between its two steps, and a
\* pending drop names a socket exactly when it will close one.
TypeOK ==
    /\ held \in [Phones -> 0..MaxToken]
    /\ disk \in 1..MaxToken
    /\ srv \in 1..MaxToken
    /\ dbk \in 1..MaxToken
    /\ svc \in 1..MaxToken
    /\ peerHost \in Phones \cup {None}
    /\ peerPort \in Phones \cup {None}
    /\ last \in Phones \cup {None}
    /\ dev \in Phones \cup {None}
    /\ activeWS \in Socks \cup {None}
    /\ open \in [Socks -> BOOLEAN]
    /\ oldWS \in [Socks -> Socks \cup {None}]
    /\ th \in [Threads -> ThreadState]
    /\ fg \in FgPC
    /\ drop \in [pc : {"idle", "close", "clear"}, ws : Socks \cup {None}]
    /\ fg \in {"delete", "rotate"} => disk < MaxToken
    /\ drop.pc = "close" <=> drop.ws # None
    /\ \A c \in Socks : th[c].pc # "closeOld" => oldWS[c] = None
    /\ \A c \in Socks : ServesSocket(th[c])
    /\ \A r \in Reqs : ServesRequest(th[r])
    /\ \A o \in Outs : ServesPing(th[o])

\* The four copies of the token only lag in the order rotatePairing writes
\* them, and no phone is ahead of the QR it scanned.
TokenOrder ==
    /\ \A p \in Phones : held[p] <= svc
    /\ svc <= dbk /\ dbk <= srv /\ srv <= disk
    /\ fg = "dbkey" => srv = disk
    /\ fg = "publish" => dbk = disk

\* pair.json, the server, the database key and the QR hold one token
\* whenever no rotation is under way, through failed writes and restarts in
\* the middle of one; during a rotation they lag in its order.  (If they
\* drifted apart, a freshly scanned QR would answer 403.)
TokenAgreement ==
    /\ TokenOrder
    /\ fg \in {"idle", "delete", "rotate"} => svc = disk
    /\ fg = "server" => svc = srv
    /\ fg = "dbkey" => svc = dbk

\* No socket keeps running behind the Service's back: a connected socket
\* that is not the registered one has been closed, or the OnWSConnect that
\* replaced it is just about to close it.  And the registered socket is
\* one whose read loop still runs, so its OnWSDisconnect is still to come.
NoStraySocket ==
    /\ \A c \in Socks :
          open[c] /\ th[c].pc \notin {"idle", "upgrading"} =>
             \/ activeWS = c
             \/ \E d \in Socks : oldWS[d] = c
    /\ activeWS # None => th[activeWS].pc \notin {"idle", "upgrading"}

\* Handlers, outbound pings and unwritten snapshots that concern phone p.
InFlight(p) ==
    \E t \in Threads : th[t].pc # "idle" /\ p \in {th[t].phone, th[t].snap}

\* The Mac has no trace of p: not the peer, not remembered, not on disk,
\* nothing in flight, and p holds no token the server verifies.
Gone(p) ==
    /\ held[p] # srv
    /\ p \notin {peerHost, peerPort, last, dev}
    /\ ~InFlight(p)

\* A phone that is gone stays gone until it scans a QR again: no retry with
\* the old token, late save, redial, crash or restart brings it back.
GoneStaysGone ==
    [][\A p \in Phones : Gone(p) /\ held'[p] = held[p] => Gone(p)']_vars

\* A registered socket that has broken is deregistered: the Mac does not go
\* on reporting a phone whose connection is over, whatever its read loop
\* was busy with when it broke.
BrokenSocketDeregisters ==
    \A c \in Socks : (activeWS = c /\ ~open[c]) ~> (activeWS # c)

=============================================================================
