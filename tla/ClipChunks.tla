----------------------------- MODULE ClipChunks -----------------------------
(***************************************************************************)
(* The lane for clipboard images too large for one clip-push: the sender   *)
(* announces the image with a manifest and cuts it into chunks, the        *)
(* receiver's hub of sessions puts it together again.  Both devices send   *)
(* and both receive; the transfers of one device interleave on its socket, *)
(* which dies with frames in it; sessions grow old and are swept; the user *)
(* switches the direction of the sync; either app dies.                    *)
(*                                                                         *)
(* Sizes are counted in small units with the same order between the caps   *)
(* as in the code.  What a slice holds is the transfer and the index it    *)
(* was cut for, so equal slices have equal bytes.  The stamps of a         *)
(* manifest are left out: Clipboard has them.  Names that Clipboard has    *)
(* too are others here: ClipboardProofs extends both modules.              *)
(***************************************************************************)
EXTENDS Integers, Sequences, FiniteSets

CONSTANTS
  Transfers,        \* one send of a large image each, by its session id
  Sizes,            \* sizes of the images the user copies
  ClipChunkRaw,     \* size of a chunk
  MaxClipImageRaw,  \* largest image that goes in one message
  MaxClipTotalRaw,  \* largest image that goes in chunks
  MaxClipChunks,    \* most chunks a manifest may announce
  MaxSessions,      \* sessions a hub tolerates (8)
  MaxMishaps        \* bound on drops, restarts, mode switches and long waits

ASSUME CapsAssumption ==
  /\ ClipChunkRaw \in Nat \ {0} /\ MaxClipImageRaw \in Nat /\ MaxClipTotalRaw \in Nat
  /\ MaxClipChunks \in Nat /\ MaxSessions \in Nat \ {0} /\ MaxMishaps \in Nat
  /\ Sizes \subseteq Nat
  /\ ClipChunkRaw <= MaxClipImageRaw /\ MaxClipImageRaw < MaxClipTotalRaw
  /\ MaxClipTotalRaw <= ClipChunkRaw * MaxClipChunks

VARIABLES
  online,     \* the socket is connected
  direction,  \* clipboard_mode, the same on both sides
  mishaps,    \* number of faults, switches and waits so far
  send,       \* what has become of each transfer at its sender
  wire,       \* frames on the socket, by the device they go to
  hub,        \* ClipChunkHub of each device: its sessions, the Mac's with the
              \* least recently updated first, the phone's in order of arrival
  got,        \* transfers reassembled and verified
  applied,    \* transfers that became the receiver's clip
  why         \* what befell each transfer's frames and session (history)

chunkVars == <<online, direction, mishaps, send, wire, hub, got, applied, why>>

Devices == {"mac", "android"}

Other(d) == IF d = "mac" THEN "android" ELSE "mac"

-----------------------------------------------------------------------------
(* Sizes, manifests and chunks *)

\* Mutant: the last chunk is forgotten when the size is a multiple of the chunk.
TotalChunksRounded(raw) == raw \div ClipChunkRaw + 1

TotalClipChunksForSize(raw) == (raw + ClipChunkRaw - 1) \div ClipChunkRaw

\* Slice i of transfer c's image, which has raw bytes.
Slice(c, raw, i) ==
  [of |-> c, index |-> i,
   len |-> IF (i + 1) * ClipChunkRaw > raw THEN raw - i * ClipChunkRaw ELSE ClipChunkRaw]

splitClipBytes(c, raw) == {Slice(c, raw, i) : i \in 0 .. (TotalClipChunksForSize(raw) - 1)}

Manifest(c, raw) ==
  [kind |-> "manifest", id |-> c, raw |-> raw, total |-> TotalClipChunksForSize(raw),
   data |-> {}]

Chunk(c, raw, i) ==
  [kind |-> "chunk", id |-> c, raw |-> raw, total |-> TotalClipChunksForSize(raw),
   data |-> {Slice(c, raw, i)}]

\* What is sent as number n: the manifest, then the chunks.
NthFrame(c, raw, n) == IF n = 0 THEN Manifest(c, raw) ELSE Chunk(c, raw, n - 1)

Chunkable(raw) == raw > MaxClipImageRaw /\ raw <= MaxClipTotalRaw

SanitizeClipManifest(m) ==
  /\ Chunkable(m.raw)
  /\ m.total \in 2 .. MaxClipChunks
  /\ (m.raw + ClipChunkRaw - 1) \div ClipChunkRaw = m.total

SanitizeClipChunk(f) ==
  /\ f.total \in 2 .. MaxClipChunks
  /\ Chunkable(f.raw)
  /\ \A s \in f.data : /\ s.index \in 0 .. (f.total - 1)
                       /\ s.index * ClipChunkRaw < f.raw
                       /\ s.len \in 1 .. ClipChunkRaw

ModeAllowsReceive(d) == \/ direction = "both"
                        \/ direction = "android_to_mac" /\ d = "mac"
                        \/ direction = "mac_to_android" /\ d = "android"

-----------------------------------------------------------------------------
(* The hub *)

Ids(h) == {h[i].id : i \in 1 .. Len(h)}

Session(m) == [id |-> m.id, raw |-> m.raw, total |-> m.total, parts |-> {}, old |-> FALSE]

\* What is left when the old sessions go, which come first.
Fresh(h) == SubSeq(h, Cardinality({i \in 1 .. Len(h) : h[i].old}) + 1, Len(h))

\* Mutant: the number of sessions is not looked at.
SweepOldOnly(h) == Fresh(h)

\* The Mac's sweepLocked: the sessions five minutes old go and, with more than
\* MaxSessions left, the one not updated for longest.
sweepLocked(h) == IF Len(Fresh(h)) > MaxSessions THEN Tail(Fresh(h)) ELSE Fresh(h)

\* Begin, on the Mac: sweep, then open the session unless it is there.
BeginOnMac(h, m) ==
  LET swept == sweepLocked(h) IN
  IF m.id \in Ids(swept) THEN swept ELSE Append(swept, Session(m))

\* begin, on the phone: open the session, then drop the first one when there
\* are too many; none grows old.
BeginOnPhone(h, m) ==
  IF m.id \in Ids(h) THEN h
  ELSE LET opened == Append(h, Session(m)) IN
       IF Len(opened) > MaxSessions THEN Tail(opened) ELSE opened

\* Where the session of c is; the hub is a map, and has it at most once.
Place(h, c) == CHOOSE i \in 1 .. Len(h) : h[i].id = c

Discard(h, c) ==
  IF c \in Ids(h)
  THEN SubSeq(h, 1, Place(h, c) - 1) \o SubSeq(h, Place(h, c) + 1, Len(h)) ELSE h

Has(s, f) == \E p \in s.parts, q \in f.data : p.index = q.index

Extend(s, f) == [s EXCEPT !.parts = @ \cup f.data, !.old = FALSE]

Complete(s) == Cardinality(s.parts) = s.total

Suits(s, f) == f.total = s.total /\ f.raw = s.raw

\* The parts, appended in order from where the one before ends, have the size of
\* the manifest, and its hash.
Verified(s) ==
  /\ \E at \in [0 .. s.total -> 0 .. s.raw] :
       /\ at[0] = 0 /\ at[s.total] = s.raw
       /\ \A p \in s.parts : at[p.index + 1] = at[p.index] + p.len
  /\ s.parts = splitClipBytes(s.id, s.raw)

\* Add, for a chunk whose session is there: a session that does not suit the
\* chunk leaves the hub, a chunk that is there already changes nothing, and a
\* session leaves when it is complete.
Add(d, h, f) ==
  LET old == h[Place(h, f.id)]
      s == Extend(old, f)
  IN
  IF Suits(old, f) /\ Has(old, f) THEN h
  ELSE IF ~Suits(old, f) \/ Complete(s) THEN Discard(h, f.id)
  ELSE IF d = "mac" THEN Append(Discard(h, f.id), s)
  ELSE [h EXCEPT ![Place(h, f.id)] = s]

\* The chunk completes its session, and what comes out verifies.
Completes(h, f) ==
  LET old == h[Place(h, f.id)]
      s == Extend(old, f)
  IN
  Suits(old, f) /\ ~Has(old, f) /\ Complete(s) /\ Verified(s)

\* ApplyRemote checks the reassembled image like one that came in one message.
SanitizeClipImage(raw) == raw > 0 /\ raw <= MaxClipImageRaw

-----------------------------------------------------------------------------
Unsent == [pc |-> "idle", from |-> "mac", raw |-> 0, next |-> 0]

Note(cs, cause) == why' = [c \in Transfers |-> IF c \in cs THEN why[c] \cup {cause} ELSE why[c]]

ChunkInit ==
  /\ online = TRUE
  /\ direction = "both"
  /\ mishaps = 0
  /\ send = [c \in Transfers |-> Unsent]
  /\ wire = [d \in Devices |-> <<>>]
  /\ hub = [d \in Devices |-> <<>>]
  /\ got = {} /\ applied = {}
  /\ why = [c \in Transfers |-> {}]

\* sendLargeClipboardImage, on either device, whatever the mode; the Mac looks
\* at its own manifest first.
StartSend(c, d, raw) ==
  /\ send[c].pc = "idle"
  /\ Chunkable(raw)
  /\ send' = [send EXCEPT ![c] =
       [pc |-> IF d = "android" \/ SanitizeClipManifest(Manifest(c, raw)) THEN "sending" ELSE "failed",
        from |-> d, raw |-> raw, next |-> 0]]
  /\ UNCHANGED <<online, direction, mishaps, wire, hub, got, applied, why>>

\* The manifest, then chunk after chunk, each awaited.  Without a socket the
\* send fails: the Mac has no other way, and the phone's post of these types
\* goes to /ping, which refuses them.  The Mac looks at each of its chunks
\* before it sends it, too, and refuses none (FramesPass in ClipboardProofs).
SendFrame(c) ==
  LET s == send[c] IN
  /\ s.pc = "sending"
  /\ IF online
     THEN /\ wire' = [wire EXCEPT ![Other(s.from)] = Append(@, NthFrame(c, s.raw, s.next))]
          /\ send' = [send EXCEPT ![c].next = @ + 1,
               ![c].pc = IF s.next = TotalClipChunksForSize(s.raw) THEN "sent" ELSE "sending"]
     ELSE UNCHANGED wire /\ send' = [send EXCEPT ![c].pc = "failed"]
  /\ UNCHANGED <<online, direction, mishaps, hub, got, applied, why>>

\* ingestClipManifestBody: a bad manifest is dropped, as is one the mode
\* forbids; any other opens a session.
ReceiveManifest(d) ==
  LET m == Head(wire[d])
      h == IF d = "mac" THEN BeginOnMac(hub[d], m) ELSE BeginOnPhone(hub[d], m)
      opens == SanitizeClipManifest(m) /\ ModeAllowsReceive(d)
  IN
  /\ wire[d] # <<>>
  /\ m.kind = "manifest"
  /\ wire' = [wire EXCEPT ![d] = Tail(@)]
  /\ IF opens
     THEN hub' = [hub EXCEPT ![d] = h] /\ Note(Ids(hub[d]) \ Ids(h), "swept")
     ELSE UNCHANGED hub /\ Note(IF ModeAllowsReceive(d) THEN {} ELSE {m.id}, "mode")
  /\ UNCHANGED <<online, direction, mishaps, send, got, applied>>

\* ingestClipChunkBody: a bad chunk and one without a session are dropped; the
\* chunk that completes a session has the image checked and, if the mode still
\* lets it and ApplyRemote takes it, made the clip.
ReceiveChunk(d) ==
  LET f == Head(wire[d])
      stored == SanitizeClipChunk(f) /\ f.id \in Ids(hub[d])
      whole == stored /\ Completes(hub[d], f)
  IN
  /\ wire[d] # <<>>
  /\ f.kind = "chunk"
  /\ wire' = [wire EXCEPT ![d] = Tail(@)]
  /\ hub' = IF stored THEN [hub EXCEPT ![d] = Add(d, @, f)] ELSE hub
  /\ got' = IF whole THEN got \cup {f.id} ELSE got
  /\ applied' = IF whole /\ ModeAllowsReceive(d) /\ SanitizeClipImage(f.raw)
                THEN applied \cup {f.id} ELSE applied
  /\ Note(IF whole /\ ~ModeAllowsReceive(d) THEN {f.id} ELSE {}, "mode")
  /\ UNCHANGED <<online, direction, mishaps, send>>

-----------------------------------------------------------------------------
WireIds == UNION {{wire[d][i].id : i \in 1 .. Len(wire[d])} : d \in Devices}

Mishap == mishaps < MaxMishaps /\ mishaps' = mishaps + 1

\* The socket dies with the frames in it; the sessions stay.
SocketDies ==
  /\ online
  /\ Mishap
  /\ online' = FALSE
  /\ wire' = [d \in Devices |-> <<>>]
  /\ Note(WireIds, "lost")
  /\ UNCHANGED <<direction, send, hub, got, applied>>

SocketOpens ==
  /\ ~online
  /\ online' = TRUE
  /\ UNCHANGED <<direction, mishaps, send, wire, hub, got, applied, why>>

\* Five minutes go by: every session of the Mac's that gets no chunk is old.
TimePasses ==
  /\ Mishap
  /\ hub' = [hub EXCEPT !["mac"] = [i \in DOMAIN @ |-> [@[i] EXCEPT !.old = TRUE]]]
  /\ UNCHANGED <<online, direction, send, wire, got, applied, why>>

SwitchMode(m) ==
  /\ m # direction
  /\ Mishap
  /\ direction' = m
  /\ UNCHANGED <<online, send, wire, hub, got, applied, why>>

\* An app dies, its sends and its hub with it, and the socket.
Restart(d) ==
  /\ Mishap
  /\ online' = FALSE
  /\ wire' = [e \in Devices |-> <<>>]
  /\ hub' = [hub EXCEPT ![d] = <<>>]
  /\ send' = [c \in Transfers |-> IF send[c].pc = "sending" /\ send[c].from = d
                                  THEN [send[c] EXCEPT !.pc = "failed"] ELSE send[c]]
  /\ Note(WireIds \cup Ids(hub[d]), "lost")
  /\ UNCHANGED <<direction, got, applied>>

ChunkNext ==
  \/ \E c \in Transfers : \/ SendFrame(c)
                          \/ \E d \in Devices, raw \in Sizes : StartSend(c, d, raw)
  \/ \E d \in Devices : ReceiveManifest(d) \/ ReceiveChunk(d) \/ Restart(d)
  \/ \E m \in {"both", "android_to_mac", "mac_to_android"} : SwitchMode(m)
  \/ SocketDies \/ SocketOpens \/ TimePasses

ChunkSpec == ChunkInit /\ [][ChunkNext]_chunkVars

-----------------------------------------------------------------------------
Slices == [of : Transfers, index : Nat, len : Nat]

\* Types; a session holds slices of its own image, and is not complete.
ChunkTypeOK ==
  /\ online \in BOOLEAN
  /\ direction \in {"both", "android_to_mac", "mac_to_android"}
  /\ mishaps \in 0 .. MaxMishaps
  /\ send \in [Transfers -> [pc : {"idle", "sending", "sent", "failed"}, from : Devices,
                             raw : Nat, next : Nat]]
  /\ \A d \in Devices :
       /\ \A i \in 1 .. Len(wire[d]) : wire[d][i].id \in Transfers
       /\ \A i \in 1 .. Len(hub[d]) :
            /\ hub[d][i].id \in Transfers
            /\ hub[d][i].parts \subseteq Slices
            /\ \A p \in hub[d][i].parts : p.of = hub[d][i].id
            /\ ~Complete(hub[d][i])
  /\ applied \subseteq got /\ got \subseteq Transfers
  /\ why \in [Transfers -> SUBSET {"lost", "swept", "mode"}]

\* An image reported as sent, none of whose frames is on its way, was put
\* together by the receiver and has left its hub, whatever its size and
\* whatever transfers it was interleaved with: TotalClipChunksForSize,
\* splitClipBytes and the two Sanitize functions agree.  The exceptions: frames
\* or a session lost with a socket or an app, a session swept, and a manifest
\* the mode forbids.
SentIsWhole ==
  \A c \in Transfers :
    send[c].pc = "sent" /\ c \notin WireIds /\ why[c] = {}
    => c \in got /\ c \notin Ids(hub["mac"]) \cup Ids(hub["android"])

\* A hub never holds more than MaxSessions images, one more on the Mac, which
\* sweeps before it adds: abandoned sessions do not pile up.
HubBounded ==
  /\ Len(hub["mac"]) <= MaxSessions + 1
  /\ Len(hub["android"]) <= MaxSessions

=============================================================================
