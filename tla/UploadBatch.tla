---------------------------- MODULE UploadBatch ----------------------------
(***************************************************************************)
(* One drop of files and folders on its way to the phone: the walker that  *)
(* discovers the files and creates the remote folders, the channel it      *)
(* feeds, the runner that hands the tasks to a bounded number of senders,  *)
(* and the batch record the drop is cancelled through (files_parallel.go,  *)
(* files_batch.go).  What a sender does to one file is FileUpload; here it *)
(* is cut down to what the drop notices of it.                             *)
(*                                                                         *)
(* The drop is a tree of Items, numbered in the order in which the walk    *)
(* meets them.  "list" is the drop of decided files, which is read to the  *)
(* end before the first file is sent and has no folders.                   *)
(*                                                                         *)
(* Names that FileUpload has too are others here: FileUploadProofs extends *)
(* both modules.                                                           *)
(***************************************************************************)
EXTENDS Naturals, Sequences, FiniteSets

CONSTANTS
    N,             \* bound: entries of a drop
    MaxParallel,   \* maxParallelFileUploads
    Buffer         \* uploadStreamBuffer

ASSUME DropAssumption ==
    /\ N \in Nat \ {0}
    /\ MaxParallel \in Nat \ {0}
    /\ Buffer \in Nat \ {0}

Items == 1..N          \* of which the drop has the first size
Root  == 0             \* the folder of the phone the drop goes into

VARIABLES
    mode,      \* "stream" or "list"
    size,      \* entries of the drop
    dirs,      \* the entries that are folders
    parent,    \* parent[i]: the folder i is in
    bad,       \* the entries whose remote path is not valid
    at,        \* the entry the walker looks at
    walker,    \* what it does there
    queue,     \* taskCh, or the list of tasks
    runner,    \* where the runner stands
    task,      \* the task in its hand
    sender,    \* sender[i]: where the goroutine of file i stands
    slots,     \* sem: the files that hold a slot
    gates,     \* mkdirGate: folders whose gate is open
    mkdirs,    \* folders whose mkdir frame was written, or tried
    begun,     \* files whose first chunk was written
    transfer,  \* transfer[i]: status of its record
    dropStatus,     \* status of the batch, "gone" once pruned
    stamped,   \* the batch has a completedAt
    walkErr,   \* the walk failed
    firstErr   \* the runner noted an error

drop    == <<mode, size, dirs, parent, bad>>
walking == <<at, walker, mkdirs, gates, walkErr>>
running == <<queue, runner, task>>
sending == <<sender, slots, begun>>
dropRecords == <<transfer, dropStatus, stamped>>
dropVars    == <<drop, walking, running, sending, dropRecords, firstErr>>

\* A path below an invalid one is invalid (SanitizeFilePath), and the walk
\* meets a folder before what is in it.
DropInit ==
    /\ mode \in {"stream", "list"}
    /\ size \in Items
    /\ dirs \in SUBSET (1..size)
    /\ parent \in [Items -> {Root} \cup dirs]
    /\ \A i \in Items : parent[i] < i /\ (i > size => parent[i] = Root)
    /\ bad \in SUBSET {i \in Items : parent[i] # Root}
    /\ \A i \in Items : parent[i] \in bad => i \in bad
    /\ mode = "list" => dirs = {}
    /\ at = 1
    /\ walker = "look"
    /\ queue = <<>>
    /\ runner = "recv"
    /\ task = Root
    /\ sender = [i \in Items |-> "none"]
    /\ slots = {}
    /\ gates = {Root}
    /\ mkdirs = {}
    /\ begun = {}
    /\ transfer = [i \in Items |-> "none"]
    /\ dropStatus = "running"
    /\ stamped = FALSE
    /\ walkErr = FALSE
    /\ firstErr = FALSE

\* isBatchCancelled: a batch that was pruned is not cancelled.
isBatchCancelled == dropStatus = "cancelled"

(***************************************************************************)
(* The walker: expandUploadTasksStreaming, expandOneFolderStreaming, and   *)
(* the loop of UploadDecidedFiles.                                         *)
(***************************************************************************)

\* It looks at the next entry.  An invalid one is skipped.
Visit ==
    /\ walker = "look"
    /\ at <= size
    /\ ~isBatchCancelled
    /\ IF at \in bad
       THEN /\ at' = at + 1
            /\ UNCHANGED walker
       ELSE /\ walker' = IF at \in dirs THEN "mkdir" ELSE "put"
            /\ UNCHANGED at
    /\ UNCHANGED <<drop, mkdirs, gates, walkErr, running, sending, dropRecords, firstErr>>

\* The batch was cancelled, or the entry cannot be read or is too large:
\* discovery ends here.
WalkFails ==
    /\ walker = "look"
    /\ at <= size
    /\ walkErr' = TRUE
    /\ walker' = "closed"
    /\ UNCHANGED <<drop, at, mkdirs, gates, running, sending, dropRecords, firstErr>>

\* Mutant: the walk goes on and leaves the frame for later.
MkdirLater ==
    /\ walker = "mkdir"
    /\ walker' = "mark"
    /\ UNCHANGED <<drop, at, mkdirs, gates, walkErr, running, sending, dropRecords, firstErr>>

\* The mkdir frame of a folder is written.
Mkdir ==
    /\ walker = "mkdir"
    /\ mkdirs' = mkdirs \cup {at}
    /\ walker' = "mark"
    /\ UNCHANGED <<drop, at, gates, walkErr, running, sending, dropRecords, firstErr>>

\* markSent opens the gate of the folder.
markSent ==
    /\ walker = "mark"
    /\ gates' = gates \cup {at}
    /\ at' = at + 1
    /\ walker' = "look"
    /\ UNCHANGED <<drop, mkdirs, walkErr, running, sending, dropRecords, firstErr>>

\* The task of a file goes into the channel, once there is room.
Put ==
    /\ walker = "put"
    /\ mode = "stream" => Len(queue) < Buffer
    /\ queue' = Append(queue, at)
    /\ at' = at + 1
    /\ walker' = "look"
    /\ UNCHANGED <<drop, mkdirs, gates, walkErr, runner, task, sending, dropRecords,
                   firstErr>>

\* The walk is complete and the channel closed.
CloseTasks ==
    /\ walker = "look"
    /\ at > size
    /\ walker' = "closed"
    /\ UNCHANGED <<drop, at, mkdirs, gates, walkErr, running, sending, dropRecords, firstErr>>

(***************************************************************************)
(* The runner: runUploadStream and runUploadTasks.                         *)
(***************************************************************************)

\* Tasks can be taken: from the channel at once, from the list when it is
\* complete.
open == mode = "stream" \/ (walker = "closed" /\ ~walkErr)

\* A list of one task is uploaded by the caller itself, without a slot and
\* without asking for the batch (UploadLocalFileToRemotePathInBatch).
Alone ==
    /\ runner = "recv"
    /\ mode = "list"
    /\ size = 1
    /\ open
    /\ queue # <<>>
    /\ queue' = <<>>
    /\ runner' = "wait"
    /\ sender' = [sender EXCEPT ![Head(queue)] = "open"]
    /\ UNCHANGED <<drop, walking, task, slots, begun, dropRecords, firstErr>>

\* The next task is taken.
Receive ==
    /\ runner = "recv"
    /\ mode = "list" => size > 1
    /\ open
    /\ queue # <<>>
    /\ ~isBatchCancelled
    /\ task' = Head(queue)
    /\ queue' = Tail(queue)
    /\ runner' = "acquire"
    /\ UNCHANGED <<drop, walking, sending, dropRecords, firstErr>>

\* Mutant: the stream stops at the cancel like the list does.
DrainStops ==
    /\ runner = "recv"
    /\ mode = "list" => size > 1
    /\ open
    /\ queue # <<>>
    /\ isBatchCancelled
    /\ firstErr' = TRUE
    /\ runner' = "wait"
    /\ UNCHANGED <<queue, drop, walking, task, sending, dropRecords>>

\* Once cancelled the stream is drained, so that the walker never blocks on
\* a full channel; the list is left.
Drain ==
    /\ runner = "recv"
    /\ mode = "list" => size > 1
    /\ open
    /\ queue # <<>>
    /\ isBatchCancelled
    /\ firstErr' = TRUE
    /\ IF mode = "stream"
       THEN /\ queue' = Tail(queue)
            /\ UNCHANGED runner
       ELSE /\ runner' = "wait"
            /\ UNCHANGED queue
    /\ UNCHANGED <<drop, walking, task, sending, dropRecords>>

\* sem <- struct{}{}: the task waits for a slot and gets its goroutine.
Acquire ==
    /\ runner = "acquire"
    /\ Cardinality(slots) < MaxParallel
    /\ slots' = slots \cup {task}
    /\ sender' = [sender EXCEPT ![task] = "start"]
    /\ runner' = "recv"
    /\ UNCHANGED <<drop, walking, queue, task, begun, dropRecords, firstErr>>

\* There are no more tasks.
NoMore ==
    /\ runner = "recv"
    /\ queue = <<>>
    /\ walker = "closed"
    /\ runner' = "wait"
    /\ UNCHANGED <<drop, walking, queue, task, sending, dropRecords, firstErr>>

\* A list that is not valid is refused as a whole.
Refuse ==
    /\ runner = "recv"
    /\ mode = "list"
    /\ walkErr
    /\ runner' = "returned"
    /\ UNCHANGED <<drop, walking, queue, task, sending, dropRecords, firstErr>>

\* wg.Wait: the call returns when every goroutine has ended.
Return ==
    /\ runner = "wait"
    /\ \A i \in Items : sender[i] \in {"none", "ended"}
    /\ runner' = "returned"
    /\ UNCHANGED <<drop, walking, queue, task, sending, dropRecords, firstErr>>

(***************************************************************************)
(* The senders.                                                            *)
(***************************************************************************)

\* The goroutine of file i gives back its slot and ends with an error.
endInError(i) ==
    /\ sender' = [sender EXCEPT ![i] = "ended"]
    /\ slots' = slots \ {i}
    /\ firstErr' = TRUE

\* It asks for the batch once more before it starts.
Start(i) ==
    /\ sender[i] = "start"
    /\ IF isBatchCancelled THEN endInError(i)
       ELSE /\ sender' = [sender EXCEPT ![i] = "open"]
            /\ UNCHANGED <<slots, firstErr>>
    /\ UNCHANGED <<drop, walking, running, begun, dropRecords>>

\* The file cannot be opened, or changed since it was listed.
OpenFails(i) ==
    /\ sender[i] = "open"
    /\ endInError(i)
    /\ UNCHANGED <<drop, walking, running, begun, dropRecords>>

\* Its transfer is registered.
RegisterFile(i) ==
    /\ sender[i] = "open"
    /\ transfer' = [transfer EXCEPT ![i] = "running"]
    /\ sender' = [sender EXCEPT ![i] = "gate"]
    /\ UNCHANGED <<drop, walking, running, slots, begun, dropStatus, stamped, firstErr>>

\* mkdirGate.wait, which has no timeout, and the first chunk.
FirstChunk(i) ==
    /\ sender[i] = "gate"
    /\ mode = "stream" => parent[i] \in gates
    /\ transfer[i] # "cancelled"
    /\ begun' = begun \cup {i}
    /\ sender' = [sender EXCEPT ![i] = "send"]
    /\ UNCHANGED <<drop, walking, running, slots, dropRecords, firstErr>>

\* refreshBatchCompletion: a batch none of whose transfers runs is stamped.
refreshBatchCompletion(tr) ==
    stamped' = (stamped \/ (dropStatus = "running" /\ \A i \in Items : tr[i] # "running"))

\* failTransfer.
failed(i) == [transfer EXCEPT ![i] = IF @ \in {"none", "gone"} THEN @ ELSE "error"]

\* The loop finds the transfer cancelled, before its first chunk or later.
\* failTransfer then refreshes the batch, which is Stamp: it may come at any
\* time, of a transfer that ended elsewhere as well.
FoundCancelled(i) ==
    /\ \/ sender[i] = "gate" /\ (mode = "stream" => parent[i] \in gates)
       \/ sender[i] = "send"
    /\ transfer[i] = "cancelled"
    /\ transfer' = IF mode = "list" /\ size = 1 THEN transfer ELSE failed(i)
    /\ endInError(i)
    /\ UNCHANGED <<drop, walking, running, begun, dropStatus, stamped>>

\* A chunk cannot be sent.
ChunkFails(i) ==
    /\ sender[i] = "send"
    /\ transfer' = failed(i)
    /\ refreshBatchCompletion(transfer')
    /\ endInError(i)
    /\ UNCHANGED <<drop, walking, running, begun, dropStatus>>

\* All chunks are out.  The slot is free before the confirmation is there.
Sent(i) ==
    /\ sender[i] = "send"
    /\ sender' = [sender EXCEPT ![i] = "confirm"]
    /\ slots' = slots \ {i}
    /\ UNCHANGED <<drop, walking, running, begun, dropRecords, firstErr>>

\* completeUploadSend: the delivery is confirmed, unless the transfer was
\* cancelled meanwhile it is done.
SendConfirmed(i) ==
    /\ sender[i] = "confirm"
    /\ transfer' = [transfer EXCEPT ![i] = IF @ = "running" THEN "done" ELSE @]
    /\ refreshBatchCompletion(transfer')
    /\ sender' = [sender EXCEPT ![i] = "ended"]
    /\ UNCHANGED <<drop, walking, running, slots, begun, dropStatus, firstErr>>

\* Mutant: the error of a confirmation is not noted.
UnconfirmedSilently(i) ==
    /\ sender[i] = "confirm"
    /\ transfer' = failed(i)
    /\ refreshBatchCompletion(transfer')
    /\ sender' = [sender EXCEPT ![i] = "ended"]
    /\ UNCHANGED <<slots, firstErr, drop, walking, running, begun, dropStatus>>

\* The delivery is rejected, cancelled, or not confirmed in time.
SendUnconfirmed(i) ==
    /\ sender[i] = "confirm"
    /\ transfer' = failed(i)
    /\ refreshBatchCompletion(transfer')
    /\ endInError(i)
    /\ UNCHANGED <<drop, walking, running, begun, dropStatus>>

(***************************************************************************)
(* The user and the progress view.                                         *)
(***************************************************************************)

\* CancelTransfer of one file.
CancelOne(i) ==
    /\ transfer[i] = "running"
    /\ transfer' = [transfer EXCEPT ![i] = "cancelled"]
    /\ UNCHANGED <<drop, walking, running, sending, dropStatus, stamped, firstErr>>

\* CancelUploadBatch.
CancelDrop ==
    /\ dropStatus = "running"
    /\ dropStatus' = "cancelled"
    /\ stamped' = TRUE
    /\ transfer' = [i \in Items |-> IF transfer[i] = "running" THEN "cancelled"
                                    ELSE transfer[i]]
    /\ UNCHANGED <<drop, walking, running, sending, firstErr>>

\* GetTransferBatches stamps a batch it finds without a running transfer.
Stamp ==
    /\ dropStatus = "running"
    /\ ~stamped
    /\ \A i \in Items : transfer[i] # "running"
    /\ stamped' = TRUE
    /\ UNCHANGED <<drop, walking, running, sending, transfer, dropStatus, firstErr>>

\* uploadBatchWindow after the stamp it drops the batch and its transfers,
\* unless one runs at that moment.
PruneDrop ==
    /\ dropStatus # "gone"
    /\ stamped
    /\ \A i \in Items : transfer[i] # "running"
    /\ dropStatus' = "gone"
    /\ transfer' = [i \in Items |-> IF transfer[i] = "none" THEN "none" ELSE "gone"]
    /\ UNCHANGED <<drop, walking, running, sending, stamped, firstErr>>

Walker == Visit \/ WalkFails \/ Mkdir \/ markSent \/ Put \/ CloseTasks

Runner == Alone \/ Receive \/ Drain \/ Acquire \/ NoMore \/ Refuse \/ Return

Sender(i) ==
    \/ Start(i)
    \/ OpenFails(i)
    \/ RegisterFile(i)
    \/ FirstChunk(i)
    \/ FoundCancelled(i)
    \/ ChunkFails(i)
    \/ Sent(i)
    \/ SendConfirmed(i)
    \/ SendUnconfirmed(i)

DropNext ==
    \/ Walker
    \/ Runner
    \/ \E i \in Items : Sender(i) \/ CancelOne(i)
    \/ CancelDrop
    \/ Stamp
    \/ PruneDrop

DropSpec == DropInit /\ [][DropNext]_dropVars

\* A goroutine that is not blocked goes on; socket writes and the wait for a
\* confirmation have deadlines.
DropFairness ==
    /\ WF_dropVars(Walker)
    /\ WF_dropVars(Runner)
    /\ \A i \in Items : WF_dropVars(Sender(i))

DropFairSpec == DropSpec /\ DropFairness

(***************************************************************************)
(* Properties.                                                             *)
(***************************************************************************)

\* Every variable has its type, and only goroutines that send hold a slot.
DropTypeOK ==
    /\ mode \in {"stream", "list"}
    /\ size \in Items
    /\ dirs \subseteq Items
    /\ parent \in [Items -> {Root} \cup dirs]
    /\ bad \subseteq Items
    /\ at \in 1..(N + 1)
    /\ walker \in {"look", "mkdir", "mark", "put", "closed"}
    /\ queue \in Seq(Items \ dirs)
    /\ runner \in {"recv", "acquire", "wait", "returned"}
    /\ task \in {Root} \cup Items
    /\ sender \in [Items -> {"none", "start", "open", "gate", "send", "confirm",
                             "ended"}]
    /\ slots \subseteq {i \in Items : sender[i] \in {"start", "open", "gate", "send"}}
    /\ gates \subseteq {Root} \cup dirs
    /\ mkdirs \subseteq dirs
    /\ begun \subseteq Items
    /\ transfer \in [Items -> {"none", "running", "done", "error", "cancelled", "gone"}]
    /\ dropStatus \in {"running", "cancelled", "gone"}
    /\ stamped \in BOOLEAN
    /\ walkErr \in BOOLEAN
    /\ firstErr \in BOOLEAN

\* No chunk overtakes the mkdir of its folder, and no folder that of its
\* parent, however the senders interleave with the walk (mkdirGate, "a chunk
\* can never overtake its parent mkdir on the shared WS write mutex").
MkdirFirst ==
    \A i \in begun \cup mkdirs : parent[i] \in mkdirs \cup {Root}

\* A drop that returns without an error has left out nothing: every file with
\* a valid path was sent to the end, apart from files cancelled one by one
\* (runUploadStream reports the first error).
NothingLeftOut ==
    runner = "returned" /\ ~walkErr /\ ~firstErr =>
        \A i \in (1..size) \ (dirs \cup bad) :
            /\ i \in begun
            /\ transfer[i] \in {"done", "cancelled", "gone"}

\* Every drop comes to its end, cancelled at any moment or not: the call
\* returns, the walker is not left behind on a full channel, and no sender
\* waits at a gate nobody opens.
DropEnds == <>(runner = "returned" /\ walker = "closed")

=============================================================================
