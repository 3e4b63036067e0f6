----------------------------- MODULE BlobClient -----------------------------
(***************************************************************************)
(* The blob client facade of src/src/client/blob_apis.rs: store_public_    *)
(* blob / store_private_blob (create_new_blob, write_to_network, pack,     *)
(* store_blob_on_network), read_blob (fetch_blob_from_network, unpack,     *)
(* read_using_data_map) and delete_blob (delete_blob_from_network,         *)
(* delete_using_data_map), run by concurrent tasks against one network.    *)
(*                                                                         *)
(* Every await on a network request is a step of its own; the CPU work     *)
(* between two awaits (self-encryption, wrapping, the size check) belongs  *)
(* to the step that ends at the next await.  The chunk gets, puts and      *)
(* deletes of one self-encryptor call may complete in any order.           *)
(*                                                                         *)
(* The network (not part of this repository, modelled from spec sections  *)
(* 4.2 and 6) keeps the data-map blobs and the chunks.  A request may fail *)
(* (StorageFailure: timeout or transport error) either before the network  *)
(* applied it or after, at most MaxFailures times in a behaviour; the      *)
(* client never retries at this layer.                                     *)
(***************************************************************************)
EXTENDS Naturals, FiniteSets

CONSTANTS
    MIN_CHUNK_SIZE, MAX_CHUNK_SIZE, MAX_BLOB_SIZE, DESCRIPTOR_SIZE,
    OWNER_SIZE, NoOwner,
    Clients,        \* client public keys (the owners of private blobs)
    Tasks,          \* concurrently running operations
    TaskClient,     \* the client each task runs on: [Tasks -> Clients]
    DataSizes,      \* lengths of the user data that is stored
    MaxOps,         \* operations each task runs
    MaxFailures,    \* failed network requests in a behaviour
    MAX_PACK_DEPTH  \* bound on Child levels one pack may add

ASSUME TaskClient \in [Tasks -> Clients]
ASSUME NoOwner \notin Clients

INSTANCE DataMapPacker

VARIABLES
    blobs,      \* data-map blobs held by the network
    chunks,     \* chunk addresses held by the network
    task,       \* per-task state of the operation it is running
    failures    \* network requests that failed so far

vars == <<blobs, chunks, task, failures>>

Owner(t) == TaskClient[t]

(* Mutant: a public chunk's address keeps the owner.                        *)
ChunkAddrAlwaysOwned(public, owner, name) ==
    [public |-> public, owner |-> owner, name |-> name]

(* BlobStorage::generate_address: a chunk is stored as a public blob, or   *)
(* as a private blob owned by the client running the self-encryptor.      *)
ChunkAddr(public, owner, name) ==
    [public |-> public, owner |-> IF public THEN NoOwner ELSE owner, name |-> name]

(* The blobs pack can produce, and the addresses a task calls read_blob    *)
(* and delete_blob with: those of the public blobs and of its client's     *)
(* private blobs, each also with the other kind tag.                       *)
StoredBlobs == {PackedBlob(UserData(s), p, o) : s \in DataSizes, p \in BOOLEAN, o \in Clients}
CallAddresses == [t \in Tasks |->
    LET own == {Address(PackedBlob(UserData(s), p, Owner(t))) : s \in DataSizes, p \in BOOLEAN}
    IN  own \cup {OtherKind(a) : a \in own}]
AllChunkAddrs ==
    UNION {{ChunkAddr(b.public, b.owner, n) : n \in ChainChunkNames(b)} : b \in StoredBlobs}

(* Outcomes of a request: answered; failed before the network applied it; *)
(* failed (timed out) after the network applied it.                        *)
Outcomes(readOnly) ==
    IF failures < MaxFailures
    THEN IF readOnly THEN {"ok", "lost"} ELSE {"ok", "lost", "late"}
    ELSE {"ok"}

Failed(outcome) == failures' = failures + IF outcome = "ok" THEN 0 ELSE 1

(* A task between operations: ops counts the operations it has run, ok    *)
(* tells whether the last one returned Ok.  The value an operation returns *)
(* is what the returning step computes from the task's state.              *)
Idle(ops, ok) ==
    [op |-> "idle", pc |-> "idle", public |-> FALSE, arg |-> NoOwner,
     address |-> NoOwner, src |-> NoOwner, tag |-> "Root", blob |-> NoOwner,
     pending |-> {}, depth |-> 0, ops |-> ops, ok |-> ok]

TypeOK ==
    /\ blobs \subseteq StoredBlobs
    /\ chunks \subseteq AllChunkAddrs
    /\ failures \in 0..MaxFailures
    /\ \A t \in Tasks :
        /\ task[t].op \in {"idle", "store", "read", "delete"}
        /\ task[t].pc \in {"idle", "write", "put_blob", "fetch", "read_chunks",
                           "del_fetch", "del_root", "del_read", "del_chunks"}
        /\ task[t].ops \in 0..MaxOps
        /\ task[t].depth \in 0..MAX_PACK_DEPTH
        /\ task[t].ok \in BOOLEAN

Init ==
    /\ blobs = {}
    /\ chunks = {}
    /\ failures = 0
    /\ task = [t \in Tasks |-> Idle(0, FALSE)]

(* The task returns from its operation, with Ok or with the named error.   *)
Return(t, ok, value) == task' = [task EXCEPT ![t] = Idle(task[t].ops + 1, ok)]

Set(t, changes) == task' = [task EXCEPT ![t] = changes]

-----------------------------------------------------------------------------
(* store_public_blob / store_private_blob -> create_new_blob:              *)
(* write_to_network(data) starts the self-encryptor on the user data.      *)
StartStore(t, size, public) ==
    /\ task[t].op = "idle" /\ task[t].ops < MaxOps
    /\ LET d == UserData(size) IN
       Set(t, [task[t] EXCEPT !.op = "store", !.pc = "write", !.public = public,
                 !.arg = d, !.src = d, !.tag = "Root", !.depth = 0,
                 !.pending = ChunkNames(Encrypt(d))])
    /\ UNCHANGED <<blobs, chunks, failures>>

(* BlobStorage::put of one chunk through store_blob_on_network; a failed   *)
(* put makes close(), write_to_network and the store fail.                 *)
PutChunk(t, name) ==
    /\ task[t].pc = "write" /\ name \in task[t].pending
    /\ \E outcome \in Outcomes(FALSE) :
        /\ chunks' = IF outcome = "lost" THEN chunks
                     ELSE chunks \cup {ChunkAddr(task[t].public, Owner(t), name)}
        /\ IF outcome = "ok"
           THEN Set(t, [task[t] EXCEPT !.pending = @ \ {name}])
           ELSE Return(t, FALSE, "StorageFailure")
        /\ Failed(outcome)
    /\ UNCHANGED blobs

(* write_to_network returns the data map; create_new_blob / pack wrap it   *)
(* in a DataMapLevel (Root for the user data, Child afterwards) and a blob *)
(* of the task's kind.  A blob that passes validate_size goes to the       *)
(* network; otherwise pack serialises it and self-encrypts it again.       *)
WriteDone(t) ==
    /\ task[t].pc = "write" /\ task[t].pending = {}
    /\ LET contents == Level(task[t].tag, Encrypt(task[t].src))
           data == NewBlob(task[t].public, Owner(t), contents)
       IN  IF ValidSize(data)
           THEN Set(t, [task[t] EXCEPT !.pc = "put_blob", !.blob = data])
           ELSE /\ task[t].depth < MAX_PACK_DEPTH
                /\ Set(t, [task[t] EXCEPT !.src = data, !.tag = "Child",
                            !.depth = @ + 1, !.pending = ChunkNames(Encrypt(data))])
    /\ UNCHANGED <<blobs, chunks, failures>>

(* Mutant: the result of the PutBlob command is not propagated.            *)
PutBlobIgnoresError(t) ==
    /\ task[t].pc = "put_blob"
    /\ ValidSize(task[t].blob)
    /\ \E outcome \in Outcomes(FALSE) :
        /\ blobs' = IF outcome = "lost" THEN blobs ELSE blobs \cup {task[t].blob}
        /\ Return(t, TRUE, Address(task[t].blob))
        /\ Failed(outcome)
    /\ UNCHANGED chunks

(* store_blob_on_network(blob): the size check, then the PutBlob command;  *)
(* create_new_blob returns the blob's address.                             *)
PutBlob(t) ==
    /\ task[t].pc = "put_blob"
    /\ ValidSize(task[t].blob)
    /\ \E outcome \in Outcomes(FALSE) :
        /\ blobs' = IF outcome = "lost" THEN blobs ELSE blobs \cup {task[t].blob}
        /\ IF outcome = "ok" THEN Return(t, TRUE, Address(task[t].blob))
           ELSE Return(t, FALSE, "StorageFailure")
        /\ Failed(outcome)
    /\ UNCHANGED chunks

-----------------------------------------------------------------------------
(* GetBlob(address): the network answers with the blob if it holds one at  *)
(* that address that the caller may read (public, or owned by the caller). *)
Fetchable(t, address) ==
    {b \in blobs : Address(b) = address /\ (b.public \/ b.owner = Owner(t))}

(* read_blob(address, None, None)                                          *)
StartRead(t, address) ==
    /\ task[t].op = "idle" /\ task[t].ops < MaxOps
    /\ Set(t, [task[t] EXCEPT !.op = "read", !.pc = "fetch", !.address = address,
                 !.public = address.public])
    /\ UNCHANGED <<blobs, chunks, failures>>

(* fetch_blob_from_network, then unpack starts on the blob: whatever its   *)
(* level, the chunks of its data map are read next.                        *)
FetchBlob(t) ==
    /\ task[t].pc = "fetch"
    /\ \E outcome \in Outcomes(TRUE) :
        /\ IF outcome = "ok" /\ Fetchable(t, task[t].address) # {}
           THEN LET b == CHOOSE b \in Fetchable(t, task[t].address) : TRUE
                IN  Set(t, [task[t] EXCEPT !.pc = "read_chunks", !.blob = b,
                              !.pending = ChunkNames(b.payload.map)])
           ELSE Return(t, FALSE, IF outcome = "ok" THEN "NotFound" ELSE "StorageFailure")
        /\ Failed(outcome)
    /\ UNCHANGED <<blobs, chunks>>

(* The kind of the chunk store a level is read with: unpack uses the       *)
(* fetched blob's kind, the final read_using_data_map the address's kind.  *)
ReadKind(t) ==
    IF task[t].blob.payload.tag = "Root" THEN task[t].address.public
    ELSE task[t].blob.public

(* BlobStorage::get of one chunk during a read.                            *)
GetChunk(t, name) ==
    /\ task[t].pc = "read_chunks" /\ name \in task[t].pending
    /\ \E outcome \in Outcomes(TRUE) :
        /\ IF outcome = "ok" /\ ChunkAddr(ReadKind(t), Owner(t), name) \in chunks
           THEN Set(t, [task[t] EXCEPT !.pending = @ \ {name}])
           ELSE Return(t, FALSE, IF outcome = "ok" THEN "NotFound" ELSE "StorageFailure")
        /\ Failed(outcome)
    /\ UNCHANGED <<blobs, chunks>>

(* Mutant: the bytes read back through a Child data map are not            *)
(* deserialised into the next blob, so the same level is read again.       *)
ReadDoneKeepsBlob(t) ==
    /\ task[t].pc = "read_chunks" /\ task[t].pending = {}
    /\ IF task[t].blob.payload.tag = "Root"
       THEN Return(t, TRUE, task[t].blob.payload.map.src)
       ELSE Set(t, [task[t] EXCEPT !.pending = ChunkNames(task[t].blob.payload.map)])
    /\ UNCHANGED <<blobs, chunks, failures>>

(* All chunks of the level read: a Root level yields the user data; a      *)
(* Child level yields the serialised blob it wrapped, which unpack         *)
(* deserialises and continues with.                                        *)
ReadDone(t) ==
    /\ task[t].pc = "read_chunks" /\ task[t].pending = {}
    /\ LET level == task[t].blob.payload
       IN  IF level.tag = "Root"
           THEN Return(t, TRUE, level.map.src)
           ELSE Set(t, [task[t] EXCEPT !.blob = level.map.src,
                          !.pending = ChunkNames(level.map.src.payload.map)])
    /\ UNCHANGED <<blobs, chunks, failures>>

-----------------------------------------------------------------------------
(* delete_blob(address)                                                    *)
StartDelete(t, address) ==
    /\ task[t].op = "idle" /\ task[t].ops < MaxOps
    /\ Set(t, [task[t] EXCEPT !.op = "delete", !.pc = "del_fetch", !.address = address])
    /\ UNCHANGED <<blobs, chunks, failures>>

DelFetch(t) ==
    /\ task[t].pc = "del_fetch"
    /\ \E outcome \in Outcomes(TRUE) :
        /\ IF outcome = "ok" /\ Fetchable(t, task[t].address) # {}
           THEN Set(t, [task[t] EXCEPT !.pc = "del_root",
                          !.blob = CHOOSE b \in Fetchable(t, task[t].address) : TRUE])
           ELSE Return(t, FALSE, IF outcome = "ok" THEN "NotFound" ELSE "StorageFailure")
        /\ Failed(outcome)
    /\ UNCHANGED <<blobs, chunks>>

(* The next step of the delete loop on a blob: a Root level has its chunks *)
(* deleted; a Child level is first read back, then its chunks deleted.     *)
DeleteLevel(t, blob) ==
    Set(t, [task[t] EXCEPT !.blob = blob, !.pending = ChunkNames(blob.payload.map),
              !.pc = IF blob.payload.tag = "Root" THEN "del_chunks" ELSE "del_read"])

(* delete_blob_from_network(address): the DeletePrivate command.  The      *)
(* network accepts it only for a private blob it holds that the caller     *)
(* owns.  Then the loop over the fetched blob's levels starts.             *)
DelRoot(t) ==
    /\ task[t].pc = "del_root"
    /\ LET address == task[t].address
           accepted == ~address.public /\ Fetchable(t, address) # {}
       IN  \E outcome \in Outcomes(FALSE) :
            /\ blobs' = IF outcome # "lost" /\ accepted
                        THEN {b \in blobs : Address(b) # address} ELSE blobs
            /\ IF outcome = "ok" /\ accepted THEN DeleteLevel(t, task[t].blob)
               ELSE Return(t, FALSE, IF outcome # "ok" THEN "StorageFailure"
                                     ELSE IF address.public THEN "InvalidOperation"
                                     ELSE "NotFound")
            /\ Failed(outcome)
    /\ UNCHANGED chunks

(* read_using_data_map(child, false): BlobStorage::get of one chunk.       *)
DelGetChunk(t, name) ==
    /\ task[t].pc = "del_read" /\ name \in task[t].pending
    /\ \E outcome \in Outcomes(TRUE) :
        /\ IF outcome = "ok" /\ ChunkAddr(FALSE, Owner(t), name) \in chunks
           THEN Set(t, [task[t] EXCEPT !.pending = @ \ {name}])
           ELSE Return(t, FALSE, IF outcome = "ok" THEN "NotFound" ELSE "StorageFailure")
        /\ Failed(outcome)
    /\ UNCHANGED <<blobs, chunks>>

(* The child level has been read back; delete_using_data_map(child) next.  *)
DelReadDone(t) ==
    /\ task[t].pc = "del_read" /\ task[t].pending = {}
    /\ Set(t, [task[t] EXCEPT !.pc = "del_chunks",
                 !.pending = ChunkNames(task[t].blob.payload.map)])
    /\ UNCHANGED <<blobs, chunks, failures>>

(* BlobStorage::delete of one chunk: DeletePrivate of the chunk's private  *)
(* address; deleting a chunk that is not there is a no-op (spec 4.2).      *)
DelChunk(t, name) ==
    /\ task[t].pc = "del_chunks" /\ name \in task[t].pending
    /\ \E outcome \in Outcomes(FALSE) :
        /\ chunks' = IF outcome = "lost" THEN chunks
                     ELSE chunks \ {ChunkAddr(FALSE, Owner(t), name)}
        /\ IF outcome = "ok"
           THEN Set(t, [task[t] EXCEPT !.pending = @ \ {name}])
           ELSE Return(t, FALSE, "StorageFailure")
        /\ Failed(outcome)
    /\ UNCHANGED blobs

(* Mutant: delete_blob returns after the first level's chunks.             *)
DelChunksDoneFirstLevelOnly(t) ==
    /\ task[t].pc = "del_chunks" /\ task[t].pending = {}
    /\ Return(t, TRUE, "Ok")
    /\ UNCHANGED <<blobs, chunks, failures>>

(* A level's chunks are deleted: after a Root level delete_blob returns    *)
(* Ok; after a Child level the blob read back is the next level.           *)
DelChunksDone(t) ==
    /\ task[t].pc = "del_chunks" /\ task[t].pending = {}
    /\ IF task[t].blob.payload.tag = "Root"
       THEN Return(t, TRUE, "Ok")
       ELSE DeleteLevel(t, task[t].blob.payload.map.src)
    /\ UNCHANGED <<blobs, chunks, failures>>

-----------------------------------------------------------------------------
(* Every task has run its operations and returned.                         *)
Finished ==
    /\ \A t \in Tasks : task[t].op = "idle" /\ task[t].ops = MaxOps
    /\ UNCHANGED vars

(* The chunk requests of one self-encryptor call are issued in data-map    *)
(* order: the outstanding chunk with the lowest index goes next.           *)
NextChunk(t) == {n \in task[t].pending : \A m \in task[t].pending : n[2] <= m[2]}

(* The steps a running operation takes on its own once started.            *)
Progress(t) ==
    \/ \E n \in NextChunk(t) : PutChunk(t, n) \/ GetChunk(t, n)
                              \/ DelGetChunk(t, n) \/ DelChunk(t, n)
    \/ WriteDone(t) \/ PutBlob(t)
    \/ FetchBlob(t) \/ ReadDone(t)
    \/ DelFetch(t) \/ DelRoot(t) \/ DelReadDone(t) \/ DelChunksDone(t)

Next ==
    \/ \E t \in Tasks :
        \/ \E s \in DataSizes, p \in BOOLEAN : StartStore(t, s, p)
        \/ \E a \in CallAddresses[t] : StartRead(t, a) \/ StartDelete(t, a)
        \/ Progress(t)
    \/ Finished

(* Each awaited request is answered or times out, and the executor polls   *)
(* every ready task, so a started operation keeps taking steps.  Callers   *)
(* are not obliged to start operations.                                    *)
Spec == Init /\ [][Next]_vars /\ \A t \in Tasks : WF_vars(Progress(t))

-----------------------------------------------------------------------------
(***************************************************************************)
(* Properties                                                              *)
(***************************************************************************)

(* The blob an address names, if pack can produce it.                      *)
BlobAt == [a \in {Address(b) : b \in StoredBlobs} |->
             CHOOSE b \in StoredBlobs : Address(b) = a]

(* The chunk names of each blob's data-map chain.                          *)
ChainNames == [b \in StoredBlobs |-> ChainChunkNames(b)]

(* A step in which task t's delete_blob returns Ok.                        *)
DeleteReturnsOk(t) ==
    task[t].op = "delete" /\ task'[t].op = "idle" /\ task'[t].ok

(* P7: when delete_blob returns Ok, the blob and every chunk of every      *)
(* level of its data-map chain are gone from the network.                  *)
DeleteRemovesChain ==
    [][\A t \in Tasks :
        DeleteReturnsOk(t) =>
            LET b == BlobAt[task[t].address] IN
            /\ \A n \in ChainNames[b] : ChunkAddr(FALSE, Owner(t), n) \notin chunks'
            /\ b \notin blobs']_vars

(* Every operation that starts returns: the pack loop converges, unpack    *)
(* and the delete loop reach the Root level, and no task waits forever.    *)
OperationsReturn ==
    \A t \in Tasks : task[t].op # "idle" ~> task[t].op = "idle"

-----------------------------------------------------------------------------
(***************************************************************************)
(* Refinement of the abstract store BlobStore                              *)
(***************************************************************************)

(* The entry a stored blob stands for: its address and the user data its   *)
(* Root level holds.  (A constant function, so TLC computes it once.)      *)
EntryOf == [b \in StoredBlobs |-> <<Address(b), Unpack(b).src>>]

(* The entry a store call adds: blob_data_map's address for the data.      *)
DryRunEntry == [o \in Clients \cup {NoOwner} |->
                  [s \in DataSizes |->
                     <<BlobDataMap(UserData(s), o).address, UserData(s)>>]]
StoreEntry(t) ==
    DryRunEntry[IF task[t].public THEN NoOwner ELSE Owner(t)][task[t].arg.size]

(* A read has observed the blob once fetched; a delete has taken effect    *)
(* once the DeletePrivate of the blob was accepted.                        *)
AbsOp(t) ==
    CASE task[t].op = "idle"  -> [kind |-> "idle", arg |-> NoOwner, done |-> FALSE]
      [] task[t].op = "store" -> [kind |-> "store", arg |-> StoreEntry(t), done |-> FALSE]
      [] OTHER -> [kind |-> task[t].op, arg |-> task[t].address,
                   done |-> task[t].pc \in {"read_chunks", "del_read", "del_chunks"}]

Abs == INSTANCE BlobStore WITH
        store     <- {EntryOf[b] : b \in blobs},
        op        <- [t \in Tasks |-> AbsOp(t)],
        ok        <- [t \in Tasks |-> task[t].ok],
        faults    <- failures,
        Entries   <- {DryRunEntry[o][s] : o \in Clients \cup {NoOwner}, s \in DataSizes},
        Addresses <- UNION {CallAddresses[t] : t \in Tasks},
        MayRead   <- LAMBDA t, a : a.public \/ a.name[2] = Owner(t),
        MayDelete <- LAMBDA t, a : ~a.public /\ a.name[2] = Owner(t),
        NoArg     <- NoOwner

(* The facade implements BlobStore: every step is a step of the abstract   *)
(* store or leaves it unchanged.  So store_*_blob returns Ok only with the *)
(* entry for blob_data_map's address and the data held; read_blob returns  *)
(* Ok only after fetching a blob at the address, and NotFound only when    *)
(* no blob the caller may read is there; delete_blob returns Ok only after *)
(* removing the blob; and nothing changes the store but a pending call of  *)
(* the caller allowed to, a network error included.                        *)
BlobStoreRefinement == Abs!Spec

=============================================================================
