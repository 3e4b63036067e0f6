--------------------------- MODULE DataMapPacker ---------------------------
(***************************************************************************)
(* Blob kinds, addressing and the recursive data-map packing of            *)
(* src/src/client/blob_apis.rs, as pure operators.                         *)
(*                                                                         *)
(* Values are records.  User data is [type |-> "data", size |-> n]; a      *)
(* blob is [type |-> "blob", public, owner, payload] whose payload is a    *)
(* DataMapLevel [tag |-> "Root" | "Child", map |-> DataMap].  Serialising  *)
(* a blob is modelled by using the blob record itself as the plaintext     *)
(* that is self-encrypted; deserialising the bytes read back through a     *)
(* data map yields that record again.  Only sizes matter for the size      *)
(* check, so each value has an abstract byte size (SizeOf).                *)
(***************************************************************************)
EXTENDS Naturals

CONSTANTS
    MIN_CHUNK_SIZE,
    MAX_CHUNK_SIZE,
    MAX_BLOB_SIZE,      \* validate_size limit (reference: 1 MiB)
    DESCRIPTOR_SIZE,    \* serialised size of one chunk descriptor
    OWNER_SIZE,         \* serialised size of a private blob's owner key
    NoOwner             \* the owner field of a public blob

SE == INSTANCE SelfEncryptor

(* Packing converges only if a blob holding a three-chunk data map fits.   *)
ASSUME 2 + 3 * DESCRIPTOR_SIZE + OWNER_SIZE <= MAX_BLOB_SIZE
ASSUME MAX_BLOB_SIZE >= 3 * MIN_CHUNK_SIZE

UserData(n) == [type |-> "data", size |-> n]

(* DataMapLevel::Root / DataMapLevel::Child                                *)
Level(tag, dataMap) == [tag |-> tag, map |-> dataMap]

(* Serialised size: a level and a data map each carry a tag byte; a       *)
(* chunked map carries one descriptor per chunk, a Content map its bytes. *)
RECURSIVE SizeOf(_)
SizeOf(v) ==
    IF v.type = "data" THEN v.size
    ELSE LET dm == v.payload.map
             mapSize == 1 + IF dm.type = "Content" THEN SizeOf(dm.src)
                            ELSE dm.n * DESCRIPTOR_SIZE
         IN  1 + mapSize + (IF v.public THEN 0 ELSE OWNER_SIZE)

(* self_encryptor.write(data) + close(): the data map of a value.          *)
Encrypt(v) == SE!Encrypt(v, SizeOf(v))

ChunkNames(dataMap) == SE!ChunkNames(dataMap)

(* PublicBlob::new(contents) / PrivateBlob::new(contents, owner)           *)
NewBlob(public, owner, contents) ==
    [type |-> "blob", public |-> public,
     owner |-> IF public THEN NoOwner ELSE owner, payload |-> contents]

(* Blob::validate_size                                                     *)
ValidSize(blob) == SizeOf(blob) <= MAX_BLOB_SIZE

(* Blob::address: the kind tag and a name that hashes the payload, bound   *)
(* to the owner for a private blob.                                        *)
Address(blob) == [public |-> blob.public, name |-> <<blob.payload, blob.owner>>]

(* The address of the same name with the other kind tag, as callers may   *)
(* pass it (BlobAddress::Private of a public name in the tests).          *)
OtherKind(address) == [address EXCEPT !.public = ~address.public]

RECURSIVE Pack(_, _, _), PackAlwaysRoot(_, _, _)

(* Mutant: every level pack adds is tagged Root.                           *)
PackAlwaysRoot(contents, public, owner) ==
    LET data == NewBlob(public, owner, contents)
    IN  IF ValidSize(data) THEN data
        ELSE Pack(Level("Root", Encrypt(data)), public, owner)

(* Client::pack: wrap contents in a blob; while it is too big, self-       *)
(* encrypt the serialised blob and wrap the resulting Child data map.      *)
Pack(contents, public, owner) ==
    LET data == NewBlob(public, owner, contents)
    IN  IF ValidSize(data) THEN data
        ELSE Pack(Level("Child", Encrypt(data)), public, owner)

(* create_new_blob without the network: the blob whose address the store  *)
(* returns for user data d.                                                *)
PackedBlob(d, public, owner) == Pack(Level("Root", Encrypt(d)), public, owner)

(* Client::blob_data_map: the dry-run loop.  It encrypts first and wraps   *)
(* second, tags only the first iteration Root, and returns the data map of *)
(* the LAST iteration together with the address of the final blob.         *)
RECURSIVE DryRun(_, _, _), DryRunNeverChild(_, _, _)

(* Mutant: is_original_data is never cleared.                              *)
DryRunNeverChild(data, isOriginalData, privatelyOwned) ==
    LET dataMap == Encrypt(data)
        blob == NewBlob(privatelyOwned = NoOwner, privatelyOwned, Level("Root", dataMap))
    IN  IF ValidSize(blob) THEN [dataMap |-> dataMap, address |-> Address(blob)]
        ELSE DryRun(blob, TRUE, privatelyOwned)

DryRun(data, isOriginalData, privatelyOwned) ==
    LET dataMap == Encrypt(data)
        blobContent == Level(IF isOriginalData THEN "Root" ELSE "Child", dataMap)
        blob == NewBlob(privatelyOwned = NoOwner, privatelyOwned, blobContent)
    IN  IF ValidSize(blob) THEN [dataMap |-> dataMap, address |-> Address(blob)]
        ELSE DryRun(blob, FALSE, privatelyOwned)

BlobDataMap(d, privatelyOwned) == DryRun(d, TRUE, privatelyOwned)

(* Client::unpack: peel Child levels, reading each child data map back to  *)
(* the serialised blob it encrypted, until the Root data map is reached.   *)
RECURSIVE Unpack(_)
Unpack(blob) ==
    IF blob.payload.tag = "Root" THEN blob.payload.map
    ELSE Unpack(blob.payload.map.src)

(* Every chunk name referenced by the data-map chain of a blob.            *)
RECURSIVE ChainChunkNames(_)
ChainChunkNames(blob) ==
    ChunkNames(blob.payload.map)
        \cup (IF blob.payload.tag = "Root" THEN {}
              ELSE ChainChunkNames(blob.payload.map.src))

=============================================================================
