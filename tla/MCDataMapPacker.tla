-------------------------- MODULE MCDataMapPacker --------------------------
(***************************************************************************)
(* Sweeps every user-data length 0..MaxFileSize, for a public blob and for *)
(* a private blob of each owner, through the store-side packing and the    *)
(* dry-run address computation.                                            *)
(***************************************************************************)
EXTENDS Naturals

CONSTANTS MIN_CHUNK_SIZE, MAX_CHUNK_SIZE, MAX_BLOB_SIZE, DESCRIPTOR_SIZE,
          OWNER_SIZE, NoOwner, Owners, MaxFileSize

INSTANCE DataMapPacker

VARIABLES fileSize, owner

vars == <<fileSize, owner>>

Init == fileSize = 0 /\ owner \in Owners \cup {NoOwner}

NextSize == fileSize < MaxFileSize /\ fileSize' = fileSize + 1 /\ UNCHANGED owner

SweepDone == fileSize = MaxFileSize /\ UNCHANGED vars

Next == NextSize \/ SweepDone

Spec == Init /\ [][Next]_vars

Data == UserData(fileSize)
Public == owner = NoOwner

(* P2/I1: the address blob_data_map computes for data without touching    *)
(* the network equals the address create_new_blob + pack returns for the  *)
(* same data, kind and owner.  The two loops are written differently (the  *)
(* dry run encrypts before wrapping and tracks is_original_data), so they  *)
(* agree only if both tag exactly the first level Root and wrap the same   *)
(* bytes at every later level.                                             *)
DryRunMatchesStore ==
    BlobDataMap(Data, owner).address = Address(PackedBlob(Data, Public, owner))

(* I2 and I4: the blob pack hands to the network satisfies validate_size,  *)
(* and unpacking it (peeling Child levels) ends at the Root data map of    *)
(* the user's data, so a read returns what was stored.                     *)
PackedBlobRoundTrips ==
    LET blob == PackedBlob(Data, Public, owner)
    IN  /\ ValidSize(blob)
        /\ Unpack(blob) = Encrypt(Data)

(* Spec 4.4: blob_data_map(data, owner?) returns (root_data_map, address). *)
DryRunReturnsRootDataMap ==
    BlobDataMap(Data, owner).dataMap = Encrypt(Data)

=============================================================================
