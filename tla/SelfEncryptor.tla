--------------------------- MODULE SelfEncryptor ---------------------------
(***************************************************************************)
(* The chunking policy of the self-encryptor (spec section 4.1).  The      *)
(* self_encryption crate is not part of this repository, so these          *)
(* operators are modelled from the specification.                          *)
(*                                                                         *)
(* Content is abstract: a value that is encrypted is represented by itself *)
(* (its "source"), and chunk i of source s is the pair <<s, i>>.  Because  *)
(* the hash is injective in the model, equal sources give equal chunks     *)
(* (convergent encryption) and distinct sources give disjoint chunks.      *)
(***************************************************************************)
EXTENDS Naturals, Sequences

CONSTANTS
    MIN_CHUNK_SIZE,     \* reference value 1 KiB
    MAX_CHUNK_SIZE      \* reference value 1 MiB

ASSUME MIN_CHUNK_SIZE \in Nat \ {0}
ASSUME MAX_CHUNK_SIZE \in Nat /\ MAX_CHUNK_SIZE >= 2 * MIN_CHUNK_SIZE

(* Number of chunks for a plaintext of length fileSize; 0 means the        *)
(* plaintext is kept inline in a DataMap::Content.                         *)
NumChunks(fileSize) ==
    IF fileSize < 3 * MIN_CHUNK_SIZE THEN 0
    ELSE IF fileSize < 3 * MAX_CHUNK_SIZE THEN 3
    ELSE IF fileSize % MAX_CHUNK_SIZE = 0 THEN fileSize \div MAX_CHUNK_SIZE
    ELSE fileSize \div MAX_CHUNK_SIZE + 1

(* Plaintext size of chunk i (1-based) of a plaintext of length fileSize:  *)
(* full chunks, then a tail whose last two chunks are kept >= MIN by       *)
(* moving bytes out of the penultimate chunk.                              *)
ChunkSize(fileSize, i) ==
    LET n == NumChunks(fileSize)
        remainder == fileSize % MAX_CHUNK_SIZE
        penultimate == (i = n - 1)
    IN  IF n = 0 THEN 0
        ELSE IF fileSize < 3 * MAX_CHUNK_SIZE
             THEN IF i < 3 THEN fileSize \div 3
                  ELSE fileSize - 2 * (fileSize \div 3)
        ELSE IF i < n - 1 \/ remainder = 0 THEN MAX_CHUNK_SIZE
        ELSE IF remainder < MIN_CHUNK_SIZE
             THEN IF penultimate THEN MAX_CHUNK_SIZE - MIN_CHUNK_SIZE
                  ELSE MIN_CHUNK_SIZE + remainder
        ELSE IF penultimate THEN MAX_CHUNK_SIZE ELSE remainder

ChunkSizes(fileSize) == [i \in 1..NumChunks(fileSize) |-> ChunkSize(fileSize, i)]

(* SelfEncryptor::write followed by close: the data map of a source of the *)
(* given size.  For a chunked map, n descriptors; for a small one, the     *)
(* content inline.                                                         *)
Encrypt(src, size) ==
    IF NumChunks(size) = 0
    THEN [type |-> "Content", src |-> src, n |-> 0]
    ELSE [type |-> "Chunks", src |-> src, n |-> NumChunks(size)]

(* The post-encryption names of the chunks a data map refers to.           *)
ChunkNames(dataMap) == {<<dataMap.src, i>> : i \in 1..dataMap.n}

-----------------------------------------------------------------------------
(* Random-access reads (spec section 4.1, "Read with range").  Plaintext   *)
(* byte k of a source of length fileSize is represented by k itself, so a  *)
(* byte served from the wrong offset is told apart from the right one.     *)
Plaintext(fileSize) == [k \in 1..fileSize |-> k]

(* Offset of the first byte of chunk i: the prefix sum of the sizes of     *)
(* chunks 1..i-1.                                                          *)
RECURSIVE ChunkStart(_, _)
ChunkStart(fileSize, i) ==
    IF i <= 1 THEN 0 ELSE ChunkStart(fileSize, i - 1) + ChunkSize(fileSize, i - 1)

(* The decrypted content of chunk i.                                       *)
ChunkBytes(fileSize, i) ==
    [k \in 1..ChunkSize(fileSize, i) |-> ChunkStart(fileSize, i) + k]

(* SelfEncryptor::read(position, length): the request clipped to           *)
(* [0, fileSize); inline content is sliced directly, a chunked map fetches *)
(* the covered chunks i0..i1 and splices the requested slice out of them.  *)
Read(fileSize, position, length) ==
    LET lo == IF position < fileSize THEN position ELSE fileSize
        hi == IF position + length < fileSize THEN position + length ELSE fileSize
        n == NumChunks(fileSize)
        covered == {i \in 1..n : /\ ChunkStart(fileSize, i) < hi
                                 /\ ChunkStart(fileSize, i) + ChunkSize(fileSize, i) > lo}
    IN  IF n = 0 THEN SubSeq(Plaintext(fileSize), lo + 1, hi)
        ELSE IF covered = {} THEN <<>>
        ELSE LET i0 == CHOOSE i \in covered : \A j \in covered : i <= j
                 i1 == CHOOSE i \in covered : \A j \in covered : i >= j
                 RECURSIVE Splice(_)
                 Splice(i) == IF i > i1 THEN <<>>
                              ELSE ChunkBytes(fileSize, i) \o Splice(i + 1)
                 base == ChunkStart(fileSize, i0)
             IN  SubSeq(Splice(i0), lo - base + 1, hi - base)

(* Mutant: the position and length are passed to read the other way round. *)
ReadUsingDataMapSwapped(fileSize, position, len, None) ==
    LET length == IF len = None THEN fileSize ELSE len
        read_position == IF position = None THEN 0 ELSE position
    IN  Read(fileSize, length, read_position)

(* ClientBlobApis::read_using_data_map: a missing length means the whole   *)
(* plaintext (self_encryptor.len()), a missing position means 0; the pair  *)
(* is handed to SelfEncryptor::read.                                       *)
ReadUsingDataMap(fileSize, position, len, None) ==
    LET length == IF len = None THEN fileSize ELSE len
        read_position == IF position = None THEN 0 ELSE position
    IN  Read(fileSize, read_position, length)

=============================================================================
