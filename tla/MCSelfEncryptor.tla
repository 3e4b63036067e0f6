-------------------------- MODULE MCSelfEncryptor --------------------------
(***************************************************************************)
(* Sweeps every plaintext length 0..MaxReadSize and, for each, every read  *)
(* position (in range, one past the end, or omitted), one pair per state,  *)
(* and checks every length of read_blob's range read against the slice of  *)
(* the plaintext it must return.                                           *)
(***************************************************************************)
EXTENDS Naturals, Sequences

CONSTANTS MIN_CHUNK_SIZE, MAX_CHUNK_SIZE,
          MaxReadSize,  \* largest plaintext whose range reads are checked
          None          \* Option::None for position and len

INSTANCE SelfEncryptor

VARIABLES fileSize, position

vars == <<fileSize, position>>

(* The position and len arguments read_blob may be called with.            *)
Args(size) == (0..size + 1) \cup {None}

Init == fileSize = 0 /\ position = None

NextPosition ==
    /\ position # fileSize + 1
    /\ position' = IF position = None THEN 0 ELSE position + 1
    /\ UNCHANGED fileSize

NextSize ==
    /\ position = fileSize + 1 /\ fileSize < MaxReadSize
    /\ fileSize' = fileSize + 1 /\ position' = None

SweepDone ==
    /\ position = fileSize + 1 /\ fileSize = MaxReadSize
    /\ UNCHANGED vars

Next == NextPosition \/ NextSize \/ SweepDone

Spec == Init /\ [][Next]_vars

(* The slice D[pos .. pos+len) of the plaintext, cut at its end.           *)
Slice(d, pos, len) ==
    SubSeq(d, pos + 1, IF pos + len < Len(d) THEN pos + len ELSE Len(d))

(* P3 and the range contract of read_blob(address, position, len): for    *)
(* every length, in range, past the end or omitted (None), the bytes       *)
(* returned are exactly the slice of the stored plaintext from the         *)
(* position (0 if omitted) of the length asked for (to the end if          *)
(* omitted), clipped to the plaintext; an empty intersection is empty.    *)
(* It rests on read_using_data_map's defaults agreeing with the chunk     *)
(* offsets that SelfEncryptor::read splices across chunk boundaries.      *)
RangeReadReturnsSlice ==
    LET d == Plaintext(fileSize)
        p == IF position = None THEN 0 ELSE position
    IN  \A len \in Args(fileSize) :
            LET l == IF len = None THEN fileSize - p ELSE len
            IN  ReadUsingDataMap(fileSize, position, len, None) = Slice(d, p, l)

=============================================================================
