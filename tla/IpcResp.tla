------------------------------- MODULE IpcResp -------------------------------
(***************************************************************************)
(* The FFI conversions of safe_core/src/ipc/resp.rs: AuthGranted (with     *)
(* AppKeys, AccessContInfo and the access container entry), AppAccess,     *)
(* UserMetadata and MDataEntry are turned into their C representations     *)
(* (into_repr_c, into_md_response, as_repr_c) and cloned back              *)
(* (clone_from_repr_c), against an explicit heap of raw allocations.       *)
(*                                                                         *)
(* A conversion is one step: it allocates, in evaluation order, the        *)
(* buffers it hands out with into_raw / vec_into_raw_parts; on an early    *)
(* return (`?` on a NUL byte in a string) the values that own their        *)
(* memory are dropped and the raw pointers already made are not.  The C    *)
(* side holds the representations, clones them back and frees them; the   *)
(* Drop impls of the ffi structs (outside this repository) free every      *)
(* pointer a representation holds.  Byte-array conversions of key, name    *)
(* and nonce types are Bytes / FromBytes; conversions of types defined     *)
(* outside this repository (MDataInfo, ContainerPermissions, PermissionSet) *)
(* are Opaque / FromOpaque.                                                *)
(***************************************************************************)
EXTENDS Naturals, Sequences, FiniteSets, SequencesExt

CONSTANTS
    Strings,        \* Rust String values
    NulStrings,     \* those with an interior NUL byte: CString::new fails
    None,           \* Option::None
    NullPtr,        \* ptr::null()
    Crash,          \* a process crash of undefined behaviour
    Kinds,          \* the conversions the C side calls
    AppAccessOpt,   \* the values of AppAccess name / app_id given
    MaxAllocs,      \* bound on the allocations of a behaviour
    MaxCalls        \* bound on the conversions of a behaviour

ASSUME NulStrings \subseteq Strings
ASSUME Kinds \subseteq {"AuthGranted", "AppAccess", "UserMetadata", "MDataEntry"}

VARIABLES
    mem,        \* contents of every allocation made: [1..nextId-1 -> value]
    live,       \* allocations not freed
    nextId,     \* the next allocation
    reprs,      \* C representations held by the C side
    lastClone,  \* the last clone_from_repr_c: source value and result
    calls       \* conversions called so far

vars == <<mem, live, nextId, reprs, lastClone, calls>>

Bytes(x) == [bytes |-> x]
FromBytes(b) == b.bytes
Opaque(x) == [opaque |-> x]
FromOpaque(r) == r.opaque

(* serialise / deserialise of a BootstrapConfig.                           *)
Serialise(x) == [serialised |-> x]
Deserialise(b) == b.serialised

Opt == Strings \cup {None}
Keys == [owner_key: {"owner"}, enc_key: {"enc"}, sign_pk: {"spk"},
         sign_sk: {"ssk"}, enc_pk: {"epk"}, enc_sk: {"esk"}]
ContInfos == [id: {"acc"}, tag: {681}, nonce: {"nonce"}]
Containers == [mdata_info: {"md"}, permissions: {{"Read", "Insert"}}]
Entries == UNION {[names -> Containers] : names \in SUBSET Strings}
AuthGrantedValues == [app_keys: Keys, bootstrap_config: {"cfg"},
                      access_container_info: ContInfos, access_container_entry: Entries]
AppAccessValues == [sign_key: {"app"}, permissions: {{"Insert"}},
                    name: AppAccessOpt, app_id: AppAccessOpt]
UserMetadataValues == [name: Opt, description: Opt]
ByteStrings == {<<>>, <<1, 2>>}
MDataEntryValues == [key: [val: ByteStrings],
                     value: [content: ByteStrings, entry_version: {0}]]

(* What String::clone_from_repr_c of a pointer may give: the string, or,   *)
(* for a null or freed pointer, any outcome undefined behaviour can have.  *)
StringCloneFromReprC(p) ==
    IF p \in live THEN {mem[p]} ELSE {Crash} \cup Strings

(* The i-th allocation of a call that starts at allocation base.           *)
Ptr(base, i) == base + i - 1

(* The outcome of a conversion: its allocations in order, the ones dropped *)
(* again before it returns, and the representation it returns.             *)
Call(allocs, freed, ffi) == [allocs |-> allocs, freed |-> freed, ffi |-> ffi]
Err(allocs, freed) == Call(allocs, freed, NullPtr)

-----------------------------------------------------------------------------
AppKeysIntoReprC(k) == [f \in DOMAIN k |-> Bytes(k[f])]
AppKeysCloneFromReprC(raw) == [f \in DOMAIN raw |-> FromBytes(raw[f])]

AccessContInfoIntoReprC(i) == [id |-> Bytes(i.id), tag |-> i.tag, nonce |-> Bytes(i.nonce)]
AccessContInfoCloneFromReprC(r) == [id |-> FromBytes(r.id), tag |-> r.tag, nonce |-> FromBytes(r.nonce)]

(* Index of the first string of seq with a NUL byte, Len(seq) + 1 if none. *)
FirstNul(seq) ==
    IF \E i \in 1..Len(seq) : seq[i] \in NulStrings
    THEN CHOOSE i \in 1..Len(seq) : seq[i] \in NulStrings /\ \A j \in 1..i-1 : seq[j] \notin NulStrings
    ELSE Len(seq) + 1

(* access_container_entry_into_repr_c, in HashMap iteration order, as      *)
(* part of AuthGranted::into_repr_c, which first serialises the bootstrap  *)
(* config into a raw vector.  A name with a NUL byte returns Err: the      *)
(* ContainerInfo values pushed so far are dropped with the Vec, the raw    *)
(* bootstrap vector is not.                                                *)
AuthGrantedIntoReprC(v, order, base) ==
    LET entry == v.access_container_entry
        bad == FirstNul(order)
        names == SubSeq(order, 1, bad - 1)
        infos == [i \in 1..Len(order) |->
                    [name |-> Ptr(base, 1 + i),
                     mdata_info |-> Opaque(entry[order[i]].mdata_info),
                     permissions |-> Opaque(entry[order[i]].permissions)]]
    IN  IF bad <= Len(order)
        THEN Err(<<Serialise(v.bootstrap_config)>> \o names, 2..bad)
        ELSE Call(<<Serialise(v.bootstrap_config)>> \o names \o <<infos>>, {},
                  [app_keys |-> AppKeysIntoReprC(v.app_keys),
                   access_container_info |-> AccessContInfoIntoReprC(v.access_container_info),
                   access_container_entry |-> [containers |-> Ptr(base, Len(order) + 2),
                                               containers_len |-> Len(order)],
                   bootstrap_config |-> Ptr(base, 1), bootstrap_config_len |-> 1])

(* Mutant: the last container of the slice is not read.                     *)
AccessContainerEntryDropsLast(e) ==
    LET input == SubSeq(mem[e.containers], 1, e.containers_len - 1)
    IN  {[n \in {mem[c.name] : c \in Range(input)} |->
            LET c == CHOOSE c \in Range(input) : mem[c.name] = n
            IN  [mdata_info |-> FromOpaque(c.mdata_info),
                 permissions |-> FromOpaque(c.permissions)]]}

(* access_container_entry_clone_from_repr_c: every ContainerInfo of the    *)
(* slice is cloned and inserted into a new HashMap under its name.         *)
AccessContainerEntryCloneFromReprC(e) ==
    LET input == SubSeq(mem[e.containers], 1, e.containers_len)
    IN  {[n \in {mem[c.name] : c \in Range(input)} |->
            LET c == CHOOSE c \in Range(input) : mem[c.name] = n
            IN  [mdata_info |-> FromOpaque(c.mdata_info),
                 permissions |-> FromOpaque(c.permissions)]]}

(* AuthGranted::clone_from_repr_c                                          *)
AuthGrantedCloneFromReprC(r) ==
    {[app_keys |-> AppKeysCloneFromReprC(r.app_keys),
      bootstrap_config |-> Deserialise(mem[r.bootstrap_config]),
      access_container_info |-> AccessContInfoCloneFromReprC(r.access_container_info),
      access_container_entry |-> e] :
        e \in AccessContainerEntryCloneFromReprC(r.access_container_entry)}

-----------------------------------------------------------------------------
(* Two optional strings converted in field order, None to a null pointer:  *)
(* a NUL byte in the second returns Err with the first already a raw       *)
(* pointer.                                                                *)
OptPair(a, b, base) ==
    LET strs == SelectSeq(<<a, b>>, LAMBDA s : s # None)
        bad == FirstNul(strs)
        ptrs == [i \in 1..Len(strs) |-> Ptr(base, i)]
        ptrOf(s, k) == IF s = None THEN NullPtr ELSE ptrs[k]
    IN  IF bad <= Len(strs)
        THEN Err(SubSeq(strs, 1, bad - 1), {})
        ELSE Call(strs, {}, <<ptrOf(a, 1), ptrOf(b, IF a = None THEN 1 ELSE 2)>>)

(* AppAccess::into_repr_c                                                  *)
AppAccessIntoReprC(v, base) ==
    LET c == OptPair(v.name, v.app_id, base)
    IN  [c EXCEPT !.ffi = IF c.ffi = NullPtr THEN NullPtr
                          ELSE [sign_key |-> Bytes(v.sign_key),
                                permissions |-> Opaque(v.permissions),
                                name |-> c.ffi[1], app_id |-> c.ffi[2]]]

(* AppAccess::clone_from_repr_c: both strings are cloned and wrapped in    *)
(* Some, whether or not the pointer is null.                               *)
AppAccessCloneFromReprC(r) ==
    {[sign_key |-> FromBytes(r.sign_key), permissions |-> FromOpaque(r.permissions),
      name |-> n, app_id |-> a] :
        n \in StringCloneFromReprC(r.name), a \in StringCloneFromReprC(r.app_id)}

(* UserMetadata::into_md_response                                          *)
IntoMdResponse(v, base) ==
    LET c == OptPair(v.name, v.description, base)
    IN  [c EXCEPT !.ffi = IF c.ffi = NullPtr THEN NullPtr
                          ELSE [name |-> c.ffi[1], description |-> c.ffi[2]]]

(* Mutant: the null check of UserMetadata::clone_from_repr_c is dropped.    *)
UserMetadataNoNullCheck(r) ==
    {[name |-> n, description |-> d] :
        n \in StringCloneFromReprC(r.name), d \in StringCloneFromReprC(r.description)}

(* UserMetadata::clone_from_repr_c: a null pointer gives None.             *)
UserMetadataCloneFromReprC(r) ==
    {[name |-> n, description |-> d] :
        n \in IF r.name = NullPtr THEN {None} ELSE StringCloneFromReprC(r.name),
        d \in IF r.description = NullPtr THEN {None} ELSE StringCloneFromReprC(r.description)}

-----------------------------------------------------------------------------
(* MDataKey / MDataValue / MDataEntry::as_repr_c take &self and hand out  *)
(* the addresses of the entry's own Vec buffers (as_ptr), with their       *)
(* lengths; nothing is allocated.  The entry is the caller's: its key and  *)
(* content buffers are the two allocations of the conversion step, and     *)
(* the caller keeps the entry until the C side is done with the            *)
(* representation.                                                         *)
MDataKeyAsReprC(p, k) == [val |-> p, val_len |-> Len(k.val)]
MDataValueAsReprC(p, v) ==
    [content |-> p, content_len |-> Len(v.content), entry_version |-> v.entry_version]

MDataEntryAsReprC(v, base) ==
    Call(<<v.key.val, v.value.content>>, {},
         [key |-> MDataKeyAsReprC(Ptr(base, 1), v.key),
          value |-> MDataValueAsReprC(Ptr(base, 2), v.value)])

(* slice::from_raw_parts(ptr, len).to_vec(): the bytes, or, for a freed    *)
(* buffer, any outcome undefined behaviour can have.                       *)
FromRawParts(p, len) ==
    IF p \in live THEN {SubSeq(mem[p], 1, len)} ELSE {Crash} \cup ByteStrings

(* clone_from_repr_c of each copies the borrowed slices.                   *)
MDataKeyCloneFromReprC(r) == {[val |-> b] : b \in FromRawParts(r.val, r.val_len)}
MDataValueCloneFromReprC(r) ==
    {[content |-> b, entry_version |-> r.entry_version] : b \in FromRawParts(r.content, r.content_len)}
MDataEntryCloneFromReprC(r) ==
    {[key |-> k, value |-> v] : k \in MDataKeyCloneFromReprC(r.key), v \in MDataValueCloneFromReprC(r.value)}

-----------------------------------------------------------------------------
(* The allocations a representation owns, which its Drop frees: the raw    *)
(* bootstrap vector, the container vector and every container name of an  *)
(* AuthGranted; the non-null strings of an AppAccess or a metadata         *)
(* response; for an MDataEntry, the caller's buffers it borrows, which    *)
(* the caller drops once the C side is done.                               *)
Pointers(r) ==
    CASE r.kind = "AuthGranted" ->
            LET e == r.ffi.access_container_entry
            IN  {r.ffi.bootstrap_config, e.containers}
                    \cup {mem[e.containers][i].name : i \in 1..e.containers_len}
      [] r.kind = "AppAccess" -> {r.ffi.name, r.ffi.app_id} \ {NullPtr}
      [] r.kind = "UserMetadata" -> {r.ffi.name, r.ffi.description} \ {NullPtr}
      [] r.kind = "MDataEntry" -> {r.ffi.key.val, r.ffi.value.content}

NoClone == [kind |-> "none"]

Values ==
    AuthGrantedValues \cup AppAccessValues \cup UserMetadataValues \cup MDataEntryValues

TypeOK ==
    /\ nextId \in 1..MaxAllocs + 1
    /\ DOMAIN mem = 1..nextId - 1
    /\ live \subseteq DOMAIN mem
    /\ \A r \in reprs : r.kind \in Kinds /\ r.native \in Values
    /\ lastClone = NoClone \/ lastClone.result \in Values
    /\ calls \in 0..MaxCalls

Init ==
    /\ mem = <<>>
    /\ live = {}
    /\ nextId = 1
    /\ reprs = {}
    /\ lastClone = NoClone
    /\ calls = 0

(* A conversion returns to the C side: its allocations are made, the ones  *)
(* dropped before it returned are freed again, and an Ok representation    *)
(* is handed over.                                                         *)
Convert(kind, v, call) ==
    LET ids == nextId..nextId + Len(call.allocs) - 1
    IN  /\ calls < MaxCalls /\ nextId + Len(call.allocs) <= MaxAllocs + 1
        /\ calls' = calls + 1
        /\ mem' = mem \o call.allocs
        /\ live' = (live \cup ids) \ {Ptr(nextId, i) : i \in call.freed}
        /\ nextId' = nextId + Len(call.allocs)
        /\ reprs' = IF call.ffi = NullPtr THEN reprs
                    ELSE reprs \cup {[kind |-> kind, native |-> v, ffi |-> call.ffi]}
        /\ UNCHANGED lastClone

AuthGrantedToC ==
    \E v \in AuthGrantedValues :
        \E order \in SetToSeqs(DOMAIN v.access_container_entry) :
            Convert("AuthGranted", v, AuthGrantedIntoReprC(v, order, nextId))

AppAccessToC ==
    \E v \in AppAccessValues : Convert("AppAccess", v, AppAccessIntoReprC(v, nextId))

UserMetadataToC ==
    \E v \in UserMetadataValues : Convert("UserMetadata", v, IntoMdResponse(v, nextId))

MDataEntryToC ==
    \E v \in MDataEntryValues : Convert("MDataEntry", v, MDataEntryAsReprC(v, nextId))

(* The C side clones a representation it holds back into a Rust value.    *)
CloneFromReprC(r) ==
    /\ \E result \in CASE r.kind = "AuthGranted" -> AuthGrantedCloneFromReprC(r.ffi)
                       [] r.kind = "AppAccess" -> AppAccessCloneFromReprC(r.ffi)
                       [] r.kind = "UserMetadata" -> UserMetadataCloneFromReprC(r.ffi)
                       [] r.kind = "MDataEntry" -> MDataEntryCloneFromReprC(r.ffi) :
        lastClone' = [kind |-> r.kind, native |-> r.native, result |-> result]
    /\ UNCHANGED <<mem, live, nextId, reprs, calls>>

(* mdata_encode_metadata: the C side passes a metadata response; it is    *)
(* cloned back and bincode-serialised, and the callback gets the bytes,    *)
(* which the caller decodes.                                               *)
MdataEncodeMetadata(r) ==
    /\ r.kind = "UserMetadata"
    /\ \E metadata \in UserMetadataCloneFromReprC(r.ffi) :
        LET encoded == Serialise(metadata)
        IN  lastClone' = [kind |-> r.kind, native |-> r.native, result |-> Deserialise(encoded)]
    /\ UNCHANGED <<mem, live, nextId, reprs, calls>>

(* The C side is done with a representation: its Drop frees what it owns.  *)
FreeRepr(r) ==
    /\ live' = live \ Pointers(r)
    /\ reprs' = reprs \ {r}
    /\ UNCHANGED <<mem, nextId, lastClone, calls>>

ToC ==
    \/ "AuthGranted" \in Kinds /\ AuthGrantedToC
    \/ "AppAccess" \in Kinds /\ AppAccessToC
    \/ "UserMetadata" \in Kinds /\ UserMetadataToC
    \/ "MDataEntry" \in Kinds /\ MDataEntryToC

(* The C side has freed everything and makes no more calls.               *)
Done ==
    /\ reprs = {} /\ ~ENABLED ToC
    /\ UNCHANGED vars

Next ==
    \/ ToC
    \/ \E r \in reprs : CloneFromReprC(r) \/ MdataEncodeMetadata(r) \/ FreeRepr(r)
    \/ Done

Spec == Init /\ [][Next]_vars

-----------------------------------------------------------------------------
(***************************************************************************)
(* Properties                                                              *)
(***************************************************************************)

(* Cloning a representation back, directly or through the bytes of         *)
(* mdata_encode_metadata, gives the value it was made from: the            *)
(* HashMap of the access container entry whatever its iteration order, a   *)
(* null pointer back to None, a borrowed slice back to its bytes.          *)
RoundTrip ==
    lastClone = NoClone \/ lastClone.result = lastClone.native

(* No allocation outlives every owner: each live allocation belongs to a   *)
(* representation the C side holds and will free, also when a conversion   *)
(* returned Err half-way (the doc comments: "You're now responsible for    *)
(* freeing this memory", said only of an Ok value).                         *)
NoLeak ==
    live \subseteq UNION {Pointers(r) : r \in reprs}

=============================================================================
