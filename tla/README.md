# TLA+ models of the safe_client_libs blob client

This directory holds TLA+ models of the blob (immutable data) client in
`src/src/client/blob_apis.rs`, the TLC configurations that check them, and
`PROJECT.json`, which records every component, run, mutant, finding and
hazard, and the source lines each definition translates.

## The system

`blob_apis.rs` implements three public operations of `Client`:

* **store** (`store_public_blob`, `store_private_blob` -> `create_new_blob`):
  the user data is self-encrypted (`write_to_network`), which puts each
  encrypted chunk on the network through `BlobStorage`; the returned data map
  is wrapped in `DataMapLevel::Root` and a public or private blob (`pack`).
  While that blob fails `validate_size`, `pack` serialises it, self-encrypts
  it again (more chunk puts) and wraps the new data map in
  `DataMapLevel::Child`.  The final blob is sent with `store_blob_on_network`
  and its address returned.
* **read** (`read_blob`): `fetch_blob_from_network` gets the blob, `unpack`
  follows `Child` levels by reading each level's chunks back
  (`read_using_data_map`) and deserialising the next blob, and the `Root`
  data map is finally read with the address's kind.
* **delete** (`delete_blob`): fetch the blob, send `DeletePrivate` for it
  (`delete_blob_from_network`), then walk the levels: a `Child` level is read
  back and its chunks deleted (`delete_using_data_map`), a `Root` level has its
  chunks deleted and the call returns.

`blob_data_map` is the offline twin of store: the same loop against a dry-run
chunk store, returning a data map and the address store would return.

`safe_core/src/ipc/resp.rs` converts the IPC response types (`AuthGranted`,
`AppKeys`, `AccessContInfo`, the access container entry, `AppAccess`,
`UserMetadata`, `MDataEntry`) to C representations handed across the FFI
(`into_repr_c`, `into_md_response`, `as_repr_c`) and back
(`clone_from_repr_c`).  Ownership of raw memory moves to the C side on
success; the C side frees it through the ffi structs' Drop impls.
`safe_app/src/ffi/mutable_data/metadata.rs` (`mdata_encode_metadata`) clones
a metadata response the C side passes back and serialises it.

`safe_app/src/client.rs` is the app's client: `AppClient::unregistered`
(random keys, routing set up as a `Client` identity, no client manager) and
`AppClient::from_keys` (keys from the authenticator, routing set up as an
`App` identity of the owner, the owner's `ClientManager`) build the shared
`AppInner` that the `Client` getters and `compose_message` read; clones share
it through `Rc`.

Parts the repository names that are outside TLC's reach or without
behaviour are listed in `PROJECT.json` as `not_modelled`: the `nfs`
declarations and the test helpers.  The self-encryptor, `BlobStorage`, serialisation sizes and the
network itself are crates outside the repository; the parts the blob client
depends on are modelled from `spec.md` and marked `spec_modelled` in the map.

## Modules

| module | models | state / actions |
|---|---|---|
| `SelfEncryptor` | chunk count and sizes of self_encryption (spec 4.1), used as given by the packer and client models | pure operators `NumChunks`, `ChunkSize`, `Encrypt`, `ChunkNames`; range reads: `ChunkStart` (recursive prefix sum of chunk sizes), `ChunkBytes`, `Read` (clip, covered chunks, splice) and `ReadUsingDataMap` (blob_apis.rs 315-337: `None` length = whole plaintext, `None` position = 0) |
| `DataMapPacker` | `DataMapLevel`, `pack`, `unpack`, `blob_data_map`, blob kinds and addresses | pure, `RECURSIVE` operators |
| `BlobClient` | the three operations, stepwise, by concurrent tasks against one network | variables `blobs`, `chunks`, `task`, `failures`; one action per awaited request; refinement mapping to `BlobStore` |
| `BlobStore` | what the three operations promise: an atomic store of `<<address, data>>` entries | variables `store`, `op`, `ok`, `faults`; `Call`, `StoreOk`, `ReadObserve`, `DeleteApply`, `Done`, `Refuse`, `Fail` |
| `AppClient` | `safe_app`'s `AppClient`: constructors, clones, getters, `compose_message` | variables `sessions`, `handles`, `messages`, `lastResult`; `Unregistered`, `FromKeysImpl`, `Clone`, `ComposeMessage` |
| `IpcResp` | the conversions of `resp.rs` against a heap | variables `mem`, `live`, `nextId`, `reprs`, `lastClone`, `calls`; one action per conversion, `CloneFromReprC`, `MdataEncodeMetadata`, `FreeRepr` |
| `MCSelfEncryptor`, `MCDataMapPacker`, `MCBlobClient`, `MCIpcResp`, `MCAppClient` | model-checking instances | a sweep over sizes / the model values of the cfgs |

**Abstraction of data.**  A value is a record; the hash of a value is the
value itself (injective), so a chunk of source `s` is `<<s, i>>` and equal
data gives equal chunks and addresses (convergent encryption), which is the
property the race finding depends on.  Sizes are abstract byte counts:
`SizeOf` of a blob is a tag byte, the data map (a tag byte plus the inline
content or one `DESCRIPTOR_SIZE` per chunk) and `OWNER_SIZE` for a private
blob.  With `MIN=1, MAX_CHUNK=3, MAX_BLOB=6, DESCRIPTOR=1, OWNER=1`, data of
size 2 is inline, size 10 gives four chunks so that its public blob fits
while its private blob needs one `Child` level: both pack paths occur.

**BlobClient correspondence.**  `task[t]` is the Rust future of one call:
`op` the public operation, `pc` the await it is at (`write`, `put_blob`,
`fetch`, `read_chunks`, `del_fetch`, `del_root`, `del_read`, `del_chunks`),
`pending` the chunk requests the current self-encryptor call still awaits,
`src`/`tag` the value being encrypted and its level tag, `blob` the blob
being stored, read or deleted, `depth` the pack levels added.  `StartStore`,
`PutChunk`, `WriteDone` (the end of a `write_to_network` plus the wrapping and
size check of `create_new_blob`/`pack`), `PutBlob`; `StartRead`, `FetchBlob`,
`GetChunk`, `ReadDone` (one `unpack` iteration or the final read);
`StartDelete`, `DelFetch`, `DelRoot`, `DelGetChunk`, `DelReadDone`,
`DelChunk`, `DelChunksDone`.  Every `?` in the code is a `Return` with
`ok = FALSE` from the step whose request failed.

**Network.**  `blobs` holds data-map blobs, `chunks` chunk addresses
(`ChunkAddr`: kind, owner for private chunks, name).  Each request has an
outcome from `Outcomes`: `ok`; `lost` (failed before the network applied
it); `late` (applied, but the client saw a timeout) — at most `MaxFailures`
failures per behaviour.  `GetBlob` answers only readable blobs (public, or
owned by the caller); `DeletePrivate` is accepted only for an owned private
blob; deleting an absent chunk is a no-op (spec 4.2).  Replication and
eventual consistency are not modelled: the network is one linearisable
store, so "not found because not yet propagated" does not occur.

**Refinement.**  `BlobStore` is the facade as its callers see it: each
task has at most one pending call; a store takes effect when it returns; a
read takes effect when it observes an entry it may read (`ReadObserve`), a
delete when it removes an entry the caller owns (`DeleteApply`); `Done`
returns Ok only after the effect; `Refuse` (NotFound, InvalidOperation)
only when nothing the caller may read or delete is at the address; `Fail`
(a network error, counted in `faults`) may come at any time, with a store
or an owned delete applied or not.  `BlobClient` defines
`Abs == INSTANCE BlobStore WITH ...`: `store` is the entry
`<<Address(b), Unpack(b).src>>` of every held blob, a pending store's entry
is `blob_data_map`'s address with the data, a read has observed once the
blob was fetched (`pc = "read_chunks"`), a delete has taken effect once its
`DeletePrivate` was accepted (`del_read`, `del_chunks`), `ok` is the task's
`ok` and `faults` is `failures`.  `BlobStoreRefinement == Abs!Spec` is
checked as a `PROPERTY`; the mapping's functions of blobs and data sizes
are constants, so TLC computes them once.

**AppClient correspondence.**  A session is one successful constructor
call: the `AppInner` it stores and the identity, full id and config it
passed to `setup_routing`; `handles[h]` is the session the `AppClient`
value `h` shares (`Clone` appends a handle to the same session).
`setup_routing(..)?` may fail, which `Construct` models as a call that
returns `Err` and builds nothing.  `ClientKeys::new(None)` picks keys no
session holds; `MessageId::new()` is a fresh number.  Keys are model
values with BLS and signing halves; a signature records its secret key and
payload, and `Verify` accepts it under the matching BLS public key.

**IpcResp correspondence.**  `mem` holds the contents of every allocation
and `live` the ones not freed.  A conversion is one step (`AuthGrantedToC`,
`AppAccessToC`, `UserMetadataToC`, `MDataEntryToC`): the operator that
translates it (`AuthGrantedIntoReprC`, `AppAccessIntoReprC`,
`IntoMdResponse`, `MDataEntryAsReprC`) lists the allocations it makes in
evaluation order (`serialise` + `vec_into_raw_parts`, each
`CString::new(..)?.into_raw()`, the container vector), the ones dropped again
before it returns (the `ContainerInfo`s in the `Vec` when the entry loop hits
`?`), and the representation, whose pointer fields are allocation numbers.
Strings are model strings, one of which (`NulStrings`) contains a NUL byte so
that `CString::new` fails.  `access_container_entry_into_repr_c` iterates a
`HashMap`, so every order of its names is tried.  `String::clone_from_repr_c`
(in ffi_utils) of a null or freed pointer is undefined behaviour: any string
or a crash.  `FreeRepr` is the C side dropping a representation, which frees
every pointer it holds (`Pointers`); this assumes the Drop impls of the ffi
structs, outside the repository, free their fields.  Key, nonce and name
byte arrays are `Bytes`/`FromBytes`; `MDataInfo` and permission conversions,
defined outside the repository, are `Opaque`/`FromOpaque` and round-trip.
`MdataEncodeMetadata` clones a metadata response and records the decoding
of its serialised bytes as the clone's result, which is what the test of
`metadata.rs` compares.  `MDataEntry::as_repr_c` borrows: the caller's
entry owns its key and content buffers, which are the two allocations of
`MDataEntryToC`; the representation holds their addresses (`as_ptr`), and
`FreeRepr` is the C side returning and the caller then dropping the entry.
`FromRawParts` (`slice::from_raw_parts(..).to_vec()`) of a freed buffer is
undefined behaviour: any bytes or a crash.

## Runs

| run | cfg | expect | shows |
|---|---|---|---|
| `selfencryptor_range_read` | `MCSelfEncryptor.cfg` | pass | `RangeReadReturnsSlice`: for every size 0..40 (MIN=2, MAX=5), one (size, position) pair per state, and every position and length in 0..size+1 or `None`, `read_using_data_map` returns the clipped slice |
| `packer` | `MCDataMapPacker.cfg` | pass | `DryRunMatchesStore`: `blob_data_map` gives the store's address for every size 0..40, public and for two owners; `PackedBlobRoundTrips`: the packed blob is valid and `unpack` yields the root data map |
| `packer_rootmap` | `MCDataMapPacker_rootmap.cfg` | violation | `DryRunReturnsRootDataMap` fails at size 10 private: `blob_data_map` returns the last level's data map (finding) |
| `blobclient` | `MCBlobClient.cfg` | pass | two tasks of two clients, two operations each, sizes {2, 10}, one failing request: `BlobStoreRefinement`, `TypeOK`, `DeleteRemovesChain`, `OperationsReturn` |
| `ipc_roundtrip` | `MCIpcResp.cfg` | pass | up to three conversions (five allocations) of every kind, NUL and None inputs, cloned and freed in any order: `TypeOK`, `RoundTrip` |
| `ipc_appaccess_none` | `MCIpcResp_appaccess_none.cfg` | violation | `RoundTrip`: an `AppAccess` with a `None` field comes back as `Some` of a null-pointer read (finding) |
| `ipc_leak_authgranted`, `ipc_leak_appaccess`, `ipc_leak_metadata` | `MCIpcResp_leak_*.cfg` | violation | `NoLeak`: a NUL byte in a later string leaks the raw memory of the earlier fields (findings) |
| `blobclient_race` | `MCBlobClient_race.cfg` | violation | `BlobStoreRefinement`: two tasks of one client, no failures; after store_private_blob and delete_blob of the same data interleave, store returns Ok and the blob is held, but read_blob of its address returns NotFound (finding) |
| `appclient` | `MCAppClient.cfg` | pass | two constructor calls of either kind, failing or not, three handles, two messages: `TypeOK`, `MessagesAttributable` |
| `appclient_publicid` | `MCAppClient_publicid.cfg` | violation | `PublicIdMatchesRouting`: an unregistered client reports an `App` identity the network does not know it by (finding) |

Properties:

* `DeleteRemovesChain` — when delete returns Ok, the blob and the chunks of
  every level are gone (taken at the step of the return).
* `OperationsReturn` — every started operation eventually returns; covers
  termination of the pack, unpack and delete loops under failures.
* `BlobStoreRefinement` — the facade implements `BlobStore`: Ok only after
  the effect, NotFound only when absent, a store's entry is the dry-run
  address with the data, and the store changes only through a pending call
  of a caller allowed to make it.  It also catches the order hazards of
  store and delete: a held blob whose chunks are gone makes a later read
  return NotFound (a delete that keeps the blob breaks it too).

* `RangeReadReturnsSlice` (MCSelfEncryptor) — spec P3 extended to the
  clipped and defaulted cases: `read_using_data_map(position, len)` returns
  `D[p .. p+l)` cut at the end, with `p` = 0 and `l` = the rest of the
  plaintext when omitted.  Plaintext byte k is represented by k, so a byte
  from the wrong offset or chunk is detected.  With a position and no
  length, the code asks for `len()` bytes from the position, which is right
  only because `read` clips.

* `MessagesAttributable` (AppClient) — every signed message, composed
  through any clone, verifies under the key of the identity the session's
  routing connection was set up with.
* `PublicIdMatchesRouting` — `public_id()` is the identity routing was set
  up with; it fails for `unregistered`, so it is checked only in a
  violation run.

* `RoundTrip` (IpcResp) — the last clone of a representation equals the
  value it was made from.  In `ipc_roundtrip` `AppAccess` names are always
  given, since a `None` one is the finding of `ipc_appaccess_none`.
* `NoLeak` — every live allocation is owned by a representation the C side
  holds; it fails for three conversions, so it is checked only in the
  violation runs.

Each property has a mutant in `PROJECT.json`: a plausible bug in the
definition it is about (a Child level tagged Root, a delete loop that stops after one level, unpack that does not move to
the next blob, a chunk address that keeps the owner of a public chunk, a metadata clone
without its null check, an entry clone that drops the last container,
a `PutBlob` whose error is dropped,
a message signed with the signing key, `read` called with position and length swapped, a clone that shares the wrong
session) under
which TLC finds the property violated.

**Bounds.**  The range-read check covers sizes up to `MaxReadSize = 40`
with MIN=2, MAX=5: inline content (below 6), the three-thirds split (6..14),
full chunks with a tail (15..40), including the tail top-up below MIN that
shortens the penultimate chunk, and positions and lengths up to one past
the end.

Two tasks with `MaxOps = 2` give every pair of store/read/delete
interleavings of two clients, including store-then-delete on one task and a
reader of public blobs on the other; two clients make private blobs of the
other client unreadable and undeletable.  Two tasks of one client sharing
private chunks are the `blobclient_race` run, since that race violates the
refinement; sizes {2, 10} cover the inline data map,
the fitting public blob and the one-level private pack; one failure, with
both the lost and the late outcome, reaches every error path.  A second
pack level (size 25 private) is checked by the packer sweep (sizes to 40),
and `MAX_PACK_DEPTH = 3` is never reached there.

`AppClient` uses two key pairs, one owner and one config, so that both
constructors, a failing `setup_routing`, a fresh-key choice and clones of
either kind of client occur; two sessions and three handles allow a clone
to compose a message for a session other than the last one.  Its
configuration sets `CHECK_DEADLOCK FALSE`: every action is a call the app
makes, and an app may stop making calls once the bounds are used up.

**Fairness.**  `WF_vars(Progress(t))` for each task: an awaited request is
eventually answered or times out, and the tokio executor polls every ready
future, so a started operation keeps taking steps.  Starting an operation is
the caller's choice and is not fair.  The `Finished` step lets a finished
system stutter, so deadlock checking stays on.

## Findings

* `blob_data_map` (blob_apis.rs:285) returns the data map of the last packing
  level, not the root data map of the user data as its documentation says.
  The address is right.
* A concurrent `delete_blob` and `store_private_blob` of the same data by the
  same client (blob_apis.rs:229) can delete chunks the store relies on; the
  store then puts the blob and returns Ok, and a `read_blob` of the returned
  address fails with NotFound while the blob is held, which no atomic order
  of the calls allows.  The specification is silent about concurrent store
  and delete.
* `AppClient::unregistered` (client.rs:59) sets routing up with a
  `PublicId::Client` of its random key, but `public_id()` (client.rs:183)
  always returns a `PublicId::App` built from the stored keys and owner key,
  here its own key.
* `AppAccess::clone_from_repr_c` (resp.rs:369) reads `name` and `app_id`
  through `String::clone_from_repr_c` without the null check, so the `None`
  that `into_repr_c` turns into a null pointer never comes back.
* `AuthGranted::into_repr_c` (resp.rs:85), `AppAccess::into_repr_c`
  (resp.rs:348) and `UserMetadata::into_md_response` (resp.rs:397) leak the
  raw memory of the fields converted before a `CString::new` fails.

## Not modelled

* Range reads inside the stepwise `BlobClient`: there every read is a full
  read; range arguments are checked on the pure operators of `SelfEncryptor`.
* Payment (`pay_and_send_data_command`), balances and their test helper.
* Eventual propagation between replicas.
* In `resp.rs`: `access_container_enc_key`, `AppKeys::random`,
  `AccessContInfo::into_mdata_info` / `from_mdata_info` (key generation and
  encryption).  The lifetime of the `as_repr_c` borrow: the callers that
  decide how long the entry lives are outside the repository, so the model
  keeps the entry until the C side is done and no property checks the
  borrow (the hazard is listed without one).
* The chunk-size arithmetic of self_encryption as a property of its own: it
  is not code of this repository, so it is only used, as the specification
  gives it, by the range-read, packer and client models.
* In `client.rs`: `from_keys_with_hook` (test-only), the getters of the
  other keys (the same borrow), and `inner()` with the `ClientInner` it
  shares, which lives in `safe_core` outside the repository.
* `src/src/nfs/mod.rs` and `calculate_new_balance` in the test helpers: see
  `PROJECT.json`.  The helper's unchecked `x * COST_OF_PUT` only matters for
  mutation counts no test uses.

## Plan

1. (done) `SelfEncryptor`, `DataMapPacker`, `BlobClient` and their runs.
2. (done) The abstract `BlobStore` and the refinement check.
3. (done) `IpcResp` and its runs; (done) `AppClient`.
4. A two-level pack (size 25 private) in the stepwise model, single task,
   folded into an existing configuration, since the project keeps at most
   twelve runs.
5. (done) Range reads (`RangeReadReturnsSlice`).
6. (done) The borrowed pointers of `MDataEntry::as_repr_c` are modelled as
   addresses of the caller's buffers; their lifetime is not checked.
