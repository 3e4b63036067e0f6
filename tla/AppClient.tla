------------------------------ MODULE AppClient ------------------------------
(***************************************************************************)
(* The app client of src/safe_app/src/client.rs.  An AppClient is a pair   *)
(* of Rc handles: inner (the core ClientInner, holding the routing         *)
(* connection set up at construction) and app_inner (AppInner: keys, owner *)
(* key, client-manager authority, bootstrap config).  Clones share both.   *)
(*                                                                         *)
(* A session is what one constructor call builds: the AppInner it stores   *)
(* and the identity and config setup_routing was called with.  A handle is *)
(* an AppClient value, naming the session it shares.  Keys, owners and     *)
(* configs are model values; a key pair k has public and secret BLS and    *)
(* signing keys, and a signature records the secret key and the payload.   *)
(***************************************************************************)
EXTENDS Naturals, Sequences, FiniteSets

CONSTANTS
    KeyPairs,       \* ClientKeys values
    Owners,         \* owner PublicKeys of apps authorised by an account
    Configs,        \* BootstrapConfig values
    Requests,       \* Request values
    None,           \* Option::None
    MaxSessions,    \* constructor calls in a behaviour
    MaxHandles,     \* AppClient values (constructed or cloned)
    MaxMessages     \* compose_message calls

VARIABLES
    sessions,   \* [inner, routing] built by each successful constructor call
    handles,    \* handles[h]: the session AppClient value h shares
    messages,   \* messages composed so far, with the handle that composed them
    lastResult  \* "Ok" or "Err" of the last constructor call

vars == <<sessions, handles, messages, lastResult>>

(* ClientKeys: the BLS and signing key pairs of k.                          *)
ClientKeys(k) ==
    [bls_pk |-> <<"bls_pk", k>>, bls_sk |-> <<"bls_sk", k>>,
     sign_pk |-> <<"sign_pk", k>>, sign_sk |-> <<"sign_sk", k>>]

PublicKeys == {<<"bls_pk", k>> : k \in KeyPairs} \cup Owners

Sign(sk, payload) == [by |-> sk, over |-> payload]

(* A BLS signature verifies under the public key of its secret key.        *)
Verify(pk, payload, sig) ==
    sig # None /\ pk[1] = "bls_pk" /\ sig.by = <<"bls_sk", pk[2]>> /\ sig.over = payload

(* PublicId::Client(ClientPublicId::new(pk.into(), pk)) and                 *)
(* PublicId::App(AppFullId::with_keys(bls_sk, owner).public_id()).          *)
ClientId(pk) == [kind |-> "Client", name |-> pk, key |-> pk]
AppId(blsSk, owner) == [kind |-> "App", owner |-> owner, key |-> <<"bls_pk", blsSk[2]>>]

(* Authority::ClientManager(XorName::from(owner))                           *)
ClientManager(owner) == [authority |-> "ClientManager", name |-> owner]

(* AppInner::new                                                            *)
AppInnerNew(keys, owner_key, cm_addr, config) ==
    [keys |-> keys, owner_key |-> owner_key, cm_addr |-> cm_addr, config |-> config]

TypeOK ==
    /\ \A i \in 1..Len(sessions) :
        /\ sessions[i].inner.keys \in {ClientKeys(k) : k \in KeyPairs}
        /\ sessions[i].inner.owner_key \in PublicKeys
        /\ sessions[i].inner.config \in Configs \cup {None}
    /\ handles \in Seq(1..Len(sessions))
    /\ lastResult \in {"none", "Ok", "Err"}

Init ==
    /\ sessions = <<>>
    /\ handles = <<>>
    /\ messages = {}
    /\ lastResult = "none"

(* A constructor call: setup_routing(full_id, public_id, config)? may fail, *)
(* in which case no client is built; otherwise the new session and its     *)
(* first handle.                                                           *)
Construct(inner, routing) ==
    /\ Len(sessions) < MaxSessions /\ Len(handles) < MaxHandles
    /\ \/ /\ sessions' = Append(sessions, [inner |-> inner, routing |-> routing])
          /\ handles' = Append(handles, Len(sessions) + 1)
          /\ lastResult' = "Ok"
       \/ /\ lastResult' = "Err"
          /\ UNCHANGED <<sessions, handles>>
    /\ UNCHANGED messages

(* AppClient::unregistered: fresh random keys (ClientKeys::new(None)), the *)
(* routing connection as a Client identity of its own BLS key, no          *)
(* client-manager authority, and the config given, possibly None.          *)
Unregistered(config) ==
    \E k \in KeyPairs :
        /\ \A i \in 1..Len(sessions) : sessions[i].inner.keys # ClientKeys(k)
        /\ LET keys == ClientKeys(k)
               client_pk == keys.bls_pk
           IN  Construct(AppInnerNew(keys, client_pk, None, config),
                         [full_id |-> None, public_id |-> ClientId(client_pk),
                          config |-> config])

(* AppClient::from_keys -> from_keys_impl: keys issued by the owner's      *)
(* authenticator, the routing connection as the App identity, the owner's  *)
(* ClientManager, and Some(config).                                        *)
FromKeysImpl(keys, owner, config) ==
    Construct(AppInnerNew(keys, owner, ClientManager(owner), config),
              [full_id |-> keys, public_id |-> AppId(keys.bls_sk, owner),
               config |-> config])

(* The getters of the Client impl read the shared AppInner.                 *)
Inner(h) == sessions[handles[h]].inner
full_id(h) == Inner(h).keys
owner_key(h) == Inner(h).owner_key
secret_bls_key(h) == Inner(h).keys.bls_sk
public_key(h) == Inner(h).keys.bls_pk
config(h) == Inner(h).config
cm_addr(h) == Inner(h).cm_addr
public_id(h) == AppId(secret_bls_key(h), owner_key(h))

(* Mutant: the request is signed with the signing key instead of BLS.       *)
SignatureWithSigningKey(h, request, message_id, sign) ==
    IF sign THEN Sign(Inner(h).keys.sign_sk, <<request, message_id>>) ELSE None

(* compose_message: sign (request, message_id) with the BLS secret key if  *)
(* asked to.                                                               *)
Signature(h, request, message_id, sign) ==
    IF sign THEN Sign(secret_bls_key(h), <<request, message_id>>) ELSE None

(* MessageId::new() is random: a fresh number here.                        *)
ComposeMessage(h, request, sign) ==
    /\ Cardinality(messages) < MaxMessages
    /\ LET message_id == Cardinality(messages) + 1
       IN  messages' = messages \cup
             {[request |-> request, message_id |-> message_id,
               signature |-> Signature(h, request, message_id, sign), sender |-> h]}
    /\ UNCHANGED <<sessions, handles, lastResult>>

(* Mutant: the clone shares the session numbered like the handle.         *)
CloneByHandle(h) ==
    /\ Len(handles) < MaxHandles
    /\ handles' = Append(handles, h)
    /\ UNCHANGED <<sessions, messages, lastResult>>

(* Clone: a new AppClient sharing both Rc handles.                          *)
Clone(h) ==
    /\ Len(handles) < MaxHandles
    /\ handles' = Append(handles, handles[h])
    /\ UNCHANGED <<sessions, messages, lastResult>>

Next ==
    \/ \E c \in Configs \cup {None} : Unregistered(c)
    \/ \E k \in KeyPairs, o \in Owners, c \in Configs : FromKeysImpl(ClientKeys(k), o, c)
    \/ \E h \in DOMAIN handles :
        \/ Clone(h)
        \/ \E r \in Requests, s \in BOOLEAN : ComposeMessage(h, r, s)

Spec == Init /\ [][Next]_vars

-----------------------------------------------------------------------------
(* The session a handle shares.                                            *)
SessionOf(h) == sessions[handles[h]]

(* Every signed message composed through any clone of an AppClient         *)
(* verifies, over its (request, message_id), under the key of the identity *)
(* its routing connection was set up with, so the network can attribute   *)
(* it: compose_message and both constructors must agree on the keys.       *)
MessagesAttributable ==
    \A m \in messages :
        m.signature # None =>
            Verify(SessionOf(m.sender).routing.public_id.key,
                   <<m.request, m.message_id>>, m.signature)

(* public_id() of every AppClient is the identity its routing connection   *)
(* was set up with.                                                        *)
PublicIdMatchesRouting ==
    \A h \in DOMAIN handles : public_id(h) = SessionOf(h).routing.public_id

=============================================================================
