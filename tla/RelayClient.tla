----------------------------- MODULE RelayClient -----------------------------
(***************************************************************************)
(* The control-plane RPCs of src/portal/wasm/src/relay_client.rs:          *)
(* RelayClient::connect, getRelayInfo, registerLease and                   *)
(* requestConnection.  Each RPC snapshots what it needs under the inner    *)
(* mutex, opens a WebSocketStream of its own, writes one request packet     *)
(* and awaits one response packet (write_packet_async / read_packet_async  *)
(* of src/relaydns/wasm/src/proto/mod.rs).  Concurrent JavaScript calls    *)
(* interleave at those awaits.                                              *)
(*                                                                         *)
(* The relay is the environment: it serves each request when it chooses,   *)
(* so two requests on two sockets may be served and answered in either     *)
(* order.  Packets are reduced to their type and response code.            *)
(***************************************************************************)
EXTENDS Naturals, FiniteSets

CONSTANTS
    Calls,     \* concurrent JavaScript call slots (model values)
    Names,     \* lease names registerLease may be given
    NoLease,   \* model value: no lease stored
    MaxCalls   \* bound: RPC invocations over the whole run

ASSUME NamesAssumption == Names # {} /\ NoLease \notin Names
ASSUME MaxCallsAssumption == MaxCalls \in Nat
ASSUME CallsAssumption == IsFiniteSet(Calls)

Rpcs == {"info", "register", "connect"}

\* What the relay answered a request with: nothing yet, a packet of another
\* type or that does not decode, or the expected packet with its code.
Answers == {"none", "malformed", "accepted", "rejected"}

VARIABLES
    client,        \* "none" until RelayClient::connect returns, then "ready"
    pc,            \* pc[c]: "idle", "connecting" (awaiting the socket) or "awaiting" the response
    rpc,           \* rpc[c]: the RPC call c runs
    lease,         \* lease[c]: the lease name registerLease snapshotted
    answer,        \* answer[c]: the relay's response to call c's request
    stored,        \* the one entry of inner.leases (keyed by the credential id)
    relayLease,    \* the lease the relay last accepted for this credential
    relayAccepted, \* every lease name the relay accepted
    sockets,       \* WebSockets opened (none is ever closed)
    invoked        \* RPC invocations so far

vars == <<client, pc, rpc, lease, answer, stored, relayLease, relayAccepted,
          sockets, invoked>>

TypeOK ==
    /\ client \in {"none", "ready"}
    /\ pc \in [Calls -> {"idle", "connecting", "awaiting"}]
    /\ rpc \in [Calls -> Rpcs]
    /\ lease \in [Calls -> Names \cup {NoLease}]
    /\ answer \in [Calls -> Answers]
    /\ stored \in Names \cup {NoLease}
    /\ relayLease \in Names \cup {NoLease}
    /\ relayAccepted \subseteq Names
    /\ sockets \in 0 .. MaxCalls + 1
    /\ invoked \in 0 .. MaxCalls

Init ==
    /\ client = "none"
    /\ pc = [c \in Calls |-> "idle"]
    /\ rpc = [c \in Calls |-> "info"]
    /\ lease = [c \in Calls |-> NoLease]
    /\ answer = [c \in Calls |-> "none"]
    /\ stored = NoLease
    /\ relayLease = NoLease
    /\ relayAccepted = {}
    /\ sockets = 0
    /\ invoked = 0

\* RelayClient::connect: opens a test socket (and drops it, open), then
\* creates the credential and the empty lease map.  A connect error returns.
Connect ==
    /\ client = "none"
    /\ \E ok \in BOOLEAN :
         /\ client' = IF ok THEN "ready" ELSE "none"
         /\ sockets' = IF ok THEN sockets + 1 ELSE sockets
    /\ UNCHANGED <<pc, rpc, lease, answer, stored, relayLease, relayAccepted, invoked>>

\* Mutant of StartRpc for TypeOK: the LeaseUpdateRequest is built without
\* its lease (lease: None), so the relay registers no name.
StartRpcNoLease(c) ==
    /\ client = "ready"
    /\ pc[c] = "idle"
    /\ invoked < MaxCalls
    /\ \E r \in Rpcs :
         /\ rpc' = [rpc EXCEPT ![c] = r]
         /\ lease' = [lease EXCEPT ![c] = NoLease]
    /\ pc' = [pc EXCEPT ![c] = "connecting"]
    /\ answer' = [answer EXCEPT ![c] = "none"]
    /\ invoked' = invoked + 1
    /\ UNCHANGED <<client, stored, relayLease, relayAccepted, sockets>>

\* An RPC starts: the server URL (and for registerLease the lease built from
\* the credential) is copied out under the inner lock, then the socket is
\* awaited.
StartRpc(c) ==
    /\ client = "ready"
    /\ pc[c] = "idle"
    /\ invoked < MaxCalls
    /\ \E r \in Rpcs, n \in Names :
         /\ rpc' = [rpc EXCEPT ![c] = r]
         /\ lease' = [lease EXCEPT ![c] = IF r = "register" THEN n ELSE NoLease]
    /\ pc' = [pc EXCEPT ![c] = "connecting"]
    /\ answer' = [answer EXCEPT ![c] = "none"]
    /\ invoked' = invoked + 1
    /\ UNCHANGED <<client, stored, relayLease, relayAccepted, sockets>>

\* WebSocketStream::connect returns (an error returns from the RPC), then
\* write_packet_async sends the request (an error returns from the RPC,
\* leaving the socket open).
SendRequest(c) ==
    /\ pc[c] = "connecting"
    /\ \E connected, written \in BOOLEAN :
         /\ sockets' = IF connected THEN sockets + 1 ELSE sockets
         /\ pc' = [pc EXCEPT ![c] = IF connected /\ written THEN "awaiting" ELSE "idle"]
    /\ UNCHANGED <<client, rpc, lease, answer, stored, relayLease, relayAccepted, invoked>>

\* The relay serves a request.  A LeaseUpdateRequest it accepts becomes the
\* relay's lease for this credential.
RelayServes(c) ==
    /\ pc[c] = "awaiting"
    /\ answer[c] = "none"
    /\ \E a \in Answers \ {"none"} :
         /\ answer' = [answer EXCEPT ![c] = a]
         /\ IF rpc[c] = "register" /\ a = "accepted"
              THEN /\ relayLease' = lease[c]
                   /\ relayAccepted' = relayAccepted \cup {lease[c]}
              ELSE UNCHANGED <<relayLease, relayAccepted>>
    /\ UNCHANGED <<client, pc, rpc, lease, stored, sockets, invoked>>

\* read_packet_async returns the response: its type must be the one the RPC
\* expects and it must decode; then registerLease and requestConnection
\* require ResponseCode::Accepted.  registerLease then stores the lease
\* under the credential id, replacing the one stored before.
ReadResponse(c) ==
    /\ pc[c] = "awaiting"
    /\ answer[c] # "none"
    /\ pc' = [pc EXCEPT ![c] = "idle"]
    /\ stored' = IF rpc[c] = "register" /\ answer[c] = "accepted" THEN lease[c] ELSE stored
    /\ UNCHANGED <<client, rpc, lease, answer, relayLease, relayAccepted, sockets, invoked>>

\* read_packet_async fails before a response (the socket errors or closes).
ReadFails(c) ==
    /\ pc[c] = "awaiting"
    /\ pc' = [pc EXCEPT ![c] = "idle"]
    /\ UNCHANGED <<client, rpc, lease, answer, stored, relayLease, relayAccepted,
                   sockets, invoked>>

Next ==
    \/ Connect
    \/ \E c \in Calls :
         \/ StartRpc(c)
         \/ SendRequest(c)
         \/ RelayServes(c)
         \/ ReadResponse(c)
         \/ ReadFails(c)

Spec == Init /\ [][Next]_vars

=============================================================================
