---------------------------- MODULE TunnelProxy ----------------------------
(***************************************************************************)
(* The tunnel layer: TunnelManager and Tunnel of                           *)
(* src/portal/wasm/src/tunnel_manager.rs, driven by the ProxyEngine entry  *)
(* points of src/relaydns/wasm/src/proxy_engine.rs that JavaScript calls.  *)
(*                                                                         *)
(* Each JavaScript call is an async task on the single browser event loop; *)
(* tasks interleave only at their await points: create_tunnel, and the     *)
(* channel write and read inside send_request and receive_response.  Both  *)
(* of those take the tunnel's parking_lot Mutex and hold the guard across  *)
(* the await.  On wasm32 a parking_lot lock() that finds the mutex held    *)
(* cannot park the only thread: the task never proceeds (the runtime's     *)
(* park panics), which the model records as the call's pc "contended".    *)
(*                                                                         *)
(* The channel and the relay behind it are abstracted to the outcome of    *)
(* each write and read (SecureChannel.tla models the channel itself); a    *)
(* response is reduced to whether it is the variant the handler expects.  *)
(***************************************************************************)
EXTENDS Naturals, FiniteSets

CONSTANTS
    Calls,      \* concurrent JavaScript call slots (model values)
    TunnelIds,  \* tunnel ids generate_tunnel_id may draw (model values)
    NoTunnel,   \* model value: a call not bound to a tunnel
    NoCall,     \* model value: an unlocked tunnel mutex
    MaxCalls    \* bound: JavaScript invocations over the whole run

ASSUME CallsAssumption == Calls # {} /\ NoCall \notin Calls
ASSUME TunnelIdsAssumption == NoTunnel \notin TunnelIds
ASSUME MaxCallsAssumption == MaxCalls \in Nat

\* The ProxyEngine entry points.
Ops == {"http", "wsOpen", "wsSend", "wsRecv", "wsClose", "tcp"}

\* Program counter of a call: between invocations, awaiting create_tunnel,
\* about to lock / holding the lock in send_request, about to lock /
\* holding the lock in receive_response, returned, stuck on the mutex.
Pcs == {"idle", "create", "send", "sending", "recv", "receiving", "contended"}

VARIABLES
    pc,         \* pc[c]: where call c stands
    op,         \* op[c]: the entry point call c is running
    tun,        \* tun[c]: the tunnel call c holds an Arc of
    tunnels,    \* key set of TunnelManager.tunnels
    drawn,      \* ids generate_tunnel_id has returned (ids are random 16 bytes)
    holder,     \* holder[t]: the call holding tunnel t's connection mutex
    handedOut,  \* ids returned to JavaScript by openWebSocket / connectTcp and not closed
    returned,   \* every id ever returned to JavaScript (ids are unguessable)
    invoked,    \* JavaScript invocations so far
    open,       \* tunnels whose WebSocket is still open
    orphans     \* open WebSockets of handshakes that failed (no tunnel holds them)

vars == <<pc, op, tun, tunnels, drawn, holder, handedOut, returned, invoked,
          open, orphans>>

TypeOK ==
    /\ pc \in [Calls -> Pcs]
    /\ op \in [Calls -> Ops]
    /\ tun \in [Calls -> TunnelIds \cup {NoTunnel}]
    /\ tunnels \subseteq drawn
    /\ drawn \subseteq TunnelIds
    /\ holder \in [TunnelIds -> Calls \cup {NoCall}]
    /\ handedOut \subseteq drawn
    /\ returned \subseteq drawn
    /\ invoked \in 0 .. MaxCalls
    /\ open \subseteq drawn
    /\ orphans \in Nat

Init ==
    /\ pc = [c \in Calls |-> "idle"]
    /\ op = [c \in Calls |-> "http"]
    /\ tun = [c \in Calls |-> NoTunnel]
    /\ tunnels = {}
    /\ drawn = {}
    /\ holder = [t \in TunnelIds |-> NoCall]
    /\ handedOut = {}
    /\ returned = {}
    /\ invoked = 0
    /\ open = {}
    /\ orphans = 0

\* TunnelManager::remove_tunnel: drop the map entry (a no-op if absent).
RemoveTunnel(t) == tunnels' = tunnels \ {t}

\* A call returns to JavaScript; the slot may be used by a later invocation.
Return(c) == pc' = [pc EXCEPT ![c] = "idle"] /\ tun' = [tun EXCEPT ![c] = NoTunnel]
-----------------------------------------------------------------------------
(***************************************************************************)
(* Entry points: validation and tunnel lookup up to the first await.       *)
(***************************************************************************)

\* handleHttpRequest, openWebSocket, connectTcp: validate the method, URL or
\* address (an invalid one returns at once), then await create_tunnel.
StartCreate(c) ==
    /\ pc[c] = "idle"
    /\ invoked < MaxCalls
    /\ \E o \in {"http", "wsOpen", "tcp"}, valid \in BOOLEAN :
         /\ op' = [op EXCEPT ![c] = o]
         /\ pc' = [pc EXCEPT ![c] = IF valid THEN "create" ELSE "idle"]
    /\ invoked' = invoked + 1
    /\ UNCHANGED <<tun, tunnels, drawn, holder, handedOut, returned, open, orphans>>

\* sendWebSocketMessage, receiveWebSocketMessage, closeWebSocket: get_tunnel
\* clones the Arc out of the map under the map lock; an unknown id returns
\* "tunnel not found".  JavaScript passes an id it was given earlier, or
\* any other string (NoTunnel), which is never found.  sendWebSocketMessage may still fail converting the
\* data (non-string text) before it sends.
StartOnTunnel(c) ==
    /\ pc[c] = "idle"
    /\ invoked < MaxCalls
    /\ \E o \in {"wsSend", "wsRecv", "wsClose"}, t \in returned \cup {NoTunnel}, dataOk \in BOOLEAN :
         /\ op' = [op EXCEPT ![c] = o]
         /\ IF t \in tunnels /\ (o = "wsSend" => dataOk)
              THEN /\ tun' = [tun EXCEPT ![c] = t]
                   /\ pc' = [pc EXCEPT ![c] = IF o = "wsRecv" THEN "recv" ELSE "send"]
              ELSE UNCHANGED <<pc, tun>>
    /\ invoked' = invoked + 1
    /\ UNCHANGED <<tunnels, drawn, holder, handedOut, returned, open, orphans>>

\* create_tunnel returns an error: WebSocket::new rejected the URL (no
\* socket), or the socket opened and client_handshake failed; the
\* WebSocketStream is then dropped, which does not close the browser socket
\* (WebSocketStream has no Drop, and its handlers were forgotten).
CreateFails(c) ==
    /\ Return(c)
    /\ \E opened \in BOOLEAN : orphans' = IF opened THEN orphans + 1 ELSE orphans
    /\ UNCHANGED <<tunnels, drawn, open>>

\* Mutant of CreateTunnel for TypeOK: generate_tunnel_id called twice, the
\* tunnel stored under a different id from the one it carries.
CreateTunnelKeyedByOtherId(c) ==
    /\ pc[c] = "create"
    /\ \/ CreateFails(c)
       \/ \E t, k \in TunnelIds \ drawn :
            /\ drawn' = drawn \cup {t}
            /\ tunnels' = tunnels \cup {k}
            /\ open' = open \cup {t}
            /\ tun' = [tun EXCEPT ![c] = t]
            /\ pc' = [pc EXCEPT ![c] = "send"]
            /\ UNCHANGED orphans
    /\ UNCHANGED <<op, holder, handedOut, returned, invoked>>

\* create_tunnel resumes: it fails (above), or the handshake succeeded on
\* the new socket, a fresh id is drawn, the tunnel stored under it, and the
\* handler goes on to send_request.
CreateTunnel(c) ==
    /\ pc[c] = "create"
    /\ \/ CreateFails(c)
       \/ \E t \in TunnelIds \ drawn :
            /\ drawn' = drawn \cup {t}
            /\ tunnels' = tunnels \cup {t}
            /\ open' = open \cup {t}
            /\ tun' = [tun EXCEPT ![c] = t]
            /\ pc' = [pc EXCEPT ![c] = "send"]
            /\ UNCHANGED orphans
    /\ UNCHANGED <<op, holder, handedOut, returned, invoked>>

\* The relay or the network ends a WebSocket: the browser closes it and
\* onclose / onerror set the stream's closed latch.  The tunnel map is not
\* told; later reads and writes on the tunnel fail.
TransportDrops ==
    /\ \/ \E t \in open : open' = open \ {t} /\ UNCHANGED orphans
       \/ orphans > 0 /\ orphans' = orphans - 1 /\ UNCHANGED open
    /\ UNCHANGED <<pc, op, tun, tunnels, drawn, holder, handedOut, returned, invoked>>
-----------------------------------------------------------------------------
(***************************************************************************)
(* Tunnel::send_request and Tunnel::receive_response.                      *)
(***************************************************************************)

\* self.connection.lock(): free, the call takes it and starts the await;
\* held by another call, this call never proceeds.
Acquire(c, next) ==
    LET t == tun[c] IN
      IF holder[t] = NoCall
        THEN /\ holder' = [holder EXCEPT ![t] = c]
             /\ pc' = [pc EXCEPT ![c] = next]
        ELSE /\ pc' = [pc EXCEPT ![c] = "contended"]
             /\ UNCHANGED holder

LockForSend(c) ==
    /\ pc[c] = "send"
    /\ Acquire(c, "sending")
    /\ UNCHANGED <<op, tun, tunnels, drawn, handedOut, returned, invoked, open, orphans>>

LockForRecv(c) ==
    /\ pc[c] = "recv"
    /\ Acquire(c, "receiving")
    /\ UNCHANGED <<op, tun, tunnels, drawn, handedOut, returned, invoked, open, orphans>>

\* Mutant of CloseSent for RegistryRefined: the id is withdrawn but
\* remove_tunnel is forgotten.
CloseSentNoRemove(c) ==
    /\ Return(c)
    /\ UNCHANGED tunnels
    /\ handedOut' = handedOut \ {tun[c]}

\* closeWebSocket once its close request is written: remove the tunnel
\* and return (the id is no longer one JavaScript holds open).
CloseSent(c) ==
    /\ Return(c)
    /\ RemoveTunnel(tun[c])
    /\ handedOut' = handedOut \ {tun[c]}

\* What a handler does once send_request has returned: an error returns
\* at once with no remove_tunnel; sendWebSocketMessage returns; closeWebSocket
\* goes on to CloseSent; the others await the response.
AfterSend(c, ok) ==
    CASE ~ok \/ op[c] = "wsSend" -> Return(c) /\ UNCHANGED <<tunnels, handedOut>>
      [] ok /\ op[c] = "wsClose" -> CloseSent(c)
      [] OTHER -> pc' = [pc EXCEPT ![c] = "recv"] /\ UNCHANGED <<tun, tunnels, handedOut>>

\* The channel write of send_request completes or fails; the guard goes
\* out of scope either way.
SendDone(c) ==
    /\ pc[c] = "sending"
    /\ holder' = [holder EXCEPT ![tun[c]] = NoCall]
    /\ \E ok \in BOOLEAN : AfterSend(c, ok)
    /\ UNCHANGED <<op, drawn, returned, invoked, open, orphans>>

\* handleHttpRequest once receive_response has returned: a failure returns
\* the error and keeps the tunnel; any response removes the tunnel, then is
\* converted (an Error or another variant is returned as an error).
HttpReceived(c, outcome) ==
    /\ IF outcome = "failed" THEN UNCHANGED tunnels ELSE RemoveTunnel(tun[c])
    /\ UNCHANGED <<handedOut, returned>>

\* openWebSocket / connectTcp once receive_response has returned: a failure
\* returns the error and keeps the tunnel; WebSocketOpened / TcpConnected
\* returns the tunnel id to JavaScript; an Error or another variant removes
\* the tunnel.
OpenReceived(c, outcome) ==
    CASE outcome = "failed" -> UNCHANGED <<tunnels, handedOut, returned>>
      [] outcome = "expected" ->
           /\ handedOut' = handedOut \cup {tun[c]}
           /\ returned' = returned \cup {tun[c]}
           /\ UNCHANGED tunnels
      [] OTHER -> RemoveTunnel(tun[c]) /\ UNCHANGED <<handedOut, returned>>

\* The channel read of receive_response completes, the guard goes out of
\* scope, and the handler returns.  A read error, end of stream ("tunnel
\* closed"), an undecodable envelope or a request envelope are "failed";
\* otherwise the response is the variant the handler expects or another.
\* receiveWebSocketMessage returns whatever it got.
RecvDone(c) ==
    /\ pc[c] = "receiving"
    /\ holder' = [holder EXCEPT ![tun[c]] = NoCall]
    /\ Return(c)
    /\ \E outcome \in {"failed", "expected", "other"} :
         CASE op[c] = "http" -> HttpReceived(c, outcome)
           [] op[c] = "wsRecv" -> UNCHANGED <<tunnels, handedOut, returned>>
           [] OTHER -> OpenReceived(c, outcome)
    /\ UNCHANGED <<op, drawn, invoked, open, orphans>>
-----------------------------------------------------------------------------

Next ==
    \/ TransportDrops
    \/ \E c \in Calls :
         \/ StartCreate(c)
         \/ StartOnTunnel(c)
         \/ CreateTunnel(c)
         \/ LockForSend(c)
         \/ LockForRecv(c)
         \/ SendDone(c)
         \/ RecvDone(c)

Spec == Init /\ [][Next]_vars
-----------------------------------------------------------------------------
(***************************************************************************)
(* Properties.                                                             *)
(***************************************************************************)

\* The tunnel map and the ids handed to JavaScript, seen as the registry
\* TunnelRegistry.tla describes.
Registry == INSTANCE TunnelRegistry WITH Ids <- TunnelIds, registry <- tunnels, issued <- handedOut

\* The tunnel layer implements the registry: create_tunnel registers, an
\* openWebSocket / connectTcp that succeeds issues, the handlers' removals
\* discard only ids JavaScript never got, and only closeWebSocket takes an
\* issued id back, removing the tunnel in the same step.
RegistryRefined == Registry!Spec

\* Spec 2 / 4.6 / 7: a tunnel's transport is closed when the tunnel is
\* destroyed, and any channel error makes the Tunnel Manager remove the
\* tunnel.  So every open WebSocket belongs to a tunnel whose id JavaScript
\* holds (and can close) or to a call still using it.
TransportsAccountedFor ==
    /\ orphans = 0
    /\ \A t \in open :
         t \in handedOut \/ \E c \in Calls : tun[c] = t /\ pc[c] # "idle"

\* Spec 4.6 / 5: the per-tunnel guard serialises operations on a tunnel,
\* one request at a time; a second operation on a tunnel waits for the
\* first.  Here: no call ever finds the parking_lot mutex of its tunnel held.
NoGuardContention == \A c \in Calls : pc[c] # "contended"
=============================================================================
