------------------------- MODULE TunnelProxyProofs -------------------------
(***************************************************************************)
(* Proofs about TunnelProxy for every number of calls and tunnel ids.      *)
(***************************************************************************)
EXTENDS TunnelProxy, TLAPS

USE CallsAssumption, TunnelIdsAssumption, MaxCallsAssumption

\* Where a call is between create_tunnel and its return: inside or between
\* send_request and receive_response.
Busy == {"send", "sending", "recv", "receiving"}

\* The entry points that create the tunnel they use.
Creators == {"http", "wsOpen", "tcp"}

\* Call c runs an entry point that created its tunnel and has not returned:
\* it alone knows the tunnel's id.
Owned(c) == op[c] \in Creators /\ pc[c] \in Busy

\* The connection guard of a tunnel is held only by a call inside the write
\* or read of send_request / receive_response on that tunnel.
GuardReleasedAfterIO ==
    \A t \in TunnelIds :
        holder[t] # NoCall =>
            /\ pc[holder[t]] \in {"sending", "receiving"}
            /\ tun[holder[t]] = t

\* Every id handed to JavaScript and not closed is still in the map.
HandedOutTunnelsRegistered == handedOut \subseteq tunnels

(***************************************************************************)
(* The strengthening.  Beyond the two facts above it records which entry    *)
(* point can stand where, that a tunnel being created or set up is known    *)
(* to no one else (its id was never returned to JavaScript, so no other     *)
(* call can look it up and remove it), and that a call working on a tunnel  *)
(* it looked up got the id from JavaScript.                                 *)
(***************************************************************************)
IInv ==
    /\ TypeOK
    /\ handedOut \subseteq returned
    /\ \A c \in Calls : pc[c] = "create" => op[c] \in Creators
    /\ \A c \in Calls : pc[c] \in {"recv", "receiving"} => op[c] \notin {"wsSend", "wsClose"}
    /\ \A c \in Calls : pc[c] \in Busy /\ op[c] \notin Creators => tun[c] \in returned
    /\ \A c \in Calls : Owned(c) => tun[c] \in tunnels \ returned
    /\ \A c, d \in Calls : Owned(c) /\ Owned(d) /\ c # d => tun[c] # tun[d]
    /\ GuardReleasedAfterIO
    /\ HandedOutTunnelsRegistered

\* Before any call, no tunnel exists and no guard is held.
LEMMA InitIInv == Init => IInv
BY DEF Init, IInv, TypeOK, Pcs, Ops, Owned, Busy, Creators, GuardReleasedAfterIO,
       HandedOutTunnelsRegistered

\* Every step of every call keeps the strengthening: one case per action.
\* create_tunnel draws an id no one has seen; a lookup finds only ids
\* JavaScript was given; the lock is taken only when free and dropped on
\* every return; a tunnel is removed only by the call that owns it or by
\* closeWebSocket, which also withdraws the id.
LEMMA StepIInv == IInv /\ [Next]_vars => IInv'
<1> SUFFICES ASSUME IInv, [Next]_vars PROVE IInv'
  OBVIOUS
<1>1. ASSUME NEW c \in Calls, StartCreate(c) PROVE IInv'
  BY <1>1 DEF StartCreate, IInv, TypeOK, Pcs, Ops, Owned, Busy, Creators,
     GuardReleasedAfterIO, HandedOutTunnelsRegistered
<1>2. ASSUME NEW c \in Calls, StartOnTunnel(c) PROVE IInv'
  BY <1>2 DEF StartOnTunnel, IInv, TypeOK, Pcs, Ops, Owned, Busy, Creators,
     GuardReleasedAfterIO, HandedOutTunnelsRegistered
<1>3. ASSUME NEW c \in Calls, CreateTunnel(c) PROVE IInv'
  BY <1>3 DEF CreateTunnel, CreateFails, Return, IInv, TypeOK, Pcs, Ops, Owned, Busy, Creators,
     GuardReleasedAfterIO, HandedOutTunnelsRegistered
<1>4. ASSUME NEW c \in Calls, LockForSend(c) PROVE IInv'
  BY <1>4 DEF LockForSend, Acquire, IInv, TypeOK, Pcs, Ops, Owned, Busy, Creators,
     GuardReleasedAfterIO, HandedOutTunnelsRegistered
<1>5. ASSUME NEW c \in Calls, LockForRecv(c) PROVE IInv'
  BY <1>5 DEF LockForRecv, Acquire, IInv, TypeOK, Pcs, Ops, Owned, Busy, Creators,
     GuardReleasedAfterIO, HandedOutTunnelsRegistered
<1>6. ASSUME NEW c \in Calls, SendDone(c) PROVE IInv'
  BY <1>6 DEF SendDone, AfterSend, CloseSent, RemoveTunnel, Return, IInv, TypeOK,
     Pcs, Ops, Owned, Busy, Creators, GuardReleasedAfterIO, HandedOutTunnelsRegistered
<1>7. ASSUME NEW c \in Calls, RecvDone(c) PROVE IInv'
  BY <1>7 DEF RecvDone, HttpReceived, OpenReceived, RemoveTunnel, Return, IInv,
     TypeOK, Pcs, Ops, Owned, Busy, Creators, GuardReleasedAfterIO,
     HandedOutTunnelsRegistered
<1>8. CASE TransportDrops
  BY <1>8 DEF TransportDrops, IInv, TypeOK, Owned, GuardReleasedAfterIO,
     HandedOutTunnelsRegistered
<1>9. CASE UNCHANGED vars
  BY <1>9 DEF vars, IInv, TypeOK, Owned, GuardReleasedAfterIO,
     HandedOutTunnelsRegistered
<1>10. QED
  BY <1>1, <1>2, <1>3, <1>4, <1>5, <1>6, <1>7, <1>8, <1>9 DEF Next

\* Type correctness of the tunnel layer for any number of calls and ids.
THEOREM TunnelTypeCorrect == Spec => []TypeOK
<1>1. IInv => TypeOK
  BY DEF IInv
<1>2. QED
  BY <1>1, InitIInv, StepIInv, PTL DEF Spec

-----------------------------------------------------------------------------
(***************************************************************************)
(* Refinement: TunnelProxy implements TunnelRegistry under the mapping     *)
(* registry <- tunnels, issued <- handedOut.  A step that touches neither  *)
(* is a stutter; the others map one to one.  The two facts IInv supplies   *)
(* are that a creator's tunnel is registered and was never issued, so its  *)
(* handler may publish or discard it.                                      *)
(***************************************************************************)

\* An empty map and no ids handed out is the registry's initial state.
LEMMA InitRefines == Init => Registry!Init
BY DEF Init, Registry!Init

\* A call that created its tunnel and is still inside a tunnel operation
\* holds a registered id that JavaScript was never given.
LEMMA OwnedFresh ==
    ASSUME IInv, NEW c \in Calls, op[c] \in Creators, pc[c] \in Busy
    PROVE  tun[c] \in tunnels /\ tun[c] \notin handedOut
BY DEF IInv, Owned

\* Every step of the tunnel layer is a registry step or leaves the map and
\* the handed-out ids alone.
LEMMA StepRefines == IInv /\ [Next]_vars => [Registry!Next]_<<tunnels, handedOut>>
<1> SUFFICES ASSUME IInv, [Next]_vars
             PROVE  [Registry!Next]_<<tunnels, handedOut>>
  OBVIOUS
<1> USE DEF Registry!Next
<1>1. ASSUME NEW c \in Calls, StartCreate(c) PROVE UNCHANGED <<tunnels, handedOut>>
  BY <1>1 DEF StartCreate
<1>2. ASSUME NEW c \in Calls, StartOnTunnel(c) PROVE UNCHANGED <<tunnels, handedOut>>
  BY <1>2 DEF StartOnTunnel
<1>3. ASSUME NEW c \in Calls, CreateTunnel(c) PROVE [Registry!Next]_<<tunnels, handedOut>>
  <2>1. CASE CreateFails(c)
    BY <1>3, <2>1 DEF CreateTunnel, CreateFails
  <2>2. CASE \E t \in TunnelIds \ drawn :
               /\ drawn' = drawn \cup {t}
               /\ tunnels' = tunnels \cup {t}
               /\ open' = open \cup {t}
               /\ tun' = [tun EXCEPT ![c] = t]
               /\ pc' = [pc EXCEPT ![c] = "send"]
               /\ UNCHANGED orphans
    <3>1. PICK t \in TunnelIds \ drawn : tunnels' = tunnels \cup {t}
      BY <2>2
    <3>2. t \notin tunnels
      BY <3>1 DEF IInv, TypeOK
    <3>3. UNCHANGED handedOut
      BY <1>3 DEF CreateTunnel
    <3>4. Registry!Register(t)
      BY <3>1, <3>2, <3>3 DEF Registry!Register
    <3>5. QED
      BY <3>1, <3>4
  <2>3. QED
    BY <1>3, <2>1, <2>2 DEF CreateTunnel
<1>4. ASSUME NEW c \in Calls, LockForSend(c) PROVE UNCHANGED <<tunnels, handedOut>>
  BY <1>4 DEF LockForSend
<1>5. ASSUME NEW c \in Calls, LockForRecv(c) PROVE UNCHANGED <<tunnels, handedOut>>
  BY <1>5 DEF LockForRecv
<1>6. ASSUME NEW c \in Calls, SendDone(c) PROVE [Registry!Next]_<<tunnels, handedOut>>
  <2>1. tun[c] \in TunnelIds
    BY <1>6 DEF SendDone, IInv, TypeOK, Owned, Busy
  <2>2. PICK ok \in BOOLEAN : AfterSend(c, ok)
    BY <1>6 DEF SendDone
  <2>3. CASE ~ok \/ op[c] = "wsSend"
    <3>1. UNCHANGED <<tunnels, handedOut>>
      BY <2>2, <2>3 DEF AfterSend
    <3>2. QED
      BY <3>1
  <2>4. CASE ok /\ op[c] # "wsSend" /\ op[c] = "wsClose"
    <3>1. CloseSent(c)
      BY <2>2, <2>4 DEF AfterSend
    <3>2. Registry!Withdraw(tun[c])
      BY <3>1 DEF CloseSent, RemoveTunnel, Registry!Withdraw
    <3>3. QED
      BY <2>1, <3>2
  <2>5. CASE ok /\ op[c] # "wsSend" /\ op[c] # "wsClose"
    <3>1. UNCHANGED <<tunnels, handedOut>>
      BY <2>2, <2>5 DEF AfterSend
    <3>2. QED
      BY <3>1
  <2>6. QED
    BY <2>3, <2>4, <2>5
<1>7. ASSUME NEW c \in Calls, RecvDone(c) PROVE [Registry!Next]_<<tunnels, handedOut>>
  <2>1. PICK outcome \in {"failed", "expected", "other"} :
          CASE op[c] = "http" -> HttpReceived(c, outcome)
            [] op[c] = "wsRecv" -> UNCHANGED <<tunnels, handedOut, returned>>
            [] OTHER -> OpenReceived(c, outcome)
    BY <1>7 DEF RecvDone
  <2>2. pc[c] = "receiving"
    BY <1>7 DEF RecvDone
  <2>3. tun[c] \in TunnelIds
    BY <2>2 DEF IInv, TypeOK, Owned, Busy
  <2>4. CASE op[c] = "http"
    <3>1. tun[c] \notin handedOut
      BY <2>2, <2>4, OwnedFresh DEF Busy, Creators
    <3>2. HttpReceived(c, outcome)
      BY <2>1, <2>4
    <3>3. CASE outcome = "failed"
      BY <3>2, <3>3 DEF HttpReceived
    <3>4. CASE outcome # "failed"
      <4>1. Registry!Discard(tun[c])
        BY <3>1, <3>2, <3>4 DEF HttpReceived, RemoveTunnel, Registry!Discard
      <4>2. QED
        BY <2>3, <4>1
    <3>5. QED
      BY <3>3, <3>4
  <2>5. CASE op[c] = "wsRecv"
    BY <2>1, <2>5
  <2>6. CASE op[c] # "http" /\ op[c] # "wsRecv"
    <3>1. op[c] \in Creators
      BY <2>2, <2>6 DEF IInv, TypeOK, Ops, Creators
    <3>2. tun[c] \in tunnels /\ tun[c] \notin handedOut
      BY <2>2, <3>1, OwnedFresh DEF Busy
    <3>3. OpenReceived(c, outcome)
      BY <2>1, <2>6
    <3>4. CASE outcome = "failed"
      BY <3>3, <3>4 DEF OpenReceived
    <3>5. CASE outcome = "expected"
      <4>1. Registry!Issue(tun[c])
        BY <3>2, <3>3, <3>5 DEF OpenReceived, Registry!Issue
      <4>2. QED
        BY <2>3, <4>1
    <3>6. CASE outcome = "other"
      <4>1. Registry!Discard(tun[c])
        BY <3>2, <3>3, <3>6 DEF OpenReceived, RemoveTunnel, Registry!Discard
      <4>2. QED
        BY <2>3, <4>1
    <3>7. QED
      BY <3>4, <3>5, <3>6
  <2>7. QED
    BY <2>4, <2>5, <2>6
<1>8. CASE TransportDrops
  BY <1>8 DEF TransportDrops
<1>9. CASE UNCHANGED vars
  BY <1>9 DEF vars
<1>10. QED
  BY <1>1, <1>2, <1>3, <1>4, <1>5, <1>6, <1>7, <1>8, <1>9 DEF Next

\* The tunnel layer implements the registry it promises JavaScript, for any
\* number of calls and tunnel ids: every behaviour of create_tunnel,
\* remove_tunnel and the six entry points, interleaved in any order, is a
\* behaviour of TunnelRegistry.
THEOREM ImplementsRegistry == Spec => RegistryRefined
<1>1. Spec => []IInv
  BY InitIInv, StepIInv, PTL DEF Spec
<1>2. QED
  BY <1>1, InitRefines, StepRefines, PTL DEF Spec, RegistryRefined, Registry!Spec,
     Registry!regVars
=============================================================================
