------------------------- MODULE RelayClientProofs -------------------------
(***************************************************************************)
(* Proofs about RelayClient for every number of calls and lease names.     *)
(***************************************************************************)
EXTENDS RelayClient, FiniteSetTheorems, TLAPS

USE NamesAssumption, MaxCallsAssumption, CallsAssumption

(***************************************************************************)
(* Sockets: every RPC opens at most one, and connect one more.             *)
(***************************************************************************)

\* The calls whose WebSocketStream::connect is still pending.
Connecting == {c \in Calls : pc[c] = "connecting"}

\* The strengthening: the sockets opened, plus one for every call about to
\* open its socket, are at most the RPCs invoked plus connect's test socket.
\* A registration's snapshotted lease is a name, so the relay only ever
\* accepts names.
SocketInv ==
    /\ TypeOK
    /\ \A c \in Calls : rpc[c] = "register" => lease[c] \in Names
    /\ sockets + Cardinality(Connecting) <= invoked + (IF client = "ready" THEN 1 ELSE 0)

\* The pending connects are a finite set: the call slots are.
LEMMA ConnectingFinite ==
    ASSUME pc \in [Calls -> {"idle", "connecting", "awaiting"}]
    PROVE  IsFiniteSet(Connecting) /\ Cardinality(Connecting) \in Nat
<1>1. IsFiniteSet(Connecting)
  BY FS_Subset DEF Connecting
<1>2. QED
  BY <1>1, FS_CardinalityType

\* Before connect, no socket is open and no call is pending.
LEMMA InitSocketInv == Init => SocketInv
<1> SUFFICES ASSUME Init PROVE SocketInv
  OBVIOUS
<1>1. Connecting = {}
  BY DEF Init, Connecting
<1>2. QED
  BY <1>1, FS_EmptySet DEF Init, SocketInv, TypeOK, Rpcs, Answers

\* Every step keeps the strengthening: one case per action.
LEMMA StepSocketInv == SocketInv /\ [Next]_vars => SocketInv'
<1> SUFFICES ASSUME SocketInv, [Next]_vars PROVE SocketInv'
  OBVIOUS
<1> DEFINE Ready(x) == IF x = "ready" THEN 1 ELSE 0
<1>0. /\ IsFiniteSet(Connecting)
      /\ Cardinality(Connecting) \in Nat
      /\ sockets \in 0 .. MaxCalls + 1
      /\ invoked \in 0 .. MaxCalls
  BY ConnectingFinite DEF SocketInv, TypeOK
<1>1. CASE Connect
  <2>1. Connecting' = Connecting
    BY <1>1 DEF Connect, Connecting
  <2>2. client = "none" /\ client' \in {"none", "ready"}
        /\ sockets' <= sockets + Ready(client')
    BY <1>1 DEF Connect
  <2>3. sockets' + Cardinality(Connecting') <= invoked' + Ready(client')
    BY <1>0, <1>1, <2>1, <2>2 DEF Connect, SocketInv
  <2>4. QED
    BY <1>0, <1>1, <2>2, <2>3 DEF Connect, SocketInv, TypeOK
<1>2. ASSUME NEW c \in Calls, StartRpc(c) PROVE SocketInv'
  <2>1. pc[c] = "idle" /\ pc' = [pc EXCEPT ![c] = "connecting"]
    BY <1>2 DEF StartRpc
  <2>2. Connecting' = Connecting \cup {c} /\ c \notin Connecting
    BY <2>1 DEF Connecting, SocketInv, TypeOK
  <2>3. Cardinality(Connecting') = Cardinality(Connecting) + 1
    BY <1>0, <2>2, FS_AddElement
  <2>4. QED
    BY <1>0, <1>2, <2>3 DEF StartRpc, SocketInv, TypeOK, Rpcs, Answers
<1>3. ASSUME NEW c \in Calls, SendRequest(c) PROVE SocketInv'
  <2>1. PICK connected \in BOOLEAN, written \in BOOLEAN :
          /\ sockets' = IF connected THEN sockets + 1 ELSE sockets
          /\ pc' = [pc EXCEPT ![c] = IF connected /\ written THEN "awaiting" ELSE "idle"]
    BY <1>3 DEF SendRequest
  <2>2. Connecting' = Connecting \ {c} /\ c \in Connecting
    BY <1>3, <2>1 DEF SendRequest, Connecting, SocketInv, TypeOK
  <2>3. Cardinality(Connecting') = Cardinality(Connecting) - 1
    BY <1>0, <2>2, FS_RemoveElement
  <2>4. sockets' \in {sockets, sockets + 1}
    <3>1. CASE connected
      BY <2>1, <3>1
    <3>2. CASE ~connected
      BY <2>1, <3>2
    <3>3. QED
      BY <3>1, <3>2
  <2>5. pc' \in [Calls -> {"idle", "connecting", "awaiting"}]
    BY <2>1 DEF SocketInv, TypeOK
  <2>6. sockets' \in Nat /\ Cardinality(Connecting') \in Nat
    <3>1. IsFiniteSet(Connecting')
      BY <1>0, <2>2, FS_RemoveElement
    <3>2. QED
      BY <1>0, <2>4, <3>1, FS_CardinalityType
  <2>7. sockets' + Cardinality(Connecting') <= invoked + Ready(client)
    BY <1>0, <2>3, <2>4, <2>6 DEF SocketInv
  <2>8. UNCHANGED <<client, rpc, lease, answer, stored, relayLease, relayAccepted, invoked>>
    BY <1>3 DEF SendRequest
  <2>9. sockets' \in 0 .. MaxCalls + 1
    BY <1>0, <2>6, <2>7
  <2>10. QED
    BY <2>5, <2>7, <2>8, <2>9 DEF SocketInv, TypeOK
<1>4. ASSUME NEW c \in Calls,
             RelayServes(c) \/ ReadResponse(c) \/ ReadFails(c)
      PROVE  SocketInv'
  <2>1. pc[c] = "awaiting" /\ pc'[c] \in {"awaiting", "idle"}
        /\ \A d \in Calls \ {c} : pc'[d] = pc[d]
        /\ pc' \in [Calls -> {"idle", "connecting", "awaiting"}]
    BY <1>4 DEF RelayServes, ReadResponse, ReadFails, SocketInv, TypeOK
  <2>2. Connecting' = Connecting
    BY <2>1 DEF Connecting
  <2>3. UNCHANGED <<client, sockets, invoked, rpc, lease>>
    BY <1>4 DEF RelayServes, ReadResponse, ReadFails
  <2>4. TypeOK'
    <3>1. CASE RelayServes(c)
      <4>1. PICK a \in Answers \ {"none"} :
              /\ answer' = [answer EXCEPT ![c] = a]
              /\ IF rpc[c] = "register" /\ a = "accepted"
                   THEN /\ relayLease' = lease[c]
                        /\ relayAccepted' = relayAccepted \cup {lease[c]}
                   ELSE UNCHANGED <<relayLease, relayAccepted>>
        BY <3>1 DEF RelayServes
      <4>2. rpc[c] = "register" => lease[c] \in Names
        BY DEF SocketInv
      <4>3. QED
        BY <2>1, <3>1, <4>1, <4>2 DEF RelayServes, SocketInv, TypeOK, Answers
    <3>2. CASE ReadResponse(c)
      BY <2>1, <3>2 DEF ReadResponse, SocketInv, TypeOK
    <3>3. CASE ReadFails(c)
      BY <2>1, <3>3 DEF ReadFails, SocketInv, TypeOK
    <3>4. QED
      BY <1>4, <3>1, <3>2, <3>3
  <2>5. QED
    BY <2>2, <2>3, <2>4 DEF SocketInv
<1>5. CASE UNCHANGED vars
  <2>1. Connecting' = Connecting
    BY <1>5 DEF vars, Connecting
  <2>2. QED
    BY <1>5, <2>1 DEF vars, SocketInv, TypeOK
<1>6. QED
  BY <1>1, <1>2, <1>3, <1>4, <1>5 DEF Next

\* For any number of concurrent calls: the client never holds more sockets
\* than one per RPC plus connect's test socket, and every variable stays in
\* its type.  No socket is ever closed, so this is also how many stay open.
THEOREM RelayTypeCorrect == Spec => []TypeOK
<1>1. SocketInv => TypeOK
  BY DEF SocketInv
<1>2. QED
  BY <1>1, InitSocketInv, StepSocketInv, PTL DEF Spec

=============================================================================
