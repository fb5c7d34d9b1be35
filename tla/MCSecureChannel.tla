-------------------------- MODULE MCSecureChannel --------------------------
(***************************************************************************)
(* Small instances of SecureChannel for TLC.                               *)
(***************************************************************************)
EXTENDS SecureChannel

\* A well-formed ServerInit for every nonce, so that the connection starts
\* at each point of the nonce space, including the one that wraps first.
MCGoodInits ==
    {[kind |-> "init", version |-> 1, identity |-> TRUE, sigOk |-> TRUE,
      keyOk |-> TRUE, nonceOk |-> TRUE, nonce |-> n] : n \in Nonces}

\* One ServerInit failing each check of client_handshake in turn.
MCBadInits ==
    {[kind |-> "init", version |-> 2, identity |-> TRUE, sigOk |-> TRUE,
      keyOk |-> TRUE, nonceOk |-> TRUE, nonce |-> 0],
     [kind |-> "init", version |-> 1, identity |-> FALSE, sigOk |-> TRUE,
      keyOk |-> TRUE, nonceOk |-> TRUE, nonce |-> 0],
     [kind |-> "init", version |-> 1, identity |-> TRUE, sigOk |-> FALSE,
      keyOk |-> TRUE, nonceOk |-> TRUE, nonce |-> 0],
     [kind |-> "init", version |-> 1, identity |-> TRUE, sigOk |-> TRUE,
      keyOk |-> FALSE, nonceOk |-> TRUE, nonce |-> 0],
     [kind |-> "init", version |-> 1, identity |-> TRUE, sigOk |-> TRUE,
      keyOk |-> TRUE, nonceOk |-> FALSE, nonce |-> 0]}

MCAllInits == MCGoodInits \cup MCBadInits
=============================================================================
