----------------------------- MODULE MCServices -----------------------------
(***************************************************************************)
(* The components of the server side and of the command-line seeder, one   *)
(* at a time: they share processes but no state, so "part" chooses one in  *)
(* the initial state and the others stay as they started.                  *)
(***************************************************************************)
EXTENDS RedisTracker, WalletSession, ConnectionLimits, HubRelay, UploadBroker,
        SeederDaemon, PaidDownload, TLC

VARIABLE part

Piece(i, s) == [index |-> i, size |-> s]
Send(signer, pieces, total) ==
    [creator |-> 1, signer |-> signer, chunks |-> pieces, total |-> total]
MCUpload == {Send(1, <<Piece(0, 1)>>, 1), Send(2, <<Piece(0, 1)>>, 1),
             Send(1, <<Piece(0, 1)>>, 2), Send(1, <<Piece(0, 1), Piece(2, 1)>>, 2)}

Pay(model, paid) == [model |-> model, seeder |-> 1, paid |-> paid]
MCTx == {[succeeded |-> TRUE, logs |-> <<Pay(1, 2)>>],
         [succeeded |-> TRUE, logs |-> <<Pay(2, 2), Pay(1, 1)>>]}

vars == <<now, part, trackerVars, sessionVars, limitVars, relayVars, brokerVars,
          daemonVars, paidVars>>

Init ==
    /\ now = 0
    /\ part \in {"tracker", "session", "limits", "relay", "broker", "daemon", "paid"}
    /\ TrackerInit /\ SessionInit /\ LimitsInit /\ RelayInit /\ BrokerInit
    /\ DaemonInit /\ PaidInit
    /\ part # "session" => store = "memory"
    /\ part # "relay" => shared
    /\ part # "broker" => place = [r \in Replica |-> 0]
    /\ part # "paid" => home = [r \in Replica |-> 0]

Next ==
    /\ UNCHANGED part
    /\ \/ /\ part = "tracker" /\ TrackerNext
          /\ UNCHANGED <<sessionVars, limitVars, relayVars, brokerVars, daemonVars, paidVars>>
       \/ /\ part = "session" /\ SessionNext
          /\ UNCHANGED <<trackerVars, limitVars, relayVars, brokerVars, daemonVars, paidVars>>
       \/ /\ part = "limits" /\ LimitsNext
          /\ UNCHANGED <<trackerVars, sessionVars, relayVars, brokerVars, daemonVars, paidVars>>
       \/ /\ part = "relay" /\ RelayNext
          /\ UNCHANGED <<now, trackerVars, sessionVars, limitVars, brokerVars, daemonVars, paidVars>>
       \/ /\ part = "broker" /\ BrokerNext
          /\ UNCHANGED <<trackerVars, sessionVars, limitVars, relayVars, daemonVars, paidVars>>
       \/ /\ part = "daemon" /\ DaemonNext
          /\ UNCHANGED <<now, trackerVars, sessionVars, limitVars, relayVars, brokerVars, paidVars>>
       \/ /\ part = "paid" /\ PaidNext
          /\ UNCHANGED <<trackerVars, sessionVars, limitVars, relayVars, brokerVars, daemonVars>>

Spec == Init /\ [][Next]_vars

Symmetry == Permutations(Replica) \cup Permutations(Slot) \cup Permutations(ModelID)
=============================================================================
