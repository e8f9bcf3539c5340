-------------------------------- MODULE Network --------------------------------
(***************************************************************************)
(* The layers of the network, each over an abstraction of the one below:   *)
(* Tcp and IpStack over a network that loses, repeats and delays, which is *)
(* all that NicRx and NicTx promise when their rings are full.  The layers *)
(* share no variable, so what a property of one of them can see in a       *)
(* behaviour of all, it sees in one where that layer acts alone; `layer'   *)
(* is the one that acts.                                                   *)
(***************************************************************************)
EXTENDS Tcp, IpStack, NicRx, NicTx

VARIABLE layer

netVars == <<tcpVars, ipVars, rxVars, txVars, layer>>

Of(name, A, others) == layer = name /\ A /\ UNCHANGED <<others, layer>>

NetInit ==
  /\ TcpInit /\ IpInit /\ RxInit /\ TxInit
  /\ layer \in {"tcp", "ip", "rx", "tx"}
  /\ layer # "rx" => card = "e1000"
  /\ layer # "tx" => txCard = "e1000"

NetNext ==
  \/ Of("tcp", TcpNext, <<ipVars, rxVars, txVars>>)
  \/ Of("ip", IpNext, <<tcpVars, rxVars, txVars>>)
  \/ Of("rx", RxNext, <<tcpVars, ipVars, txVars>>)
  \/ Of("tx", TxNext, <<tcpVars, ipVars, rxVars>>)

NetSpec == NetInit /\ [][NetNext]_netVars
-------------------------------------------------------------------------------
NetTypeOK == TcpTypeOK /\ IpTypeOK
===============================================================================
