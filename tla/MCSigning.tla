---------------------------- MODULE MCSigning ----------------------------
(* Signing on two wallets; the uses are the sets of requests a run mixes.  *)
EXTENDS Signing, TLC

HostKinds   == {<<"host", "tx">>, <<"host", "message">>, <<"host", "passphrase">>}
OneEntrance == {HostKinds}
SlotShared  == {{<<"host", "tx">>, <<"gap", "tx">>}}
Separate    == OneEntrance \cup SlotShared
Mixed       == {{<<"host", "message">>, <<"gap", "tx">>}}
=============================================================================
