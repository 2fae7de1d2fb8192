----------------------------- MODULE MCWatcher -----------------------------
(***************************************************************************)
(* Instances of Watcher for TLC.                                           *)
(***************************************************************************)
EXTENDS Watcher

MCOneVm  == {"vm1"}
MCTwoVms == {"vm1", "vm2"}
MCOrder1 == <<"vm1">>
MCOrder2 == <<"vm1", "vm2">>
MCFails  == {"ping", "probe", "boot", "init", "setup"}
=============================================================================
