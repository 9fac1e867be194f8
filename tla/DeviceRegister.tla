---------------------------- MODULE DeviceRegister ----------------------------
(***************************************************************************)
(* What the ids of a site's devices promise (P-262), with no allocator in  *)
(* it: an id names one kind of device from the day it is given, and once   *)
(* its device is gone it never names another.                              *)
(***************************************************************************)
CONSTANT Ids, Kinds

VARIABLES live,     \* the kind of device each listed id names
          retired   \* ids given that no listed device has

vars == <<live, retired>>

Init == live = [id \in {} |-> 0] /\ retired = {}

\* Ids fresh until now are listed or set aside, and listed ones may go.
Change(listed, spent) ==
  LET before == DOMAIN live
  IN  /\ listed \cap retired = {}
      /\ spent \cap before = {}
      /\ live' \in [listed -> Kinds]
      /\ \A id \in listed \cap before : live'[id] = live[id]
      /\ retired' = retired \cup (before \ listed) \cup (spent \ listed)

Next == \E listed, spent \in SUBSET Ids : Change(listed, spent)

Spec == Init /\ [][Next]_vars
=============================================================================
