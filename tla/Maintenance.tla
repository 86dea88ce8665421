----------------------------- MODULE Maintenance -----------------------------
(***************************************************************************)
(* The maintenance gate (maintenance.rs): work is admitted as an activity, *)
(* and an installation of an update only while there is none.  The modules *)
(* of the services that share the gate extend this one; RunCoordinator has *)
(* the same gate between runs and updates.                                 *)
(***************************************************************************)
VARIABLES
    installing,  \* an update holds the MaintenanceLease
    activities   \* what holds an ActivityLease

gate == <<installing, activities>>

GateInit == installing = FALSE /\ activities = {}

Admit(a) == ~installing /\ activities' = activities \cup {a} /\ UNCHANGED installing
Leave(a) == activities' = activities \ {a} /\ UNCHANGED installing

\* The check and the flag are one step under the coordinator's lock.
CloseGate == ~installing /\ activities = {} /\ installing' = TRUE /\ UNCHANGED activities
OpenGate  == installing' = FALSE /\ UNCHANGED activities
=============================================================================
