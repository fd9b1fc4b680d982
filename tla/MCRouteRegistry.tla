-------------------------- MODULE MCRouteRegistry --------------------------
(***************************************************************************)
(* Small instances of RouteRegistry.  Bots share a profile with a direct   *)
(* chat and groups; a group may have several sessions (one per user).  The *)
(* direct chat is seen under two wire ids (two Spaces), a group under one. *)
(***************************************************************************)
EXTENDS RouteRegistry, TLC

CONSTANTS robotA, robotB, dm, group, other, sDm, sGroup1, sGroup2, sOther,
          wireD1, wireD2, wireG

MCTargetOf ==
    [s \in Sessions |-> CASE s = sDm -> dm [] s = sOther -> other
                          [] s \in {sGroup1, sGroup2} -> group]
MCWiresOf == [t \in Targets |-> IF t = dm THEN {wireD1, wireD2} ELSE {wireG}]
MCOneWireOf == [t \in Targets |-> IF t = dm THEN {wireD1} ELSE {wireG}]
MCNoPlans == {}
MCGroupPlans == {{sGroup1}, {sDm, sGroup1}}
=============================================================================
