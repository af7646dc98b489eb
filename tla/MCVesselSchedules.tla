-------------------------- MODULE MCVesselSchedules --------------------------
EXTENDS VesselSchedules, TLC

CONSTANTS r1, r2, v1, v2

MCVessel == IF Requests = {r1} THEN r1 :> v1 ELSE (r1 :> v1) @@ (r2 :> v2)
=============================================================================
