---------------------------- MODULE MCMetadata ----------------------------
(***************************************************************************)
(* Contexts and environments for the runs of Metadata.                     *)
(***************************************************************************)
EXTENDS Metadata

SmallRatios == {r \in (0 .. 3) \X (0 .. 3) : r[2] < r[1] + 1}
ShippedRatio == {<<1, 1>>}

AnyFault  == {"device", "dirty", "consumed"}
NoFault   == {}

Kernels    == {"ok", "oops"}
Forgiving  == {"ok"}
===========================================================================
