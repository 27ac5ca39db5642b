-------------------------- MODULE MCMatryoshkaIO --------------------------
(***************************************************************************)
(* The fault environments the runs of MatryoshkaIO use.                    *)
(***************************************************************************)
EXTENDS MatryoshkaIO

CarrierFaults == {"carrier", "nomem"}
AnyFaults     == {"entropy", "carrier", "used", "garbage", "stale"}
RaceFaults    == {"entropy", "carrier", "used", "consumed"}
RacesAndStale == RaceFaults \cup {"stale"}
StaleFaults   == {"entropy", "carrier", "used", "stale"}
StaleOnly     == {"stale"}

(* A READ is followed to the end of its first decoding.                     *)
NoRetry == \A d \in Bio : run[d] # "retry"

MetaOk     == {"ok"}
MetaErrors == {"ok", "EIO", "other"}
MetaAny    == {"ok", "EIO", "other", "oops"}
===========================================================================
