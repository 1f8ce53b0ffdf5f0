--------------------------- MODULE ResourceLimits ---------------------------
(***************************************************************************)
(* ResourceLimits and validate_resource_limits (src/resource.cpp).  Limits *)
(* come from the caller and are validated by each finish() that uses them. *)
(***************************************************************************)
EXTENDS Naturals

Limits == [resident_bytes : Nat, block_rows : Nat, decoded_bytes : Nat,
           record_bytes : Nat, metadata_bytes : Nat, fields : Nat,
           encoding_depth : Nat, workers : Nat, queued_blocks : Nat]

LimitsValid(lim) ==
  /\ \A f \in DOMAIN lim : lim[f] # 0
  /\ lim.decoded_bytes <= lim.resident_bytes
  /\ lim.record_bytes <= lim.resident_bytes
  /\ lim.metadata_bytes <= lim.record_bytes

=============================================================================
