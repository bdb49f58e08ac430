--------------------------- MODULE AdmissionCore ---------------------------
(***************************************************************************)
(* The pure accounting of src/proof_core/admission.rs.  Payloads are       *)
(* counted in units: one per byte, and one for a FIN that travels alone.   *)
(* usize arithmetic never reaches 2^64 here: `queued' is at most the       *)
(* larger of the high watermark and one payload, so checked_add succeeds.  *)
(***************************************************************************)
EXTENDS Naturals

CONSTANTS HighParam,  \* high_water as passed to OutboundAdmission::new
          LowParam    \* low_water as passed to OutboundAdmission::new

ASSUME WatermarkAssumption == HighParam \in Nat /\ LowParam \in Nat

\* AdmissionWatermarks::new: high is at least 1 and low is below high.
high_water == IF HighParam > 1 THEN HighParam ELSE 1
low_water == IF LowParam < high_water - 1 THEN LowParam ELSE high_water - 1

outbound_payload_units(len, fin) == IF len = 0 /\ fin THEN 1 ELSE len

\* What one send to quiche gives back: the bytes it took, except that a FIN
\* quiche did not take keeps one unit of an otherwise complete payload.
accepted_outbound_payload_units(len, fin, written, fin_accepted) ==
    LET accepted == IF written < len THEN written ELSE len
    IN  IF len = 0 THEN IF fin /\ fin_accepted THEN 1 ELSE 0
        ELSE IF fin /\ ~fin_accepted /\ accepted = len THEN accepted - 1
        ELSE accepted

\* A payload larger than the window has the window to itself.
Limit(units) == IF units > high_water THEN units ELSE high_water

\* Mutant: the bound is off by one.
admit_next_OneTooMany(current, units) == current + units <= Limit(units) + 1

\* admit_next answers Admitted { current + units }, otherwise Backpressured.
admit_next(current, units) == current + units <= Limit(units)

release_next(current, units) == IF units >= current THEN 0 ELSE current - units

release_emits_write_ready(next, was_pressured) == next <= low_water /\ was_pressured
=============================================================================
