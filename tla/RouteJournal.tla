---------------------------- MODULE RouteJournal ----------------------------
(***************************************************************************)
(* The transition tables of the durable route journal (journal.py): which  *)
(* state a route group, a route position and a signed route step may be    *)
(* given next by record_group_state, record_position_state and             *)
(* _transition_step.  A refused transition raises ValueError in the code;  *)
(* modules that use these tables model the exception, never a silent skip. *)
(***************************************************************************)

Halts == {"manual_review_after_swap",
          "manual_review_group_threshold_exceeded",
          "manual_review_group_halted"}

GroupStates == {"planned", "active", "deposit_pending", "gas_deferred",
                "completed"} \union Halts

GroupTransitions ==
  [s \in GroupStates |->
     CASE s = "planned" -> {"active", "gas_deferred", "completed"} \union Halts
       [] s = "active" -> {"deposit_pending", "gas_deferred", "completed"}
                            \union Halts
       [] s = "deposit_pending" -> {"active", "completed", "deposit_pending",
                                    "manual_review_group_halted"}
       [] s = "gas_deferred" -> {"active", "gas_deferred"}
       [] OTHER -> {}]

PositionStates == {"planned", "swap_submitted",
                   "source_asset_converted_bridge_pending",
                   "requote_required", "bridge_submitted", "bridge_timeout",
                   "direct_deposit_submitted", "deposit_pending",
                   "gas_deferred", "completed", "manual_review"} \union Halts

PositionTransitions ==
  [s \in PositionStates |->
     CASE s = "planned" ->
            {"gas_deferred", "swap_submitted", "direct_deposit_submitted",
             "source_asset_converted_bridge_pending", "completed",
             "manual_review", "bridge_submitted"} \union Halts
       [] s = "swap_submitted" ->
            {"source_asset_converted_bridge_pending", "manual_review"}
              \union Halts
       [] s = "source_asset_converted_bridge_pending" ->
            {"completed", "deposit_pending", "requote_required",
             "bridge_submitted", "manual_review"} \union Halts
       [] s = "requote_required" ->
            {"bridge_submitted", "manual_review_after_swap",
             "manual_review_group_threshold_exceeded"}
       [] s = "bridge_submitted" ->
            {"source_asset_converted_bridge_pending", "deposit_pending",
             "bridge_timeout", "completed", "manual_review"} \union Halts
       [] s = "bridge_timeout" ->
            {"requote_required", "completed", "manual_review_after_swap",
             "manual_review_group_halted"}
       [] s = "direct_deposit_submitted" ->
            {"deposit_pending", "gas_deferred", "completed",
             "manual_review_group_threshold_exceeded",
             "manual_review_group_halted", "manual_review"}
       [] s = "deposit_pending" -> {"completed", "manual_review"}
       [] s = "gas_deferred" ->
            {"direct_deposit_submitted", "bridge_submitted",
             "swap_submitted", "manual_review", "gas_deferred"}
       [] OTHER -> {}]

StepStates == {"planned", "submitted", "confirmed", "deposit_seen",
               "reverted", "failed", "bridge_timeout", "manual_review",
               "credited", "awaiting_bridge", "completed",
               "requote_required"}

StepTransitions ==
  [s \in StepStates |->
     CASE s = "planned" -> {"submitted", "failed", "manual_review"}
       [] s = "submitted" -> {"confirmed", "deposit_seen", "reverted",
                              "failed", "bridge_timeout", "manual_review"}
       [] s = "deposit_seen" -> {"credited", "manual_review", "failed"}
       [] s = "confirmed" -> {"awaiting_bridge", "credited", "completed",
                              "bridge_timeout", "manual_review"}
       [] s = "awaiting_bridge" -> {"credited", "bridge_timeout",
                                    "manual_review"}
       [] s = "bridge_timeout" -> {"requote_required", "credited",
                                   "manual_review"}
       [] s = "requote_required" -> {"submitted", "manual_review"}
       [] OTHER -> {}]

\* The guards of record_group_state, record_position_state, _transition_step:
\* writing the current state again is always accepted.
GroupMayBecome(old, new) == new = old \/ new \in GroupTransitions[old]
PositionMayBecome(old, new) == new = old \/ new \in PositionTransitions[old]
StepMayBecome(old, new) == new = old \/ new \in StepTransitions[old]

\* halt_remaining leaves a position that is already closed as it is.
SettledPositions == {"completed", "manual_review"} \union Halts
=============================================================================
