--------------------------- MODULE ExtractPromise ---------------------------
(***************************************************************************)
(* What an extraction is to those that make one.  RufAudit takes it as one  *)
(* step with one of the outcomes Extractions lists, and AuditRuns lets it    *)
(* be killed at any moment, which leaves in target/ one of the sets that     *)
(* Stopped lists.  Between them they rely on this: target/ only grows, it    *)
(* always is such a set, there is at most one answer, it is one of the       *)
(* outcomes, target/ is then what the answer says, and nothing happens any   *)
(* more.                                                                     *)
(***************************************************************************)
EXTENDS Extraction

CONSTANT Worlds

VARIABLES world, lock, before, target, answer

Init ==
    /\ world \in Worlds /\ lock \in Locks(world)
    /\ before \in UNION {Stopped(world, L, {}) : L \in Locks(world)}
    /\ target = before /\ answer = {}

Compile ==
    /\ answer = {} /\ target # target'
    /\ target \subseteq target' /\ target' \in Stopped(world, lock, before)
    /\ UNCHANGED <<world, lock, before, answer>>

Reply ==
    /\ answer = {} /\ answer' # {}
    /\ \E extraction \in Extractions(world, lock, before) :
          extraction.fresh = target /\ answer' = {extraction}
    /\ UNCHANGED <<world, lock, before, target>>

Next == Compile \/ Reply

Spec == Init /\ [][Next]_<<world, lock, before, target, answer>>
=============================================================================
