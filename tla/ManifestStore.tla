--------------------------- MODULE ManifestStore ---------------------------
(***************************************************************************)
(* What lib/overnight_manifest.cjs promises the overnight engine: the      *)
(* batch manifest is one shared record, and an update is one indivisible   *)
(* read-modify-write.  Only the effect of an update matters here, so the   *)
(* manifest is the number of updates of each caller it contains.           *)
(*                                                                         *)
(* ManifestLock is the implementation (a mkdir lock, a poll loop, an       *)
(* atomic rename) and is shown to refine this module.                      *)
(***************************************************************************)
EXTENDS Naturals

CONSTANT Procs            \* the callers of updateOvernightManifest

VARIABLE store            \* [Procs -> Nat]: updates of each caller it holds

StoreInit == store = [p \in Procs |-> 0]

\* One update of p: nothing another caller wrote is lost.
Update(p) == store' = [store EXCEPT ![p] = @ + 1]

StoreNext == \E p \in Procs : Update(p)

StoreSpec == StoreInit /\ [][StoreNext]_store
=============================================================================
