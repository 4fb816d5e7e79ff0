------------------------------ MODULE NvStore ------------------------------
(***************************************************************************)
(* What OSAL_Nv promises its callers, power failures included: an item     *)
(* reads as it was last written; a call that power cuts short has taken    *)
(* effect as a whole or not at all; no other item is touched.  Nothing is  *)
(* promised once power has failed in an erase and left half a page header. *)
(***************************************************************************)
CONSTANTS Item, Value, None

VARIABLES
    store,    \* store[id]: the value item id reads as, None if it is not there
    call,     \* the item and the value of the call in progress, or None
    cut,      \* TRUE from a power failure to the end of osal_nv_init
    torn      \* TRUE once a page header was left half erased

storeVars == <<store, call, cut, torn>>

Init == store = [id \in Item |-> None] /\ call = None /\ cut = TRUE /\ torn = FALSE

Begin ==
    /\ call = None /\ ~ cut
    /\ call' \in [id : Item, val : Value]
    /\ UNCHANGED <<store, cut>>

After == [store EXCEPT ![call.id] = call.val]

Finish ==
    /\ call # None /\ ~ cut
    /\ store' = After /\ call' = None
    /\ UNCHANGED cut

PowerCut == cut' = TRUE /\ UNCHANGED <<store, call>>

Restart ==
    /\ cut /\ cut' = FALSE
    /\ call' = None
    /\ store' \in {store} \cup (IF call = None THEN {} ELSE {After})

Kept == torn = FALSE /\ torn' = FALSE /\ (Begin \/ Finish \/ PowerCut \/ Restart)
Next == Kept \/ torn' = TRUE

Spec == Init /\ [][Next]_storeVars
=============================================================================
