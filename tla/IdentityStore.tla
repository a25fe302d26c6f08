--------------------------- MODULE IdentityStore ----------------------------
(***************************************************************************)
(* What state.Store promises: a map from Forgejo URLs to runner identities *)
(* that changes in one step, for one URL at a time, and forgets nothing,   *)
(* whatever processes come and go.                                         *)
(***************************************************************************)
CONSTANTS Url, Identity, NoIdentity

VARIABLE kept

StoreInit == kept = [u \in Url |-> NoIdentity]

Put(u, id) == kept' = [kept EXCEPT ![u] = id]

StoreNext == \E u \in Url, id \in Identity : Put(u, id)

StoreSpec == StoreInit /\ [][StoreNext]_kept
=============================================================================
