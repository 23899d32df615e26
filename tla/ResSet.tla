------------------------------- MODULE ResSet -------------------------------
(***************************************************************************)
(* res-set.c: the reference-counted record of one resource set that the    *)
(* connection layer keeps (resset_t).  Its peer, id, app_id, klass, mode   *)
(* and flags are data nobody in this layer decides on; what matters is its *)
(* state and its reference count.  "freed" stands for memory given back:   *)
(* the record is out of the connection's list and may not be touched.      *)
(***************************************************************************)
EXTENDS Integers

RsetState == {"freed", "created", "connected", "killed"}

Rset == [state: RsetState, refcnt: Nat]

Freed == [state |-> "freed", refcnt |-> 0]

resset_create(state) == [state |-> state, refcnt |-> 1]

resset_ref(r) == [r EXCEPT !.refcnt = @ + 1]

(* Mutant of resset_unref: nothing is ever freed. *)
resset_unref_unguarded(r) == [r EXCEPT !.refcnt = @ - 1]

(* Dropping the last reference unlinks and frees the record. *)
resset_unref(r) ==
    IF r.refcnt <= 1 THEN Freed ELSE [r EXCEPT !.refcnt = @ - 1]

(* Mutant of resset_destroy: a killed set loses its reference once more. *)
resset_destroy_again(r) == resset_unref([r EXCEPT !.state = "killed"])

(* Gives up the creator's reference, once: a killed set has lost it. *)
resset_destroy(r) ==
    IF r.state = "killed" THEN r
                          ELSE resset_unref([r EXCEPT !.state = "killed"])

(* The set is found by resset_find (and by the link and method handlers)   *)
(* exactly while it is in the connection's list, whatever its state.       *)
resset_find(r) == r.state # "freed"
=============================================================================
