------------------------------- MODULE ResConn -------------------------------
(***************************************************************************)
(* res-conn.c and the client half of dbus-proto.c: how a resset_t comes to *)
(* exist, how a call is sent with a pending reply, how a status answer and *)
(* a lost link change the set.  The operators are the functions of these   *)
(* files; they act on the record of ONE resource set, of which this module *)
(* uses                                                                    *)
(*   rset     the resset_t (module ResSet)                                 *)
(*   path     the D-Bus object path of the set's id is registered          *)
(*   replies  the resconn_reply_t's that hold the set: type and request    *)
(*            number of calls whose answer is awaited                      *)
(*   wire     calls on their way to the manager, oldest first              *)
(*   fault    "stale" once freed memory is read, see module ResourceSet    *)
(*   revived  history: a set that was killed and lost its object path      *)
(*            became connected again                                       *)
(* Memory exhaustion and the loss of the bus connection itself are not     *)
(* modelled: malloc, strdup and the libdbus send functions succeed.        *)
(***************************************************************************)
EXTENDS ResSet, Sequences

(* register_client_object fails when the path is already in use; then      *)
(* there is no set, and resconn_connect hands NULL on.                     *)
dbus_connect_to_manager(c) ==
    IF resset_find(c.rset) \/ c.path THEN c
    ELSE [c EXCEPT !.path = TRUE, !.rset = resset_create("created")]

(* Mutant of dbus_send_message: no reference for the handler. *)
dbus_send_message_one_ref(c, call) ==
    [c EXCEPT !.wire    = Append(@, call),
              !.replies = @ \cup {[msgtyp |-> call.msgtyp,
                                        reqno  |-> call.reqno]},
              !.rset    = resset_ref(@)]

(* One reference for the reply record, one for the answer's handler.       *)
dbus_send_message(c, call) ==
    [c EXCEPT !.wire    = Append(@, call),
              !.replies = @ \cup {[msgtyp |-> call.msgtyp,
                                        reqno  |-> call.reqno]},
              !.rset    = resset_ref(resset_ref(@))]

dbus_disconnect_from_manager(c) ==
    [c EXCEPT !.path = FALSE, !.rset = resset_destroy(@)]

(* The set a REGISTER is about: one in the list is used as it is, whatever *)
(* its state; otherwise a new one is created.  No set, nothing is sent.    *)
resconn_connect(c, call) ==
    LET found == dbus_connect_to_manager(c)
    IN  IF resset_find(found.rset) THEN dbus_send_message(found, call) ELSE found

resconn_disconnect(c, call) ==
    dbus_disconnect_from_manager(dbus_send_message(c, call))

(* resproto_send_message and resconn_disconnect both insist on it. *)
may_send(c) == c.rset.state = "connected"

(* status_method, before the callback: what the answer does to the set.    *)
answered(c, msgtyp, err) ==
    CASE msgtyp = "register" ->
             [c EXCEPT !.rset.state = IF err THEN "killed" ELSE "connected",
                       !.revived    = @ \/ (~err /\ c.rset.state = "killed"
                                               /\ ~c.path)]
      [] msgtyp = "unregister" /\ err ->
             [c EXCEPT !.rset    = [resset_ref(@) EXCEPT !.state = "connected"],
                       !.revived = @ \/ c.rset.state = "killed"]
      [] OTHER -> c

(* status_method's own unref, then resconn_reply_destroy when libdbus      *)
(* finalizes the pending call: it reads the set that status_method may     *)
(* have freed.                                                             *)
reply_done(c, reply) ==
    [c EXCEPT !.replies = @ \ {reply},
              !.rset    = resset_unref(resset_unref(@)),
              !.fault   = IF @ = "none" /\ c.rset.refcnt < 2 THEN "stale" ELSE @]
=============================================================================
