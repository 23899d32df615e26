------------------------------- MODULE MsgPath -------------------------------
(***************************************************************************)
(* The way of one message from the sender's memory to the handler at the   *)
(* other end, and of the answer back: res-proto.c over either transport.   *)
(* On D-Bus a message is composed, parsed and checked against the name of  *)
(* the method (dbus-msg.c, dbus-proto.c); in process the receiver gets the *)
(* sender's own message, or a copy of it when it has to wait               *)
(* (internal-proto.c, internal-msg.c), which happens while the sender goes *)
(* on and may give its strings back.                                       *)
(*                                                                         *)
(* The order of messages and the life of the sets are the business of the  *)
(* other modules: here the set of both ends is there and connected, or it  *)
(* is being registered.                                                    *)
(***************************************************************************)
EXTENDS InternalMsg, ResMsg

CONSTANTS
    Messages,       \* messages a program may send
    Replies,        \* what a handler may answer: [errcod, errmsg]
    BufferSizes     \* of buffers that messages are printed into

(* A resmsg_t is a union: its type says which fields it has. *)
ASSUME MessageAssumption ==
    \A m \in Messages :
        LET asked == fields(m.type)
        IN  /\ m.type \in MsgType \cup {"status"}
            /\ m = [f \in {asked[i][2] : i \in DOMAIN asked} |-> m[f]]

VARIABLES
    transport,  \* "dbus" or "internal"
    role,       \* the sender's
    stage,      \* "idle", "flying", "handled", "dropped", "refused", "answered", "done"
    sent,       \* the message as it was sent, and how
    flight,     \* what is under way
    gone,       \* the sender has given its strings back
    held,       \* references the receiver holds to the D-Bus call
    got,        \* the message the handler was called with
    replied,    \* what the handler answered
    told,       \* what the sender's status callback was called with
    fault       \* "null": strdup of NULL; "dangling": a string that is gone is
                \* read; "released": a D-Bus call is released once too often

vars == <<transport, role, stage, sent, flight, gone, held, got, replied, told, fault>>

SetId == 1      \* the id of the resource set, unless it is being registered

Nothing == [kind |-> "none"]

Init ==
    /\ transport \in {"dbus", "internal"}
    /\ role \in {"client", "manager"}
    /\ stage = "idle"
    /\ sent = [msg |-> NoMessage, way |-> "none", wants |-> FALSE]
    /\ flight = Nothing
    /\ gone = FALSE
    /\ held = 0
    /\ got = NoMessage
    /\ replied = Nothing
    /\ told = Nothing
    /\ fault = "none"

(* Undefined behaviour ends what the model says. *)
At(s) == stage = s /\ fault = "none"

set_id == IF sent.way = "connect" THEN sent.msg.id ELSE SetId

receiver == IF role = "client" THEN "manager" ELSE "client"

(* client_valid_message and manager_valid_message: handlers can be set for *)
(* these only, and a program sets them all.                                *)
valid(r) ==
    IF r = "manager"
    THEN {"register", "unregister", "update", "acquire", "release", "audio", "video"}
    ELSE {"unregister", "release", "grant", "advice"}

need_reply(m, wants) ==
    wants \/ (role = "client" /\ m.type \in {"register", "unregister"})

(* Mutant of heard: the handler table is that of the sender. *)
heard_as_sent(m) == m.type \in MsgType /\ m.type \in valid(role)

(* message_receive finds a handler. *)
heard(m) == m.type \in MsgType /\ m.type \in valid(receiver)

HandlerCalled(m) ==
    /\ stage' = IF heard(m) THEN "handled" ELSE "dropped"
    /\ got' = IF heard(m) THEN m ELSE got

(* The send function of the transport; waits: the receiver is busy.        *)
DbusSend(m, wants) ==
    /\ transport = "dbus"
    /\ IF method_name(m.type) = NULL \/ compose_message(m) = <<>>
       THEN stage' = "refused" /\ UNCHANGED <<flight, got>>
       ELSE /\ stage' = "flying"
            /\ flight' = [kind |-> "call", member |-> method_name(m.type),
                          args |-> compose_message(m),
                          reply |-> need_reply(m, wants)]
            /\ UNCHANGED got
    /\ UNCHANGED fault

InternalSend(m, wants) ==
    /\ transport = "internal"
    /\ \/ /\ flight' = [kind |-> "direct", reply |-> need_reply(m, wants)]
          /\ HandlerCalled(m)
          /\ UNCHANGED fault
       \/ /\ stage' = "flying"
          /\ flight' = [kind |-> "queued", msg |-> m, reply |-> need_reply(m, wants)]
          /\ fault' = IF copyable(m) THEN fault ELSE "null"
          /\ UNCHANGED got

Sends(m, way, wants) ==
    /\ DbusSend(m, wants) \/ InternalSend(m, wants)
    /\ sent' = [msg |-> m, way |-> way, wants |-> wants]
    /\ UNCHANGED <<transport, role, gone, held, replied, told>>

Refuses(m, way, wants) ==
    /\ stage' = "refused"
    /\ sent' = [msg |-> m, way |-> way, wants |-> wants]
    /\ UNCHANGED <<transport, role, flight, gone, held, got, replied, told, fault>>

(* resconn_connect: the set is created with copies of the strings, here    *)
(* and, in process, at the other end.                                      *)
Connect(m, wants) ==
    /\ At("idle")
    /\ IF role # "client" \/ m.type # "register" THEN Refuses(m, "connect", wants)
       ELSE IF m.app_id # NULL /\ m.klass # NULL THEN Sends(m, "connect", wants)
       ELSE /\ fault' = "null"
            /\ sent' = [msg |-> m, way |-> "connect", wants |-> wants]
            /\ UNCHANGED <<transport, role, stage, flight, gone, held, got, replied, told>>

(* resproto_send_message: the id is that of the set. *)
Send(m, wants) ==
    /\ At("idle")
    /\ IF m.type \in {"register", "unregister"} THEN Refuses(m, "send", wants)
       ELSE Sends([m EXCEPT !.id = SetId], "send", wants)

(* resconn_disconnect: its callers give the id of the set. *)
Disconnect(m, wants) ==
    /\ At("idle")
    /\ IF m.type # "unregister" THEN Refuses(m, "disconnect", wants)
       ELSE m.id = SetId /\ Sends(m, "disconnect", wants)

(* The sender gives the memory of its strings back, or uses it again.      *)
Forget ==
    /\ At("flying") /\ ~gone
    /\ gone' = TRUE
    /\ UNCHANGED <<transport, role, stage, sent, flight, held, got, replied, told, fault>>

(* manager_method and client_method.  Both take a reference to the call    *)
(* for the handler, and only client_method gives it back on its return.    *)
MethodCalled ==
    /\ At("flying") /\ flight.kind = "call"
    /\ LET m == parse_message(flight.args)
       IN  IF /\ m # NoMessage
              /\ method_name(m.type) = flight.member
              /\ m.id = set_id \/ (m.type = "register" /\ receiver = "manager")
           THEN /\ HandlerCalled(m)
                /\ held' = IF receiver = "manager" THEN 1 ELSE 0
           ELSE stage' = "dropped" /\ UNCHANGED <<got, held>>
    /\ UNCHANGED <<transport, role, sent, flight, gone, replied, told, fault>>

(* receive_message_dequeue.  Strings the copy shares with the sender are   *)
(* read by the handler.                                                    *)
Dequeued ==
    /\ At("flying") /\ flight.kind = "queued"
    /\ HandlerCalled(flight.msg)
    /\ fault' = IF gone /\ heard(flight.msg)
                   /\ \E f \in shared(flight.msg.type) : flight.msg[f] # NULL
                THEN "dangling" ELSE fault
    /\ UNCHANGED <<transport, role, sent, flight, gone, held, replied, told>>

(* The handler calls resproto_reply_message, at once or later; send_error  *)
(* of dbus-proto.c gives a reference to the call back.                     *)
(* An UNREGISTER has to be answered at once, since manager_method drops    *)
(* the set behind the handler.                                             *)
Reply ==
    /\ At("handled")
    /\ \E r \in Replies :
          LET status == [type |-> "status", id |-> set_id, reqno |-> got.reqno,
                         errcod |-> r.errcod, errmsg |-> r.errmsg]
          IN  /\ replied' = [kind |-> "reply", errcod |-> r.errcod, errmsg |-> r.errmsg]
              /\ stage' = IF flight.reply THEN "answered" ELSE "done"
              /\ flight' =
                    CASE ~flight.reply -> Nothing
                      [] flight.reply /\ transport = "dbus" ->
                             [kind |-> "return", args |-> reply_message(status)]
                      [] OTHER ->
                             [kind |-> "answer", errcod |-> r.errcod,
                              errmsg |-> IF r.errmsg = NULL THEN "" ELSE r.errmsg]
    /\ held' = 0
    /\ fault' = IF transport = "dbus" /\ held = 0 THEN "released" ELSE fault
    /\ UNCHANGED <<transport, role, sent, gone, got, told>>

Told(reqno, errcod, errmsg) ==
    IF sent.wants THEN [kind |-> "status", reqno |-> reqno, errcod |-> errcod,
                        errmsg |-> errmsg]
    ELSE told

(* status_method, and send_error_complete of the internal transport. *)
Status ==
    /\ At("answered")
    /\ stage' = "done"
    /\ flight' = Nothing
    /\ told' =
          IF flight.kind = "answer"
          THEN Told(sent.msg.reqno, flight.errcod, flight.errmsg)
          ELSE LET m == parse_message(flight.args)
               IN  IF m.type = "status" /\ m.id = set_id /\ m.reqno = sent.msg.reqno
                   THEN Told(m.reqno, m.errcod, m.errmsg)
                   ELSE Told(sent.msg.reqno, -1, "<peer error>")
    /\ UNCHANGED <<transport, role, sent, gone, held, got, replied, fault>>

Next ==
    \/ \E m \in Messages, wants \in BOOLEAN :
          Connect(m, wants) \/ Send(m, wants) \/ Disconnect(m, wants)
    \/ Forget \/ MethodCalled \/ Dequeued \/ Reply \/ Status

Spec == Init /\ [][Next]_vars
-----------------------------------------------------------------------------
text(v) == IF v = NULL THEN "" ELSE v

(* The handler is called with what was sent, field by field: the arguments *)
(* are put together and taken apart in two places that must agree on       *)
(* order, types and presence, and the copy of a waiting message must be    *)
(* complete.  A missing string arrives as an empty one over D-Bus.         *)
HandedOverIntact ==
    got # NoMessage =>
        /\ DOMAIN got = DOMAIN sent.msg
        /\ \A f \in DOMAIN got :
              got[f] = IF transport = "dbus" /\ f \in strings(got.type)
                       THEN text(sent.msg[f]) ELSE sent.msg[f]

(* What may be sent to the other end, and by which function. *)
legal(m, way) ==
    /\ m.type \in valid(receiver)
    /\ CASE way = "connect"    -> m.type = "register"
         [] way = "disconnect" -> m.type = "unregister"
         [] OTHER              -> m.type \notin {"register", "unregister"}

(* Over both transports exactly the legal messages reach a handler: every  *)
(* place on the way knows every type (the tables of valid messages, of     *)
(* method names, of arguments), and nothing else gets through.             *)
ExactlyTheLegalArrive ==
    /\ stage \in {"handled", "answered", "done"} => legal(sent.msg, sent.way)
    /\ stage \in {"refused", "dropped"} => ~legal(sent.msg, sent.way)

(* The status callback hears what the handler of its own message answered, *)
(* with a text that is there even when the handler gave none.              *)
AnswerIsTheHandlers ==
    told # Nothing =>
        /\ told.reqno = sent.msg.reqno
        /\ told.errcod = replied.errcod
        /\ told.errmsg = text(replied.errmsg)

(* A missing string is harmless except in a REGISTER, whose strings are    *)
(* copied into the resset_t, and in a message that has to wait in process; *)
(* and a handler reads memory that the sender has given back only in one   *)
(* case: app_id of an AUDIO message that had to wait.  The reference to a  *)
(* D-Bus call is given back once, by the answer, except that a client that *)
(* answers its manager gives it back twice, and that a manager never gives *)
(* back that of a call it has no handler for.                              *)
FaultsAreKnown ==
    /\ fault = "null" =>
          /\ \E f \in strings(sent.msg.type) : sent.msg[f] = NULL
          /\ sent.msg.type = "register" \/ flight.kind = "queued"
    /\ fault = "dangling" => sent.msg.type = "audio" /\ flight.kind = "queued"
    /\ fault = "released" => transport = "dbus" /\ receiver = "client"
    /\ held > 0 /\ stage # "handled" =>
          stage = "dropped" /\ receiver = "manager" /\ ~heard(sent.msg)

(* A handler that prints its message, or the flags in it, gets the text,   *)
(* cut to its buffer and terminated, without the newline at the end if     *)
(* that got into the buffer; resmsg_dump_message looks at memory behind    *)
(* the buffer only when the text itself did not fit.                       *)
PrintedAsFits ==
    stage = "handled" => \A size \in BufferSizes :
        LET d    == resmsg_dump_message(got, size)
            full == FlattenSeq(lines(got))
            n    == Len(full)
        IN  /\ Terminates(d.mem)
            /\ string_in(d.mem) = cut(IF n < size THEN SubSeq(full, 1, n - 1)
                                                 ELSE full, size)
            /\ d.outside => n > size
            /\ \A flags \in 0..3 :
                  LET mem == resmsg_res_str(flags, size)
                  IN  /\ Terminates(mem)
                      /\ string_in(mem) = cut(FlattenSeq(flag_texts(flags)), size)
=============================================================================
