------------------------------- MODULE DbusMsg -------------------------------
(***************************************************************************)
(* dbus-msg.c: messages of the resource protocol as D-Bus messages, and    *)
(* back.  A message is a record with the fields its type has; a D-Bus      *)
(* message is a sequence of typed arguments.  NULL is a missing string.    *)
(***************************************************************************)
EXTENDS Naturals, Sequences

NULL == "NULL"

Record  == {"register", "update"}
Possess == {"unregister", "acquire", "release"}
Notify  == {"grant", "advice"}

MsgType == Record \cup Possess \cup Notify \cup {"audio", "video"}

(* method_name: the names of the methods are those of the types; a status  *)
(* message is not a method call.                                           *)
method_name(type) == IF type \in MsgType THEN type ELSE NULL

Int32(v)  == [type |-> "int32",  value |-> v]
UInt32(v) == [type |-> "uint32", value |-> v]
String(v) == [type |-> "string", value |-> IF v = NULL THEN "" ELSE v]

Common(m) == <<Int32(m.type), UInt32(m.id), UInt32(m.reqno)>>

(* The arguments that resmsg_dbus_compose_message appends, none for a      *)
(* message it refuses.                                                     *)
compose_message(m) ==
    CASE m.type \in Record ->
             Common(m) \o <<UInt32(m.all), UInt32(m.opt), UInt32(m.share),
                            UInt32(m.mask), String(m.app_id), String(m.klass),
                            UInt32(m.mode)>>
      [] m.type \in Possess -> Common(m)
      [] m.type \in Notify  -> Common(m) \o <<UInt32(m.resrc)>>
      [] m.type = "audio" ->
             Common(m) \o <<String(m.group), String(m.app_id), String(m.name),
                            Int32(m.method), String(m.pattern)>>
      [] m.type = "video" -> Common(m) \o <<UInt32(m.pid)>>
      [] OTHER -> <<>>

(* Mutant of reply_message: the missing text is not replaced. *)
reply_message_as_is(m) ==
    Common(m) \o <<Int32(m.errcod), [type |-> "string", value |-> m.errmsg]>>

reply_message(m) == Common(m) \o <<Int32(m.errcod), String(m.errmsg)>>

(* What resmsg_dbus_parse_message asks for, by type: <<type, field>>.      *)
Head3 == <<<<"int32", "type">>, <<"uint32", "id">>, <<"uint32", "reqno">>>>

(* Mutant of fields: share and mask change places. *)
fields_swapped(type) ==
    CASE type \in Record ->
             Head3 \o <<<<"uint32", "all">>, <<"uint32", "opt">>,
                        <<"uint32", "mask">>, <<"uint32", "share">>,
                        <<"string", "app_id">>, <<"string", "klass">>,
                        <<"uint32", "mode">>>>
      [] type \in Possess -> Head3
      [] type \in Notify  -> Head3 \o <<<<"uint32", "resrc">>>>
      [] type = "audio" ->
             Head3 \o <<<<"string", "group">>, <<"string", "app_id">>,
                        <<"string", "name">>, <<"int32", "method">>,
                        <<"string", "pattern">>>>
      [] type = "video"  -> Head3 \o <<<<"uint32", "pid">>>>
      [] type = "status" -> Head3 \o <<<<"int32", "errcod">>, <<"string", "errmsg">>>>

fields(type) ==
    CASE type \in Record ->
             Head3 \o <<<<"uint32", "all">>, <<"uint32", "opt">>,
                        <<"uint32", "share">>, <<"uint32", "mask">>,
                        <<"string", "app_id">>, <<"string", "klass">>,
                        <<"uint32", "mode">>>>
      [] type \in Possess -> Head3
      [] type \in Notify  -> Head3 \o <<<<"uint32", "resrc">>>>
      [] type = "audio" ->
             Head3 \o <<<<"string", "group">>, <<"string", "app_id">>,
                        <<"string", "name">>, <<"int32", "method">>,
                        <<"string", "pattern">>>>
      [] type = "video"  -> Head3 \o <<<<"uint32", "pid">>>>
      [] type = "status" -> Head3 \o <<<<"int32", "errcod">>, <<"string", "errmsg">>>>

(* dbus_message_get_args: the first arguments have the types asked for;    *)
(* there may be more.                                                      *)
get_args(args, asked) ==
    /\ Len(args) >= Len(asked)
    /\ \A i \in DOMAIN asked : args[i].type = asked[i][1]

NoMessage == [type |-> "none"]

(* The type is looked at first, then the whole message is read again.      *)
parse_message(args) ==
    IF ~get_args(args, <<Head3[1]>>) THEN NoMessage
    ELSE LET type  == args[1].value
             asked == fields(type)
             at(f) == CHOOSE i \in DOMAIN asked : asked[i][2] = f
         IN  IF type \in MsgType \cup {"status"} /\ get_args(args, asked)
             THEN [f \in {asked[i][2] : i \in DOMAIN asked} |-> args[at(f)].value]
             ELSE NoMessage
=============================================================================
