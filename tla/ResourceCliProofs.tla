-------------------------- MODULE ResourceCliProofs --------------------------
(***************************************************************************)
(* The command line client, proved.  It has no request queue: any number   *)
(* of requests may be pending, and what keeps them apart are their numbers *)
(* and a table that comes round.                                           *)
(***************************************************************************)
EXTENDS ResourceCli, TLAPS, SequenceTheorems, FiniteSetTheorems

Reply == [msgtyp: MsgType, reqno: Nat]

LEMMA UnrefType == ASSUME NEW r \in Rset PROVE resset_unref(r) \in Rset
BY DEF resset_unref, Freed, Rset, RsetState

LEMMA DestroyType == ASSUME NEW r \in Rset PROVE resset_destroy(r) \in Rset
<1>1. [r EXCEPT !.state = "killed"] \in Rset BY DEF Rset, RsetState
<1>. QED BY <1>1, UnrefType DEF resset_destroy

LEMMA RefType == ASSUME NEW r \in Rset PROVE resset_ref(r) \in Rset
BY DEF resset_ref, Rset

LEMMA SendType ==
    ASSUME NEW c \in Client, NEW call \in Call
    PROVE  dbus_send_message(c, call) \in Client
<1>1. resset_ref(resset_ref(c.rset)) \in Rset BY RefType DEF Client
<1>2. Append(c.wire, call) \in Seq(Call) BY DEF Client
<1>3. [msgtyp |-> call.msgtyp, reqno |-> call.reqno] \in Reply BY DEF Call, Reply
<1>. QED BY <1>1, <1>2, <1>3 DEF dbus_send_message, Client, Reply

LEMMA FindType ==
    ASSUME NEW c \in Client
    PROVE  dbus_connect_to_manager(c) \in Client
<1>1. resset_create("created") \in Rset BY DEF resset_create, Rset, RsetState
<1>. QED BY <1>1 DEF dbus_connect_to_manager, Client

LEMMA DropType ==
    ASSUME NEW c \in Client
    PROVE  dbus_disconnect_from_manager(c) \in Client
<1>1. resset_destroy(c.rset) \in Rset BY DestroyType DEF Client
<1>. QED BY <1>1 DEF dbus_disconnect_from_manager, Client

LEMMA NoFlagsType == NoFlags \in Flags BY DEF NoFlags, Flags

LEMMA WithType ==
    ASSUME NEW c \in Client, NEW n, NEW type \in ReqTyp
    PROVE  with_type(c, n, type) \in Client
BY DEF with_type, Client

LEMMA NumberedType ==
    ASSUME NEW c \in Client, NEW t \in MsgType
    PROVE  /\ numbered(c, t) \in Client
           /\ \A flags \in Flags : call_of(numbered(c, t), t, flags) \in Call
<1>. DEFINE b == [c EXCEPT !.reqno = @ + 1]
<1>1. b \in Client BY DEF Client
<1>2. t \in ReqTyp BY DEF ReqTyp
<1>. HIDE DEF b
<1>3. numbered(c, t) \in Client BY <1>1, <1>2, WithType DEF numbered, b
<1>. QED BY <1>3 DEF call_of, Call, Client

(* What becomes of a client that asks for flags, or whose set is registered.*)
Asking(n, t, flags) ==
    IF t # "update" THEN n
    ELSE [n EXCEPT !.flags = flags, !.asked = flags, !.renewed = FALSE]

Renewing(n, c) ==
    [n EXCEPT !.renewed = TRUE,
              !.flags = IF resset_find(c.rset) THEN @ ELSE Options]

Reflagged(n, f, g, b) == [n EXCEPT !.flags = f, !.asked = g, !.renewed = b]

(* It is the same but for the fields flags, asked and renewed. *)
SameBut(d, n) ==
    /\ d.rset = n.rset /\ d.path = n.path /\ d.replies = n.replies
    /\ d.wire = n.wire /\ d.fault = n.fault /\ d.revived = n.revived
    /\ d.accept = n.accept /\ d.flood = n.flood /\ d.count = n.count
    /\ d.reqno = n.reqno /\ d.reqtyp = n.reqtyp /\ d.quit = n.quit
    /\ d.label = n.label /\ d.lost = n.lost /\ d.overdue = n.overdue
    /\ d.broken = n.broken /\ d.denied = n.denied /\ d.dismissed = n.dismissed

LEMMA ReflaggedFields ==
    ASSUME NEW n \in Client, NEW f \in Flags, NEW g \in Flags, NEW b \in BOOLEAN
    PROVE  /\ Reflagged(n, f, g, b) \in Client
           /\ SameBut(Reflagged(n, f, g, b), n)
           /\ Reflagged(n, f, g, b).flags = f
           /\ Reflagged(n, f, g, b).asked = g
           /\ Reflagged(n, f, g, b).renewed = b
<1>. DEFINE d == Reflagged(n, f, g, b)
<1>1. d \in Client BY DEF Reflagged, Client
<1>2. d.flags = f /\ d.asked = g /\ d.renewed = b BY DEF Reflagged, Client
<1>3. /\ d.rset = n.rset /\ d.path = n.path /\ d.replies = n.replies
      /\ d.wire = n.wire /\ d.fault = n.fault /\ d.revived = n.revived
      BY DEF Reflagged, Client
<1>4. /\ d.accept = n.accept /\ d.flood = n.flood /\ d.count = n.count
      /\ d.reqno = n.reqno /\ d.reqtyp = n.reqtyp /\ d.quit = n.quit
      BY DEF Reflagged, Client
<1>5. /\ d.label = n.label /\ d.lost = n.lost /\ d.overdue = n.overdue
      /\ d.broken = n.broken /\ d.denied = n.denied /\ d.dismissed = n.dismissed
      BY DEF Reflagged, Client
<1>6. SameBut(d, n) BY <1>3, <1>4, <1>5 DEF SameBut
<1>. QED BY <1>1, <1>2, <1>6

LEMMA AskingFields ==
    ASSUME NEW n \in Client, NEW t \in MsgType, NEW flags \in Flags
    PROVE  /\ Asking(n, t, flags) \in Client
           /\ SameBut(Asking(n, t, flags), n)
           /\ t = "update" => /\ Asking(n, t, flags).flags = flags
                              /\ Asking(n, t, flags).asked = flags
                              /\ Asking(n, t, flags).renewed = FALSE
           /\ t # "update" => Asking(n, t, flags) = n
<1>1. CASE t = "update"
  <2>. DEFINE d == Reflagged(n, flags, flags, FALSE)
  <2>1. Asking(n, t, flags) = d BY <1>1 DEF Asking, Reflagged
  <2>2. /\ d \in Client /\ SameBut(d, n)
        /\ d.flags = flags /\ d.asked = flags /\ d.renewed = FALSE
        BY ReflaggedFields
  <2>. HIDE DEF d
  <2>. QED BY <1>1, <2>1, <2>2
<1>2. CASE t # "update"
  <2>1. Asking(n, t, flags) = n BY <1>2 DEF Asking
  <2>2. SameBut(n, n) BY DEF SameBut
  <2>. QED BY <1>2, <2>1, <2>2
<1>. QED BY <1>1, <1>2

LEMMA RenewingFields ==
    ASSUME NEW n \in Client, NEW c
    PROVE  /\ Renewing(n, c) \in Client
           /\ SameBut(Renewing(n, c), n)
           /\ Renewing(n, c).renewed = TRUE
           /\ Renewing(n, c).asked = n.asked
           /\ Renewing(n, c).flags =
                 IF resset_find(c.rset) THEN n.flags ELSE Options
<1>. DEFINE f == IF resset_find(c.rset) THEN n.flags ELSE Options
            g == n.asked
            b == TRUE
            d == Reflagged(n, f, g, b)
<1>1. Options \in Flags /\ n.flags \in Flags /\ g \in Flags
      BY CliAssumption DEF Client
<1>2. f \in Flags /\ b \in BOOLEAN BY <1>1
<1>3. Renewing(n, c) = d BY DEF Renewing, Reflagged, Client
<1>. HIDE DEF f, g, b
<1>4. /\ d \in Client /\ SameBut(d, n)
      /\ d.flags = f /\ d.asked = g /\ d.renewed = b
      BY <1>1, <1>2, ReflaggedFields
<1>. HIDE DEF d
<1>. QED BY <1>3, <1>4 DEF f, g, b

LEMMA ConnectType ==
    ASSUME NEW c \in Client
    PROVE  connect_to_manager(c) \in Client
<1>. DEFINE n == numbered(c, "register")
            o == Renewing(n, c)
            call == call_of(n, "register", Options)
            found == dbus_connect_to_manager(o)
<1>1. Options \in Flags /\ "register" \in MsgType
      BY CliAssumption DEF MsgType
<1>2. n \in Client /\ call \in Call BY <1>1, NumberedType
<1>. HIDE DEF n, call
<1>3. o \in Client BY <1>2, RenewingFields
<1>. HIDE DEF o
<1>4. found \in Client BY <1>3, FindType
<1>5. connect_to_manager(c) = resconn_connect(o, call)
      BY DEF connect_to_manager, Renewing, n, o, call
<1>. HIDE DEF found
<1>. QED BY <1>2, <1>4, <1>5, SendType DEF resconn_connect, found

LEMMA DisconnectType ==
    ASSUME NEW c \in Client
    PROVE  disconnect_from_manager(c) \in Client
<1>. DEFINE n == numbered(c, "unregister")
            call == call_of(n, "unregister", NoFlags)
            sent == dbus_send_message(n, call)
<1>1. "unregister" \in MsgType BY DEF MsgType
<1>2. n \in Client /\ call \in Call BY <1>1, NumberedType, NoFlagsType
<1>. HIDE DEF n, call
<1>3. sent \in Client BY <1>2, SendType
<1>4. [n EXCEPT !.fault = "stale"] \in Client BY <1>2 DEF Client
<1>. HIDE DEF sent
<1>5. dbus_disconnect_from_manager(sent) \in Client BY <1>3, DropType
<1>. QED BY <1>2, <1>4, <1>5 DEF disconnect_from_manager, resconn_disconnect,
                                  n, call, sent

LEMMA SendMessageType ==
    ASSUME NEW c \in Client, NEW t \in MsgType, NEW flags \in Flags
    PROVE  manager_send_message(c, t, flags) \in Client
<1>. DEFINE n == numbered(c, t)
            o == Asking(n, t, flags)
            call == call_of(n, t, flags)
<1>1. n \in Client /\ call \in Call BY NumberedType
<1>. HIDE DEF n, call
<1>2. o \in Client BY <1>1, AskingFields
<1>3. /\ [n EXCEPT !.fault = "stale"] \in Client
      /\ [n EXCEPT !.broken = TRUE] \in Client
      BY <1>1 DEF Client
<1>. HIDE DEF o
<1>4. dbus_send_message(o, call) \in Client BY <1>1, <1>2, SendType
<1>. QED BY <1>1, <1>3, <1>4 DEF manager_send_message, Asking, n, o, call

LEMMA AnsweredType ==
    ASSUME NEW c \in Client, NEW t, NEW err \in BOOLEAN
    PROVE  answered(c, t, err) \in Client
<1>1. c.rset \in Rset BY DEF Client
<1>2. \A x \in {"killed", "connected"} : [c.rset EXCEPT !.state = x] \in Rset
      BY <1>1 DEF Rset, RsetState
<1>3. [resset_ref(c.rset) EXCEPT !.state = "connected"] \in Rset
  <2>1. resset_ref(c.rset) \in Rset BY <1>1, RefType
  <2>. QED BY <2>1 DEF Rset, RsetState
<1>. QED BY <1>2, <1>3 DEF answered, Client

LEMMA StatusType ==
    ASSUME NEW c \in Client, NEW reply \in Reply, NEW err \in BOOLEAN
    PROVE  manager_status(c, reply, err) \in Client
<1>. DEFINE cleared == with_type(c, reply.reqno, "invalid")
<1>1. cleared \in Client BY WithType DEF ReqTyp
<1>. HIDE DEF cleared
<1>2. CASE err
  <2>1. manager_status(c, reply, err) =
           [cleared EXCEPT !.broken = @ \/ reply.msgtyp \in {"acquire", "release"},
                           !.denied = @ \/ reply.msgtyp = "register"]
        BY <1>2 DEF manager_status, cleared
  <2>. QED BY <1>1, <2>1 DEF Client
<1>3. CASE ~err /\ type_of(c, reply.reqno) = "register"
  <2>1. manager_status(c, reply, err) =
           [cleared EXCEPT !.accept = TRUE, !.denied = FALSE, !.dismissed = FALSE]
        BY <1>3 DEF manager_status, cleared
  <2>. QED BY <1>1, <2>1 DEF Client
<1>4. CASE ~err /\ type_of(c, reply.reqno) = "unregister"
  <2>1. manager_status(c, reply, err) = [c EXCEPT !.accept = FALSE, !.quit = TRUE]
        BY <1>4 DEF manager_status
  <2>. QED BY <2>1 DEF Client
<1>5. CASE ~err /\ type_of(c, reply.reqno) \notin {"register", "unregister"}
      BY <1>5 DEF manager_status
<1>. QED BY <1>2, <1>3, <1>4, <1>5

LEMMA StatusMethodType ==
    ASSUME NEW c \in Client, NEW reply \in Reply, NEW err \in BOOLEAN
    PROVE  status_method(c, reply, err) \in Client
<1>. DEFINE a == answered(c, reply.msgtyp, err)
            b == manager_status(a, reply, err)
<1>1. a \in Client BY AnsweredType
<1>. HIDE DEF a
<1>2. b \in Client BY <1>1, StatusType
<1>. HIDE DEF b
<1>3. resset_unref(resset_unref(b.rset)) \in Rset BY <1>2, UnrefType DEF Client
<1>4. reply_done(b, reply) \in Client BY <1>2, <1>3 DEF reply_done, Client
<1>. QED BY <1>4 DEF status_method, a, b

GrantMsg ==
    [kind: {"full", "empty"}, reqno: Nat,
     cause: {"server", "update", "acquire", "release"}]

NoticeKind == {"full", "empty", "advice", "release", "unregister"}

AnswerMsg == [kind: {"answer"}, reply: Reply, err: BOOLEAN]

LEMMA MessageKinds ==
    ASSUME NEW m \in Message
    PROVE  /\ m.kind = "answer" => m \in AnswerMsg
           /\ m.kind \in {"full", "empty"} => m \in GrantMsg
BY DEF Message, GrantMsg, AnswerMsg, Reply

LEMMA QuietType ==
    ASSUME NEW c \in Client
    PROVE  quietly(c) \in Client
BY DEF quietly, Silent, Label, Client

LEMMA ReceiveType ==
    ASSUME NEW c \in Client, NEW m \in Message, m.kind \in NoticeKind
    PROVE  manager_receive_message(c, m) \in Client
<1>1. {"acquire", "release"} \subseteq MsgType /\ NoFlags \in Flags
      BY NoFlagsType DEF MsgType
<1>2. CASE m.kind = "unregister"
      BY <1>2 DEF manager_receive_message, Client
<1>3. CASE m.kind = "release"
      BY <1>1, <1>3, SendMessageType DEF manager_receive_message
<1>4. CASE m.kind = "advice" BY <1>4 DEF manager_receive_message
<1>5. CASE m.kind \notin {"unregister", "release", "advice"} /\ c.flood = 0
  <2>1. granted(c, m) \in Client
    <3>1. CASE m.kind = "full" BY <3>1 DEF granted
    <3>2. CASE m.kind # "full"
      <4>. DEFINE b == with_type(c, m.reqno, "invalid")
                  label == [word |-> word_for(type_of(c, m.reqno)),
                            reqno |-> m.reqno, cause |-> m.cause]
      <4>1. b \in Client BY WithType DEF ReqTyp
      <4>. HIDE DEF b
      <4>2. label \in Label
        <5>1. m \in GrantMsg BY <1>5, MessageKinds DEF NoticeKind
        <5>2. word_for(type_of(c, m.reqno)) \in
                 {"none", "lost", "denied", "released", "granted"}
              BY DEF word_for
        <5>. QED BY <5>1, <5>2 DEF Label, GrantMsg
      <4>3. [b EXCEPT !.label = label] \in Client BY <4>1, <4>2 DEF Client
      <4>. QED BY <3>2, <4>3 DEF granted, b
    <3>. QED BY <3>1, <3>2
  <2>. QED BY <1>5, <2>1 DEF manager_receive_message
<1>6. CASE m.kind \notin {"unregister", "release", "advice"} /\ c.flood # 0
  <2>1. granted_in_flood(c, m) \in Client
    <3>1. [c EXCEPT !.flood = 0, !.count = 0] \in Client BY DEF Client
    <3>2. [c EXCEPT !.count = @ + 1] \in Client
      <4>1. c.count + 1 \in Nat BY DEF Client
      <4>. QED BY <4>1 DEF Client
    <3>. QED BY <1>1, <3>1, <3>2, SendMessageType DEF granted_in_flood
  <2>. QED BY <1>6, <2>1 DEF manager_receive_message
<1>. QED BY <1>2, <1>3, <1>4, <1>5, <1>6

LEMMA LinkDownType ==
    ASSUME NEW c \in Client
    PROVE  link_down(c) \in Client
<1>1. [c EXCEPT !.accept = FALSE] \in Client BY DEF Client
<1>. QED BY <1>1, DropType DEF link_down
-----------------------------------------------------------------------------
LEMMA InitType == Init => TypeOK
<1>. SUFFICES ASSUME Init PROVE TypeOK OBVIOUS
<1>1. Started \in Client
  <2>1. Freed \in Rset BY DEF Freed, Rset, RsetState
  <2>2. [i \in 0..(HashDim - 1) |-> "invalid"] \in [0..(HashDim - 1) -> ReqTyp]
        BY DEF ReqTyp
  <2>3. Silent \in Label BY DEF Silent, Label
  <2>4. Options \in Flags BY CliAssumption
  <2>. QED BY <2>1, <2>2, <2>3, <2>4, NoFlagsType DEF Started, Client
<1>2. cl \in Client BY <1>1, ConnectType DEF Init
<1>. QED BY <1>2, NoFlagsType DEF Init, TypeOK

LEMMA UseType ==
    ASSUME TypeOK, NEW counter \in Counter, NEW bound, Use(counter, bound)
    PROVE  used' \in [Counter -> Nat]
BY DEF TypeOK, Use

LEMMA CommandType ==
    ASSUME TypeOK, NEW after \in Client, Command(after)
    PROVE  TypeOK'
<1>1. used' \in [Counter -> Nat] BY UseType DEF Command, Counter
<1>2. cl' \in Client BY DEF Command, Silent, Label, Client
<1>. QED BY <1>1, <1>2 DEF Command, TypeOK

LEMMA UserType == ASSUME TypeOK, User PROVE TypeOK'
<1>1. cl \in Client BY DEF TypeOK
<1>2. NoFlags \in Flags /\ Sendable \subseteq MsgType /\ Updates \subseteq Flags
      /\ {"update", "acquire"} \subseteq MsgType
      BY NoFlagsType, CliAssumption DEF MsgType
<1>3. CASE Send BY <1>1, <1>2, <1>3, SendMessageType, CommandType DEF Send
<1>4. CASE Update BY <1>1, <1>2, <1>4, SendMessageType, CommandType DEF Update
<1>5. CASE Disconnect BY <1>1, <1>5, DisconnectType, CommandType DEF Disconnect
<1>6. CASE Flood
  <2>1. PICK n \in Floods :
           Command(IF n = 0 THEN [cl EXCEPT !.flood = 0, !.count = 0]
                   ELSE manager_send_message([cl EXCEPT !.flood = n], "acquire",
                                             NoFlags))
        BY <1>6 DEF Flood
  <2>2. n \in Nat BY CliAssumption
  <2>3. [cl EXCEPT !.flood = 0, !.count = 0] \in Client
        /\ [cl EXCEPT !.flood = n] \in Client
        BY <1>1, <2>2 DEF Client
  <2>4. manager_send_message([cl EXCEPT !.flood = n], "acquire", NoFlags) \in Client
        BY <1>2, <2>3, SendMessageType
  <2>. QED BY <2>1, <2>3, <2>4, CommandType
<1>7. CASE Stop
  <2>1. [cl EXCEPT !.flood = 0, !.count = 0] \in Client BY <1>1 DEF Client
  <2>. QED BY <1>7, <2>1, CommandType DEF Stop
<1>8. CASE Quit
  <2>1. [cl EXCEPT !.quit = TRUE, !.accept = FALSE] \in Client BY <1>1 DEF Client
  <2>. QED BY <1>8, <2>1, CommandType DEF Quit
<1>. QED BY <1>3, <1>4, <1>5, <1>6, <1>7, <1>8 DEF User

LEMMA InqType ==
    ASSUME TypeOK, inq # <<>>
    PROVE  Head(inq) \in Message /\ Tail(inq) \in Seq(Message)
<1>1. inq \in Seq(Message) BY DEF TypeOK
<1>. QED BY <1>1, HeadTailProperties

LEMMA MainLoopType == ASSUME TypeOK, MainLoop PROVE TypeOK'
<1>. DEFINE m == Head(inq)
            c == quietly(cl)
<1>1. /\ m \in Message /\ inq' \in Seq(Message)
      /\ UNCHANGED <<up, known, used>>
      BY InqType DEF MainLoop, DispatchAnswer, DispatchNotice, DispatchUp,
                     DispatchDown, Dispatch
<1>2. c \in Client BY QuietType DEF TypeOK
<1>3. cl' \in Client
  <2>. HIDE DEF m, c
  <2>1. CASE DispatchAnswer
    <3>1. m \in AnswerMsg
          BY <1>1, <2>1, MessageKinds DEF DispatchAnswer, Dispatch, m
    <3>2. status_method(c, m.reply, m.err) \in Client
          BY <1>2, <3>1, StatusMethodType DEF AnswerMsg
    <3>. QED BY <1>2, <2>1, <3>2 DEF DispatchAnswer, m, c
  <2>2. CASE DispatchNotice
    <3>1. m.kind \in NoticeKind
          BY <2>2 DEF DispatchNotice, Dispatch, NoticeKind, m
    <3>2. manager_receive_message(c, m) \in Client
          BY <1>1, <1>2, <3>1, ReceiveType
    <3>. QED BY <1>2, <2>2, <3>2 DEF DispatchNotice, m, c
  <2>3. CASE DispatchUp
    <3>1. cl' = connect_to_manager(c) BY <2>3 DEF DispatchUp, c
    <3>. QED BY <1>2, <3>1, ConnectType
  <2>4. CASE DispatchDown
    <3>1. cl' = link_down(c) BY <2>4 DEF DispatchDown, c
    <3>. QED BY <1>2, <3>1, LinkDownType
  <2>. QED BY <2>1, <2>2, <2>3, <2>4 DEF MainLoop
<1>. QED BY <1>1, <1>3 DEF TypeOK

LEMMA TimeoutType == ASSUME TypeOK, Timeout PROVE TypeOK'
<1>1. PICK reply \in cl.replies :
         cl' = [status_method(quietly(cl), reply, TRUE) EXCEPT
                   !.overdue = @ \cup {reply.reqno}]
      BY DEF Timeout
<1>2. reply \in Reply BY DEF TypeOK, Client, Reply
<1>. DEFINE d == status_method(quietly(cl), reply, TRUE)
<1>3. d \in Client BY <1>2, QuietType, StatusMethodType DEF TypeOK
<1>. HIDE DEF d
<1>4. cl' = [d EXCEPT !.overdue = @ \cup {reply.reqno}] BY <1>1 DEF d
<1>5. cl' \in Client BY <1>2, <1>3, <1>4 DEF Client, Reply
<1>6. used' \in [Counter -> Nat] BY UseType DEF Timeout, Counter
<1>. QED BY <1>5, <1>6 DEF Timeout, TypeOK

LEMMA TakeType ==
    ASSUME TypeOK, cl.wire # <<>>, NEW messages \in Seq(Message), TakeCall(messages)
    PROVE  cl' \in Client /\ inq' \in Seq(Message)
<1>. DEFINE wire == Tail(cl.wire)
            lost == IF messages = <<>> THEN cl.lost \cup {Head(cl.wire).reqno}
                    ELSE cl.lost
<1>1. cl \in Client /\ cl.wire \in Seq(Call) /\ inq \in Seq(Message)
      BY DEF TypeOK, Client
<1>2. wire \in Seq(Call) /\ Head(cl.wire) \in Call BY <1>1, HeadTailProperties
<1>3. lost \in SUBSET Nat BY <1>1, <1>2 DEF Call, Client
<1>4. cl' = [cl EXCEPT !.wire = wire, !.lost = lost]
      BY <1>1 DEF TakeCall, Client
<1>. HIDE DEF wire, lost
<1>5. cl' \in Client BY <1>1, <1>2, <1>3, <1>4 DEF Client
<1>. QED BY <1>1, <1>5, ConcatProperties DEF TakeCall

LEMMA ShortSequences ==
    ASSUME NEW S, NEW x \in S, NEW y \in S
    PROVE  <<x>> \in Seq(S) /\ <<x, y>> \in Seq(S)
OBVIOUS

LEMMA BusType == ASSUME TypeOK, Bus PROVE TypeOK'
<1>1. cl \in Client /\ cl.wire \in Seq(Call) BY DEF TypeOK, Client
<1>2. CASE Ignores
  <2>1. <<>> \in Seq(Message) OBVIOUS
  <2>. QED BY <1>2, <2>1, TakeType DEF Ignores, TypeOK
<1>3. ASSUME cl.wire # <<>>
      PROVE  LET call == Head(cl.wire)
             IN  /\ call \in Call
                 /\ \A err \in BOOLEAN : answer(call, err) \in Message
                 /\ call.msgtyp \in {"update", "acquire", "release"} =>
                       \A kind \in {"full", "empty"} : grant(kind, call) \in Message
  <2>. DEFINE call == Head(cl.wire)
  <2>1. call \in Call BY <1>1, <1>3, HeadTailProperties
  <2>. HIDE DEF call
  <2>2. ASSUME NEW err \in BOOLEAN
        PROVE  answer(call, err) \in Message
        BY <2>1 DEF answer, Message, Call
  <2>3. ASSUME call.msgtyp \in {"update", "acquire", "release"},
               NEW kind \in {"full", "empty"}
        PROVE  grant(kind, call) \in Message
    <3>1. grant(kind, call) \in GrantMsg BY <2>1, <2>3 DEF grant, GrantMsg, Call
    <3>. QED BY <3>1 DEF GrantMsg, Message
  <2>. QED BY <2>1, <2>2, <2>3 DEF call
<1>. DEFINE call == Head(cl.wire)
<1>4. [reg |-> FALSE, flags |-> NoFlags] \in [reg: BOOLEAN, flags: Flags]
      BY NoFlagsType
<1>5. CASE Refuses
  <2>1. cl.wire # <<>> /\ TakeCall(<<answer(call, TRUE)>>) BY <1>5 DEF Refuses
  <2>2. answer(call, TRUE) \in Message BY <1>3, <2>1
  <2>3. <<answer(call, TRUE)>> \in Seq(Message) BY <2>2, ShortSequences
  <2>4. cl' \in Client /\ inq' \in Seq(Message) BY <2>1, <2>3, TakeType
  <2>5. known' \in [reg: BOOLEAN, flags: Flags]
        BY <1>4, <1>5 DEF Refuses, TypeOK
  <2>. QED BY <1>5, <2>4, <2>5 DEF Refuses, TypeOK
<1>6. CASE Grants
  <2>1. cl.wire # <<>> BY <1>6 DEF Grants
  <2>2. call \in Call BY <1>3, <2>1
  <2>3. \E messages \in Seq(Message) : TakeCall(messages)
    <3>1. answer(call, FALSE) \in Message BY <1>3, <2>1
    <3>2. <<answer(call, FALSE)>> \in Seq(Message) BY <3>1, ShortSequences
    <3>3. ASSUME call.msgtyp \in {"update", "acquire", "release"},
                 NEW kind \in {"full", "empty"}
          PROVE  <<answer(call, FALSE), grant(kind, call)>> \in Seq(Message)
      <4>1. grant(kind, call) \in Message BY <1>3, <2>1, <3>3
      <4>. QED BY <3>1, <4>1, ShortSequences
    <3>. QED BY <1>6, <3>2, <3>3 DEF Grants
  <2>4. cl' \in Client /\ inq' \in Seq(Message) BY <2>1, <2>3, TakeType
  <2>5. known' \in [reg: BOOLEAN, flags: Flags]
    <3>1. \/ UNCHANGED known
          \/ known' = [reg |-> FALSE, flags |-> NoFlags]
          \/ known' = [reg |-> TRUE, flags |-> call.flags]
          BY <1>6 DEF Grants
    <3>2. [reg |-> TRUE, flags |-> call.flags] \in [reg: BOOLEAN, flags: Flags]
      <4>1. call.flags \in Flags BY <2>2 DEF Call
      <4>. HIDE DEF call
      <4>. QED BY <4>1
    <3>. HIDE DEF call
    <3>3. [reg |-> FALSE, flags |-> NoFlags] \in [reg: BOOLEAN, flags: Flags]
          BY NoFlagsType
    <3>4. UNCHANGED known => known' \in [reg: BOOLEAN, flags: Flags]
          BY DEF TypeOK
    <3>. QED BY <3>1, <3>2, <3>3, <3>4
  <2>6. used' \in [Counter -> Nat]
    <3>1. UNCHANGED used \/ Use("notices", MaxNotices) BY <1>6 DEF Grants
    <3>. QED BY <3>1, UseType DEF Counter, TypeOK
  <2>. QED BY <1>6, <2>4, <2>5, <2>6 DEF Grants, TypeOK
<1>7. CASE Bounce
  <2>1. cl.wire # <<>> /\ TakeCall(<<answer(call, TRUE)>>) BY <1>7 DEF Bounce
  <2>2. answer(call, TRUE) \in Message BY <1>3, <2>1
  <2>3. <<answer(call, TRUE)>> \in Seq(Message) BY <2>2, ShortSequences
  <2>4. cl' \in Client /\ inq' \in Seq(Message) BY <2>1, <2>3, TakeType
  <2>. QED BY <1>7, <2>4 DEF Bounce, TypeOK
<1>8. CASE NoReply
  <2>1. PICK reply \in cl.replies :
          /\ inq' = Append(inq, [kind |-> "answer", reply |-> reply, err |-> TRUE])
          /\ cl' = [cl EXCEPT !.lost = @ \ {reply.reqno}]
        BY <1>8 DEF NoReply
  <2>2. reply \in Reply BY <1>1 DEF Client, Reply
  <2>3. [kind |-> "answer", reply |-> reply, err |-> TRUE] \in Message
        BY <2>2 DEF Message, Reply
  <2>4. inq' \in Seq(Message) BY <2>1, <2>3 DEF TypeOK
  <2>5. cl' \in Client
    <3>. DEFINE lost == cl.lost \ {reply.reqno}
    <3>1. cl' = [cl EXCEPT !.lost = lost] BY <2>1
    <3>2. lost \in SUBSET Nat BY <1>1 DEF Client
    <3>. HIDE DEF lost
    <3>. QED BY <1>1, <3>1, <3>2 DEF Client
  <2>. QED BY <1>8, <2>4, <2>5 DEF NoReply, TypeOK
<1>. QED BY <1>2, <1>5, <1>6, <1>7, <1>8 DEF Bus

LEMMA LostType ==
    ASSUME TypeOK, LostWithManager
    PROVE  cl' \in Client /\ known' \in [reg: BOOLEAN, flags: Flags]
<1>1. cl \in Client BY DEF TypeOK
<1>2. [reg |-> FALSE, flags |-> NoFlags] \in [reg: BOOLEAN, flags: Flags]
      BY NoFlagsType
<1>3. PICK n \in 0..Len(cl.wire) :
         cl' = [cl EXCEPT !.wire = SubSeq(@, n + 1, Len(@)),
                          !.lost = @ \cup {cl.wire[i].reqno : i \in 1..n}]
      BY DEF LostWithManager
<1>. DEFINE wire == SubSeq(cl.wire, n + 1, Len(cl.wire))
            lost == cl.lost \cup {cl.wire[i].reqno : i \in 1..n}
<1>4. cl.wire \in Seq(Call) /\ Len(cl.wire) \in Nat BY <1>1 DEF Client
<1>5. wire \in Seq(Call) BY <1>4, SubSeqProperties
<1>6. lost \in SUBSET Nat
  <2>1. \A i \in 1..n : cl.wire[i] \in Call BY <1>4
  <2>. QED BY <1>1, <2>1 DEF Client, Call
<1>7. cl' = [cl EXCEPT !.wire = wire, !.lost = lost] BY <1>3
<1>. HIDE DEF wire, lost
<1>8. cl' \in Client BY <1>1, <1>5, <1>6, <1>7 DEF Client
<1>. QED BY <1>2, <1>8 DEF LostWithManager

LEMMA ManagerType ==
    ASSUME TypeOK, Manager
    PROVE  TypeOK'
<1>1. inq \in Seq(Message) /\ cl \in Client BY DEF TypeOK
<1>2. \A kind \in {"up", "down", "advice", "release", "unregister"} :
         [kind |-> kind] \in Message
      BY DEF Message
<1>3. \A kind \in {"full", "empty"} :
         [kind |-> kind, reqno |-> 0, cause |-> "server"] \in Message
      BY DEF Message
<1>4. CASE ManagerStarts
  <2>1. inq' \in Seq(Message) BY <1>1, <1>2, <1>4 DEF ManagerStarts
  <2>2. used' \in [Counter -> Nat] BY <1>4, UseType DEF ManagerStarts, Counter
  <2>. QED BY <1>4, <2>1, <2>2 DEF ManagerStarts, TypeOK
<1>5. ASSUME NEW kind \in {"up", "down"}, inq' = Append(inq, [kind |-> kind])
      PROVE  inq' \in Seq(Message)
  <2>1. [kind |-> kind] \in Message BY <1>2
  <2>. QED BY <1>1, <1>5, <2>1, AppendProperties
<1>6. CASE ManagerDies
  <2>1. inq' \in Seq(Message) BY <1>5, <1>6 DEF ManagerDies
  <2>2. used' \in [Counter -> Nat] BY <1>6, UseType DEF ManagerDies, Counter
  <2>3. cl' \in Client /\ known' \in [reg: BOOLEAN, flags: Flags]
        BY <1>6, LostType DEF ManagerDies
  <2>. QED BY <1>6, <2>1, <2>2, <2>3 DEF ManagerDies, TypeOK
<1>7. CASE ManagerReplaced
  <2>1. inq' \in Seq(Message) BY <1>5, <1>7 DEF ManagerReplaced
  <2>2. used' \in [Counter -> Nat] BY <1>7, UseType DEF ManagerReplaced, Counter
  <2>3. cl' \in Client /\ known' \in [reg: BOOLEAN, flags: Flags]
        BY <1>7, LostType DEF ManagerReplaced
  <2>. QED BY <1>7, <2>1, <2>2, <2>3 DEF ManagerReplaced, TypeOK
<1>8. CASE ManagerNotifies
  <2>1. PICK kind \in Notices :
          /\ inq' = Append(inq, IF kind \in {"full", "empty"}
                                THEN [kind |-> kind, reqno |-> 0, cause |-> "server"]
                                ELSE [kind |-> kind])
          /\ known' = IF kind = "unregister"
                      THEN [reg |-> FALSE, flags |-> NoFlags] ELSE known
        BY <1>8 DEF ManagerNotifies
  <2>2. kind \in NoticeKind BY CliAssumption DEF NoticeKind
  <2>3. inq' \in Seq(Message) BY <1>1, <1>2, <1>3, <2>1, <2>2 DEF NoticeKind
  <2>4. used' \in [Counter -> Nat] BY <1>8, UseType DEF ManagerNotifies, Counter
  <2>. QED BY <1>8, <2>1, <2>3, <2>4, NoFlagsType DEF ManagerNotifies, TypeOK
<1>. QED BY <1>4, <1>6, <1>7, <1>8 DEF Manager

LEMMA NextType == TypeOK /\ [Next]_vars => TypeOK'
<1>. SUFFICES ASSUME TypeOK, [Next]_vars PROVE TypeOK' OBVIOUS
<1>1. CASE UNCHANGED vars BY <1>1 DEF TypeOK, vars
<1>. QED BY <1>1, UserType, MainLoopType, TimeoutType, BusType, ManagerType DEF Next

(* Whatever the user types and the manager sends, every variable keeps its *)
(* type; no reference count of the set becomes negative.                   *)
THEOREM TypeCorrect == Spec => []TypeOK
<1>. QED BY InitType, NextType, PTL DEF Spec
-----------------------------------------------------------------------------
(* What is under way.  Every request number was given to one request: what *)
(* bears it - a pending reply, a call, a grant - agrees on what it was.    *)

Elements(s) == {s[i] : i \in 1..Len(s)}

IsGrant(m) == m.kind \in {"full", "empty"}

(* A grant that follows a call, not one of the manager's own making. *)
Requested(m) == IsGrant(m) /\ m.cause # "server"

Fits(c, msgtyp, n) ==
    /\ n \in 1..c.reqno
    /\ \A p \in c.replies : p.reqno = n => p.msgtyp = msgtyp

Named(c, q) ==
    /\ \A p \in c.replies : Fits(c, p.msgtyp, p.reqno)
    /\ \A call \in Elements(c.wire) : Fits(c, call.msgtyp, call.reqno)
    /\ \A m \in Elements(q) : IsGrant(m) =>
          IF m.cause = "server" THEN m.reqno = 0 ELSE Fits(c, m.cause, m.reqno)

LEMMA ElementType == ASSUME NEW S, NEW s \in Seq(S) PROVE Elements(s) \subseteq S
BY DEF Elements

LEMMA AppendElements ==
    ASSUME NEW S, NEW s \in Seq(S), NEW x \in S
    PROVE  Elements(Append(s, x)) = Elements(s) \cup {x}
<1>1. /\ Len(Append(s, x)) = Len(s) + 1 /\ Len(s) \in Nat
      /\ \A i \in 1..Len(s) : Append(s, x)[i] = s[i]
      /\ Append(s, x)[Len(s) + 1] = x
      BY AppendProperties
<1>. QED BY <1>1 DEF Elements

LEMMA TailElements ==
    ASSUME NEW S, NEW s \in Seq(S), s # <<>>
    PROVE  Elements(s) = Elements(Tail(s)) \cup {Head(s)}
<1>1. /\ Len(Tail(s)) = Len(s) - 1 /\ Len(s) \in Nat \ {0}
      /\ \A i \in 1..(Len(s) - 1) : Tail(s)[i] = s[i + 1]
      /\ Head(s) = s[1]
      BY HeadTailProperties, EmptySeq
<1>2. ASSUME NEW x \in Elements(s) PROVE x \in Elements(Tail(s)) \cup {Head(s)}
  <2>1. PICK i \in 1..Len(s) : x = s[i] BY <1>2 DEF Elements
  <2>2. CASE i = 1 BY <1>1, <2>1, <2>2
  <2>3. CASE i # 1
    <3>1. i - 1 \in 1..(Len(s) - 1) /\ (i - 1) + 1 = i BY <1>1, <2>3
    <3>2. Tail(s)[i - 1] = s[i] BY <1>1, <3>1
    <3>. QED BY <1>1, <2>1, <3>1, <3>2 DEF Elements
  <2>. QED BY <2>2, <2>3
<1>3. ASSUME NEW x \in Elements(Tail(s)) \cup {Head(s)} PROVE x \in Elements(s)
  <2>1. CASE x = Head(s) BY <1>1, <2>1 DEF Elements
  <2>2. CASE x \in Elements(Tail(s))
    <3>1. PICK i \in 1..(Len(s) - 1) : x = Tail(s)[i] BY <1>1, <2>2 DEF Elements
    <3>2. i + 1 \in 1..Len(s) BY <1>1
    <3>. QED BY <1>1, <3>1, <3>2 DEF Elements
  <2>. QED BY <1>3, <2>1, <2>2
<1>. QED BY <1>2, <1>3

LEMMA ConcatElements ==
    ASSUME NEW S, NEW s \in Seq(S), NEW t \in Seq(S)
    PROVE  Elements(s \o t) \subseteq Elements(s) \cup Elements(t)
<1>1. /\ Len(s \o t) = Len(s) + Len(t) /\ Len(s) \in Nat /\ Len(t) \in Nat
      /\ \A i \in 1..Len(s) + Len(t) :
            (s \o t)[i] = IF i <= Len(s) THEN s[i] ELSE t[i - Len(s)]
      BY ConcatProperties
<1>2. ASSUME NEW i \in 1..Len(s \o t)
      PROVE  (s \o t)[i] \in Elements(s) \cup Elements(t)
  <2>1. CASE i <= Len(s)
    <3>1. i \in 1..Len(s) BY <1>1, <2>1
    <3>. QED BY <1>1, <2>1, <3>1 DEF Elements
  <2>2. CASE i > Len(s)
    <3>1. i - Len(s) \in 1..Len(t) BY <1>1, <2>2
    <3>2. (s \o t)[i] = t[i - Len(s)] BY <1>1, <2>2
    <3>. QED BY <3>1, <3>2 DEF Elements
  <2>. QED BY <1>1, <2>1, <2>2
<1>. QED BY <1>2 DEF Elements

LEMMA DropElements ==
    ASSUME NEW S, NEW s \in Seq(S), NEW n \in 0..Len(s)
    PROVE  Elements(SubSeq(s, n + 1, Len(s))) \subseteq Elements(s)
<1>. DEFINE r == SubSeq(s, n + 1, Len(s))
<1>1. Len(s) \in Nat /\ \A i \in (n + 1)..Len(s) : s[i] \in S OBVIOUS
<1>2. /\ Len(r) = IF n + 1 <= Len(s) THEN Len(s) - (n + 1) + 1 ELSE 0
      /\ \A i \in 1..(Len(s) - (n + 1) + 1) : r[i] = s[(n + 1) + i - 1]
      BY <1>1, SubSeqProperties, SMTT(30)
<1>. HIDE DEF r
<1>3. ASSUME NEW i \in 1..Len(r) PROVE r[i] \in Elements(s)
  <2>1. i \in 1..(Len(s) - (n + 1) + 1) /\ (n + 1) + i - 1 \in 1..Len(s)
        BY <1>1, <1>2
  <2>. QED BY <1>2, <2>1 DEF Elements
<1>. QED BY <1>3 DEF Elements, r

LEMMA ShortElements ==
    /\ Elements(<<>>) = {}
    /\ \A x : Elements(<<x>>) = {x}
    /\ \A x, y : Elements(<<x, y>>) = {x, y}
<1>1. \A x, y : Elements(<<x, y>>) = {x, y}
  <2>. TAKE x, y
  <2>1. Len(<<x, y>>) = 2 /\ <<x, y>>[1] = x /\ <<x, y>>[2] = y OBVIOUS
  <2>2. 1..2 = {1, 2} OBVIOUS
  <2>. QED BY <2>1, <2>2 DEF Elements
<1>2. \A x : Elements(<<x>>) = {x}
  <2>. TAKE x
  <2>1. Len(<<x>>) = 1 /\ <<x>>[1] = x /\ 1..1 = {1} OBVIOUS
  <2>. QED BY <2>1 DEF Elements
<1>. QED BY <1>1, <1>2 DEF Elements
-----------------------------------------------------------------------------
(* What the functions of the client do to the numbers.                     *)

(* A request takes the next number, and may or may not be sent. *)
Asks(d, c, t) ==
    /\ d.reqno = c.reqno + 1
    /\ d.reqtyp = [c.reqtyp EXCEPT ![REQHASH_INDEX(c.reqno + 1)] = t]
    /\ \/ d.replies = c.replies /\ d.wire = c.wire
       \/ /\ d.replies = c.replies \cup {[msgtyp |-> t, reqno |-> c.reqno + 1]}
          /\ \E flags \in Flags :
                d.wire = Append(c.wire, [msgtyp |-> t, reqno |-> c.reqno + 1,
                                         flags |-> flags])

(* Nothing happens but that the entry of number n may be cleared. *)
Clears(d, c, n) ==
    /\ d.reqno = c.reqno /\ d.replies = c.replies /\ d.wire = c.wire
    /\ d.reqtyp = c.reqtyp \/ d.reqtyp = [c.reqtyp EXCEPT ![REQHASH_INDEX(n)] = "invalid"]

(* An answer ends a pending reply and may clear its entry. *)
Ends(d, c, reply) ==
    /\ d.reqno = c.reqno /\ d.replies = c.replies \ {reply} /\ d.wire = c.wire
    /\ \/ d.reqtyp = c.reqtyp
       \/ d.reqtyp = [c.reqtyp EXCEPT ![REQHASH_INDEX(reply.reqno)] = "invalid"]

(* What requests and answers leave alone. *)
SameHistory(d, c) ==
    d.overdue = c.overdue /\ d.lost = c.lost /\ d.label = c.label

LEMMA NumberedAsks ==
    ASSUME NEW c \in Client, NEW t \in MsgType
    PROVE  LET n == numbered(c, t)
           IN  /\ n.reqno = c.reqno + 1
               /\ n.reqtyp = [c.reqtyp EXCEPT ![REQHASH_INDEX(c.reqno + 1)] = t]
               /\ n = [c EXCEPT !.reqno = n.reqno, !.reqtyp = n.reqtyp]
BY DEF numbered, with_type, Client

LEMMA SendsCall ==
    ASSUME NEW c \in Client, NEW t \in MsgType, NEW n \in Client, NEW flags \in Flags,
           n.reqno = c.reqno + 1, n.replies = c.replies, n.wire = c.wire,
           n.reqtyp = [c.reqtyp EXCEPT ![REQHASH_INDEX(c.reqno + 1)] = t],
           SameHistory(n, c)
    PROVE  LET d == dbus_send_message(n, call_of(n, t, flags))
           IN  Asks(d, c, t) /\ SameHistory(d, c)
<1>. DEFINE d == dbus_send_message(n, call_of(n, t, flags))
<1>1. /\ d.reqno = n.reqno /\ d.reqtyp = n.reqtyp
      /\ d.overdue = n.overdue /\ d.lost = n.lost /\ d.label = n.label
      /\ d.wire = Append(n.wire, call_of(n, t, flags))
      /\ d.replies = n.replies \cup {[msgtyp |-> t, reqno |-> n.reqno]}
      BY DEF dbus_send_message, call_of, Client
<1>. HIDE DEF d
<1>2. Asks(d, c, t) BY <1>1 DEF Asks, call_of
<1>. QED BY <1>1, <1>2 DEF SameHistory, d

LEMMA ConnectAsks ==
    ASSUME NEW c \in Client
    PROVE  /\ Asks(connect_to_manager(c), c, "register")
           /\ SameHistory(connect_to_manager(c), c)
<1>. DEFINE n == numbered(c, "register")
            o == Renewing(n, c)
            call == call_of(n, "register", Options)
            f == dbus_connect_to_manager(o)
<1>1. Options \in Flags /\ "register" \in MsgType
      BY CliAssumption DEF MsgType
<1>2. n \in Client BY <1>1, NumberedType
<1>3. /\ n.reqno = c.reqno + 1
      /\ n.reqtyp = [c.reqtyp EXCEPT ![REQHASH_INDEX(c.reqno + 1)] = "register"]
      /\ n = [c EXCEPT !.reqno = n.reqno, !.reqtyp = n.reqtyp]
      BY <1>1, NumberedAsks
<1>4. /\ n.replies = c.replies /\ n.wire = c.wire
      /\ n.overdue = c.overdue /\ n.lost = c.lost /\ n.label = c.label
      BY <1>3 DEF Client
<1>. HIDE DEF n
<1>5. /\ o \in Client /\ o.reqno = n.reqno /\ o.reqtyp = n.reqtyp
      /\ o.replies = n.replies /\ o.wire = n.wire
      /\ o.overdue = n.overdue /\ o.lost = n.lost /\ o.label = n.label
  <2>1. o \in Client /\ SameBut(o, n) BY <1>2, RenewingFields
  <2>. HIDE DEF o
  <2>. QED BY <1>2, <2>1 DEF SameBut
<1>. HIDE DEF o
<1>6. /\ f \in Client /\ f.reqno = n.reqno /\ f.reqtyp = n.reqtyp
      /\ f.replies = n.replies /\ f.wire = n.wire
      /\ f.overdue = n.overdue /\ f.lost = n.lost /\ f.label = n.label
  <2>1. f \in Client BY <1>5, FindType
  <2>2. /\ f.reqno = o.reqno /\ f.reqtyp = o.reqtyp
        /\ f.replies = o.replies /\ f.wire = o.wire
        /\ f.overdue = o.overdue /\ f.lost = o.lost /\ f.label = o.label
        BY <1>5 DEF dbus_connect_to_manager, Client
  <2>. QED BY <1>5, <2>1, <2>2
<1>. HIDE DEF f
<1>7. call = call_of(f, "register", Options) BY <1>6 DEF call_of
<1>8. connect_to_manager(c) =
         IF resset_find(f.rset) THEN dbus_send_message(f, call) ELSE f
      BY DEF connect_to_manager, resconn_connect, Renewing, n, o, f
<1>. HIDE DEF call
<1>9. SameHistory(f, c) BY <1>4, <1>6 DEF SameHistory
<1>10. CASE resset_find(f.rset)
  <2>1. connect_to_manager(c) = dbus_send_message(f, call_of(f, "register", Options))
        BY <1>7, <1>8, <1>10
  <2>2. f.reqno = c.reqno + 1 /\ f.replies = c.replies /\ f.wire = c.wire
        /\ f.reqtyp = [c.reqtyp EXCEPT ![REQHASH_INDEX(c.reqno + 1)] = "register"]
        BY <1>3, <1>4, <1>6
  <2>. QED BY <1>1, <1>6, <1>9, <2>1, <2>2, SendsCall
<1>11. CASE ~resset_find(f.rset)
  <2>1. Asks(f, c, "register") BY <1>3, <1>4, <1>6 DEF Asks
  <2>. QED BY <1>8, <1>9, <1>11, <2>1
<1>. QED BY <1>10, <1>11

LEMMA DisconnectAsks ==
    ASSUME NEW c \in Client
    PROVE  /\ Asks(disconnect_from_manager(c), c, "unregister")
           /\ SameHistory(disconnect_from_manager(c), c)
<1>. DEFINE n == numbered(c, "unregister")
            call == call_of(n, "unregister", NoFlags)
            sent == dbus_send_message(n, call)
            gone == dbus_disconnect_from_manager(sent)
<1>1. "unregister" \in MsgType /\ NoFlags \in Flags BY NoFlagsType DEF MsgType
<1>2. n \in Client /\ call \in Call BY <1>1, NumberedType
<1>3. /\ n.reqno = c.reqno + 1
      /\ n.reqtyp = [c.reqtyp EXCEPT ![REQHASH_INDEX(c.reqno + 1)] = "unregister"]
      /\ n = [c EXCEPT !.reqno = n.reqno, !.reqtyp = n.reqtyp]
      BY <1>1, NumberedAsks
<1>4. /\ n.replies = c.replies /\ n.wire = c.wire
      /\ n.overdue = c.overdue /\ n.lost = c.lost /\ n.label = c.label
      BY <1>3 DEF Client
<1>. HIDE DEF n
<1>5. SameHistory(n, c) BY <1>4 DEF SameHistory
<1>6. Asks(sent, c, "unregister") /\ SameHistory(sent, c)
      BY <1>1, <1>2, <1>3, <1>4, <1>5, SendsCall
<1>7. sent \in Client BY <1>2, SendType
<1>8. disconnect_from_manager(c) =
         IF ~resset_find(n.rset) THEN [n EXCEPT !.fault = "stale"]
         ELSE IF may_send(n) THEN gone ELSE n
      BY DEF disconnect_from_manager, resconn_disconnect, n
<1>. HIDE DEF call, sent
<1>9. Asks(gone, c, "unregister") /\ SameHistory(gone, c)
  <2>1. /\ gone.reqno = sent.reqno /\ gone.reqtyp = sent.reqtyp
        /\ gone.replies = sent.replies /\ gone.wire = sent.wire
        /\ gone.overdue = sent.overdue /\ gone.lost = sent.lost /\ gone.label = sent.label
        BY <1>7 DEF dbus_disconnect_from_manager, Client
  <2>. HIDE DEF gone
  <2>. QED BY <1>6, <2>1 DEF Asks, SameHistory
<1>. HIDE DEF gone
<1>10. Asks(n, c, "unregister") BY <1>3, <1>4 DEF Asks
<1>11. /\ Asks([n EXCEPT !.fault = "stale"], c, "unregister")
       /\ SameHistory([n EXCEPT !.fault = "stale"], c)
  <2>. DEFINE m == [n EXCEPT !.fault = "stale"]
  <2>1. /\ m.reqno = n.reqno /\ m.reqtyp = n.reqtyp
        /\ m.replies = n.replies /\ m.wire = n.wire
        /\ m.overdue = n.overdue /\ m.lost = n.lost /\ m.label = n.label
        BY <1>2 DEF Client
  <2>. HIDE DEF m
  <2>2. Asks(m, c, "unregister") /\ SameHistory(m, c)
        BY <1>5, <1>10, <2>1 DEF Asks, SameHistory
  <2>. QED BY <2>2 DEF m
<1>. QED BY <1>5, <1>8, <1>9, <1>10, <1>11

LEMMA SendMessageAsks ==
    ASSUME NEW c \in Client, NEW t \in MsgType, NEW flags \in Flags
    PROVE  /\ Asks(manager_send_message(c, t, flags), c, t)
           /\ SameHistory(manager_send_message(c, t, flags), c)
<1>. DEFINE n == numbered(c, t)
            o == Asking(n, t, flags)
            sent == dbus_send_message(o, call_of(n, t, flags))
<1>1. n \in Client BY NumberedType
<1>2. /\ n.reqno = c.reqno + 1
      /\ n.reqtyp = [c.reqtyp EXCEPT ![REQHASH_INDEX(c.reqno + 1)] = t]
      /\ n = [c EXCEPT !.reqno = n.reqno, !.reqtyp = n.reqtyp]
      BY NumberedAsks
<1>3. /\ n.replies = c.replies /\ n.wire = c.wire
      /\ n.overdue = c.overdue /\ n.lost = c.lost /\ n.label = c.label
      BY <1>2 DEF Client
<1>. HIDE DEF n
<1>4. /\ o \in Client /\ o.reqno = n.reqno /\ o.reqtyp = n.reqtyp
      /\ o.replies = n.replies /\ o.wire = n.wire
      /\ o.overdue = n.overdue /\ o.lost = n.lost /\ o.label = n.label
  <2>1. o \in Client /\ SameBut(o, n) BY <1>1, AskingFields
  <2>. HIDE DEF o
  <2>. QED BY <1>1, <2>1 DEF SameBut
<1>. HIDE DEF o
<1>5. manager_send_message(c, t, flags) =
         IF ~resset_find(n.rset) THEN [n EXCEPT !.fault = "stale"]
         ELSE IF may_send(n) THEN sent ELSE [n EXCEPT !.broken = TRUE]
      BY DEF manager_send_message, Asking, n, o
<1>6. Asks(sent, c, t) /\ SameHistory(sent, c)
  <2>1. call_of(n, t, flags) = call_of(o, t, flags) BY <1>4 DEF call_of
  <2>2. SameHistory(o, c) BY <1>3, <1>4 DEF SameHistory
  <2>3. o.reqno = c.reqno + 1 /\ o.replies = c.replies /\ o.wire = c.wire
        /\ o.reqtyp = [c.reqtyp EXCEPT ![REQHASH_INDEX(c.reqno + 1)] = t]
        BY <1>2, <1>3, <1>4
  <2>. QED BY <1>4, <2>1, <2>2, <2>3, SendsCall
<1>. HIDE DEF sent
<1>7. ASSUME NEW m \in {[n EXCEPT !.fault = "stale"], [n EXCEPT !.broken = TRUE]}
      PROVE  Asks(m, c, t) /\ SameHistory(m, c)
  <2>1. /\ m.reqno = n.reqno /\ m.reqtyp = n.reqtyp
        /\ m.replies = n.replies /\ m.wire = n.wire
        /\ m.overdue = n.overdue /\ m.lost = n.lost /\ m.label = n.label
        BY <1>1 DEF Client
  <2>. QED BY <1>2, <1>3, <2>1 DEF Asks, SameHistory
<1>. QED BY <1>5, <1>6, <1>7

LEMMA StatusMethodEnds ==
    ASSUME NEW c \in Client, NEW reply \in Reply, NEW err \in BOOLEAN
    PROVE  LET d == status_method(c, reply, err)
           IN  /\ Ends(d, c, reply) /\ SameHistory(d, c)
               /\ ~err /\ d.reqtyp # c.reqtyp =>
                     type_of(c, reply.reqno) = "register"
<1>. DEFINE a == answered(c, reply.msgtyp, err)
            b == manager_status(a, reply, err)
            d == reply_done(b, reply)
            same(x, y) == /\ x.reqno = y.reqno /\ x.replies = y.replies
                          /\ x.wire = y.wire /\ SameHistory(x, y)
<1>1. a \in Client BY AnsweredType
<1>2. same(a, c) /\ a.reqtyp = c.reqtyp
      BY DEF answered, Client, SameHistory
<1>. HIDE DEF a
<1>3. b \in Client BY <1>1, StatusType
<1>4. /\ same(b, a)
      /\ \/ b.reqtyp = a.reqtyp
         \/ b.reqtyp = [a.reqtyp EXCEPT ![REQHASH_INDEX(reply.reqno)] = "invalid"]
      /\ ~err /\ b.reqtyp # a.reqtyp => type_of(a, reply.reqno) = "register"
  <2>. DEFINE k == with_type(a, reply.reqno, "invalid")
  <2>1. k \in Client BY <1>1, WithType DEF ReqTyp
  <2>2. /\ same(k, a)
        /\ k.reqtyp = [a.reqtyp EXCEPT ![REQHASH_INDEX(reply.reqno)] = "invalid"]
        BY <1>1 DEF with_type, Client, SameHistory
  <2>. HIDE DEF k
  <2>3. CASE err
    <3>1. b = [k EXCEPT !.broken = @ \/ reply.msgtyp \in {"acquire", "release"},
                        !.denied = @ \/ reply.msgtyp = "register"]
          BY <2>3 DEF manager_status, k
    <3>2. same(b, k) /\ b.reqtyp = k.reqtyp BY <2>1, <3>1 DEF Client, SameHistory
    <3>. HIDE DEF b
    <3>. QED BY <2>2, <2>3, <3>2 DEF SameHistory
  <2>4. CASE ~err /\ type_of(a, reply.reqno) = "register"
    <3>1. b = [k EXCEPT !.accept = TRUE, !.denied = FALSE, !.dismissed = FALSE]
          BY <2>4 DEF manager_status, k
    <3>2. same(b, k) /\ b.reqtyp = k.reqtyp BY <2>1, <3>1 DEF Client, SameHistory
    <3>. HIDE DEF b
    <3>. QED BY <2>2, <2>4, <3>2 DEF SameHistory
  <2>5. CASE ~err /\ type_of(a, reply.reqno) = "unregister"
    <3>1. b = [a EXCEPT !.accept = FALSE, !.quit = TRUE] BY <2>5 DEF manager_status
    <3>2. same(b, a) /\ b.reqtyp = a.reqtyp BY <1>1, <3>1 DEF Client, SameHistory
    <3>. HIDE DEF b
    <3>. QED BY <3>2
  <2>6. CASE ~err /\ type_of(a, reply.reqno) \notin {"register", "unregister"}
    <3>1. b = a BY <2>6 DEF manager_status
    <3>. HIDE DEF b
    <3>. QED BY <3>1 DEF SameHistory
  <2>. QED BY <2>3, <2>4, <2>5, <2>6
<1>5. status_method(c, reply, err) = d BY DEF status_method, a, b
<1>. HIDE DEF b
<1>6. /\ d.reqno = b.reqno /\ d.replies = b.replies \ {reply} /\ d.wire = b.wire
      /\ d.reqtyp = b.reqtyp /\ SameHistory(d, b)
      BY <1>3 DEF reply_done, Client, SameHistory
<1>. HIDE DEF d
<1>7. type_of(a, reply.reqno) = type_of(c, reply.reqno) BY <1>2 DEF type_of
<1>8. Ends(d, c, reply) BY <1>2, <1>4, <1>6 DEF Ends
<1>9. SameHistory(d, c) BY <1>2, <1>4, <1>6 DEF SameHistory
<1>. QED BY <1>2, <1>4, <1>5, <1>6, <1>7, <1>8, <1>9

Same(d, c) ==
    /\ d.reqno = c.reqno /\ d.replies = c.replies /\ d.wire = c.wire
    /\ d.reqtyp = c.reqtyp

LEMMA ReceiveNumbers ==
    ASSUME NEW c \in Client, NEW m \in Message, m.kind \in NoticeKind
    PROVE  LET d == manager_receive_message(c, m)
           IN  \/ \E t \in {"acquire", "release"} : Asks(d, c, t) /\ SameHistory(d, c)
               \/ Same(d, c) /\ SameHistory(d, c)
               \/ /\ m.kind = "empty"
                  /\ Clears(d, c, m.reqno)
                  /\ d.overdue = c.overdue /\ d.lost = c.lost
                  /\ d.label = [word |-> word_for(type_of(c, m.reqno)),
                                reqno |-> m.reqno, cause |-> m.cause]
<1>. DEFINE d == manager_receive_message(c, m)
<1>1. {"acquire", "release"} \subseteq MsgType /\ NoFlags \in Flags
      BY NoFlagsType DEF MsgType
<1>2. CASE m.kind = "unregister"
  <2>1. d = [c EXCEPT !.accept = FALSE, !.dismissed = TRUE]
        BY <1>2 DEF manager_receive_message
  <2>2. Same(d, c) /\ SameHistory(d, c) BY <2>1 DEF Client, Same, SameHistory
  <2>. QED BY <2>2
<1>3. CASE m.kind = "release"
  <2>1. d = manager_send_message(c, "release", NoFlags)
        BY <1>3 DEF manager_receive_message
  <2>. HIDE DEF d
  <2>2. Asks(d, c, "release") /\ SameHistory(d, c) BY <1>1, <2>1, SendMessageAsks
  <2>. QED BY <2>2 DEF d
<1>4. CASE m.kind = "advice"
  <2>1. d = c BY <1>4 DEF manager_receive_message
  <2>. QED BY <2>1 DEF Same, SameHistory
<1>5. CASE m.kind \notin {"unregister", "release", "advice"} /\ c.flood = 0
  <2>1. d = granted(c, m) BY <1>5 DEF manager_receive_message
  <2>. HIDE DEF d
  <2>2. CASE m.kind = "full"
    <3>1. d = c BY <2>1, <2>2 DEF granted
    <3>. QED BY <3>1 DEF Same, SameHistory, d
  <2>3. CASE m.kind = "empty"
    <3>. DEFINE k == with_type(c, m.reqno, "invalid")
                label == [word |-> word_for(type_of(c, m.reqno)),
                          reqno |-> m.reqno, cause |-> m.cause]
    <3>1. k \in Client BY WithType DEF ReqTyp
    <3>2. /\ k.reqtyp = [c.reqtyp EXCEPT ![REQHASH_INDEX(m.reqno)] = "invalid"]
          /\ k.reqno = c.reqno /\ k.replies = c.replies /\ k.wire = c.wire
          /\ k.overdue = c.overdue /\ k.lost = c.lost
          BY DEF with_type, Client
    <3>3. d = [k EXCEPT !.label = label] BY <2>1, <2>3 DEF granted
    <3>. HIDE DEF k, label
    <3>4. /\ d.reqtyp = k.reqtyp /\ d.reqno = k.reqno /\ d.replies = k.replies
          /\ d.wire = k.wire /\ d.overdue = k.overdue /\ d.lost = k.lost
          /\ d.label = label
          BY <3>1, <3>3 DEF Client
    <3>5. Clears(d, c, m.reqno) BY <3>2, <3>4 DEF Clears
    <3>. QED BY <2>3, <3>2, <3>4, <3>5 DEF d, label
  <2>. QED BY <1>5, <2>2, <2>3 DEF NoticeKind
<1>6. CASE m.kind \notin {"unregister", "release", "advice"} /\ c.flood # 0
  <2>1. d = granted_in_flood(c, m) BY <1>6 DEF manager_receive_message
  <2>. HIDE DEF d
  <2>2. CASE m.kind = "empty"
    <3>1. d = manager_send_message(c, "acquire", NoFlags)
          BY <2>1, <2>2 DEF granted_in_flood
    <3>2. Asks(d, c, "acquire") /\ SameHistory(d, c) BY <1>1, <3>1, SendMessageAsks
    <3>. QED BY <3>2 DEF d
  <2>3. CASE m.kind # "empty" /\ c.count + 1 >= c.flood
    <3>1. d = [c EXCEPT !.flood = 0, !.count = 0] BY <2>1, <2>3 DEF granted_in_flood
    <3>2. Same(d, c) /\ SameHistory(d, c) BY <3>1 DEF Client, Same, SameHistory
    <3>. QED BY <3>2 DEF d
  <2>4. CASE m.kind # "empty" /\ ~(c.count + 1 >= c.flood)
    <3>. DEFINE k == [c EXCEPT !.count = @ + 1]
    <3>1. k \in Client
      <4>1. c.count + 1 \in Nat BY DEF Client
      <4>. QED BY <4>1 DEF Client
    <3>2. Same(k, c) /\ SameHistory(k, c) BY DEF Client, Same, SameHistory
    <3>3. d = manager_send_message(k, "release", NoFlags)
          BY <2>1, <2>4 DEF granted_in_flood
    <3>. HIDE DEF k
    <3>4. Asks(d, k, "release") /\ SameHistory(d, k)
          BY <1>1, <3>1, <3>3, SendMessageAsks
    <3>5. Asks(d, c, "release") /\ SameHistory(d, c)
          BY <3>2, <3>4 DEF Asks, Same, SameHistory
    <3>. QED BY <3>5 DEF d
  <2>. QED BY <2>2, <2>3, <2>4
<1>. QED BY <1>2, <1>3, <1>4, <1>5, <1>6

LEMMA LinkDownNumbers ==
    ASSUME NEW c \in Client
    PROVE  Same(link_down(c), c) /\ SameHistory(link_down(c), c)
BY DEF link_down, dbus_disconnect_from_manager, Client, Same, SameHistory
-----------------------------------------------------------------------------
LEMMA AsksNamed ==
    ASSUME NEW c \in Client, NEW d \in Client, NEW q \in Seq(Message),
           NEW t \in MsgType, Named(c, q), Asks(d, c, t)
    PROVE  Named(d, q)
<1>. DEFINE new == [msgtyp |-> t, reqno |-> c.reqno + 1]
<1>1. c.reqno \in Nat /\ d.reqno = c.reqno + 1 BY DEF Asks, Client
<1>2. d.replies \subseteq c.replies \cup {new} BY DEF Asks
<1>3. \A p \in c.replies : p.reqno \in 1..c.reqno BY DEF Named, Fits
<1>4. ASSUME NEW msgtyp, NEW n, Fits(c, msgtyp, n) PROVE Fits(d, msgtyp, n)
  <2>1. n \in 1..d.reqno /\ n # c.reqno + 1 BY <1>1, <1>4 DEF Fits
  <2>. QED BY <1>2, <1>4, <2>1 DEF Fits
<1>5. Fits(d, t, c.reqno + 1)
  <2>1. c.reqno + 1 \in 1..d.reqno BY <1>1
  <2>2. \A p \in c.replies : p.reqno # c.reqno + 1 BY <1>1, <1>3
  <2>. QED BY <1>2, <2>1, <2>2 DEF Fits
<1>6. \A call \in Elements(d.wire) : Fits(d, call.msgtyp, call.reqno)
  <2>1. CASE d.wire = c.wire BY <1>4, <2>1 DEF Named
  <2>2. ASSUME NEW flags \in Flags,
               d.wire = Append(c.wire, [msgtyp |-> t, reqno |-> c.reqno + 1,
                                        flags |-> flags])
        PROVE  \A call \in Elements(d.wire) : Fits(d, call.msgtyp, call.reqno)
    <3>. DEFINE call == [msgtyp |-> t, reqno |-> c.reqno + 1, flags |-> flags]
    <3>1. call \in Call BY <1>1 DEF Call
    <3>2. Elements(d.wire) = Elements(c.wire) \cup {call}
          BY <2>2, <3>1, AppendElements DEF Client
    <3>. QED BY <1>4, <1>5, <3>2 DEF Named
  <2>. QED BY <2>1, <2>2 DEF Asks
<1>7. \A p \in d.replies : Fits(d, p.msgtyp, p.reqno)
      BY <1>2, <1>4, <1>5 DEF Named
<1>. QED BY <1>4, <1>6, <1>7 DEF Named

(* A step that gives out no number and puts nothing new under way. *)
LEMMA KeepsNamed ==
    ASSUME NEW c \in Client, NEW d \in Client, NEW q \in Seq(Message),
           NEW r \in Seq(Message), Named(c, q),
           d.reqno = c.reqno, d.replies \subseteq c.replies,
           Elements(d.wire) \subseteq Elements(c.wire),
           \A m \in Elements(r) : IsGrant(m) =>
              \/ m \in Elements(q)
              \/ m.cause = "server" /\ m.reqno = 0
              \/ /\ m.cause # "server"
                 /\ \E call \in Elements(c.wire) :
                       m.cause = call.msgtyp /\ m.reqno = call.reqno
    PROVE  Named(d, r)
<1>1. \A msgtyp, n : Fits(c, msgtyp, n) => Fits(d, msgtyp, n) BY DEF Fits
<1>2. ASSUME NEW m \in Elements(r), IsGrant(m)
      PROVE  IF m.cause = "server" THEN m.reqno = 0 ELSE Fits(d, m.cause, m.reqno)
  <2>1. CASE m \in Elements(q) BY <1>1, <1>2, <2>1 DEF Named
  <2>2. CASE m.cause = "server" /\ m.reqno = 0 BY <2>2
  <2>3. ASSUME m.cause # "server", NEW call \in Elements(c.wire),
               m.cause = call.msgtyp, m.reqno = call.reqno
        PROVE  Fits(d, m.cause, m.reqno)
        BY <1>1, <2>3 DEF Named
  <2>. QED BY <1>2, <2>1, <2>2, <2>3
<1>3. \A p \in d.replies : Fits(d, p.msgtyp, p.reqno) BY <1>1 DEF Named
<1>4. \A call \in Elements(d.wire) : Fits(d, call.msgtyp, call.reqno)
      BY <1>1 DEF Named
<1>. QED BY <1>2, <1>3, <1>4 DEF Named
-----------------------------------------------------------------------------
(* What the steps do to the numbers.                                       *)

Told(c, m) == [word |-> word_for(type_of(c, m.reqno)),
               reqno |-> m.reqno, cause |-> m.cause]

LEMMA UserNumbers ==
    ASSUME TypeOK, User
    PROVE  /\ inq' = inq /\ cl'.label = Silent
           /\ cl'.overdue = cl.overdue /\ cl'.lost = cl.lost
           /\ Same(cl', cl) \/ \E t \in MsgType : Asks(cl', cl, t)
<1>1. cl \in Client /\ NoFlags \in Flags /\ Sendable \subseteq MsgType
      /\ Updates \subseteq Flags /\ {"update", "acquire"} \subseteq MsgType
      /\ "unregister" \in MsgType /\ Floods \subseteq Nat
      BY NoFlagsType, CliAssumption DEF TypeOK, MsgType
<1>2. ASSUME NEW after \in Client, Command(after), SameHistory(after, cl),
             Same(after, cl) \/ \E t \in MsgType : Asks(after, cl, t)
      PROVE  /\ inq' = inq /\ cl'.label = Silent
             /\ cl'.overdue = cl.overdue /\ cl'.lost = cl.lost
             /\ Same(cl', cl) \/ \E t \in MsgType : Asks(cl', cl, t)
  <2>1. /\ inq' = inq /\ cl'.label = Silent
        /\ cl'.overdue = after.overdue /\ cl'.lost = after.lost
        /\ cl'.reqno = after.reqno /\ cl'.replies = after.replies
        /\ cl'.wire = after.wire /\ cl'.reqtyp = after.reqtyp
        BY <1>2 DEF Command, Client
  <2>2. Same(after, cl) => Same(cl', cl) BY <2>1 DEF Same
  <2>3. \A t : Asks(after, cl, t) => Asks(cl', cl, t) BY <2>1 DEF Asks
  <2>. QED BY <1>2, <2>1, <2>2, <2>3 DEF SameHistory
<1>3. CASE Send
  <2>1. PICK t \in Sendable : Command(manager_send_message(cl, t, NoFlags))
        BY <1>3 DEF Send
  <2>. QED BY <1>1, <1>2, <2>1, SendMessageType, SendMessageAsks
<1>4. CASE Update
  <2>1. PICK f \in Updates : Command(manager_send_message(cl, "update", f))
        BY <1>4 DEF Update
  <2>. QED BY <1>1, <1>2, <2>1, SendMessageType, SendMessageAsks
<1>5. CASE Disconnect
      BY <1>1, <1>2, <1>5, DisconnectType, DisconnectAsks DEF Disconnect
<1>6. CASE Flood
  <2>1. PICK n \in Floods :
           Command(IF n = 0 THEN [cl EXCEPT !.flood = 0, !.count = 0]
                   ELSE manager_send_message([cl EXCEPT !.flood = n], "acquire",
                                             NoFlags))
        BY <1>6 DEF Flood
  <2>2. CASE n = 0
    <3>. DEFINE k == [cl EXCEPT !.flood = 0, !.count = 0]
    <3>1. k \in Client /\ Same(k, cl) /\ SameHistory(k, cl)
          BY <1>1 DEF Client, Same, SameHistory
    <3>. HIDE DEF k
    <3>2. Command(k) BY <2>1, <2>2 DEF k
    <3>. QED BY <1>2, <3>1, <3>2
  <2>3. CASE n # 0
    <3>. DEFINE k == [cl EXCEPT !.flood = n]
                d == manager_send_message(k, "acquire", NoFlags)
    <3>1. k \in Client /\ Same(k, cl) /\ SameHistory(k, cl)
          BY <1>1 DEF Client, Same, SameHistory
    <3>2. Command(d) BY <2>1, <2>3
    <3>. HIDE DEF k
    <3>3. d \in Client /\ Asks(d, k, "acquire") /\ SameHistory(d, k)
          BY <1>1, <3>1, SendMessageType, SendMessageAsks
    <3>. HIDE DEF d
    <3>4. Asks(d, cl, "acquire") /\ SameHistory(d, cl)
          BY <3>1, <3>3 DEF Asks, Same, SameHistory
    <3>. QED BY <1>1, <1>2, <3>2, <3>3, <3>4
  <2>. QED BY <2>2, <2>3
<1>7. CASE Stop
  <2>. DEFINE k == [cl EXCEPT !.flood = 0, !.count = 0]
  <2>1. k \in Client /\ Same(k, cl) /\ SameHistory(k, cl)
        BY <1>1 DEF Client, Same, SameHistory
  <2>. HIDE DEF k
  <2>2. Command(k) BY <1>7 DEF Stop, k
  <2>. QED BY <1>2, <2>1, <2>2
<1>8. CASE Quit
  <2>. DEFINE k == [cl EXCEPT !.quit = TRUE, !.accept = FALSE]
  <2>1. k \in Client /\ Same(k, cl) /\ SameHistory(k, cl)
        BY <1>1 DEF Client, Same, SameHistory
  <2>. HIDE DEF k
  <2>2. Command(k) BY <1>8 DEF Quit, k
  <2>. QED BY <1>2, <2>1, <2>2
<1>. QED BY <1>3, <1>4, <1>5, <1>6, <1>7, <1>8 DEF User

LEMMA QuietlySame ==
    ASSUME NEW c \in Client
    PROVE  LET k == quietly(c)
           IN  /\ k \in Client /\ Same(k, c) /\ k.label = Silent
               /\ k.overdue = c.overdue /\ k.lost = c.lost
               /\ k = [c EXCEPT !.label = Silent]
BY QuietType DEF quietly, Client, Same

(* What a dispatched answer and a grant told of do. *)
Finishes(d, c, m) ==
    /\ m.kind = "answer" /\ m.reply \in c.replies
    /\ Ends(d, c, m.reply)
    /\ ~m.err /\ d.reqtyp # c.reqtyp => type_of(c, m.reply.reqno) = "register"

Tells(d, c, m) ==
    m.kind = "empty" /\ Clears(d, c, m.reqno) /\ d.label = Told(c, m)

LEMMA MainLoopNumbers ==
    ASSUME TypeOK, MainLoop
    PROVE  /\ inq # <<>> /\ inq' = Tail(inq)
           /\ cl'.overdue = cl.overdue /\ cl'.lost = cl.lost
           /\ \/ \E t \in MsgType : Asks(cl', cl, t) /\ cl'.label = Silent
              \/ Same(cl', cl) /\ cl'.label = Silent
              \/ Finishes(cl', cl, Head(inq)) /\ cl'.label = Silent
              \/ Tells(cl', cl, Head(inq))
<1>. DEFINE m == Head(inq)
            c == quietly(cl)
            Goal == /\ cl'.overdue = cl.overdue /\ cl'.lost = cl.lost
                    /\ \/ \E t \in MsgType : Asks(cl', cl, t) /\ cl'.label = Silent
                       \/ Same(cl', cl) /\ cl'.label = Silent
                       \/ Finishes(cl', cl, m) /\ cl'.label = Silent
                       \/ Tells(cl', cl, m)
<1>1. m \in Message /\ inq # <<>> /\ inq' = Tail(inq)
      BY InqType DEF MainLoop, DispatchAnswer, DispatchNotice, DispatchUp,
                     DispatchDown, Dispatch
<1>2. /\ c \in Client /\ Same(c, cl) /\ c.label = Silent
      /\ c.overdue = cl.overdue /\ c.lost = cl.lost
      BY QuietlySame DEF TypeOK
<1>. HIDE DEF m, c
<1>3. ASSUME cl' = c PROVE Goal BY <1>2, <1>3
<1>4. ASSUME NEW t \in MsgType, Asks(cl', c, t), SameHistory(cl', c) PROVE Goal
  <2>1. Asks(cl', cl, t) BY <1>2, <1>4 DEF Same, Asks
  <2>. QED BY <1>2, <1>4, <2>1 DEF SameHistory
<1>5. ASSUME Same(cl', c), SameHistory(cl', c) PROVE Goal
      BY <1>2, <1>5 DEF Same, SameHistory
<1>6. \A n : type_of(c, n) = type_of(cl, n) BY <1>2 DEF Same, type_of
<1>7. ASSUME DispatchAnswer PROVE Goal
  <2>1. m \in AnswerMsg BY <1>1, <1>7, MessageKinds DEF DispatchAnswer, Dispatch, m
  <2>2. cl' = IF m.reply \in cl.replies THEN status_method(c, m.reply, m.err) ELSE c
        BY <1>7 DEF DispatchAnswer, m, c
  <2>3. ASSUME m.reply \in cl.replies PROVE Goal
    <3>1. /\ Ends(cl', c, m.reply) /\ SameHistory(cl', c)
          /\ ~m.err /\ cl'.reqtyp # c.reqtyp => type_of(c, m.reply.reqno) = "register"
      <4>1. cl' = status_method(c, m.reply, m.err) BY <2>2, <2>3
      <4>. QED BY <1>2, <2>1, <4>1, StatusMethodEnds DEF AnswerMsg
    <3>2. Ends(cl', cl, m.reply) BY <1>2, <3>1 DEF Same, Ends
    <3>3. Finishes(cl', cl, m) BY <1>2, <1>6, <2>1, <2>3, <3>1, <3>2
                               DEF Finishes, Same, AnswerMsg
    <3>. QED BY <1>2, <3>1, <3>3 DEF SameHistory
  <2>. QED BY <1>3, <2>2, <2>3
<1>8. ASSUME DispatchNotice PROVE Goal
  <2>1. m.kind \in NoticeKind BY <1>8 DEF DispatchNotice, Dispatch, NoticeKind, m
  <2>2. \/ cl' = c
        \/ cl' = manager_receive_message(c, m)
        BY <1>8 DEF DispatchNotice, m, c
  <2>3. ASSUME cl' = manager_receive_message(c, m) PROVE Goal
    <3>1. \/ \E t \in {"acquire", "release"} : Asks(cl', c, t) /\ SameHistory(cl', c)
          \/ Same(cl', c) /\ SameHistory(cl', c)
          \/ /\ m.kind = "empty"
             /\ Clears(cl', c, m.reqno)
             /\ cl'.overdue = c.overdue /\ cl'.lost = c.lost
             /\ cl'.label = Told(c, m)
          BY <1>1, <1>2, <2>1, <2>3, ReceiveNumbers DEF Told
    <3>2. ASSUME NEW t \in {"acquire", "release"}, Asks(cl', c, t), SameHistory(cl', c)
          PROVE  Goal
          BY <1>4, <3>2 DEF MsgType
    <3>3. ASSUME m.kind = "empty", Clears(cl', c, m.reqno), cl'.label = Told(c, m),
                 cl'.overdue = c.overdue, cl'.lost = c.lost
          PROVE  Goal
      <4>1. Clears(cl', cl, m.reqno) BY <1>2, <3>3 DEF Same, Clears
      <4>2. Told(c, m) = Told(cl, m) BY <1>6 DEF Told
      <4>. QED BY <1>2, <3>3, <4>1, <4>2 DEF Tells
    <3>. QED BY <1>5, <3>1, <3>2, <3>3
  <2>. QED BY <1>3, <2>2, <2>3
<1>9. ASSUME DispatchUp PROVE Goal
  <2>1. cl' = connect_to_manager(c) BY <1>9 DEF DispatchUp, c
  <2>2. Asks(cl', c, "register") /\ SameHistory(cl', c) BY <1>2, <2>1, ConnectAsks
  <2>3. "register" \in MsgType BY DEF MsgType
  <2>. QED BY <1>4, <2>2, <2>3
<1>10. ASSUME DispatchDown PROVE Goal
  <2>1. cl' = link_down(c) BY <1>10 DEF DispatchDown, c
  <2>. QED BY <1>2, <1>5, <2>1, LinkDownNumbers
<1>11. Goal BY <1>7, <1>8, <1>9, <1>10 DEF MainLoop
<1>. QED BY <1>1, <1>11 DEF m

LEMMA TimeoutNumbers ==
    ASSUME TypeOK, Timeout
    PROVE  \E reply \in cl.replies :
              /\ reply \in Reply
              /\ Ends(cl', cl, reply) /\ inq' = inq /\ cl'.label = Silent
              /\ cl'.overdue = cl.overdue \cup {reply.reqno} /\ cl'.lost = cl.lost
<1>1. PICK reply \in cl.replies :
         cl' = [status_method(quietly(cl), reply, TRUE) EXCEPT
                   !.overdue = @ \cup {reply.reqno}]
      BY DEF Timeout
<1>2. reply \in Reply BY DEF TypeOK, Client, Reply
<1>. DEFINE c == quietly(cl)
            d == status_method(c, reply, TRUE)
<1>3. /\ c \in Client /\ Same(c, cl) /\ c.label = Silent
      /\ c.overdue = cl.overdue /\ c.lost = cl.lost
      BY QuietlySame DEF TypeOK
<1>4. cl' = [d EXCEPT !.overdue = @ \cup {reply.reqno}] BY <1>1
<1>. HIDE DEF c
<1>5. d \in Client /\ Ends(d, c, reply) /\ SameHistory(d, c)
      BY <1>2, <1>3, StatusMethodType, StatusMethodEnds
<1>. HIDE DEF d
<1>6. /\ cl'.reqno = d.reqno /\ cl'.replies = d.replies /\ cl'.wire = d.wire
      /\ cl'.reqtyp = d.reqtyp /\ cl'.lost = d.lost /\ cl'.label = d.label
      /\ cl'.overdue = d.overdue \cup {reply.reqno}
      BY <1>4, <1>5 DEF Client
<1>7. Ends(cl', cl, reply) BY <1>3, <1>5, <1>6 DEF Ends, Same
<1>. QED BY <1>2, <1>3, <1>5, <1>6, <1>7 DEF Timeout, SameHistory

(* The bus and the manager touch the calls on the wire and the lost ones. *)
Moves(d, c) == d = [c EXCEPT !.wire = d.wire, !.lost = d.lost]

LEMMA MovesFields ==
    ASSUME NEW c \in Client, NEW d, Moves(d, c)
    PROVE  /\ d.reqno = c.reqno /\ d.replies = c.replies /\ d.reqtyp = c.reqtyp
           /\ d.overdue = c.overdue /\ d.label = c.label
BY DEF Moves, Client

LEMMA TakeMoves ==
    ASSUME TypeOK, NEW messages, TakeCall(messages)
    PROVE  /\ Moves(cl', cl) /\ inq' = inq \o messages
           /\ cl'.wire = Tail(cl.wire)
           /\ cl'.lost = IF messages = <<>>
                         THEN cl.lost \cup {Head(cl.wire).reqno} ELSE cl.lost
BY DEF TakeCall, Moves, TypeOK, Client

(* The manager or the bus takes the oldest call. *)
Takes(messages) ==
    /\ cl.wire # <<>>
    /\ cl'.wire = Tail(cl.wire)
    /\ inq' = inq \o messages
    /\ cl'.lost = IF messages = <<>> THEN cl.lost \cup {Head(cl.wire).reqno}
                  ELSE cl.lost

LEMMA BusNumbers ==
    ASSUME TypeOK, Bus
    PROVE  /\ Moves(cl', cl)
           /\ \/ Takes(<<>>)
              \/ \E err \in BOOLEAN : Takes(<<answer(Head(cl.wire), err)>>)
              \/ /\ Head(cl.wire).msgtyp \in {"update", "acquire", "release"}
                 /\ \E kind \in {"full", "empty"} :
                       Takes(<<answer(Head(cl.wire), FALSE),
                               grant(kind, Head(cl.wire))>>)
              \/ \E reply \in cl.replies :
                    /\ reply.reqno \in cl.lost
                    /\ inq' = Append(inq, [kind |-> "answer", reply |-> reply,
                                           err |-> TRUE])
                    /\ cl'.lost = cl.lost \ {reply.reqno}
                    /\ cl'.wire = cl.wire
<1>1. ASSUME NEW messages, cl.wire # <<>>, TakeCall(messages)
      PROVE  Moves(cl', cl) /\ Takes(messages)
      BY <1>1, TakeMoves DEF Takes
<1>2. CASE Ignores BY <1>1, <1>2 DEF Ignores
<1>3. CASE Refuses BY <1>1, <1>3 DEF Refuses
<1>4. CASE Bounce BY <1>1, <1>4 DEF Bounce
<1>5. CASE NoReply
  <2>1. PICK reply \in cl.replies :
           /\ reply.reqno \in cl.lost
           /\ inq' = Append(inq, [kind |-> "answer", reply |-> reply, err |-> TRUE])
           /\ cl' = [cl EXCEPT !.lost = @ \ {reply.reqno}]
        BY <1>5 DEF NoReply
  <2>2. Moves(cl', cl) /\ cl'.lost = cl.lost \ {reply.reqno} /\ cl'.wire = cl.wire
        BY <2>1 DEF Moves, TypeOK, Client
  <2>. QED BY <2>1, <2>2
<1>6. CASE Grants
  <2>. DEFINE call == Head(cl.wire)
  <2>1. \/ TakeCall(<<answer(call, FALSE)>>)
        \/ /\ call.msgtyp \in {"update", "acquire", "release"}
           /\ \E kind \in {"full", "empty"} :
                 TakeCall(<<answer(call, FALSE), grant(kind, call)>>)
        BY <1>6 DEF Grants
  <2>2. cl.wire # <<>> BY <1>6 DEF Grants
  <2>. HIDE DEF call
  <2>3. CASE TakeCall(<<answer(call, FALSE)>>) BY <1>1, <2>2, <2>3 DEF call
  <2>4. ASSUME call.msgtyp \in {"update", "acquire", "release"},
               NEW kind \in {"full", "empty"},
               TakeCall(<<answer(call, FALSE), grant(kind, call)>>)
        PROVE  Moves(cl', cl) /\ Takes(<<answer(call, FALSE), grant(kind, call)>>)
        BY <1>1, <2>2, <2>4
  <2>. QED BY <2>1, <2>3, <2>4 DEF call
<1>. QED BY <1>2, <1>3, <1>4, <1>5, <1>6 DEF Bus

LEMMA ManagerNumbers ==
    ASSUME TypeOK, Manager
    PROVE  /\ Moves(cl', cl)
           /\ \E m \in Message :
                 /\ inq' = Append(inq, m) /\ m.kind # "answer"
                 /\ IsGrant(m) => m.cause = "server" /\ m.reqno = 0
           /\ \E n \in 0..Len(cl.wire) :
                 /\ cl'.wire = SubSeq(cl.wire, n + 1, Len(cl.wire))
                 /\ cl'.lost = cl.lost \cup {cl.wire[i].reqno : i \in 1..n}
<1>1. cl \in Client /\ cl.wire \in Seq(Call) BY DEF TypeOK, Client
<1>2. \A kind \in {"up", "down", "advice", "release", "unregister"} :
         LET m == [kind |-> kind] IN m \in Message /\ m.kind # "answer" /\ ~IsGrant(m)
      BY DEF Message, IsGrant
<1>3. \A kind \in {"full", "empty"} :
         LET m == [kind |-> kind, reqno |-> 0, cause |-> "server"]
         IN  m \in Message /\ m.kind # "answer" /\ m.cause = "server" /\ m.reqno = 0
      BY DEF Message
<1>4. ASSUME cl' = cl
      PROVE  /\ Moves(cl', cl)
             /\ \E n \in 0..Len(cl.wire) :
                   /\ cl'.wire = SubSeq(cl.wire, n + 1, Len(cl.wire))
                   /\ cl'.lost = cl.lost \cup {cl.wire[i].reqno : i \in 1..n}
  <2>1. Moves(cl, cl) BY <1>1 DEF Moves, Client
  <2>2. SubSeq(cl.wire, 0 + 1, Len(cl.wire)) = cl.wire
        BY <1>1, SubSeqProperties
  <2>3. 0 \in 0..Len(cl.wire) /\ 1..0 = {} BY <1>1
  <2>. QED BY <1>4, <2>1, <2>2, <2>3
<1>5. CASE ManagerStarts
  <2>1. inq' = Append(inq, [kind |-> "up"]) /\ cl' = cl BY <1>5 DEF ManagerStarts
  <2>. QED BY <1>2, <1>4, <2>1
<1>6. CASE ManagerNotifies
  <2>1. PICK kind \in Notices :
           inq' = Append(inq, IF kind \in {"full", "empty"}
                              THEN [kind |-> kind, reqno |-> 0, cause |-> "server"]
                              ELSE [kind |-> kind])
        BY <1>6 DEF ManagerNotifies
  <2>2. kind \in {"full", "empty", "advice", "release", "unregister"}
        BY CliAssumption
  <2>3. cl' = cl BY <1>6 DEF ManagerNotifies
  <2>4. CASE kind \in {"full", "empty"} BY <1>3, <1>4, <2>1, <2>3, <2>4
  <2>5. CASE kind \notin {"full", "empty"} BY <1>2, <1>4, <2>1, <2>2, <2>3, <2>5
  <2>. QED BY <2>4, <2>5
<1>7. ASSUME LostWithManager
      PROVE  /\ Moves(cl', cl)
             /\ \E n \in 0..Len(cl.wire) :
                   /\ cl'.wire = SubSeq(cl.wire, n + 1, Len(cl.wire))
                   /\ cl'.lost = cl.lost \cup {cl.wire[i].reqno : i \in 1..n}
  <2>1. PICK n \in 0..Len(cl.wire) :
           cl' = [cl EXCEPT !.wire = SubSeq(@, n + 1, Len(@)),
                            !.lost = @ \cup {cl.wire[i].reqno : i \in 1..n}]
        BY <1>7 DEF LostWithManager
  <2>. DEFINE wire == SubSeq(cl.wire, n + 1, Len(cl.wire))
              lost == cl.lost \cup {cl.wire[i].reqno : i \in 1..n}
  <2>2. cl' = [cl EXCEPT !.wire = wire, !.lost = lost] BY <2>1
  <2>. HIDE DEF wire, lost
  <2>3. Moves(cl', cl) /\ cl'.wire = wire /\ cl'.lost = lost
        BY <1>1, <2>2 DEF Moves, Client
  <2>4. /\ cl'.wire = SubSeq(cl.wire, n + 1, Len(cl.wire))
        /\ cl'.lost = cl.lost \cup {cl.wire[i].reqno : i \in 1..n}
        BY <2>3 DEF wire, lost
  <2>. QED BY <2>3, <2>4
<1>8. CASE ManagerDies
  <2>1. inq' = Append(inq, [kind |-> "down"]) /\ LostWithManager
        BY <1>8 DEF ManagerDies
  <2>. QED BY <1>2, <1>7, <2>1
<1>9. CASE ManagerReplaced
  <2>1. inq' = Append(inq, [kind |-> "up"]) /\ LostWithManager
        BY <1>9 DEF ManagerReplaced
  <2>. QED BY <1>2, <1>7, <2>1
<1>. QED BY <1>5, <1>6, <1>8, <1>9 DEF Manager

LEMMA TailNamed ==
    ASSUME NEW c \in Client, NEW d \in Client, NEW q \in Seq(Message), Named(c, q),
           q # <<>>, d.reqno = c.reqno, d.replies \subseteq c.replies, d.wire = c.wire
    PROVE  Named(d, Tail(q))
<1>1. Tail(q) \in Seq(Message) BY HeadTailProperties
<1>2. Elements(Tail(q)) \subseteq Elements(q) BY TailElements
<1>. QED BY <1>1, <1>2, KeepsNamed

LEMMA InitNamed == Init => Named(cl, inq)
<1>. SUFFICES ASSUME Init PROVE Named(cl, inq) OBVIOUS
<1>1. Started \in Client
  <2>1. Freed \in Rset BY DEF Freed, Rset, RsetState
  <2>2. [i \in 0..(HashDim - 1) |-> "invalid"] \in [0..(HashDim - 1) -> ReqTyp]
        BY DEF ReqTyp
  <2>3. Silent \in Label BY DEF Silent, Label
  <2>4. Options \in Flags BY CliAssumption
  <2>. QED BY <2>1, <2>2, <2>3, <2>4, NoFlagsType DEF Started, Client
<1>2. Asks(cl, Started, "register") BY <1>1, ConnectAsks DEF Init
<1>3. cl \in Client /\ inq = <<>> BY InitType DEF Init, TypeOK
<1>4. Named(Started, <<>>) BY ShortElements DEF Named, Started
<1>5. <<>> \in Seq(Message) /\ "register" \in MsgType BY DEF MsgType
<1>. QED BY <1>1, <1>2, <1>3, <1>4, <1>5, AsksNamed

LEMMA NextNamed ==
    ASSUME TypeOK, Named(cl, inq), [Next]_vars
    PROVE  Named(cl', inq')
<1>1. cl \in Client /\ cl' \in Client /\ inq \in Seq(Message) /\ inq' \in Seq(Message)
      /\ cl.wire \in Seq(Call)
      BY NextType DEF TypeOK, Client
<1>2. CASE UNCHANGED vars BY <1>2 DEF vars
<1>3. CASE User
  <2>1. inq' = inq /\ (Same(cl', cl) \/ \E t \in MsgType : Asks(cl', cl, t))
        BY <1>3, UserNumbers
  <2>2. CASE Same(cl', cl) BY <1>1, <2>1, <2>2, KeepsNamed DEF Same
  <2>. QED BY <1>1, <2>1, <2>2, AsksNamed
<1>4. CASE MainLoop
  <2>1. /\ inq # <<>> /\ inq' = Tail(inq)
        /\ \/ \E t \in MsgType : Asks(cl', cl, t)
           \/ Same(cl', cl)
           \/ Ends(cl', cl, Head(inq).reply)
           \/ Clears(cl', cl, Head(inq).reqno)
        BY <1>4, MainLoopNumbers DEF Finishes, Tells
  <2>2. Named(cl, Tail(inq)) BY <1>1, <2>1, TailNamed
  <2>3. CASE \E t \in MsgType : Asks(cl', cl, t)
        BY <1>1, <2>1, <2>2, <2>3, AsksNamed
  <2>4. ASSUME cl'.reqno = cl.reqno, cl'.replies \subseteq cl.replies,
               cl'.wire = cl.wire
        PROVE  Named(cl', inq')
        BY <1>1, <2>1, <2>4, TailNamed
  <2>. QED BY <2>1, <2>3, <2>4 DEF Same, Ends, Clears
<1>5. CASE Timeout
  <2>1. cl'.reqno = cl.reqno /\ cl'.replies \subseteq cl.replies
        /\ cl'.wire = cl.wire /\ inq' = inq
        BY <1>5, TimeoutNumbers DEF Ends
  <2>. QED BY <1>1, <2>1, KeepsNamed
<1>6. CASE Bus
  <2>1. cl'.reqno = cl.reqno /\ cl'.replies = cl.replies
        BY <1>1, <1>6, BusNumbers, MovesFields
  <2>2. ASSUME NEW messages \in Seq(Message), Takes(messages),
               \A m \in Elements(messages) : IsGrant(m) =>
                  m.cause # "server" /\ \E call \in Elements(cl.wire) :
                     m.cause = call.msgtyp /\ m.reqno = call.reqno
        PROVE  Named(cl', inq')
    <3>1. Elements(cl'.wire) \subseteq Elements(cl.wire)
          BY <1>1, <2>2, TailElements DEF Takes
    <3>2. Elements(inq') \subseteq Elements(inq) \cup Elements(messages)
          BY <1>1, <2>2, ConcatElements DEF Takes
    <3>. QED BY <1>1, <2>1, <2>2, <3>1, <3>2, KeepsNamed
  <2>. DEFINE call == Head(cl.wire)
  <2>3. cl.wire # <<>> => call \in Call /\ call \in Elements(cl.wire)
        BY <1>1, HeadTailProperties, TailElements
  <2>4. CASE Takes(<<>>)
    <3>1. <<>> \in Seq(Message) OBVIOUS
    <3>. QED BY <2>2, <2>4, <3>1, ShortElements
  <2>5. ASSUME NEW err \in BOOLEAN, Takes(<<answer(call, err)>>)
        PROVE  Named(cl', inq')
    <3>1. call \in Call BY <2>3, <2>5 DEF Takes
    <3>. HIDE DEF call
    <3>2. answer(call, err) \in Message /\ ~IsGrant(answer(call, err))
          BY <3>1 DEF answer, Message, Call, IsGrant
    <3>3. <<answer(call, err)>> \in Seq(Message) BY <3>2, ShortSequences
    <3>4. Elements(<<answer(call, err)>>) = {answer(call, err)} BY ShortElements
    <3>. QED BY <2>2, <2>5, <3>2, <3>3, <3>4
  <2>6. ASSUME call.msgtyp \in {"update", "acquire", "release"},
               NEW kind \in {"full", "empty"},
               Takes(<<answer(call, FALSE), grant(kind, call)>>)
        PROVE  Named(cl', inq')
    <3>1. call \in Call /\ call \in Elements(cl.wire) BY <2>3, <2>6 DEF Takes
    <3>. HIDE DEF call
    <3>2. answer(call, FALSE) \in Message /\ ~IsGrant(answer(call, FALSE))
          BY <3>1 DEF answer, Message, Call, IsGrant
    <3>3. grant(kind, call) \in GrantMsg BY <2>6, <3>1 DEF grant, GrantMsg, Call
    <3>4. grant(kind, call) \in Message BY <3>3 DEF GrantMsg, Message
    <3>5. <<answer(call, FALSE), grant(kind, call)>> \in Seq(Message)
          BY <3>2, <3>4, ShortSequences
    <3>6. /\ grant(kind, call).cause = call.msgtyp
          /\ grant(kind, call).reqno = call.reqno
          BY DEF grant
    <3>7. Elements(<<answer(call, FALSE), grant(kind, call)>>)
             = {answer(call, FALSE), grant(kind, call)}
          BY ShortElements
    <3>8. call.msgtyp # "server" BY <2>6
    <3>. QED BY <2>2, <2>6, <3>1, <3>2, <3>5, <3>6, <3>7, <3>8
  <2>7. ASSUME NEW reply \in cl.replies, cl'.wire = cl.wire,
               inq' = Append(inq, [kind |-> "answer", reply |-> reply, err |-> TRUE])
        PROVE  Named(cl', inq')
    <3>. DEFINE m == [kind |-> "answer", reply |-> reply, err |-> TRUE]
    <3>1. m \in Message /\ ~IsGrant(m) BY <1>1 DEF Message, Client, IsGrant
    <3>2. inq' = Append(inq, m) BY <2>7
    <3>. HIDE DEF m
    <3>3. Elements(inq') = Elements(inq) \cup {m}
          BY <1>1, <3>1, <3>2, AppendElements
    <3>. QED BY <1>1, <2>1, <2>7, <3>1, <3>3, KeepsNamed
  <2>. HIDE DEF call
  <2>. QED BY <1>6, <2>4, <2>5, <2>6, <2>7, BusNumbers DEF call
<1>7. CASE Manager
  <2>1. cl'.reqno = cl.reqno /\ cl'.replies = cl.replies
        BY <1>1, <1>7, ManagerNumbers, MovesFields
  <2>2. PICK m \in Message :
           /\ inq' = Append(inq, m)
           /\ IsGrant(m) => m.cause = "server" /\ m.reqno = 0
        BY <1>7, ManagerNumbers
  <2>3. Elements(inq') = Elements(inq) \cup {m} BY <1>1, <2>2, AppendElements
  <2>4. Elements(cl'.wire) \subseteq Elements(cl.wire)
        BY <1>1, <1>7, ManagerNumbers, DropElements
  <2>. QED BY <1>1, <2>1, <2>2, <2>3, <2>4, KeepsNamed
<1>. QED BY <1>2, <1>3, <1>4, <1>5, <1>6, <1>7 DEF Next
-----------------------------------------------------------------------------
(* The references on the set, for as long as it has not come back to life  *)
(* and the table has not come round.  Each pending reply holds two; one    *)
(* more is the creator's, given up when the set is destroyed, and kept for *)
(* good by a set that an error had killed before.                          *)

Counted(r, path, held) ==
    /\ r.refcnt \in {held, held + 1}
    /\ r.state = "freed" <=> r.refcnt = 0
    /\ r.state \in {"created", "connected"} => path
    /\ path => r.refcnt = held + 1

Held(c) == 2 * Cardinality(c.replies)

Leaving(c) == \E p \in c.replies : p.msgtyp = "unregister"

(* A client that accepts commands has a connected set, unless the manager  *)
(* refused it or its UNREGISTER is on the way.                             *)
Accepts(c) ==
    /\ Leaving(c) => c.rset.state = "killed" /\ ~c.path
    /\ c.accept /\ ~Leaving(c) =>
          /\ c.rset.refcnt = Held(c) + 1
          /\ c.rset.state = "connected" \/ (c.denied /\ c.rset.state = "killed")

Kept(c) ==
    /\ IsFiniteSet(c.replies)
    /\ Counted(c.rset, c.path, Held(c))
    /\ Accepts(c)

(* The table says what a pending request was. *)
Noted(c) ==
    \A p \in c.replies :
       \/ type_of(c, p.reqno) = p.msgtyp
       \/ type_of(c, p.reqno) = "invalid" /\ p.msgtyp \notin {"register", "unregister"}

LEMMA CountedRef ==
    ASSUME NEW r \in Rset, NEW path \in BOOLEAN, NEW held \in Nat,
           Counted(r, path, held), r.state # "freed"
    PROVE  LET s == resset_ref(resset_ref(r))
           IN  /\ Counted(s, path, held + 2)
               /\ s \in Rset /\ s.state = r.state /\ s.refcnt = r.refcnt + 2
<1>. DEFINE k == resset_ref(r)
            s == resset_ref(k)
<1>1. k \in Rset /\ k.state = r.state /\ k.refcnt = r.refcnt + 1
      BY DEF resset_ref, Rset
<1>. HIDE DEF k
<1>2. s \in Rset /\ s.state = k.state /\ s.refcnt = k.refcnt + 1
      BY <1>1 DEF resset_ref, Rset
<1>. HIDE DEF s
<1>3. r.refcnt \in Nat BY DEF Rset
<1>4. Counted(s, path, held + 2) BY <1>1, <1>2, <1>3 DEF Counted
<1>. QED BY <1>1, <1>2, <1>3, <1>4 DEF k, s

LEMMA CountedDestroy ==
    ASSUME NEW r \in Rset, NEW path \in BOOLEAN, NEW held \in Nat,
           Counted(r, path, held), r.state # "freed"
    PROVE  LET s == resset_destroy(r)
           IN  /\ Counted(s, FALSE, held)
               /\ r.state = "killed" => s = r
               /\ held > 0 => s.state = "killed"
<1>. DEFINE k == [r EXCEPT !.state = "killed"]
<1>1. k \in Rset /\ k.refcnt = r.refcnt /\ k.state = "killed"
      BY DEF Rset, RsetState
<1>2. CASE r.state = "killed" BY <1>2 DEF Counted, resset_destroy
<1>3. CASE r.state # "killed"
  <2>1. r.refcnt = held + 1 BY <1>3 DEF Counted, Rset, RsetState
  <2>2. resset_destroy(r) = resset_unref(k) BY <1>3 DEF resset_destroy
  <2>. HIDE DEF k
  <2>3. CASE held = 0
    <3>1. resset_unref(k) = Freed BY <1>1, <2>1, <2>3 DEF resset_unref
    <3>. QED BY <1>3, <2>2, <2>3, <3>1 DEF Counted, Freed
  <2>4. CASE held # 0
    <3>1. resset_unref(k) = [k EXCEPT !.refcnt = @ - 1]
          BY <1>1, <2>1, <2>4 DEF resset_unref
    <3>2. resset_unref(k).refcnt = held /\ resset_unref(k).state = "killed"
          BY <1>1, <2>1, <3>1 DEF Rset
    <3>. QED BY <1>3, <2>2, <2>4, <3>2 DEF Counted
  <2>. QED BY <2>3, <2>4
<1>. QED BY <1>2, <1>3

LEMMA CountedUnref ==
    ASSUME NEW r \in Rset, NEW path \in BOOLEAN, NEW held \in Nat,
           Counted(r, path, held + 2)
    PROVE  LET s == resset_unref(resset_unref(r))
           IN  /\ Counted(s, path, held)
               /\ s.refcnt = r.refcnt - 2
               /\ s.state # "freed" => s.state = r.state
<1>. DEFINE k == resset_unref(r)
<1>1. r.refcnt \in {held + 2, held + 3} /\ r.refcnt \in Nat /\ r.state # "freed"
      BY DEF Counted, Rset
<1>2. k = [r EXCEPT !.refcnt = @ - 1] BY <1>1 DEF resset_unref
<1>3. k \in Rset /\ k.refcnt = r.refcnt - 1 /\ k.state = r.state
      BY <1>1, <1>2 DEF Rset
<1>. HIDE DEF k
<1>4. CASE r.refcnt = 2
  <2>1. resset_unref(k) = Freed BY <1>3, <1>4 DEF resset_unref
  <2>2. held = 0 /\ ~path BY <1>1, <1>4 DEF Counted
  <2>. QED BY <1>4, <2>1, <2>2 DEF Counted, Freed, k
<1>5. CASE r.refcnt # 2
  <2>1. k.refcnt > 1 BY <1>1, <1>3, <1>5
  <2>2. resset_unref(k) = [k EXCEPT !.refcnt = @ - 1]
        BY <1>3, <2>1 DEF resset_unref, Rset
  <2>3. /\ resset_unref(k).refcnt = r.refcnt - 2
        /\ resset_unref(k).state = r.state
        BY <1>1, <1>3, <2>2 DEF Rset
  <2>. QED BY <1>1, <1>5, <2>3 DEF Counted, k
<1>. QED BY <1>4, <1>5

LEMMA HeldType ==
    ASSUME NEW c, IsFiniteSet(c.replies)
    PROVE  /\ Held(c) \in Nat
           /\ Leaving(c) => Held(c) > 0
<1>1. Cardinality(c.replies) \in Nat BY FS_CardinalityType
<1>2. Leaving(c) => Cardinality(c.replies) # 0 BY FS_EmptySet DEF Leaving
<1>. QED BY <1>1, <1>2 DEF Held

(* Where the set, the replies and what the client makes of them are the    *)
(* same.                                                                   *)
LEMMA SameKept ==
    ASSUME NEW c, NEW d, Kept(c), d.rset = c.rset, d.path = c.path,
           d.replies = c.replies, d.accept \in BOOLEAN, c.accept \in BOOLEAN,
           d.accept => c.accept, d.denied = c.denied
    PROVE  Kept(d)
BY DEF Kept, Accepts, Leaving, Held

LEMMA FreshNumber ==
    ASSUME NEW c \in Client, NEW q, Named(c, q), NEW t
    PROVE  [msgtyp |-> t, reqno |-> c.reqno + 1] \notin c.replies
<1>1. \A p \in c.replies : p.reqno \in 1..c.reqno BY DEF Named, Fits
<1>. QED BY <1>1 DEF Client

LEMMA SendFields ==
    ASSUME NEW c \in Client, NEW call \in Call, Kept(c), resset_find(c.rset),
           [msgtyp |-> call.msgtyp, reqno |-> call.reqno] \notin c.replies
    PROVE  LET d == dbus_send_message(c, call)
           IN  /\ IsFiniteSet(d.replies) /\ Held(d) = Held(c) + 2
               /\ d.replies = c.replies \cup {[msgtyp |-> call.msgtyp,
                                               reqno |-> call.reqno]}
               /\ Counted(d.rset, d.path, Held(d))
               /\ d.rset \in Rset /\ d.rset.state = c.rset.state
               /\ d.rset.refcnt = c.rset.refcnt + 2
               /\ d.path = c.path /\ d.accept = c.accept /\ d.denied = c.denied
               /\ d.fault = c.fault
<1>. DEFINE d == dbus_send_message(c, call)
            new == [msgtyp |-> call.msgtyp, reqno |-> call.reqno]
<1>1. /\ d.replies = c.replies \cup {new}
      /\ d.rset = resset_ref(resset_ref(c.rset))
      /\ d.path = c.path /\ d.accept = c.accept /\ d.denied = c.denied
      /\ d.fault = c.fault
      BY DEF dbus_send_message, Client
<1>2. new \notin c.replies /\ IsFiniteSet(c.replies) BY DEF Kept
<1>. HIDE DEF d, new
<1>3. /\ IsFiniteSet(d.replies)
      /\ Cardinality(d.replies) = Cardinality(c.replies) + 1
      BY <1>1, <1>2, FS_AddElement
<1>4. Held(d) = Held(c) + 2 /\ Held(c) \in Nat
      BY <1>2, <1>3, HeldType, FS_CardinalityType DEF Held
<1>5. /\ Counted(d.rset, c.path, Held(c) + 2)
      /\ d.rset \in Rset /\ d.rset.state = c.rset.state
      /\ d.rset.refcnt = c.rset.refcnt + 2
  <2>1. c.rset \in Rset /\ c.path \in BOOLEAN BY DEF Client
  <2>. QED BY <1>1, <1>4, <2>1, CountedRef DEF Kept, resset_find
<1>. QED BY <1>1, <1>3, <1>4, <1>5 DEF d, new

LEMMA SendKept ==
    ASSUME NEW c \in Client, NEW call \in Call, Kept(c), resset_find(c.rset),
           [msgtyp |-> call.msgtyp, reqno |-> call.reqno] \notin c.replies,
           call.msgtyp # "unregister"
    PROVE  LET d == dbus_send_message(c, call)
           IN  Kept(d) /\ d.fault = c.fault
<1>. DEFINE d == dbus_send_message(c, call)
<1>1. /\ IsFiniteSet(d.replies) /\ Held(d) = Held(c) + 2
      /\ d.replies = c.replies \cup {[msgtyp |-> call.msgtyp, reqno |-> call.reqno]}
      /\ Counted(d.rset, d.path, Held(d))
      /\ d.rset \in Rset /\ d.rset.state = c.rset.state
      /\ d.rset.refcnt = c.rset.refcnt + 2
      /\ d.path = c.path /\ d.accept = c.accept /\ d.denied = c.denied
      /\ d.fault = c.fault
      BY SendFields
<1>. HIDE DEF d
<1>2. Held(c) \in Nat BY HeldType DEF Kept
<1>3. Leaving(d) <=> Leaving(c) BY <1>1 DEF Leaving
<1>4. Accepts(d) BY <1>1, <1>2, <1>3 DEF Kept, Accepts
<1>. QED BY <1>1, <1>4 DEF Kept, d

LEMMA NumberedFields ==
    ASSUME NEW c \in Client, NEW t \in MsgType
    PROVE  LET n == numbered(c, t)
           IN  /\ n \in Client /\ n.reqno = c.reqno + 1
               /\ n.rset = c.rset /\ n.path = c.path /\ n.replies = c.replies
               /\ n.accept = c.accept /\ n.denied = c.denied /\ n.fault = c.fault
<1>. DEFINE n == numbered(c, t)
<1>1. n \in Client BY NumberedType
<1>2. n = [c EXCEPT !.reqno = n.reqno, !.reqtyp = n.reqtyp] /\ n.reqno = c.reqno + 1
      BY NumberedAsks
<1>. HIDE DEF n
<1>. QED BY <1>1, <1>2 DEF Client, n

LEMMA ConnectKept ==
    ASSUME NEW c \in Client, NEW q, Named(c, q), Kept(c)
    PROVE  LET d == connect_to_manager(c)
           IN  Kept(d) /\ d.fault = c.fault
<1>. DEFINE n == numbered(c, "register")
            o == Renewing(n, c)
            call == call_of(n, "register", Options)
            f == dbus_connect_to_manager(o)
<1>1. Options \in Flags /\ "register" \in MsgType
      BY CliAssumption DEF MsgType
<1>2. /\ n \in Client /\ n.reqno = c.reqno + 1
      /\ n.rset = c.rset /\ n.path = c.path /\ n.replies = c.replies
      /\ n.accept = c.accept /\ n.denied = c.denied /\ n.fault = c.fault
      BY <1>1, NumberedFields
<1>3. call \in Call /\ call.msgtyp = "register" /\ call.reqno = c.reqno + 1
      BY <1>1, <1>2, NumberedType DEF call_of
<1>. HIDE DEF n
<1>4. /\ o \in Client
      /\ o.rset = c.rset /\ o.path = c.path /\ o.replies = c.replies
      /\ o.accept = c.accept /\ o.denied = c.denied /\ o.fault = c.fault
  <2>1. o \in Client /\ SameBut(o, n) BY <1>2, RenewingFields
  <2>. HIDE DEF o
  <2>. QED BY <1>2, <2>1 DEF SameBut
<1>5. connect_to_manager(c) =
         IF resset_find(f.rset) THEN dbus_send_message(f, call) ELSE f
      BY DEF connect_to_manager, resconn_connect, Renewing, n, o, f, call
<1>. HIDE DEF o, call
<1>6. c.accept \in BOOLEAN /\ c.rset \in Rset /\ c.path \in BOOLEAN BY DEF Client
<1>7. Kept(o) BY <1>4, <1>6, SameKept
<1>8. f \in Client /\ Kept(f) /\ f.replies = c.replies /\ f.fault = c.fault
  <2>1. f \in Client BY <1>4, FindType
  <2>2. CASE resset_find(o.rset) \/ o.path
        BY <1>4, <1>7, <2>1, <2>2 DEF dbus_connect_to_manager
  <2>3. CASE ~(resset_find(o.rset) \/ o.path)
    <3>1. f = [o EXCEPT !.path = TRUE, !.rset = resset_create("created")]
          BY <2>3 DEF dbus_connect_to_manager
    <3>2. /\ f.replies = o.replies /\ f.path = TRUE
          /\ f.rset = [state |-> "created", refcnt |-> 1]
          /\ f.accept = o.accept /\ f.denied = o.denied /\ f.fault = o.fault
          BY <1>4, <3>1 DEF Client, resset_create
    <3>. HIDE DEF f
    <3>3. c.rset.state = "freed" /\ Held(c) \in Nat /\ c.rset.refcnt = 0
          BY <1>4, <2>3, HeldType DEF Kept, Counted, resset_find
    <3>4. Held(c) = 0 /\ ~Leaving(c) /\ ~c.accept
      <4>1. Held(c) = 0 BY <3>3 DEF Kept, Counted
      <4>2. ~Leaving(c) BY <4>1, HeldType DEF Kept
      <4>. QED BY <3>3, <4>1, <4>2 DEF Kept, Accepts
    <3>5. Held(f) = 0 /\ ~Leaving(f) /\ ~f.accept
          BY <1>4, <3>2, <3>4 DEF Held, Leaving
    <3>6. Counted(f.rset, f.path, Held(f)) BY <3>2, <3>5 DEF Counted
    <3>7. Accepts(f) BY <3>5 DEF Accepts
    <3>8. IsFiniteSet(f.replies) BY <1>4, <3>2 DEF Kept
    <3>. QED BY <1>4, <2>1, <3>2, <3>6, <3>7, <3>8 DEF Kept, f
  <2>. QED BY <2>2, <2>3
<1>. HIDE DEF f
<1>9. CASE resset_find(f.rset)
  <2>1. [msgtyp |-> call.msgtyp, reqno |-> call.reqno] \notin f.replies
        BY <1>3, <1>8, FreshNumber
  <2>2. call.msgtyp # "unregister" BY <1>3
  <2>. QED BY <1>3, <1>5, <1>8, <1>9, <2>1, <2>2, SendKept
<1>. QED BY <1>5, <1>8, <1>9

LEMMA SendMessageKept ==
    ASSUME NEW c \in Client, NEW q, Named(c, q), Kept(c), resset_find(c.rset),
           NEW t \in MsgType \ {"unregister"}, NEW flags \in Flags
    PROVE  LET d == manager_send_message(c, t, flags)
           IN  Kept(d) /\ d.fault = c.fault
<1>. DEFINE n == numbered(c, t)
            o == Asking(n, t, flags)
            call == call_of(n, t, flags)
            b == [n EXCEPT !.broken = TRUE]
<1>1. /\ n \in Client /\ n.reqno = c.reqno + 1
      /\ n.rset = c.rset /\ n.path = c.path /\ n.replies = c.replies
      /\ n.accept = c.accept /\ n.denied = c.denied /\ n.fault = c.fault
      BY NumberedFields
<1>2. call \in Call /\ call.msgtyp = t /\ call.reqno = c.reqno + 1
      BY <1>1, NumberedType DEF call_of
<1>. HIDE DEF n
<1>3. /\ o \in Client
      /\ o.rset = c.rset /\ o.path = c.path /\ o.replies = c.replies
      /\ o.accept = c.accept /\ o.denied = c.denied /\ o.fault = c.fault
  <2>1. o \in Client /\ SameBut(o, n) BY <1>1, AskingFields
  <2>. HIDE DEF o
  <2>. QED BY <1>1, <2>1 DEF SameBut
<1>4. /\ b.rset = c.rset /\ b.path = c.path /\ b.replies = c.replies
      /\ b.accept = c.accept /\ b.denied = c.denied /\ b.fault = c.fault
      BY <1>1 DEF Client
<1>5. manager_send_message(c, t, flags) =
         IF may_send(n) THEN dbus_send_message(o, call) ELSE b
      BY <1>1 DEF manager_send_message, Asking, n, o, b, call
<1>. HIDE DEF o, b, call
<1>6. c.accept \in BOOLEAN BY DEF Client
<1>7. Kept(o) /\ Kept(b) BY <1>3, <1>4, <1>6, SameKept
<1>8. [msgtyp |-> call.msgtyp, reqno |-> call.reqno] \notin o.replies
      BY <1>2, <1>3, FreshNumber
<1>9. call.msgtyp # "unregister" BY <1>2
<1>. QED BY <1>2, <1>3, <1>4, <1>5, <1>7, <1>8, <1>9, SendKept

LEMMA DisconnectKept ==
    ASSUME NEW c \in Client, NEW q, Named(c, q), Kept(c), resset_find(c.rset)
    PROVE  LET d == disconnect_from_manager(c)
           IN  Kept(d) /\ d.fault = c.fault
<1>. DEFINE n == numbered(c, "unregister")
            call == call_of(n, "unregister", NoFlags)
            s == dbus_send_message(n, call)
            d == dbus_disconnect_from_manager(s)
<1>1. "unregister" \in MsgType /\ NoFlags \in Flags BY NoFlagsType DEF MsgType
<1>2. /\ n \in Client /\ n.reqno = c.reqno + 1
      /\ n.rset = c.rset /\ n.path = c.path /\ n.replies = c.replies
      /\ n.accept = c.accept /\ n.denied = c.denied /\ n.fault = c.fault
      BY <1>1, NumberedFields
<1>3. call \in Call /\ call.msgtyp = "unregister" /\ call.reqno = c.reqno + 1
      BY <1>1, <1>2, NumberedType DEF call_of
<1>4. disconnect_from_manager(c) = IF may_send(n) THEN d ELSE n
      BY <1>2 DEF disconnect_from_manager, resconn_disconnect, n, call
<1>. HIDE DEF n, call
<1>5. c.accept \in BOOLEAN BY DEF Client
<1>6. Kept(n) BY <1>2, <1>5, SameKept
<1>7. CASE may_send(n)
  <2>1. [msgtyp |-> call.msgtyp, reqno |-> call.reqno] \notin n.replies
        BY <1>2, <1>3, FreshNumber
  <2>2. /\ IsFiniteSet(s.replies) /\ Held(s) = Held(n) + 2
        /\ s.replies = n.replies \cup {[msgtyp |-> call.msgtyp, reqno |-> call.reqno]}
        /\ Counted(s.rset, s.path, Held(s))
        /\ s.rset \in Rset /\ s.rset.state = n.rset.state
        /\ s.rset.refcnt = n.rset.refcnt + 2
        /\ s.path = n.path /\ s.accept = n.accept /\ s.denied = n.denied
        /\ s.fault = n.fault
        BY <1>2, <1>3, <1>6, <2>1, SendFields
  <2>3. s \in Client BY <1>2, <1>3, SendType
  <2>. HIDE DEF s
  <2>4. /\ d.rset = resset_destroy(s.rset) /\ d.path = FALSE
        /\ d.replies = s.replies /\ d.fault = s.fault
        BY <2>3 DEF dbus_disconnect_from_manager, Client
  <2>. HIDE DEF d
  <2>5. Held(n) \in Nat BY <1>6, HeldType DEF Kept
  <2>6. Held(d) = Held(s) /\ Held(d) > 0 BY <2>2, <2>4, <2>5 DEF Held
  <2>7. /\ Counted(d.rset, FALSE, Held(d)) /\ d.rset.state = "killed"
    <3>1. s.path \in BOOLEAN /\ s.rset.state # "freed" /\ Held(s) \in Nat
          BY <1>7, <2>2, <2>3, <2>5 DEF Client, may_send
    <3>. QED BY <2>2, <2>4, <2>6, <3>1, CountedDestroy
  <2>8. Leaving(d)
    <3>1. [msgtyp |-> call.msgtyp, reqno |-> call.reqno] \in d.replies
          BY <2>2, <2>4
    <3>. QED BY <1>3, <3>1 DEF Leaving
  <2>9. Kept(d) BY <2>2, <2>4, <2>7, <2>8 DEF Kept, Accepts
  <2>. QED BY <1>2, <1>4, <1>7, <2>2, <2>4, <2>9
<1>. QED BY <1>2, <1>4, <1>6, <1>7

LEMMA LinkDownKept ==
    ASSUME NEW c \in Client, Kept(c)
    PROVE  LET d == link_down(c)
           IN  Kept(d) /\ d.fault = c.fault
<1>. DEFINE t == IF may_send(c) THEN [c EXCEPT !.accept = FALSE] ELSE c
            d == dbus_disconnect_from_manager(t)
<1>1. /\ t \in Client /\ t.rset = c.rset /\ t.replies = c.replies
      /\ t.denied = c.denied /\ t.fault = c.fault
      /\ t.accept => c.accept /\ c.rset.state # "connected"
  <2>1. CASE may_send(c)
    <3>1. t = [c EXCEPT !.accept = FALSE] BY <2>1
    <3>. HIDE DEF t
    <3>. QED BY <3>1 DEF Client
  <2>2. CASE ~may_send(c)
    <3>1. t = c BY <2>2
    <3>. HIDE DEF t
    <3>. QED BY <2>2, <3>1 DEF may_send
  <2>. QED BY <2>1, <2>2
<1>. HIDE DEF t
<1>2. /\ d.rset = resset_destroy(c.rset) /\ d.path = FALSE
      /\ d.replies = c.replies /\ d.fault = c.fault
      /\ d.accept = t.accept /\ d.denied = c.denied
      BY <1>1 DEF dbus_disconnect_from_manager, Client
<1>. HIDE DEF d
<1>3. link_down(c) = IF resset_find(c.rset) THEN d ELSE c BY DEF link_down, t, d
<1>4. CASE resset_find(c.rset)
  <2>1. Held(d) = Held(c) /\ (Leaving(d) <=> Leaving(c)) BY <1>2 DEF Held, Leaving
  <2>2. c.rset \in Rset /\ c.path \in BOOLEAN /\ Held(c) \in Nat
        BY HeldType DEF Client, Kept
  <2>3. /\ Counted(d.rset, FALSE, Held(c))
        /\ c.rset.state = "killed" => d.rset = c.rset
        BY <1>2, <1>4, <2>2, CountedDestroy DEF Kept, resset_find
  <2>4. Accepts(d)
    <3>1. Leaving(d) => d.rset.state = "killed" /\ ~d.path
          BY <1>2, <2>1, <2>3 DEF Kept, Accepts
    <3>2. ASSUME d.accept, ~Leaving(d)
          PROVE  d.rset.refcnt = Held(d) + 1 /\ d.denied /\ d.rset.state = "killed"
          BY <1>1, <1>2, <2>1, <2>3, <3>2 DEF Kept, Accepts
    <3>. QED BY <3>1, <3>2 DEF Accepts
  <2>. QED BY <1>2, <1>3, <1>4, <2>1, <2>3, <2>4 DEF Kept
<1>. QED BY <1>3, <1>4

LEMMA ReceiveKept ==
    ASSUME NEW c \in Client, NEW q, Named(c, q), Kept(c), resset_find(c.rset),
           NEW m \in Message, m.kind \in NoticeKind
    PROVE  LET d == manager_receive_message(c, m)
           IN  Kept(d) /\ d.fault = c.fault
<1>. DEFINE d == manager_receive_message(c, m)
<1>1. {"acquire", "release"} \subseteq MsgType \ {"unregister"} /\ NoFlags \in Flags
      BY NoFlagsType DEF MsgType
<1>2. c.accept \in BOOLEAN BY DEF Client
<1>3. CASE m.kind = "unregister"
  <2>1. d = [c EXCEPT !.accept = FALSE, !.dismissed = TRUE]
        BY <1>3 DEF manager_receive_message
  <2>2. /\ d.rset = c.rset /\ d.path = c.path /\ d.replies = c.replies
        /\ d.accept = FALSE /\ d.denied = c.denied /\ d.fault = c.fault
        BY <2>1 DEF Client
  <2>. HIDE DEF d
  <2>3. Kept(d) BY <1>2, <2>2, SameKept
  <2>. QED BY <2>2, <2>3 DEF d
<1>4. CASE m.kind = "release"
  <2>1. d = manager_send_message(c, "release", NoFlags)
        BY <1>4 DEF manager_receive_message
  <2>. QED BY <1>1, <2>1, SendMessageKept
<1>5. CASE m.kind = "advice" BY <1>5 DEF manager_receive_message
<1>6. CASE m.kind \notin {"unregister", "release", "advice"} /\ c.flood = 0
  <2>1. d = granted(c, m) BY <1>6 DEF manager_receive_message
  <2>2. /\ d.rset = c.rset /\ d.path = c.path /\ d.replies = c.replies
        /\ d.accept = c.accept /\ d.denied = c.denied /\ d.fault = c.fault
        BY <2>1 DEF granted, with_type, Client
  <2>. HIDE DEF d
  <2>3. Kept(d) BY <1>2, <2>2, SameKept
  <2>. QED BY <2>2, <2>3 DEF d
<1>7. CASE m.kind \notin {"unregister", "release", "advice"} /\ c.flood # 0
  <2>1. d = granted_in_flood(c, m) BY <1>7 DEF manager_receive_message
  <2>2. CASE m.kind = "empty"
        BY <1>1, <2>1, <2>2, SendMessageKept DEF granted_in_flood
  <2>3. CASE m.kind # "empty" /\ c.count + 1 >= c.flood
    <3>1. d = [c EXCEPT !.flood = 0, !.count = 0]
          BY <2>1, <2>3 DEF granted_in_flood
    <3>2. /\ d.rset = c.rset /\ d.path = c.path /\ d.replies = c.replies
          /\ d.accept = c.accept /\ d.denied = c.denied /\ d.fault = c.fault
          BY <3>1 DEF Client
    <3>. HIDE DEF d
    <3>3. Kept(d) BY <1>2, <3>2, SameKept
    <3>. QED BY <3>2, <3>3 DEF d
  <2>4. CASE m.kind # "empty" /\ ~(c.count + 1 >= c.flood)
    <3>. DEFINE k == [c EXCEPT !.count = @ + 1]
    <3>1. k \in Client
      <4>1. c.count + 1 \in Nat BY DEF Client
      <4>. QED BY <4>1 DEF Client
    <3>2. /\ k.rset = c.rset /\ k.path = c.path /\ k.replies = c.replies
          /\ k.accept = c.accept /\ k.denied = c.denied /\ k.fault = c.fault
          /\ k.reqno = c.reqno /\ k.wire = c.wire
          BY DEF Client
    <3>3. d = manager_send_message(k, "release", NoFlags)
          BY <2>1, <2>4 DEF granted_in_flood
    <3>. HIDE DEF k, d
    <3>4. Kept(k) /\ resset_find(k.rset) BY <1>2, <3>2, SameKept
    <3>5. Named(k, q) BY <3>2 DEF Named, Fits
    <3>6. Kept(d) /\ d.fault = k.fault
          BY <1>1, <3>1, <3>3, <3>4, <3>5, SendMessageKept
    <3>. QED BY <3>2, <3>6 DEF d
  <2>. QED BY <2>2, <2>3, <2>4
<1>. QED BY <1>3, <1>4, <1>5, <1>6, <1>7

(* What the callback makes of an answer when the table says what the call  *)
(* was: only the answer to a REGISTER makes the client accept commands,    *)
(* only that to an UNREGISTER makes it quit.                               *)
LEMMA StatusFields ==
    ASSUME NEW a \in Client, NEW reply \in Reply, NEW err \in BOOLEAN,
           \/ type_of(a, reply.reqno) = reply.msgtyp
           \/ type_of(a, reply.reqno) = "invalid" /\ reply.msgtyp # "unregister"
    PROVE  LET b == manager_status(a, reply, err)
           IN  /\ b \in Client
               /\ b.rset = a.rset /\ b.path = a.path /\ b.replies = a.replies
               /\ b.fault = a.fault /\ b.revived = a.revived
               /\ b.quit \/ ~(~err /\ reply.msgtyp = "unregister")
               /\ \/ /\ ~(err /\ reply.msgtyp = "register")
                     /\ b.accept = a.accept /\ b.denied = a.denied
                  \/ ~err /\ reply.msgtyp = "register" /\ b.accept
                  \/ ~err /\ reply.msgtyp = "unregister"
                  \/ /\ err /\ reply.msgtyp = "register"
                     /\ b.accept = a.accept /\ b.denied
<1>. DEFINE b == manager_status(a, reply, err)
            k == with_type(a, reply.reqno, "invalid")
<1>1. b \in Client BY StatusType
<1>2. k \in Client BY WithType DEF ReqTyp
<1>3. /\ k.rset = a.rset /\ k.path = a.path /\ k.replies = a.replies
      /\ k.fault = a.fault /\ k.revived = a.revived /\ k.quit = a.quit
      /\ k.accept = a.accept /\ k.denied = a.denied
      BY DEF with_type, Client
<1>4. CASE err
  <2>1. b = [k EXCEPT !.broken = @ \/ reply.msgtyp \in {"acquire", "release"},
                      !.denied = @ \/ reply.msgtyp = "register"]
        BY <1>4 DEF manager_status
  <2>. HIDE DEF b, k
  <2>2. /\ b.rset = k.rset /\ b.path = k.path /\ b.replies = k.replies
        /\ b.fault = k.fault /\ b.revived = k.revived /\ b.accept = k.accept
        BY <1>2, <2>1 DEF Client
  <2>3. b.denied = (k.denied \/ reply.msgtyp = "register")
        BY <1>2, <2>1 DEF Client
  <2>4. b.denied \in BOOLEAN /\ k.denied \in BOOLEAN BY <1>1, <1>2 DEF Client
  <2>5. CASE reply.msgtyp = "register"
        BY <1>1, <1>3, <1>4, <2>2, <2>3, <2>5 DEF b
  <2>6. CASE reply.msgtyp # "register"
    <3>1. b.denied = k.denied BY <2>3, <2>4, <2>6
    <3>. QED BY <1>1, <1>3, <1>4, <2>2, <2>6, <3>1 DEF b
  <2>. QED BY <2>5, <2>6
<1>5. CASE ~err /\ type_of(a, reply.reqno) = "register"
  <2>1. b = [k EXCEPT !.accept = TRUE, !.denied = FALSE, !.dismissed = FALSE]
        BY <1>5 DEF manager_status
  <2>2. reply.msgtyp = "register" BY <1>5
  <2>. HIDE DEF b, k
  <2>3. /\ b.rset = k.rset /\ b.path = k.path /\ b.replies = k.replies
        /\ b.fault = k.fault /\ b.revived = k.revived /\ b.accept = TRUE
        BY <1>2, <2>1 DEF Client
  <2>. QED BY <1>1, <1>3, <1>5, <2>2, <2>3 DEF b
<1>6. CASE ~err /\ type_of(a, reply.reqno) = "unregister"
  <2>1. b = [a EXCEPT !.accept = FALSE, !.quit = TRUE] BY <1>6 DEF manager_status
  <2>2. reply.msgtyp = "unregister" BY <1>6
  <2>. HIDE DEF b
  <2>3. /\ b.rset = a.rset /\ b.path = a.path /\ b.replies = a.replies
        /\ b.fault = a.fault /\ b.revived = a.revived /\ b.quit = TRUE
        BY <2>1 DEF Client
  <2>. QED BY <1>1, <1>6, <2>2, <2>3 DEF b
<1>7. CASE ~err /\ type_of(a, reply.reqno) \notin {"register", "unregister"}
  <2>1. b = a BY <1>7 DEF manager_status
  <2>2. reply.msgtyp # "unregister" BY <1>7
  <2>. QED BY <1>1, <1>7, <2>1, <2>2
<1>. QED BY <1>4, <1>5, <1>6, <1>7

LEMMA AnsweredFields ==
    ASSUME NEW c \in Client, NEW t \in MsgType, NEW err \in BOOLEAN
    PROVE  LET a == answered(c, t, err)
           IN  /\ a \in Client /\ a.replies = c.replies /\ a.path = c.path
               /\ a.accept = c.accept /\ a.denied = c.denied /\ a.fault = c.fault
               /\ a.reqtyp = c.reqtyp
               /\ c.revived => a.revived
               /\ t = "register" /\ ~err =>
                     /\ a.rset = [c.rset EXCEPT !.state = "connected"]
                     /\ c.rset.state = "killed" /\ ~c.path => a.revived
               /\ t = "register" /\ err => a.rset = [c.rset EXCEPT !.state = "killed"]
               /\ t = "unregister" /\ err =>
                     /\ a.rset = [resset_ref(c.rset) EXCEPT !.state = "connected"]
                     /\ c.rset.state = "killed" => a.revived
               /\ t \notin {"register", "unregister"} \/ (t = "unregister" /\ ~err) =>
                     a.rset = c.rset
<1>. DEFINE a == answered(c, t, err)
<1>1. a \in Client BY AnsweredType
<1>2. CASE t = "register"
  <2>1. a = [c EXCEPT !.rset.state = IF err THEN "killed" ELSE "connected",
                      !.revived    = @ \/ (~err /\ c.rset.state = "killed"
                                              /\ ~c.path)]
        BY <1>2 DEF answered
  <2>. HIDE DEF a
  <2>2. /\ a.replies = c.replies /\ a.path = c.path
        /\ a.accept = c.accept /\ a.denied = c.denied /\ a.fault = c.fault
        /\ a.reqtyp = c.reqtyp
        /\ a.rset = [c.rset EXCEPT !.state = IF err THEN "killed" ELSE "connected"]
        BY <2>1 DEF Client
  <2>3. a.revived = (c.revived \/ (~err /\ c.rset.state = "killed" /\ ~c.path))
        BY <2>1 DEF Client
  <2>. QED BY <1>1, <1>2, <2>2, <2>3 DEF a
<1>3. CASE t = "unregister" /\ err
  <2>1. a = [c EXCEPT !.rset    = [resset_ref(@) EXCEPT !.state = "connected"],
                      !.revived = @ \/ c.rset.state = "killed"]
        BY <1>3 DEF answered
  <2>. HIDE DEF a
  <2>2. /\ a.replies = c.replies /\ a.path = c.path
        /\ a.accept = c.accept /\ a.denied = c.denied /\ a.fault = c.fault
        /\ a.reqtyp = c.reqtyp
        /\ a.rset = [resset_ref(c.rset) EXCEPT !.state = "connected"]
        BY <2>1 DEF Client
  <2>3. a.revived = (c.revived \/ c.rset.state = "killed")
        BY <2>1 DEF Client
  <2>. QED BY <1>1, <1>3, <2>2, <2>3 DEF a
<1>4. CASE t # "register" /\ ~(t = "unregister" /\ err)
      BY <1>1, <1>4 DEF answered
<1>. QED BY <1>2, <1>3, <1>4

(* The answer to a pending call finds the two references of its reply.     *)
LEMMA StatusMethodKept ==
    ASSUME NEW c \in Client, Kept(c), NEW reply \in c.replies, reply \in Reply,
           NEW err \in BOOLEAN, c.fault = "none",
           \/ type_of(c, reply.reqno) = reply.msgtyp
           \/ type_of(c, reply.reqno) = "invalid" /\ reply.msgtyp # "unregister"
    PROVE  LET d == status_method(c, reply, err)
           IN  /\ c.revived => d.revived
               /\ d.fault = "none"
               /\ d.quit \/ d.revived \/ Kept(d)
<1>. DEFINE t == reply.msgtyp
            a == answered(c, t, err)
            b == manager_status(a, reply, err)
            d == reply_done(b, reply)
<1>1. t \in MsgType BY DEF Reply
<1>2. /\ a \in Client /\ a.replies = c.replies /\ a.path = c.path
      /\ a.accept = c.accept /\ a.denied = c.denied /\ a.fault = c.fault
      /\ a.reqtyp = c.reqtyp
      /\ c.revived => a.revived
      /\ t = "register" /\ ~err =>
            /\ a.rset = [c.rset EXCEPT !.state = "connected"]
            /\ c.rset.state = "killed" /\ ~c.path => a.revived
      /\ t = "register" /\ err => a.rset = [c.rset EXCEPT !.state = "killed"]
      /\ t = "unregister" /\ err =>
            /\ a.rset = [resset_ref(c.rset) EXCEPT !.state = "connected"]
            /\ c.rset.state = "killed" => a.revived
      /\ t \notin {"register", "unregister"} \/ (t = "unregister" /\ ~err) =>
            a.rset = c.rset
      BY <1>1, AnsweredFields
<1>3. status_method(c, reply, err) = d BY DEF status_method
<1>. HIDE DEF a
<1>4. /\ b \in Client
      /\ b.rset = a.rset /\ b.path = a.path /\ b.replies = a.replies
      /\ b.fault = a.fault /\ b.revived = a.revived
      /\ b.quit \/ ~(~err /\ t = "unregister")
      /\ \/ /\ ~(err /\ t = "register")
            /\ b.accept = a.accept /\ b.denied = a.denied
         \/ ~err /\ t = "register" /\ b.accept
         \/ ~err /\ t = "unregister"
         \/ /\ err /\ t = "register"
            /\ b.accept = a.accept /\ b.denied
  <2>1. type_of(a, reply.reqno) = type_of(c, reply.reqno) BY <1>2 DEF type_of
  <2>. QED BY <1>2, <2>1, StatusFields
<1>. HIDE DEF b
<1>5. /\ d.replies = c.replies \ {reply} /\ d.path = c.path
      /\ d.rset = resset_unref(resset_unref(a.rset))
      /\ d.accept = b.accept /\ d.denied = b.denied /\ d.quit = b.quit
      /\ d.revived = a.revived
      /\ d.fault = IF c.fault = "none" /\ a.rset.refcnt < 2 THEN "stale" ELSE c.fault
      BY <1>2, <1>4 DEF reply_done, Client
<1>. HIDE DEF d
<1>6. /\ c.rset \in Rset /\ a.rset \in Rset /\ c.path \in BOOLEAN
      /\ c.rset.refcnt \in Nat
      BY <1>2 DEF Client, Rset
<1>7. IsFiniteSet(d.replies) /\ Held(d) \in Nat /\ Held(c) = Held(d) + 2
  <2>1. /\ IsFiniteSet(c.replies) /\ IsFiniteSet(d.replies)
        /\ Cardinality(d.replies) = Cardinality(c.replies) - 1
        BY <1>5, FS_RemoveElement DEF Kept
  <2>2. Cardinality(c.replies) \in Nat /\ Cardinality(d.replies) \in Nat
        BY <2>1, FS_CardinalityType
  <2>. QED BY <2>1, <2>2 DEF Held
<1>8. c.rset.refcnt \in {Held(d) + 2, Held(d) + 3} /\ c.rset.state # "freed"
      BY <1>7 DEF Kept, Counted
<1>9. a.rset.refcnt \in {c.rset.refcnt, c.rset.refcnt + 1}
  <2>1. resset_ref(c.rset).refcnt = c.rset.refcnt + 1 /\ resset_ref(c.rset) \in Rset
        BY <1>6 DEF resset_ref, Rset
  <2>2. [resset_ref(c.rset) EXCEPT !.state = "connected"].refcnt = c.rset.refcnt + 1
        BY <2>1 DEF Rset
  <2>3. /\ [c.rset EXCEPT !.state = "killed"].refcnt = c.rset.refcnt
        /\ [c.rset EXCEPT !.state = "connected"].refcnt = c.rset.refcnt
        BY <1>6 DEF Rset
  <2>4. CASE t = "register" BY <1>2, <2>3, <2>4
  <2>5. CASE t = "unregister" BY <1>2, <2>2, <2>5
  <2>6. CASE t \notin {"register", "unregister"} BY <1>2, <2>6
  <2>. QED BY <2>4, <2>5, <2>6
<1>10. d.fault = "none" BY <1>5, <1>6, <1>7, <1>8, <1>9
<1>11. ASSUME ~d.quit, ~d.revived PROVE Kept(d)
  <2>1. t # "unregister"
    <3>1. t = "unregister" => c.rset.state = "killed" BY DEF Kept, Accepts, Leaving
    <3>. QED BY <1>2, <1>4, <1>5, <1>11, <3>1
  <2>2. Leaving(d) <=> Leaving(c) BY <1>5, <2>1 DEF Leaving
  <2>3. \A x \in RsetState : /\ [c.rset EXCEPT !.state = x].state = x
                             /\ [c.rset EXCEPT !.state = x].refcnt = c.rset.refcnt
        BY <1>6 DEF Rset
  <2>4. a.rset.refcnt = c.rset.refcnt
        BY <1>2, <2>1, <2>3 DEF RsetState
  <2>5. /\ t = "register" /\ ~err => a.rset.state = "connected" /\ c.path
        /\ t = "register" /\ err => a.rset.state = "killed"
        /\ t # "register" => a.rset.state = c.rset.state
    <3>1. ~(c.rset.state = "killed" /\ ~c.path) => c.path
          BY <1>6, <1>8 DEF Kept, Counted, Rset, RsetState
    <3>. QED BY <1>2, <1>5, <1>11, <2>1, <2>3, <3>1 DEF RsetState
  <2>6. Counted(a.rset, c.path, Held(d) + 2)
        BY <1>6, <1>7, <1>8, <2>4, <2>5 DEF Kept, Counted
  <2>7. /\ Counted(d.rset, c.path, Held(d))
        /\ d.rset.refcnt = a.rset.refcnt - 2
        /\ d.rset.state # "freed" => d.rset.state = a.rset.state
        BY <1>5, <1>6, <1>7, <2>6, CountedUnref
  <2>8. Leaving(d) => d.rset.state = "killed" /\ ~d.path
    <3>1. SUFFICES ASSUME Leaving(d) PROVE d.rset.state = "killed" /\ ~d.path
          OBVIOUS
    <3>2. c.rset.state = "killed" /\ ~c.path BY <2>2, <3>1 DEF Kept, Accepts
    <3>3. Held(d) > 0 BY <1>7, <3>1, HeldType
    <3>4. d.rset.state # "freed" BY <1>7, <2>7, <3>3 DEF Counted
    <3>. QED BY <1>5, <2>5, <2>7, <3>2, <3>4
  <2>9. ASSUME d.accept, ~Leaving(d)
        PROVE  /\ d.rset.refcnt = Held(d) + 1
               /\ d.rset.state = "connected" \/ (d.denied /\ d.rset.state = "killed")
    <3>1. CASE ~err /\ t = "register"
      <4>1. d.rset.refcnt = Held(d) + 1 BY <2>5, <2>7, <3>1 DEF Counted
      <4>2. d.rset.state # "freed" BY <1>7, <2>7, <4>1 DEF Counted
      <4>. QED BY <2>5, <2>7, <3>1, <4>1, <4>2
    <3>2. CASE ~(~err /\ t = "register")
      <4>1. /\ c.accept
            /\ \/ t # "register" /\ d.denied = c.denied
               \/ err /\ t = "register" /\ d.denied
            BY <1>2, <1>4, <1>5, <2>1, <2>9, <3>2
      <4>2. /\ c.rset.refcnt = Held(c) + 1
            /\ c.rset.state = "connected" \/ (c.denied /\ c.rset.state = "killed")
            BY <2>2, <2>9, <4>1 DEF Kept, Accepts
      <4>3. d.rset.refcnt = Held(d) + 1 BY <1>7, <2>4, <2>7, <4>2
      <4>4. d.rset.state # "freed" BY <1>7, <2>7, <4>3 DEF Counted
      <4>5. d.rset.state = a.rset.state BY <2>7, <4>4
      <4>. QED BY <2>5, <3>2, <4>1, <4>2, <4>3, <4>5
    <3>. QED BY <3>1, <3>2
  <2>. QED BY <1>5, <1>7, <2>7, <2>8, <2>9 DEF Kept, Accepts
<1>. QED BY <1>2, <1>3, <1>5, <1>10, <1>11
-----------------------------------------------------------------------------
(* As long as the table has not come round, an entry is used once.         *)

LEMMA SmallIndex ==
    ASSUME NEW n \in Nat, n < HashDim
    PROVE  REQHASH_INDEX(n) = n /\ n \in 0..(HashDim - 1)
<1>1. HashDim \in Nat \ {0} BY CliAssumption
<1>. QED BY <1>1 DEF REQHASH_INDEX

LEMMA AsksNoted ==
    ASSUME NEW c \in Client, NEW d \in Client, NEW q, NEW t \in MsgType,
           Named(c, q), Noted(c), Asks(d, c, t), d.reqno < HashDim
    PROVE  Noted(d)
<1>1. c.reqno \in Nat /\ c.reqno + 1 < HashDim BY DEF Asks, Client
<1>2. /\ d.replies \subseteq c.replies \cup {[msgtyp |-> t, reqno |-> c.reqno + 1]}
      /\ d.reqtyp = [c.reqtyp EXCEPT ![c.reqno + 1] = t]
      /\ c.reqno + 1 \in 0..(HashDim - 1)
      BY <1>1, SmallIndex DEF Asks
<1>3. c.reqtyp \in [0..(HashDim - 1) -> ReqTyp] BY DEF Client
<1>4. ASSUME NEW p \in d.replies
      PROVE  \/ type_of(d, p.reqno) = p.msgtyp
             \/ type_of(d, p.reqno) = "invalid" /\ p.msgtyp \notin {"register", "unregister"}
  <2>1. CASE p = [msgtyp |-> t, reqno |-> c.reqno + 1]
    <3>1. type_of(d, p.reqno) = d.reqtyp[c.reqno + 1]
          BY <1>1, <2>1, SmallIndex DEF type_of
    <3>. QED BY <1>2, <1>3, <2>1, <3>1
  <2>2. CASE p \in c.replies
    <3>1. p.reqno \in 1..c.reqno BY <2>2 DEF Named, Fits
    <3>2. p.reqno \in Nat /\ p.reqno < HashDim /\ p.reqno # c.reqno + 1
          BY <1>1, <3>1, CliAssumption
    <3>3. REQHASH_INDEX(p.reqno) = p.reqno /\ p.reqno \in 0..(HashDim - 1)
          BY <3>2, SmallIndex
    <3>4. type_of(d, p.reqno) = type_of(c, p.reqno)
          BY <1>2, <1>3, <3>2, <3>3 DEF type_of
    <3>. QED BY <2>2, <3>4 DEF Noted
  <2>. QED BY <1>2, <2>1, <2>2
<1>. QED BY <1>4 DEF Noted

LEMMA ClearsNoted ==
    ASSUME NEW c \in Client, NEW d \in Client, NEW q, Named(c, q), Noted(c),
           c.reqno < HashDim, d.replies \subseteq c.replies,
           NEW n \in Nat, n <= c.reqno,
           \A p \in d.replies : p.reqno = n => p.msgtyp \notin {"register", "unregister"},
           \/ d.reqtyp = c.reqtyp
           \/ d.reqtyp = [c.reqtyp EXCEPT ![REQHASH_INDEX(n)] = "invalid"]
    PROVE  Noted(d)
<1>1. c.reqtyp \in [0..(HashDim - 1) -> ReqTyp] /\ c.reqno \in Nat
      /\ HashDim \in Nat
      BY CliAssumption DEF Client
<1>2. REQHASH_INDEX(n) = n /\ n \in 0..(HashDim - 1) BY <1>1, SmallIndex
<1>3. ASSUME NEW p \in d.replies
      PROVE  \/ type_of(d, p.reqno) = p.msgtyp
             \/ type_of(d, p.reqno) = "invalid" /\ p.msgtyp \notin {"register", "unregister"}
  <2>1. p.reqno \in 1..c.reqno BY DEF Named, Fits
  <2>2. REQHASH_INDEX(p.reqno) = p.reqno /\ p.reqno \in 0..(HashDim - 1)
        BY <1>1, <2>1, SmallIndex
  <2>3. CASE d.reqtyp = c.reqtyp BY <2>3 DEF type_of, Noted
  <2>4. CASE d.reqtyp = [c.reqtyp EXCEPT ![n] = "invalid"] /\ p.reqno = n
        BY <1>1, <1>2, <2>2, <2>4 DEF type_of
  <2>5. CASE d.reqtyp = [c.reqtyp EXCEPT ![n] = "invalid"] /\ p.reqno # n
    <3>1. type_of(d, p.reqno) = type_of(c, p.reqno)
          BY <1>1, <2>2, <2>5 DEF type_of
    <3>. QED BY <3>1 DEF Noted
  <2>. QED BY <1>2, <2>3, <2>4, <2>5
<1>. QED BY <1>3 DEF Noted

LEMMA EndsNoted ==
    ASSUME NEW c \in Client, NEW d \in Client, NEW q, Named(c, q), Noted(c),
           c.reqno < HashDim, NEW reply \in c.replies, reply \in Reply,
           Ends(d, c, reply)
    PROVE  Noted(d)
<1>1. reply.reqno \in 1..c.reqno /\ c.reqno \in Nat BY DEF Named, Fits, Client
<1>2. reply.reqno \in Nat /\ reply.reqno <= c.reqno BY <1>1
<1>3. ASSUME NEW p \in d.replies PROVE p.reqno # reply.reqno
  <2>1. p \in c.replies /\ p # reply BY DEF Ends
  <2>2. p \in Reply BY <2>1 DEF Client, Reply
  <2>3. p.reqno = reply.reqno => p.msgtyp = reply.msgtyp
        BY <2>1 DEF Named, Fits
  <2>. QED BY <2>1, <2>2, <2>3 DEF Reply
<1>4. d.replies \subseteq c.replies BY DEF Ends
<1>. QED BY <1>2, <1>3, <1>4, ClearsNoted DEF Ends

LEMMA RevivedByRequests ==
    ASSUME NEW c \in Client
    PROVE  /\ connect_to_manager(c).revived = c.revived
           /\ disconnect_from_manager(c).revived = c.revived
           /\ \A t \in MsgType, flags \in Flags :
                 manager_send_message(c, t, flags).revived = c.revived
           /\ link_down(c).revived = c.revived
           /\ quietly(c).revived = c.revived
<1>1. ASSUME NEW t \in MsgType
      PROVE  numbered(c, t) \in Client /\ numbered(c, t).revived = c.revived
      BY NumberedType DEF numbered, with_type, Client
<1>2. ASSUME NEW d \in Client, NEW call
      PROVE  /\ dbus_send_message(d, call).revived = d.revived
             /\ dbus_connect_to_manager(d).revived = d.revived
             /\ dbus_disconnect_from_manager(d).revived = d.revived
      BY DEF dbus_send_message, dbus_connect_to_manager,
             dbus_disconnect_from_manager, Client
<1>3. {"register", "unregister"} \subseteq MsgType /\ NoFlags \in Flags
      /\ Options \in Flags
      BY NoFlagsType, CliAssumption DEF MsgType
<1>4. connect_to_manager(c).revived = c.revived
  <2>. DEFINE n == numbered(c, "register")
              o == Renewing(n, c)
              f == dbus_connect_to_manager(o)
              call == call_of(n, "register", Options)
  <2>1. n \in Client /\ n.revived = c.revived BY <1>1, <1>3
  <2>. HIDE DEF n
  <2>2. o \in Client /\ o.revived = c.revived
    <3>1. o \in Client /\ SameBut(o, n) BY <2>1, RenewingFields
    <3>. HIDE DEF o
    <3>. QED BY <2>1, <3>1 DEF SameBut
  <2>3. connect_to_manager(c) =
           IF resset_find(f.rset) THEN dbus_send_message(f, call) ELSE f
        BY DEF connect_to_manager, resconn_connect, Renewing, n, o
  <2>. HIDE DEF o, call
  <2>4. f \in Client /\ f.revived = c.revived BY <1>2, <2>2, FindType
  <2>. HIDE DEF f
  <2>. QED BY <1>2, <2>3, <2>4
<1>5. disconnect_from_manager(c).revived = c.revived
  <2>. DEFINE n == numbered(c, "unregister")
              call == call_of(n, "unregister", NoFlags)
              s == dbus_send_message(n, call)
  <2>1. n \in Client /\ n.revived = c.revived /\ call \in Call
        BY <1>1, <1>3, NumberedType
  <2>. HIDE DEF n, call
  <2>2. s \in Client /\ s.revived = c.revived BY <1>2, <2>1, SendType
  <2>3. [n EXCEPT !.fault = "stale"].revived = c.revived BY <2>1 DEF Client
  <2>. HIDE DEF s
  <2>4. dbus_disconnect_from_manager(s).revived = c.revived BY <1>2, <2>2
  <2>. QED BY <2>1, <2>3, <2>4 DEF disconnect_from_manager, resconn_disconnect,
                                   n, call, s
<1>6. ASSUME NEW t \in MsgType, NEW flags \in Flags
      PROVE  manager_send_message(c, t, flags).revived = c.revived
  <2>. DEFINE n == numbered(c, t)
              o == Asking(n, t, flags)
              call == call_of(n, t, flags)
  <2>1. n \in Client /\ n.revived = c.revived BY <1>1
  <2>. HIDE DEF n
  <2>2. o \in Client /\ o.revived = c.revived
    <3>1. o \in Client /\ SameBut(o, n) BY <1>6, <2>1, AskingFields
    <3>. HIDE DEF o
    <3>. QED BY <2>1, <3>1 DEF SameBut
  <2>3. /\ [n EXCEPT !.fault = "stale"].revived = c.revived
        /\ [n EXCEPT !.broken = TRUE].revived = c.revived
        BY <2>1 DEF Client
  <2>. HIDE DEF o, call
  <2>4. dbus_send_message(o, call).revived = c.revived BY <1>2, <2>2
  <2>. QED BY <2>3, <2>4 DEF manager_send_message, Asking, n, o, call
<1>7. link_down(c).revived = c.revived
  <2>1. /\ [c EXCEPT !.accept = FALSE] \in Client
        /\ [c EXCEPT !.accept = FALSE].revived = c.revived
        BY DEF Client
  <2>. QED BY <1>2, <2>1 DEF link_down
<1>8. quietly(c).revived = c.revived BY DEF quietly, Client
<1>. QED BY <1>4, <1>5, <1>6, <1>7, <1>8

LEMMA RevivedByNotices ==
    ASSUME NEW c \in Client, NEW m \in Message, m.kind \in NoticeKind
    PROVE  manager_receive_message(c, m).revived = c.revived
<1>1. {"acquire", "release"} \subseteq MsgType /\ NoFlags \in Flags
      BY NoFlagsType DEF MsgType
<1>2. \A t \in {"acquire", "release"} :
         manager_send_message(c, t, NoFlags).revived = c.revived
      BY <1>1, RevivedByRequests
<1>3. granted(c, m).revived = c.revived BY DEF granted, with_type, Client
<1>4. granted_in_flood(c, m).revived = c.revived
  <2>1. [c EXCEPT !.flood = 0, !.count = 0].revived = c.revived BY DEF Client
  <2>2. c.count + 1 \in Nat BY DEF Client
  <2>3. [c EXCEPT !.count = @ + 1] \in Client BY <2>2 DEF Client
  <2>4. [c EXCEPT !.count = @ + 1].revived = c.revived BY DEF Client
  <2>5. manager_send_message([c EXCEPT !.count = @ + 1], "release", NoFlags).revived
           = c.revived
        BY <1>1, <2>3, <2>4, RevivedByRequests
  <2>. QED BY <1>2, <2>1, <2>5 DEF granted_in_flood
<1>5. [c EXCEPT !.accept = FALSE, !.dismissed = TRUE].revived = c.revived
      BY DEF Client
<1>. QED BY <1>2, <1>3, <1>4, <1>5 DEF manager_receive_message

LEMMA RevivedByAnswers ==
    ASSUME NEW c \in Client, NEW reply \in Reply, NEW err \in BOOLEAN, c.revived
    PROVE  status_method(c, reply, err).revived
<1>. DEFINE a == answered(c, reply.msgtyp, err)
            k == with_type(a, reply.reqno, "invalid")
            b == manager_status(a, reply, err)
<1>1. reply.msgtyp \in MsgType BY DEF Reply
<1>2. a \in Client /\ a.revived BY <1>1, AnsweredFields
<1>. HIDE DEF a
<1>3. k \in Client /\ k.revived BY <1>2, WithType DEF with_type, ReqTyp, Client
<1>. HIDE DEF k
<1>4. b.revived BY <1>2, <1>3 DEF manager_status, k, Client
<1>5. b \in Client BY <1>2, StatusType
<1>. HIDE DEF b
<1>6. reply_done(b, reply).revived BY <1>4, <1>5 DEF reply_done, Client
<1>. QED BY <1>6 DEF status_method, a, b
-----------------------------------------------------------------------------
(* The invariant.                                                          *)

Sound(c) ==
    c.fault = "none" /\ ~c.quit /\ ~c.revived /\ c.reqno < HashDim
    => Kept(c) /\ Noted(c)

Inv ==
    /\ TypeOK
    /\ Named(cl, inq)
    /\ Sound(cl)
    /\ StaleNeedsRevival

(* What a step of the client leaves of a sound state. *)
Stays(d, c) ==
    /\ c.revived => d.revived
    /\ Kept(c) /\ Noted(c) => d.fault = "none" /\ (d.quit \/ d.revived \/ Kept(d))

LEMMA CommandStays ==
    ASSUME TypeOK, NEW after \in Client, Command(after), cl.fault = "none",
           after.revived = cl.revived,
           Kept(cl) => Kept(after) /\ after.fault = cl.fault
    PROVE  Stays(cl', cl)
<1>1. cl' = [after EXCEPT !.label = Silent] BY DEF Command
<1>2. /\ cl'.rset = after.rset /\ cl'.path = after.path
      /\ cl'.replies = after.replies /\ cl'.accept = after.accept
      /\ cl'.denied = after.denied /\ cl'.fault = after.fault
      /\ cl'.revived = after.revived
      BY <1>1 DEF Client
<1>3. after.accept \in BOOLEAN BY DEF Client
<1>4. Kept(after) => Kept(cl') BY <1>2, <1>3, SameKept
<1>. QED BY <1>2, <1>4 DEF Stays

(* A command finds the set: the client accepts it. *)
LEMMA AcceptingFinds ==
    ASSUME NEW c \in Client, Kept(c), c.accept
    PROVE  resset_find(c.rset)
<1>1. CASE Leaving(c) BY <1>1 DEF Kept, Accepts, resset_find
<1>2. CASE ~Leaving(c) BY <1>2 DEF Kept, Accepts, resset_find
<1>. QED BY <1>1, <1>2

LEMMA UserStays ==
    ASSUME TypeOK, Named(cl, inq), User
    PROVE  Stays(cl', cl)
<1>1. /\ cl \in Client /\ NoFlags \in Flags /\ Floods \subseteq Nat
      /\ Sendable \subseteq MsgType \ {"unregister"}
      /\ Updates \subseteq Flags /\ {"update", "acquire"} \subseteq MsgType \ {"unregister"}
      BY NoFlagsType, CliAssumption DEF TypeOK, MsgType
<1>2. cl.fault = "none" /\ cl.accept
      BY DEF User, Send, Update, Disconnect, Flood, Stop, Quit, Command, Running
<1>3. Kept(cl) => resset_find(cl.rset) BY <1>1, <1>2, AcceptingFinds
<1>4. cl.accept \in BOOLEAN /\ cl.denied \in BOOLEAN BY <1>1 DEF Client
<1>5. CASE Send
  <2>1. PICK t \in Sendable : Command(manager_send_message(cl, t, NoFlags))
        BY <1>5 DEF Send
  <2>. DEFINE d == manager_send_message(cl, t, NoFlags)
  <2>2. d \in Client /\ d.revived = cl.revived
        BY <1>1, SendMessageType, RevivedByRequests
  <2>3. Kept(cl) => Kept(d) /\ d.fault = cl.fault
        BY <1>1, <1>3, SendMessageKept
  <2>. HIDE DEF d
  <2>. QED BY <1>2, <2>1, <2>2, <2>3, CommandStays DEF d
<1>6. CASE Update
  <2>1. PICK f \in Updates : Command(manager_send_message(cl, "update", f))
        BY <1>6 DEF Update
  <2>. DEFINE d == manager_send_message(cl, "update", f)
  <2>2. d \in Client /\ d.revived = cl.revived
        BY <1>1, SendMessageType, RevivedByRequests
  <2>3. Kept(cl) => Kept(d) /\ d.fault = cl.fault
        BY <1>1, <1>3, SendMessageKept
  <2>. HIDE DEF d
  <2>. QED BY <1>2, <2>1, <2>2, <2>3, CommandStays DEF d
<1>7. CASE Disconnect
  <2>. DEFINE d == disconnect_from_manager(cl)
  <2>1. d \in Client /\ d.revived = cl.revived
        BY <1>1, DisconnectType, RevivedByRequests
  <2>2. Kept(cl) => Kept(d) /\ d.fault = cl.fault
        BY <1>1, <1>3, DisconnectKept
  <2>3. Command(d) BY <1>7 DEF Disconnect
  <2>. HIDE DEF d
  <2>. QED BY <1>2, <2>1, <2>2, <2>3, CommandStays
<1>8. CASE Flood
  <2>1. PICK n \in Floods :
           Command(IF n = 0 THEN [cl EXCEPT !.flood = 0, !.count = 0]
                   ELSE manager_send_message([cl EXCEPT !.flood = n], "acquire",
                                             NoFlags))
        BY <1>8 DEF Flood
  <2>2. CASE n = 0
    <3>. DEFINE k == [cl EXCEPT !.flood = 0, !.count = 0]
    <3>1. /\ k \in Client /\ k.rset = cl.rset /\ k.path = cl.path
          /\ k.replies = cl.replies /\ k.accept = cl.accept /\ k.denied = cl.denied
          /\ k.fault = cl.fault /\ k.revived = cl.revived
          BY <1>1 DEF Client
    <3>2. Command(k) BY <2>1, <2>2
    <3>. HIDE DEF k
    <3>3. Kept(cl) => Kept(k) BY <1>4, <3>1, SameKept
    <3>. QED BY <1>2, <3>1, <3>2, <3>3, CommandStays
  <2>3. CASE n # 0
    <3>. DEFINE k == [cl EXCEPT !.flood = n]
                d == manager_send_message(k, "acquire", NoFlags)
    <3>1. /\ k \in Client /\ k.rset = cl.rset /\ k.path = cl.path
          /\ k.replies = cl.replies /\ k.accept = cl.accept /\ k.denied = cl.denied
          /\ k.fault = cl.fault /\ k.revived = cl.revived
          /\ k.reqno = cl.reqno /\ k.wire = cl.wire
          BY <1>1 DEF Client
    <3>2. Command(d) BY <2>1, <2>3
    <3>. HIDE DEF k
    <3>3. d \in Client /\ d.revived = cl.revived
          BY <1>1, <3>1, SendMessageType, RevivedByRequests
    <3>4. Kept(cl) => Kept(k) BY <1>4, <3>1, SameKept
    <3>5. Named(k, inq) BY <3>1 DEF Named, Fits
    <3>6. Kept(cl) => Kept(d) /\ d.fault = cl.fault
          BY <1>1, <1>3, <3>1, <3>4, <3>5, SendMessageKept
    <3>. HIDE DEF d
    <3>. QED BY <1>2, <3>2, <3>3, <3>6, CommandStays
  <2>. QED BY <2>2, <2>3
<1>9. CASE Stop
  <2>. DEFINE k == [cl EXCEPT !.flood = 0, !.count = 0]
  <2>1. /\ k \in Client /\ k.rset = cl.rset /\ k.path = cl.path
        /\ k.replies = cl.replies /\ k.accept = cl.accept /\ k.denied = cl.denied
        /\ k.fault = cl.fault /\ k.revived = cl.revived
        BY <1>1 DEF Client
  <2>2. Command(k) BY <1>9 DEF Stop
  <2>. HIDE DEF k
  <2>3. Kept(cl) => Kept(k) BY <1>4, <2>1, SameKept
  <2>. QED BY <1>2, <2>1, <2>2, <2>3, CommandStays
<1>10. CASE Quit
  <2>. DEFINE k == [cl EXCEPT !.quit = TRUE, !.accept = FALSE]
  <2>1. /\ k \in Client /\ k.rset = cl.rset /\ k.path = cl.path
        /\ k.replies = cl.replies /\ k.accept = FALSE /\ k.denied = cl.denied
        /\ k.fault = cl.fault /\ k.revived = cl.revived
        BY <1>1 DEF Client
  <2>2. Command(k) BY <1>10 DEF Quit
  <2>. HIDE DEF k
  <2>3. Kept(cl) => Kept(k) BY <1>4, <2>1, SameKept
  <2>. QED BY <1>2, <2>1, <2>2, <2>3, CommandStays
<1>. QED BY <1>5, <1>6, <1>7, <1>8, <1>9, <1>10 DEF User

LEMMA AnswerStays ==
    ASSUME NEW c \in Client, NEW reply \in c.replies, reply \in Reply,
           NEW err \in BOOLEAN, c.fault = "none"
    PROVE  Stays(status_method(c, reply, err), c)
<1>1. Noted(c) => \/ type_of(c, reply.reqno) = reply.msgtyp
                  \/ type_of(c, reply.reqno) = "invalid" /\ reply.msgtyp # "unregister"
      BY DEF Noted
<1>. QED BY <1>1, StatusMethodKept, RevivedByAnswers DEF Stays

LEMMA QuietlyKept ==
    ASSUME NEW c \in Client
    PROVE  LET k == quietly(c)
           IN  /\ k \in Client
               /\ Kept(c) => Kept(k)
               /\ Noted(c) => Noted(k)
               /\ k.fault = c.fault /\ k.revived = c.revived
               /\ k.rset = c.rset /\ k.path = c.path /\ k.replies = c.replies
<1>. DEFINE k == quietly(c)
<1>1. k \in Client /\ k = [c EXCEPT !.label = Silent] BY QuietlySame
<1>. HIDE DEF k
<1>2. /\ k.rset = c.rset /\ k.path = c.path /\ k.replies = c.replies
      /\ k.accept = c.accept /\ k.denied = c.denied /\ k.fault = c.fault
      /\ k.revived = c.revived /\ k.reqtyp = c.reqtyp /\ c.accept \in BOOLEAN
      BY <1>1 DEF Client
<1>3. Kept(c) => Kept(k) BY <1>2, SameKept
<1>4. Noted(c) => Noted(k) BY <1>2 DEF Noted, type_of
<1>. QED BY <1>1, <1>2, <1>3, <1>4 DEF k

LEMMA MainLoopStays ==
    ASSUME TypeOK, Named(cl, inq), MainLoop
    PROVE  Stays(cl', cl)
<1>. DEFINE m == Head(inq)
            c == quietly(cl)
<1>1. m \in Message /\ cl.fault = "none"
      BY InqType DEF MainLoop, DispatchAnswer, DispatchNotice, DispatchUp,
                     DispatchDown, Dispatch, Running
<1>2. cl \in Client BY DEF TypeOK
<1>3. c \in Client /\ Same(c, cl) BY <1>2, QuietlySame
<1>4. /\ Kept(cl) => Kept(c)
      /\ Noted(cl) => Noted(c)
      /\ c.fault = "none" /\ c.revived = cl.revived
      /\ c.rset = cl.rset /\ c.path = cl.path /\ c.replies = cl.replies
      BY <1>1, <1>2, QuietlyKept
<1>5. Named(c, inq) BY <1>3 DEF Named, Fits, Same
<1>. HIDE DEF m, c
<1>6. Stays(cl', c) => Stays(cl', cl) BY <1>4 DEF Stays
<1>7. CASE cl' = c BY <1>4, <1>7 DEF Stays
<1>8. CASE DispatchAnswer
  <2>1. m \in AnswerMsg BY <1>1, <1>8, MessageKinds DEF DispatchAnswer, Dispatch, m
  <2>2. cl' = IF m.reply \in cl.replies THEN status_method(c, m.reply, m.err) ELSE c
        BY <1>8 DEF DispatchAnswer, m, c
  <2>3. CASE m.reply \in cl.replies
    <3>1. Stays(status_method(c, m.reply, m.err), c)
          BY <1>3, <1>4, <2>1, <2>3, AnswerStays DEF AnswerMsg
    <3>. QED BY <1>6, <2>2, <2>3, <3>1
  <2>. QED BY <1>7, <2>2, <2>3
<1>9. CASE DispatchNotice
  <2>1. m.kind \in NoticeKind BY <1>9 DEF DispatchNotice, Dispatch, NoticeKind, m
  <2>2. cl' = IF cl.path /\ resset_find(cl.rset)
              THEN manager_receive_message(c, m) ELSE c
        BY <1>9 DEF DispatchNotice, m, c
  <2>3. CASE cl.path /\ resset_find(cl.rset)
    <3>. DEFINE d == manager_receive_message(c, m)
    <3>1. d.revived = c.revived BY <1>1, <1>3, <2>1, RevivedByNotices
    <3>2. Kept(c) => Kept(d) /\ d.fault = c.fault
          BY <1>1, <1>3, <1>4, <1>5, <2>1, <2>3, ReceiveKept
    <3>3. cl' = d BY <2>2, <2>3
    <3>. HIDE DEF d
    <3>. QED BY <1>4, <1>6, <3>1, <3>2, <3>3 DEF Stays
  <2>. QED BY <1>7, <2>2, <2>3
<1>10. CASE DispatchUp
  <2>. DEFINE d == connect_to_manager(c)
  <2>1. cl' = d BY <1>10 DEF DispatchUp, c
  <2>2. d.revived = c.revived BY <1>3, RevivedByRequests
  <2>3. Kept(c) => Kept(d) /\ d.fault = c.fault BY <1>3, <1>5, ConnectKept
  <2>. HIDE DEF d
  <2>. QED BY <1>4, <1>6, <2>1, <2>2, <2>3 DEF Stays
<1>11. CASE DispatchDown
  <2>. DEFINE d == link_down(c)
  <2>1. cl' = d BY <1>11 DEF DispatchDown, c
  <2>2. d.revived = c.revived BY <1>3, RevivedByRequests
  <2>3. Kept(c) => Kept(d) /\ d.fault = c.fault BY <1>3, LinkDownKept
  <2>. HIDE DEF d
  <2>. QED BY <1>4, <1>6, <2>1, <2>2, <2>3 DEF Stays
<1>. QED BY <1>8, <1>9, <1>10, <1>11 DEF MainLoop

LEMMA TimeoutStays ==
    ASSUME TypeOK, Timeout
    PROVE  Stays(cl', cl)
<1>1. PICK reply \in cl.replies :
         cl' = [status_method(quietly(cl), reply, TRUE) EXCEPT
                   !.overdue = @ \cup {reply.reqno}]
      BY DEF Timeout
<1>2. reply \in Reply /\ cl \in Client /\ cl.fault = "none"
      BY DEF TypeOK, Client, Reply, Timeout, Running
<1>. DEFINE c == quietly(cl)
            d == status_method(c, reply, TRUE)
<1>3. c \in Client BY <1>2, QuietlySame
<1>4. /\ Kept(cl) => Kept(c)
      /\ Noted(cl) => Noted(c)
      /\ c.fault = "none" /\ c.revived = cl.revived /\ c.replies = cl.replies
      BY <1>2, QuietlyKept
<1>5. cl' = [d EXCEPT !.overdue = @ \cup {reply.reqno}] BY <1>1
<1>. HIDE DEF c
<1>6. d \in Client /\ Stays(d, c)
      BY <1>2, <1>3, <1>4, StatusMethodType, AnswerStays
<1>. HIDE DEF d
<1>7. /\ cl'.rset = d.rset /\ cl'.path = d.path /\ cl'.replies = d.replies
      /\ cl'.accept = d.accept /\ cl'.denied = d.denied /\ cl'.fault = d.fault
      /\ cl'.revived = d.revived /\ cl'.quit = d.quit /\ d.accept \in BOOLEAN
      BY <1>5, <1>6 DEF Client
<1>8. Kept(d) => Kept(cl') BY <1>7, SameKept
<1>. QED BY <1>4, <1>6, <1>7, <1>8 DEF Stays

(* Numbers only grow, and as long as none is shared the entries stay true. *)
LEMMA NotedNext ==
    ASSUME TypeOK, Named(cl, inq), User \/ MainLoop \/ Timeout
    PROVE  /\ cl.reqno <= cl'.reqno
           /\ Noted(cl) /\ cl'.reqno < HashDim => Noted(cl')
<1>1. cl \in Client /\ cl' \in Client /\ inq \in Seq(Message)
      /\ cl.reqno \in Nat /\ HashDim \in Nat
      BY NextType, CliAssumption DEF Next, TypeOK, Client
<1>2. ASSUME NEW t \in MsgType, Asks(cl', cl, t)
      PROVE  /\ cl.reqno <= cl'.reqno
             /\ Noted(cl) /\ cl'.reqno < HashDim => Noted(cl')
  <2>1. cl.reqno <= cl'.reqno BY <1>1, <1>2 DEF Asks
  <2>. QED BY <1>1, <1>2, <2>1, AsksNoted
<1>3. ASSUME Same(cl', cl)
      PROVE  cl.reqno <= cl'.reqno /\ (Noted(cl) => Noted(cl'))
      BY <1>1, <1>3 DEF Same, Noted, type_of
<1>4. ASSUME NEW reply \in cl.replies, Ends(cl', cl, reply)
      PROVE  /\ cl.reqno <= cl'.reqno
             /\ Noted(cl) /\ cl'.reqno < HashDim => Noted(cl')
  <2>1. reply \in Reply BY <1>1 DEF Client, Reply
  <2>2. cl'.reqno = cl.reqno BY <1>4 DEF Ends
  <2>. QED BY <1>1, <1>4, <2>1, <2>2, EndsNoted
<1>5. ASSUME inq # <<>>, Tells(cl', cl, Head(inq))
      PROVE  /\ cl.reqno <= cl'.reqno
             /\ Noted(cl) /\ cl'.reqno < HashDim => Noted(cl')
  <2>. DEFINE m == Head(inq)
  <2>1. m \in Message /\ m \in Elements(inq) BY <1>1, <1>5, InqType, TailElements
  <2>2. IsGrant(m) /\ Clears(cl', cl, m.reqno) BY <1>5 DEF Tells, IsGrant
  <2>. HIDE DEF m
  <2>3. m \in GrantMsg BY <2>1, <2>2, MessageKinds DEF IsGrant
  <2>4. IF m.cause = "server" THEN m.reqno = 0 ELSE Fits(cl, m.cause, m.reqno)
        BY <2>1, <2>2 DEF Named
  <2>5. m.reqno \in Nat /\ m.reqno <= cl.reqno BY <1>1, <2>3, <2>4 DEF GrantMsg, Fits
  <2>6. ASSUME NEW p \in cl.replies, p.reqno = m.reqno
        PROVE  p.msgtyp \notin {"register", "unregister"}
    <3>1. p.reqno \in 1..cl.reqno BY DEF Named, Fits
    <3>2. m.cause # "server" BY <1>1, <2>4, <2>6, <3>1
    <3>3. p.msgtyp = m.cause BY <2>4, <2>6, <3>2 DEF Fits
    <3>. QED BY <2>3, <3>3 DEF GrantMsg
  <2>7. cl'.reqno = cl.reqno /\ cl'.replies = cl.replies
        /\ (\/ cl'.reqtyp = cl.reqtyp
            \/ cl'.reqtyp = [cl.reqtyp EXCEPT ![REQHASH_INDEX(m.reqno)] = "invalid"])
        BY <2>2 DEF Clears
  <2>8. cl.reqno < HashDim /\ Noted(cl) => Noted(cl')
        BY <1>1, <2>5, <2>6, <2>7, ClearsNoted
  <2>. QED BY <1>1, <2>7, <2>8
<1>6. CASE User BY <1>2, <1>3, <1>6, UserNumbers
<1>7. CASE Timeout BY <1>4, <1>7, TimeoutNumbers
<1>8. CASE MainLoop BY <1>2, <1>3, <1>4, <1>5, <1>8, MainLoopNumbers DEF Finishes
<1>. QED BY <1>6, <1>7, <1>8

LEMMA SoundNext ==
    ASSUME TypeOK, Named(cl, inq), Sound(cl), StaleNeedsRevival, [Next]_vars
    PROVE  Sound(cl') /\ StaleNeedsRevival'
<1>1. cl \in Client /\ cl' \in Client /\ cl.reqno \in Nat /\ cl'.reqno \in Nat
      /\ HashDim \in Nat /\ cl.fault \in {"none", "stale"}
      /\ cl.revived \in BOOLEAN
      BY NextType, CliAssumption DEF TypeOK, Client
<1>2. CASE UNCHANGED vars
      BY <1>2 DEF vars, Sound, Kept, Accepts, Leaving, Held, Noted, type_of,
                  StaleNeedsRevival, Wrapped
<1>3. CASE Bus \/ Manager
  <2>1. Moves(cl', cl) BY <1>3, BusNumbers, ManagerNumbers
  <2>2. /\ cl'.rset = cl.rset /\ cl'.path = cl.path /\ cl'.replies = cl.replies
        /\ cl'.accept = cl.accept /\ cl'.denied = cl.denied /\ cl'.fault = cl.fault
        /\ cl'.revived = cl.revived /\ cl'.quit = cl.quit /\ cl.accept \in BOOLEAN
        /\ cl'.reqno = cl.reqno /\ cl'.reqtyp = cl.reqtyp
        BY <1>1, <2>1 DEF Moves, Client
  <2>3. Kept(cl) => Kept(cl') BY <2>2, SameKept
  <2>4. Noted(cl) => Noted(cl') BY <2>2 DEF Noted, type_of
  <2>. QED BY <2>2, <2>3, <2>4 DEF Sound, StaleNeedsRevival, Wrapped
<1>4. CASE User \/ MainLoop \/ Timeout
  <2>1. cl.fault = "none" /\ ~cl.quit
        BY <1>4 DEF User, Send, Update, Disconnect, Flood, Stop, Quit, Command,
                    MainLoop, DispatchAnswer, DispatchNotice, DispatchUp,
                    DispatchDown, Dispatch, Timeout, Running
  <2>2. Stays(cl', cl) BY <1>4, UserStays, MainLoopStays, TimeoutStays
  <2>3. /\ cl.reqno <= cl'.reqno
        /\ Noted(cl) /\ cl'.reqno < HashDim => Noted(cl')
        BY <1>4, NotedNext
  <2>4. ASSUME ~cl'.revived, cl'.reqno < HashDim
        PROVE  cl'.fault = "none" /\ (~cl'.quit => Kept(cl') /\ Noted(cl'))
    <3>1. ~cl.revived /\ cl.reqno < HashDim BY <1>1, <2>2, <2>3, <2>4 DEF Stays
    <3>2. Kept(cl) /\ Noted(cl) BY <2>1, <3>1 DEF Sound
    <3>. QED BY <2>2, <2>3, <2>4, <3>2 DEF Stays
  <2>. QED BY <1>1, <2>4 DEF Sound, StaleNeedsRevival, Wrapped
<1>. QED BY <1>2, <1>3, <1>4 DEF Next

LEMMA InitSound == Init => Sound(cl) /\ StaleNeedsRevival
<1>. SUFFICES ASSUME Init PROVE Sound(cl) /\ StaleNeedsRevival OBVIOUS
<1>1. Started \in Client
  <2>1. Freed \in Rset BY DEF Freed, Rset, RsetState
  <2>2. [i \in 0..(HashDim - 1) |-> "invalid"] \in [0..(HashDim - 1) -> ReqTyp]
        BY DEF ReqTyp
  <2>3. Silent \in Label BY DEF Silent, Label
  <2>4. Options \in Flags BY CliAssumption
  <2>. QED BY <2>1, <2>2, <2>3, <2>4, NoFlagsType DEF Started, Client
<1>2. /\ Started.replies = {} /\ Started.rset = Freed /\ Started.path = FALSE
      /\ Started.accept = FALSE /\ Started.fault = "none" /\ Started.wire = <<>>
      BY DEF Started
<1>3. Named(Started, <<>>) BY <1>2, ShortElements DEF Named
<1>4. IsFiniteSet({}) /\ Cardinality({}) = 0 BY FS_EmptySet
<1>5. Held(Started) = 0 /\ ~Leaving(Started) BY <1>2, <1>4 DEF Held, Leaving
<1>6. Kept(Started)
      BY <1>2, <1>4, <1>5 DEF Kept, Counted, Accepts, Freed
<1>7. Kept(cl) /\ cl.fault = "none"
      BY <1>1, <1>2, <1>3, <1>6, ConnectKept DEF Init
<1>8. cl.reqno < HashDim => Noted(cl)
  <2>1. Asks(cl, Started, "register") BY <1>1, ConnectAsks DEF Init
  <2>2. Noted(Started) BY <1>2 DEF Noted
  <2>3. cl \in Client BY InitType DEF Init, TypeOK
  <2>4. "register" \in MsgType BY DEF MsgType
  <2>. QED BY <1>1, <1>3, <2>1, <2>2, <2>3, <2>4, AsksNoted
<1>. QED BY <1>7, <1>8 DEF Sound, StaleNeedsRevival

LEMMA InvInit == Init => Inv
BY InitType, InitNamed, InitSound DEF Inv

LEMMA InvNext == Inv /\ [Next]_vars => Inv'
<1>. SUFFICES ASSUME Inv, [Next]_vars PROVE Inv' OBVIOUS
<1>1. TypeOK /\ Named(cl, inq) /\ Sound(cl) /\ StaleNeedsRevival BY DEF Inv
<1>2. TypeOK' BY <1>1, NextType
<1>3. Named(cl', inq') BY <1>1, NextNamed
<1>4. Sound(cl') /\ StaleNeedsRevival' BY <1>1, SoundNext
<1>. QED BY <1>2, <1>3, <1>4 DEF Inv

(* The client reads a freed set only after a killed one came back to life, *)
(* or once the table has come round: every pending reply holds references, *)
(* and a client that accepts commands has a set.                           *)
THEOREM StaleNeedsRevivalAlways == Spec => []StaleNeedsRevival
<1>1. Inv => StaleNeedsRevival BY DEF Inv
<1>. QED BY <1>1, InvInit, InvNext, PTL DEF Spec

(* While the client accepts commands, its set is connected and has its     *)
(* object path or its UNREGISTER is on the way.                            *)
THEOREM AcceptingIsConnectedAlways == Spec => []AcceptingIsConnected
<1>1. Inv => AcceptingIsConnected
  <2>. SUFFICES ASSUME Inv, Running, cl.accept, ~cl.revived, ~cl.denied, ~Wrapped
                PROVE  \/ cl.rset.state = "connected" /\ cl.path
                       \/ \E reply \in cl.replies : reply.msgtyp = "unregister"
        BY DEF AcceptingIsConnected
  <2>1. cl.reqno < HashDim
    <3>1. cl.reqno \in Nat /\ HashDim \in Nat
          BY CliAssumption DEF Inv, TypeOK, Client
    <3>. QED BY <3>1 DEF Wrapped
  <2>2. Kept(cl) BY <2>1 DEF Inv, Sound, Running
  <2>3. CASE Leaving(cl) BY <2>3 DEF Leaving
  <2>4. CASE ~Leaving(cl) BY <2>2, <2>4 DEF Kept, Counted, Accepts
  <2>. QED BY <2>3, <2>4
<1>. QED BY <1>1, InvInit, InvNext, PTL DEF Spec
-----------------------------------------------------------------------------
(* The words of a grant.  What the manager does with a call it does once:  *)
(* no two calls on the wire and no two grants bear the same number, a call *)
(* that was answered or lost is off the wire, and one that failed is not   *)
(* granted.  So nobody but a request that shares the entry, and the        *)
(* timeout of the call itself, takes the entry of a grant away.            *)

OnceSent(s) == \A i, j \in 1..Len(s) : i # j => s[i].reqno # s[j].reqno

OnceGranted(q) ==
    \A i, j \in 1..Len(q) :
       i # j /\ Requested(q[i]) /\ Requested(q[j]) => q[i].reqno # q[j].reqno

Settled(c, q, n) ==
    n \in c.lost \/ \E m \in Elements(q) : m.kind = "answer" /\ m.reply.reqno = n

Failed(c, q, n) ==
    \/ n \in c.lost
    \/ \E m \in Elements(q) : m.kind = "answer" /\ m.err /\ m.reply.reqno = n

Apart(c, q) ==
    /\ \A call \in Elements(c.wire) :
          /\ ~Settled(c, q, call.reqno)
          /\ \A m \in Elements(q) : Requested(m) => m.reqno # call.reqno
    /\ \A m \in Elements(q) : Requested(m) => ~Failed(c, q, m.reqno)
    /\ c.lost \subseteq 1..c.reqno
    /\ \A m \in Elements(q) : m.kind = "answer" => m.reply.reqno \in 1..c.reqno

(* The entry of a number says what it stands for, with the exceptions of   *)
(* LabelsTrue.                                                             *)
Says(c, n, type) == type_of(c, n) = type \/ Shared(c, n) \/ n \in c.overdue

Looked(c, q) ==
    /\ \A call \in Elements(c.wire) : Says(c, call.reqno, call.msgtyp)
    /\ \A m \in Elements(q) : Requested(m) => Says(c, m.reqno, m.cause)
    /\ Says(c, 0, "invalid")

Table(c, q) ==
    OnceSent(c.wire) /\ OnceGranted(q) /\ Apart(c, q) /\ Looked(c, q)

LEMMA TailOnce ==
    ASSUME NEW S, NEW s \in Seq(S), s # <<>>, OnceSent(s)
    PROVE  /\ OnceSent(Tail(s))
           /\ \A x \in Elements(Tail(s)) : x.reqno # Head(s).reqno
<1>1. /\ Len(Tail(s)) = Len(s) - 1 /\ Len(s) \in Nat \ {0}
      /\ \A i \in 1..(Len(s) - 1) : Tail(s)[i] = s[i + 1]
      /\ Head(s) = s[1]
      BY HeadTailProperties, EmptySeq
<1>2. ASSUME NEW i \in 1..Len(Tail(s)), NEW j \in 1..Len(Tail(s)), i # j
      PROVE  Tail(s)[i].reqno # Tail(s)[j].reqno
  <2>1. i + 1 \in 1..Len(s) /\ j + 1 \in 1..Len(s) /\ i + 1 # j + 1 BY <1>1, <1>2
  <2>. QED BY <1>1, <2>1 DEF OnceSent
<1>3. ASSUME NEW i \in 1..Len(Tail(s)) PROVE Tail(s)[i].reqno # Head(s).reqno
  <2>1. i + 1 \in 1..Len(s) /\ 1 \in 1..Len(s) /\ i + 1 # 1 BY <1>1
  <2>. QED BY <1>1, <2>1 DEF OnceSent
<1>. QED BY <1>2, <1>3 DEF OnceSent, Elements

LEMMA AppendOnce ==
    ASSUME NEW S, NEW s \in Seq(S), NEW x \in S, OnceSent(s),
           \A y \in Elements(s) : y.reqno # x.reqno
    PROVE  OnceSent(Append(s, x))
<1>1. /\ Len(Append(s, x)) = Len(s) + 1 /\ Len(s) \in Nat
      /\ \A i \in 1..Len(s) : Append(s, x)[i] = s[i]
      /\ Append(s, x)[Len(s) + 1] = x
      BY AppendProperties
<1>2. \A i \in 1..Len(s) : s[i].reqno # x.reqno BY DEF Elements
<1>3. ASSUME NEW i \in 1..(Len(s) + 1), NEW j \in 1..(Len(s) + 1), i # j
      PROVE  Append(s, x)[i].reqno # Append(s, x)[j].reqno
  <2>1. CASE i = Len(s) + 1
    <3>1. j \in 1..Len(s) BY <1>1, <1>3, <2>1
    <3>. QED BY <1>1, <1>2, <2>1, <3>1
  <2>2. CASE j = Len(s) + 1
    <3>1. i \in 1..Len(s) BY <1>1, <1>3, <2>2
    <3>. QED BY <1>1, <1>2, <2>2, <3>1
  <2>3. CASE i # Len(s) + 1 /\ j # Len(s) + 1
    <3>1. i \in 1..Len(s) /\ j \in 1..Len(s) BY <1>1, <2>3
    <3>. QED BY <1>1, <1>3, <3>1 DEF OnceSent
  <2>. QED BY <2>1, <2>2, <2>3
<1>. QED BY <1>1, <1>3 DEF OnceSent

LEMMA DropOnce ==
    ASSUME NEW S, NEW s \in Seq(S), NEW n \in 0..Len(s), OnceSent(s)
    PROVE  LET r == SubSeq(s, n + 1, Len(s))
           IN  /\ OnceSent(r)
               /\ \A x \in Elements(r) : \A i \in 1..n : x.reqno # s[i].reqno
<1>. DEFINE r == SubSeq(s, n + 1, Len(s))
<1>1. Len(s) \in Nat /\ \A i \in (n + 1)..Len(s) : s[i] \in S OBVIOUS
<1>2. /\ Len(r) = IF n + 1 <= Len(s) THEN Len(s) - (n + 1) + 1 ELSE 0
      /\ \A i \in 1..(Len(s) - (n + 1) + 1) : r[i] = s[(n + 1) + i - 1]
      BY <1>1, SubSeqProperties, SMTT(30)
<1>. HIDE DEF r
<1>3. ASSUME NEW i \in 1..Len(r)
      PROVE  r[i] = s[n + i] /\ n + i \in 1..Len(s) /\ n + i > n
  <2>1. i \in 1..(Len(s) - (n + 1) + 1) /\ (n + 1) + i - 1 = n + i BY <1>1, <1>2
  <2>2. r[i] = s[n + i] BY <1>2, <2>1
  <2>. QED BY <1>1, <2>1, <2>2
<1>4. ASSUME NEW i \in 1..Len(r), NEW j \in 1..Len(r), i # j
      PROVE  r[i].reqno # r[j].reqno
  <2>1. n + i # n + j BY <1>1, <1>2, <1>4
  <2>. QED BY <1>3, <2>1 DEF OnceSent
<1>5. ASSUME NEW i \in 1..Len(r), NEW j \in 1..n PROVE r[i].reqno # s[j].reqno
  <2>1. j \in 1..Len(s) /\ n + i # j BY <1>1, <1>3
  <2>. QED BY <1>3, <2>1 DEF OnceSent
<1>. QED BY <1>4, <1>5 DEF OnceSent, Elements, r

LEMMA TailGranted ==
    ASSUME NEW S, NEW s \in Seq(S), s # <<>>, OnceGranted(s)
    PROVE  /\ OnceGranted(Tail(s))
           /\ \A x \in Elements(Tail(s)) :
                 Requested(x) /\ Requested(Head(s)) => x.reqno # Head(s).reqno
<1>1. /\ Len(Tail(s)) = Len(s) - 1 /\ Len(s) \in Nat \ {0}
      /\ \A i \in 1..(Len(s) - 1) : Tail(s)[i] = s[i + 1]
      /\ Head(s) = s[1]
      BY HeadTailProperties, EmptySeq
<1>2. ASSUME NEW i \in 1..Len(Tail(s)), NEW j \in 1..Len(Tail(s)), i # j,
             Requested(Tail(s)[i]), Requested(Tail(s)[j])
      PROVE  Tail(s)[i].reqno # Tail(s)[j].reqno
  <2>1. i + 1 \in 1..Len(s) /\ j + 1 \in 1..Len(s) /\ i + 1 # j + 1 BY <1>1, <1>2
  <2>2. Tail(s)[i] = s[i + 1] /\ Tail(s)[j] = s[j + 1] BY <1>1
  <2>. QED BY <1>2, <2>1, <2>2 DEF OnceGranted
<1>3. ASSUME NEW i \in 1..Len(Tail(s)), Requested(Tail(s)[i]), Requested(Head(s))
      PROVE  Tail(s)[i].reqno # Head(s).reqno
  <2>1. i + 1 \in 1..Len(s) /\ 1 \in 1..Len(s) /\ i + 1 # 1 BY <1>1
  <2>2. Tail(s)[i] = s[i + 1] BY <1>1
  <2>. QED BY <1>1, <1>3, <2>1, <2>2 DEF OnceGranted
<1>. QED BY <1>2, <1>3 DEF OnceGranted, Elements

LEMMA ConcatGranted ==
    ASSUME NEW S, NEW s \in Seq(S), NEW t \in Seq(S), OnceGranted(s), OnceGranted(t),
           \A x \in Elements(s), y \in Elements(t) :
              Requested(x) /\ Requested(y) => x.reqno # y.reqno
    PROVE  OnceGranted(s \o t)
<1>. DEFINE r == s \o t
<1>1. /\ Len(r) = Len(s) + Len(t) /\ Len(s) \in Nat /\ Len(t) \in Nat
      /\ \A i \in 1..Len(s) + Len(t) :
            r[i] = IF i <= Len(s) THEN s[i] ELSE t[i - Len(s)]
      BY ConcatProperties
<1>. HIDE DEF r
<1>2. ASSUME NEW i \in 1..Len(r)
      PROVE  \/ i \in 1..Len(s) /\ r[i] = s[i] /\ r[i] \in Elements(s)
             \/ /\ i - Len(s) \in 1..Len(t) /\ r[i] = t[i - Len(s)]
                /\ r[i] \in Elements(t) /\ i \notin 1..Len(s)
  <2>1. CASE i <= Len(s)
    <3>1. i \in 1..Len(s) BY <1>1, <2>1
    <3>. QED BY <1>1, <2>1, <3>1 DEF Elements
  <2>2. CASE i > Len(s)
    <3>1. i - Len(s) \in 1..Len(t) /\ i \notin 1..Len(s) BY <1>1, <2>2
    <3>2. r[i] = t[i - Len(s)] BY <1>1, <2>2
    <3>. QED BY <3>1, <3>2 DEF Elements
  <2>. QED BY <1>1, <2>1, <2>2
<1>3. ASSUME NEW i \in 1..Len(r), NEW j \in 1..Len(r), i # j,
             Requested(r[i]), Requested(r[j])
      PROVE  r[i].reqno # r[j].reqno
  <2>1. CASE i \in 1..Len(s) /\ j \in 1..Len(s)
        BY <1>2, <1>3, <2>1 DEF OnceGranted
  <2>2. CASE i \notin 1..Len(s) /\ j \notin 1..Len(s)
    <3>1. i - Len(s) # j - Len(s) BY <1>1, <1>3
    <3>2. /\ i - Len(s) \in 1..Len(t) /\ r[i] = t[i - Len(s)]
          /\ j - Len(s) \in 1..Len(t) /\ r[j] = t[j - Len(s)]
          BY <1>2, <2>2
    <3>. QED BY <1>3, <3>1, <3>2 DEF OnceGranted
  <2>3. CASE i \in 1..Len(s) /\ j \notin 1..Len(s) BY <1>2, <1>3, <2>3
  <2>4. CASE i \notin 1..Len(s) /\ j \in 1..Len(s)
    <3>1. r[j] \in Elements(s) /\ r[i] \in Elements(t) BY <1>2, <2>4
    <3>. QED BY <1>3, <3>1
  <2>. QED BY <2>1, <2>2, <2>3, <2>4
<1>. QED BY <1>3 DEF OnceGranted, r

LEMMA AppendGranted ==
    ASSUME NEW S, NEW s \in Seq(S), NEW x \in S, OnceGranted(s), ~Requested(x)
    PROVE  OnceGranted(Append(s, x))
<1>1. /\ Len(Append(s, x)) = Len(s) + 1 /\ Len(s) \in Nat
      /\ \A i \in 1..Len(s) : Append(s, x)[i] = s[i]
      /\ Append(s, x)[Len(s) + 1] = x
      BY AppendProperties
<1>2. \A i \in 1..(Len(s) + 1) : Requested(Append(s, x)[i]) => i \in 1..Len(s)
      BY <1>1
<1>3. ASSUME NEW i \in 1..(Len(s) + 1), NEW j \in 1..(Len(s) + 1), i # j,
             Requested(Append(s, x)[i]), Requested(Append(s, x)[j])
      PROVE  Append(s, x)[i].reqno # Append(s, x)[j].reqno
  <2>1. i \in 1..Len(s) /\ j \in 1..Len(s) BY <1>2, <1>3
  <2>2. Append(s, x)[i] = s[i] /\ Append(s, x)[j] = s[j] BY <1>1, <2>1
  <2>. QED BY <1>3, <2>1, <2>2 DEF OnceGranted
<1>. QED BY <1>1, <1>3 DEF OnceGranted

LEMMA ShortGranted ==
    /\ OnceGranted(<<>>)
    /\ \A x : OnceGranted(<<x>>)
    /\ \A x, y : ~Requested(x) => OnceGranted(<<x, y>>)
<1>1. \A x : OnceGranted(<<x>>)
  <2>. TAKE x
  <2>1. Len(<<x>>) = 1 /\ 1..1 = {1} OBVIOUS
  <2>. QED BY <2>1 DEF OnceGranted
<1>2. ASSUME NEW x, NEW y, ~Requested(x) PROVE OnceGranted(<<x, y>>)
  <2>1. Len(<<x, y>>) = 2 /\ <<x, y>>[1] = x /\ 1..2 = {1, 2} OBVIOUS
  <2>2. \A i \in {1, 2} : Requested(<<x, y>>[i]) => i = 2 BY <1>2, <2>1
  <2>. QED BY <2>1, <2>2 DEF OnceGranted
<1>3. OnceGranted(<<>>) BY DEF OnceGranted
<1>. QED BY <1>1, <1>2, <1>3

LEMMA IndexType ==
    ASSUME NEW n \in Nat
    PROVE  REQHASH_INDEX(n) \in 0..(HashDim - 1)
<1>1. HashDim \in Nat \ {0} BY CliAssumption
<1>. QED BY <1>1 DEF REQHASH_INDEX

LEMMA SaysAfterRequest ==
    ASSUME NEW c \in Client, NEW d \in Client, NEW t \in MsgType, Asks(d, c, t),
           d.overdue = c.overdue
    PROVE  /\ \A n \in 0..c.reqno, type \in ReqTyp :
                 Says(c, n, type) => Says(d, n, type)
           /\ Says(d, c.reqno + 1, t)
<1>1. /\ c.reqno \in Nat /\ d.reqno = c.reqno + 1
      /\ c.reqtyp \in [0..(HashDim - 1) -> ReqTyp]
      /\ d.reqtyp = [c.reqtyp EXCEPT ![REQHASH_INDEX(c.reqno + 1)] = t]
      BY DEF Asks, Client
<1>2. REQHASH_INDEX(c.reqno + 1) \in 0..(HashDim - 1) BY <1>1, IndexType
<1>3. Says(d, c.reqno + 1, t) BY <1>1, <1>2 DEF Says, type_of
<1>4. ASSUME NEW n \in 0..c.reqno, NEW type \in ReqTyp, Says(c, n, type)
      PROVE  Says(d, n, type)
  <2>1. CASE REQHASH_INDEX(c.reqno + 1) = REQHASH_INDEX(n)
    <3>1. c.reqno + 1 \in 0..d.reqno /\ c.reqno + 1 # n BY <1>1
    <3>2. Shared(d, n) BY <2>1, <3>1 DEF Shared
    <3>. QED BY <3>2 DEF Says
  <2>2. CASE REQHASH_INDEX(c.reqno + 1) # REQHASH_INDEX(n)
    <3>1. n \in Nat BY <1>1
    <3>2. type_of(d, n) = type_of(c, n)
          BY <1>1, <1>2, <2>2, <3>1, IndexType DEF type_of
    <3>3. 0..c.reqno \subseteq 0..d.reqno BY <1>1
    <3>4. Shared(c, n) => Shared(d, n) BY <3>3 DEF Shared
    <3>. QED BY <1>4, <3>2, <3>4 DEF Says
  <2>. QED BY <2>1, <2>2
<1>. QED BY <1>3, <1>4

(* An entry that is cleared: of the number itself it says nothing more, of *)
(* every other what it said, or the two share it.                          *)
LEMMA SaysAfterClear ==
    ASSUME NEW c \in Client, NEW d \in Client, d.reqno = c.reqno,
           c.overdue \subseteq d.overdue, NEW k \in 0..c.reqno,
           \/ d.reqtyp = c.reqtyp
           \/ d.reqtyp = [c.reqtyp EXCEPT ![REQHASH_INDEX(k)] = "invalid"]
    PROVE  /\ \A n \in 0..c.reqno, type \in ReqTyp :
                 n # k /\ Says(c, n, type) => Says(d, n, type)
           /\ d.reqtyp # c.reqtyp => Says(d, k, "invalid")
           /\ d.reqtyp = c.reqtyp => \A n \in 0..c.reqno, type \in ReqTyp :
                                        Says(c, n, type) => Says(d, n, type)
<1>1. c.reqno \in Nat /\ c.reqtyp \in [0..(HashDim - 1) -> ReqTyp] BY DEF Client
<1>2. \A n \in 0..c.reqno : REQHASH_INDEX(n) \in 0..(HashDim - 1)
      BY <1>1, IndexType
<1>3. d.reqtyp = c.reqtyp => \A n \in 0..c.reqno, type \in ReqTyp :
                                Says(c, n, type) => Says(d, n, type)
      BY DEF Says, type_of, Shared
<1>4. ASSUME d.reqtyp = [c.reqtyp EXCEPT ![REQHASH_INDEX(k)] = "invalid"]
      PROVE  Says(d, k, "invalid")
      BY <1>1, <1>2, <1>4 DEF Says, type_of
<1>5. ASSUME d.reqtyp = [c.reqtyp EXCEPT ![REQHASH_INDEX(k)] = "invalid"],
             NEW n \in 0..c.reqno, NEW type \in ReqTyp, n # k, Says(c, n, type)
      PROVE  Says(d, n, type)
  <2>1. CASE REQHASH_INDEX(k) = REQHASH_INDEX(n)
    <3>1. Shared(d, n) BY <1>5, <2>1 DEF Shared
    <3>. QED BY <3>1 DEF Says
  <2>2. CASE REQHASH_INDEX(k) # REQHASH_INDEX(n)
    <3>1. type_of(d, n) = type_of(c, n) BY <1>1, <1>2, <1>5, <2>2 DEF type_of
    <3>2. Shared(c, n) => Shared(d, n) BY DEF Shared
    <3>. QED BY <1>5, <3>1, <3>2 DEF Says
  <2>. QED BY <2>1, <2>2
<1>. QED BY <1>3, <1>4, <1>5

(* What is under way has a number and a type. *)
LEMMA UnderWay ==
    ASSUME NEW c \in Client, NEW q \in Seq(Message), Named(c, q)
    PROVE  /\ \A call \in Elements(c.wire) :
                 call \in Call /\ call.msgtyp \in ReqTyp /\ call.reqno \in 1..c.reqno
           /\ \A m \in Elements(q) : Requested(m) =>
                 /\ m \in GrantMsg /\ m.cause \in {"update", "acquire", "release"}
                 /\ m.cause \in ReqTyp /\ m.reqno \in 1..c.reqno
<1>1. Elements(c.wire) \subseteq Call /\ Elements(q) \subseteq Message
      BY ElementType DEF Client
<1>2. ASSUME NEW call \in Elements(c.wire)
      PROVE  call \in Call /\ call.msgtyp \in ReqTyp /\ call.reqno \in 1..c.reqno
  <2>1. Fits(c, call.msgtyp, call.reqno) BY DEF Named
  <2>. QED BY <1>1, <2>1 DEF Call, ReqTyp, Fits
<1>3. ASSUME NEW m \in Elements(q), Requested(m)
      PROVE  /\ m \in GrantMsg /\ m.cause \in {"update", "acquire", "release"}
             /\ m.cause \in ReqTyp /\ m.reqno \in 1..c.reqno
  <2>1. m \in GrantMsg BY <1>1, <1>3, MessageKinds DEF Requested, IsGrant
  <2>2. m.cause \in {"update", "acquire", "release"}
        BY <1>3, <2>1 DEF Requested, GrantMsg
  <2>3. Fits(c, m.cause, m.reqno) BY <1>3 DEF Named, Requested
  <2>. QED BY <2>1, <2>2, <2>3 DEF Fits, ReqTyp, MsgType
<1>. QED BY <1>2, <1>3

LEMMA AsksTable ==
    ASSUME NEW c \in Client, NEW d \in Client, NEW q \in Seq(Message),
           NEW t \in MsgType, Named(c, q), Table(c, q), Asks(d, c, t),
           d.overdue = c.overdue, d.lost = c.lost
    PROVE  Table(d, q)
<1>1. c.reqno \in Nat /\ d.reqno = c.reqno + 1 BY DEF Asks, Client
<1>2. /\ \A call \in Elements(c.wire) :
            call \in Call /\ call.msgtyp \in ReqTyp /\ call.reqno \in 1..c.reqno
      /\ \A m \in Elements(q) : Requested(m) =>
            /\ m \in GrantMsg /\ m.cause \in {"update", "acquire", "release"}
            /\ m.cause \in ReqTyp /\ m.reqno \in 1..c.reqno
      BY UnderWay
<1>3. /\ \A n \in 0..c.reqno, type \in ReqTyp : Says(c, n, type) => Says(d, n, type)
      /\ Says(d, c.reqno + 1, t)
      BY SaysAfterRequest
<1>4. \A n : /\ Settled(d, q, n) <=> Settled(c, q, n)
             /\ Failed(d, q, n) <=> Failed(c, q, n)
      BY DEF Settled, Failed
<1>5. OnceSent(c.wire) /\ OnceGranted(q) /\ Apart(c, q) /\ Looked(c, q) BY DEF Table
<1>6. ~Settled(c, q, c.reqno + 1)
  <2>1. c.reqno + 1 \notin 1..c.reqno BY <1>1
  <2>. QED BY <1>5, <2>1 DEF Settled, Apart
<1>7. /\ OnceSent(d.wire)
      /\ \A call \in Elements(d.wire) :
            \/ call \in Elements(c.wire)
            \/ call.reqno = c.reqno + 1 /\ call.msgtyp = t
  <2>1. CASE d.wire = c.wire BY <1>5, <2>1
  <2>2. ASSUME NEW flags \in Flags,
               d.wire = Append(c.wire, [msgtyp |-> t, reqno |-> c.reqno + 1,
                                        flags |-> flags])
        PROVE  /\ OnceSent(d.wire)
               /\ \A call \in Elements(d.wire) :
                     \/ call \in Elements(c.wire)
                     \/ call.reqno = c.reqno + 1 /\ call.msgtyp = t
    <3>. DEFINE call == [msgtyp |-> t, reqno |-> c.reqno + 1, flags |-> flags]
    <3>1. call \in Call /\ call.reqno = c.reqno + 1 /\ call.msgtyp = t
          BY <1>1 DEF Call
    <3>2. d.wire = Append(c.wire, call) /\ c.wire \in Seq(Call) BY <2>2 DEF Client
    <3>. HIDE DEF call
    <3>3. \A y \in Elements(c.wire) : y.reqno # call.reqno BY <1>1, <1>2, <3>1
    <3>4. OnceSent(d.wire) BY <1>5, <3>1, <3>2, <3>3, AppendOnce
    <3>5. Elements(d.wire) = Elements(c.wire) \cup {call}
          BY <3>1, <3>2, AppendElements
    <3>. QED BY <3>1, <3>4, <3>5
  <2>. QED BY <2>1, <2>2 DEF Asks
<1>8. Apart(d, q)
  <2>1. ASSUME NEW call \in Elements(d.wire)
        PROVE  /\ ~Settled(d, q, call.reqno)
               /\ \A m \in Elements(q) : Requested(m) => m.reqno # call.reqno
    <3>1. CASE call \in Elements(c.wire) BY <1>4, <1>5, <3>1 DEF Apart
    <3>2. CASE call.reqno = c.reqno + 1
      <4>1. \A m \in Elements(q) : Requested(m) => m.reqno # c.reqno + 1
            BY <1>1, <1>2
      <4>. QED BY <1>4, <1>6, <3>2, <4>1
    <3>. QED BY <1>7, <3>1, <3>2
  <2>2. \A m \in Elements(q) : Requested(m) => ~Failed(d, q, m.reqno)
        BY <1>4, <1>5 DEF Apart
  <2>3. 1..c.reqno \subseteq 1..d.reqno BY <1>1
  <2>. QED BY <1>5, <2>1, <2>2, <2>3 DEF Apart
<1>9. Looked(d, q)
  <2>1. ASSUME NEW call \in Elements(d.wire)
        PROVE  Says(d, call.reqno, call.msgtyp)
    <3>1. CASE call \in Elements(c.wire)
      <4>1. call.reqno \in 0..c.reqno /\ call.msgtyp \in ReqTyp BY <1>1, <1>2, <3>1
      <4>2. Says(c, call.reqno, call.msgtyp) BY <1>5, <3>1 DEF Looked
      <4>. QED BY <1>3, <4>1, <4>2
    <3>2. CASE call.reqno = c.reqno + 1 /\ call.msgtyp = t BY <1>3, <3>2
    <3>. QED BY <1>7, <3>1, <3>2
  <2>2. ASSUME NEW m \in Elements(q), Requested(m)
        PROVE  Says(d, m.reqno, m.cause)
    <3>1. m.reqno \in 0..c.reqno /\ m.cause \in ReqTyp BY <1>1, <1>2, <2>2
    <3>2. Says(c, m.reqno, m.cause) BY <1>5, <2>2 DEF Looked
    <3>. QED BY <1>3, <3>1, <3>2
  <2>3. Says(d, 0, "invalid")
    <3>1. 0 \in 0..c.reqno /\ "invalid" \in ReqTyp BY <1>1 DEF ReqTyp
    <3>. QED BY <1>3, <1>5, <3>1 DEF Looked
  <2>. QED BY <2>1, <2>2, <2>3 DEF Looked
<1>. QED BY <1>5, <1>7, <1>8, <1>9 DEF Table

(* Less under way, and the entry of nothing under way cleared. *)
LEMMA LessTable ==
    ASSUME NEW c \in Client, NEW d \in Client, NEW q \in Seq(Message),
           NEW r \in Seq(Message), Named(c, q), Table(c, q),
           d.reqno = c.reqno, d.wire = c.wire, d.lost = c.lost,
           c.overdue \subseteq d.overdue,
           Elements(r) \subseteq Elements(q), OnceGranted(r),
           NEW k \in 0..c.reqno,
           \/ d.reqtyp = c.reqtyp
           \/ d.reqtyp = [c.reqtyp EXCEPT ![REQHASH_INDEX(k)] = "invalid"],
           \/ d.reqtyp = c.reqtyp
           \/ k \in d.overdue
           \/ /\ \A call \in Elements(c.wire) : call.reqno # k
              /\ \A m \in Elements(r) :
                    Requested(m) => m.reqno # k \/ Shared(c, k) \/ k \in c.overdue
    PROVE  Table(d, r)
<1>1. c.reqno \in Nat BY DEF Client
<1>2. /\ \A call \in Elements(c.wire) :
            call \in Call /\ call.msgtyp \in ReqTyp /\ call.reqno \in 1..c.reqno
      /\ \A m \in Elements(q) : Requested(m) =>
            /\ m \in GrantMsg /\ m.cause \in {"update", "acquire", "release"}
            /\ m.cause \in ReqTyp /\ m.reqno \in 1..c.reqno
      BY UnderWay
<1>3. /\ \A n \in 0..c.reqno, type \in ReqTyp :
            n # k /\ Says(c, n, type) => Says(d, n, type)
      /\ d.reqtyp # c.reqtyp => Says(d, k, "invalid")
      /\ d.reqtyp = c.reqtyp => \A n \in 0..c.reqno, type \in ReqTyp :
                                   Says(c, n, type) => Says(d, n, type)
      BY SaysAfterClear
<1>4. OnceSent(c.wire) /\ OnceGranted(q) /\ Apart(c, q) /\ Looked(c, q) BY DEF Table
<1>5. \A n : /\ Settled(d, r, n) => Settled(c, q, n)
             /\ Failed(d, r, n) => Failed(c, q, n)
      BY DEF Settled, Failed
<1>6. Apart(d, r) BY <1>4, <1>5 DEF Apart
<1>7. ASSUME NEW n \in 0..c.reqno, NEW type \in ReqTyp, Says(c, n, type),
             d.reqtyp = c.reqtyp \/ n # k \/ Shared(c, k) \/ k \in d.overdue
      PROVE  Says(d, n, type)
  <2>1. CASE d.reqtyp = c.reqtyp BY <1>3, <1>7, <2>1
  <2>2. CASE n # k BY <1>3, <1>7, <2>2
  <2>3. CASE n = k /\ (Shared(c, k) \/ k \in d.overdue) BY <2>3 DEF Says, Shared
  <2>. QED BY <1>7, <2>1, <2>2, <2>3
<1>8. Looked(d, r)
  <2>1. ASSUME NEW call \in Elements(d.wire)
        PROVE  Says(d, call.reqno, call.msgtyp)
    <3>1. call \in Elements(c.wire) OBVIOUS
    <3>2. call.reqno \in 0..c.reqno /\ call.msgtyp \in ReqTyp BY <1>1, <1>2, <3>1
    <3>3. Says(c, call.reqno, call.msgtyp) BY <1>4, <3>1 DEF Looked
    <3>. QED BY <1>7, <3>1, <3>2, <3>3
  <2>2. ASSUME NEW m \in Elements(r), Requested(m)
        PROVE  Says(d, m.reqno, m.cause)
    <3>1. m \in Elements(q) OBVIOUS
    <3>2. m.reqno \in 0..c.reqno /\ m.cause \in ReqTyp BY <1>1, <1>2, <2>2, <3>1
    <3>3. Says(c, m.reqno, m.cause) BY <1>4, <2>2, <3>1 DEF Looked
    <3>4. d.reqtyp = c.reqtyp \/ m.reqno # k \/ Shared(c, k) \/ k \in d.overdue
          BY <2>2
    <3>. QED BY <1>7, <3>2, <3>3, <3>4
  <2>3. Says(d, 0, "invalid")
    <3>1. 0 \in 0..c.reqno /\ "invalid" \in ReqTyp BY <1>1 DEF ReqTyp
    <3>2. Says(c, 0, "invalid") BY <1>4 DEF Looked
    <3>. QED BY <1>3, <3>1, <3>2
  <2>. QED BY <2>1, <2>2, <2>3 DEF Looked
<1>. QED BY <1>4, <1>6, <1>8 DEF Table

(* A step of the bus or the manager: calls with the numbers N leave the    *)
(* wire, and what comes under way bears those.                             *)
Passes(c, q, d, r, N) ==
    /\ \A call \in Elements(d.wire) :
          call \in Elements(c.wire) /\ call.reqno \notin N
    /\ \A n : Settled(d, r, n) => Settled(c, q, n) \/ n \in N
    /\ \A n : Settled(d, r, n) => n \in 1..c.reqno
    /\ \A m \in Elements(r) : Requested(m) =>
          /\ ~Failed(d, r, m.reqno)
          /\ \/ m \in Elements(q)
             \/ \E call \in Elements(c.wire) :
                   /\ call.reqno \in N
                   /\ m.reqno = call.reqno /\ m.cause = call.msgtyp

LEMMA MovedTable ==
    ASSUME NEW c \in Client, NEW d \in Client, NEW q \in Seq(Message),
           NEW r \in Seq(Message), Named(c, q), Table(c, q), NEW N,
           d.reqno = c.reqno, d.reqtyp = c.reqtyp, d.overdue = c.overdue,
           OnceSent(d.wire), OnceGranted(r), Passes(c, q, d, r, N)
    PROVE  Table(d, r)
<1>. USE DEF Passes
<1>1. OnceSent(c.wire) /\ OnceGranted(q) /\ Apart(c, q) /\ Looked(c, q) BY DEF Table
<1>2. \A n, type : Says(c, n, type) => Says(d, n, type) BY DEF Says, type_of, Shared
<1>3. Apart(d, r)
  <2>1. ASSUME NEW call \in Elements(d.wire)
        PROVE  /\ ~Settled(d, r, call.reqno)
               /\ \A m \in Elements(r) : Requested(m) => m.reqno # call.reqno
    <3>1. call \in Elements(c.wire) /\ call.reqno \notin N OBVIOUS
    <3>2. /\ ~Settled(c, q, call.reqno)
          /\ \A m \in Elements(q) : Requested(m) => m.reqno # call.reqno
          BY <1>1, <3>1 DEF Apart
    <3>. QED BY <3>1, <3>2
  <2>2. \A n \in d.lost : n \in 1..d.reqno BY DEF Settled
  <2>3. \A m \in Elements(r) : m.kind = "answer" => m.reply.reqno \in 1..d.reqno
        BY DEF Settled
  <2>. QED BY <2>1, <2>2, <2>3 DEF Apart
<1>4. Looked(d, r)
  <2>1. ASSUME NEW m \in Elements(r), Requested(m) PROVE Says(d, m.reqno, m.cause)
    <3>1. Says(c, m.reqno, m.cause) BY <1>1, <2>1 DEF Looked
    <3>. QED BY <1>2, <3>1
  <2>2. \A call \in Elements(d.wire) : Says(d, call.reqno, call.msgtyp)
        BY <1>1, <1>2 DEF Looked
  <2>3. Says(d, 0, "invalid") BY <1>1, <1>2 DEF Looked
  <2>. QED BY <2>1, <2>2, <2>3 DEF Looked
<1>. QED BY <1>3, <1>4 DEF Table

(* What the manager says to a call: an answer, and behind one that is not  *)
(* an error perhaps a grant.                                               *)
Replies(messages, call) ==
    /\ \A m \in Elements(messages) :
          IF Requested(m)
          THEN m.kind # "answer" /\ m.reqno = call.reqno /\ m.cause = call.msgtyp
          ELSE m.kind = "answer" /\ m.reply.reqno = call.reqno
    /\ \A x, y \in Elements(messages) : Requested(x) /\ ~Requested(y) => ~y.err

(* The oldest call is lost, or answered, or answered and granted. *)
LEMMA TakenTable ==
    ASSUME NEW c \in Client, NEW d \in Client, NEW q \in Seq(Message),
           NEW messages \in Seq(Message), q \o messages \in Seq(Message),
           Named(c, q), Table(c, q), NEW n, n = Head(c.wire).reqno,
           d.reqno = c.reqno, d.reqtyp = c.reqtyp, d.overdue = c.overdue,
           c.wire # <<>>, d.wire = Tail(c.wire),
           \/ d.lost = c.lost
           \/ messages = <<>> /\ d.lost = c.lost \cup {n},
           OnceGranted(messages), Replies(messages, Head(c.wire))
    PROVE  Table(d, q \o messages)
<1>. DEFINE r == q \o messages
<1>1. r \in Seq(Message) OBVIOUS
<1>2. Elements(r) \subseteq Elements(q) \cup Elements(messages) BY ConcatElements
<1>3. c.wire \in Seq(Call) BY DEF Client
<1>4. Elements(c.wire) = Elements(d.wire) \cup {Head(c.wire)} BY <1>3, TailElements
<1>5. OnceSent(c.wire) /\ OnceGranted(q) /\ Apart(c, q) BY DEF Table
<1>6. /\ OnceSent(d.wire)
      /\ \A call \in Elements(d.wire) : call.reqno # n
      BY <1>3, <1>5, TailOnce
<1>7. n \in 1..c.reqno BY <1>4, UnderWay
<1>8. /\ ~Settled(c, q, n)
      /\ \A m \in Elements(q) : Requested(m) => m.reqno # n
      BY <1>4, <1>5 DEF Apart
<1>9. OnceGranted(r)
  <2>1. \A x \in Elements(q), y \in Elements(messages) :
           Requested(x) /\ Requested(y) => x.reqno # y.reqno
        BY <1>8 DEF Replies
  <2>. QED BY <1>5, <2>1, ConcatGranted
<1>. HIDE DEF r
<1>10. /\ \A m \in Elements(messages) :
             IF Requested(m)
             THEN m.kind # "answer" /\ m.reqno = n /\ m.cause = Head(c.wire).msgtyp
             ELSE m.kind = "answer" /\ m.reply.reqno = n
       /\ \A x, y \in Elements(messages) : Requested(x) /\ ~Requested(y) => ~y.err
       BY DEF Replies
<1>11. \A k : Settled(d, r, k) => Settled(c, q, k) \/ k = n
  <2>. SUFFICES ASSUME NEW k, Settled(d, r, k), k # n PROVE Settled(c, q, k) OBVIOUS
  <2>1. CASE k \in d.lost BY <2>1 DEF Settled
  <2>2. ASSUME NEW m \in Elements(r), m.kind = "answer", m.reply.reqno = k
        PROVE  Settled(c, q, k)
    <3>1. m \in Elements(q) BY <1>2, <1>10, <2>2
    <3>. QED BY <2>2, <3>1 DEF Settled
  <2>. QED BY <2>1, <2>2 DEF Settled
<1>12. \A k : Settled(c, q, k) => k \in 1..c.reqno BY <1>5 DEF Apart, Settled
<1>13. \A k : Settled(d, r, k) => k \in 1..c.reqno BY <1>7, <1>11, <1>12
<1>14. ASSUME NEW m \in Elements(r), Requested(m)
       PROVE  /\ ~Failed(d, r, m.reqno)
              /\ \/ m \in Elements(q)
                 \/ \E call \in Elements(c.wire) :
                       /\ call.reqno \in {n}
                       /\ m.reqno = call.reqno /\ m.cause = call.msgtyp
  <2>1. CASE m \in Elements(q)
    <3>1. m.reqno # n /\ ~Failed(c, q, m.reqno) BY <1>5, <1>8, <1>14, <2>1 DEF Apart
    <3>2. m.reqno \notin d.lost BY <3>1 DEF Failed
    <3>3. ASSUME NEW x \in Elements(r), x.kind = "answer", x.err,
                 x.reply.reqno = m.reqno
          PROVE  FALSE
      <4>1. x \in Elements(q) BY <1>2, <1>10, <3>1, <3>3
      <4>. QED BY <3>1, <3>3, <4>1 DEF Failed
    <3>. QED BY <2>1, <3>2, <3>3 DEF Failed
  <2>2. CASE m \in Elements(messages)
    <3>1. m.reqno = n /\ m.cause = Head(c.wire).msgtyp BY <1>10, <1>14, <2>2
    <3>2. messages # <<>> BY <2>2, ShortElements
    <3>3. n \notin d.lost BY <1>8, <3>2 DEF Settled
    <3>4. ASSUME NEW x \in Elements(r), x.kind = "answer", x.err, x.reply.reqno = n
          PROVE  FALSE
      <4>1. CASE x \in Elements(q) BY <1>8, <3>4, <4>1 DEF Settled
      <4>2. CASE x \in Elements(messages) BY <1>10, <1>14, <2>2, <3>4, <4>2
      <4>. QED BY <1>2, <4>1, <4>2
    <3>. QED BY <1>4, <3>1, <3>3, <3>4 DEF Failed
  <2>. QED BY <1>2, <2>1, <2>2
<1>. DEFINE N == {n}
<1>15. Passes(c, q, d, r, {n}) BY <1>4, <1>6, <1>11, <1>13, <1>14 DEF Passes
<1>16. OnceSent(d.wire) BY <1>6
<1>17. Table(d, r) BY <1>1, <1>9, <1>15, <1>16, MovedTable
<1>. QED BY <1>17 DEF r

LEMMA BusTable ==
    ASSUME TypeOK, TypeOK', Named(cl, inq), Table(cl, inq), Bus
    PROVE  Table(cl', inq')
<1>1. cl \in Client /\ cl' \in Client /\ inq \in Seq(Message) /\ inq' \in Seq(Message)
      /\ cl.wire \in Seq(Call)
      BY DEF TypeOK, Client
<1>2. /\ cl'.reqno = cl.reqno /\ cl'.reqtyp = cl.reqtyp /\ cl'.overdue = cl.overdue
      BY <1>1, BusNumbers, MovesFields
<1>. DEFINE call == Head(cl.wire)
<1>3. cl.wire # <<>> => call \in Call BY <1>1, HeadTailProperties
<1>4. ASSUME NEW messages \in Seq(Message), Takes(messages), OnceGranted(messages),
             Replies(messages, call)
      PROVE  Table(cl', inq')
  <2>1. /\ cl.wire # <<>> /\ cl'.wire = Tail(cl.wire) /\ inq' = inq \o messages
        /\ \/ cl'.lost = cl.lost
           \/ messages = <<>> /\ cl'.lost = cl.lost \cup {Head(cl.wire).reqno}
        BY <1>4 DEF Takes
  <2>2. Table(cl', inq \o messages) BY <1>1, <1>2, <1>4, <2>1, TakenTable
  <2>. QED BY <2>1, <2>2
<1>5. CASE Takes(<<>>)
  <2>1. <<>> \in Seq(Message) /\ OnceGranted(<<>>) /\ Replies(<<>>, call)
        BY ShortGranted, ShortElements DEF Replies
  <2>. QED BY <1>4, <1>5, <2>1
<1>6. ASSUME NEW err \in BOOLEAN, Takes(<<answer(call, err)>>)
      PROVE  Table(cl', inq')
  <2>1. call \in Call BY <1>3, <1>6 DEF Takes
  <2>. DEFINE m == answer(call, err)
  <2>2. /\ m \in Message /\ ~Requested(m)
        /\ m.kind = "answer" /\ m.reply.reqno = call.reqno
        BY <2>1 DEF answer, Message, Call, Requested, IsGrant
  <2>3. Takes(<<m>>) BY <1>6
  <2>. HIDE DEF call, m
  <2>4. <<m>> \in Seq(Message) BY <2>2, ShortSequences
  <2>5. OnceGranted(<<m>>) /\ Elements(<<m>>) = {m} BY ShortGranted, ShortElements
  <2>6. Replies(<<m>>, call) BY <2>2, <2>5 DEF Replies
  <2>. QED BY <1>4, <2>3, <2>4, <2>5, <2>6 DEF call
<1>7. ASSUME call.msgtyp \in {"update", "acquire", "release"},
             NEW kind \in {"full", "empty"},
             Takes(<<answer(call, FALSE), grant(kind, call)>>)
      PROVE  Table(cl', inq')
  <2>1. call \in Call BY <1>3, <1>7 DEF Takes
  <2>. DEFINE m == answer(call, FALSE)
              g == grant(kind, call)
  <2>2. /\ m \in Message /\ ~Requested(m) /\ ~m.err
        /\ m.kind = "answer" /\ m.reply.reqno = call.reqno
        BY <2>1 DEF answer, Message, Call, Requested, IsGrant
  <2>3. /\ g \in GrantMsg /\ Requested(g) /\ g.kind # "answer"
        /\ g.reqno = call.reqno /\ g.cause = call.msgtyp
        BY <1>7, <2>1 DEF grant, GrantMsg, Call, Requested, IsGrant
  <2>4. g \in Message BY <2>3 DEF GrantMsg, Message
  <2>5. Takes(<<m, g>>) BY <1>7
  <2>. HIDE DEF call, m, g
  <2>6. <<m, g>> \in Seq(Message) BY <2>2, <2>4, ShortSequences
  <2>7. OnceGranted(<<m, g>>) /\ Elements(<<m, g>>) = {m, g}
        BY <2>2, ShortGranted, ShortElements
  <2>8. Replies(<<m, g>>, call) BY <2>2, <2>3, <2>7 DEF Replies
  <2>. QED BY <1>4, <2>5, <2>6, <2>7, <2>8 DEF call
<1>8. ASSUME NEW reply \in cl.replies, reply.reqno \in cl.lost,
             inq' = Append(inq, [kind |-> "answer", reply |-> reply, err |-> TRUE]),
             cl'.lost = cl.lost \ {reply.reqno}, cl'.wire = cl.wire
      PROVE  Table(cl', inq')
  <2>. DEFINE m == [kind |-> "answer", reply |-> reply, err |-> TRUE]
  <2>1. /\ m \in Message /\ ~Requested(m)
        /\ m.kind = "answer" /\ m.err /\ m.reply.reqno = reply.reqno
        BY <1>1 DEF Message, Client, Requested, IsGrant
  <2>2. inq' = Append(inq, m) BY <1>8
  <2>. HIDE DEF m
  <2>3. Elements(inq') = Elements(inq) \cup {m} BY <1>1, <2>1, <2>2, AppendElements
  <2>4. OnceSent(cl.wire) /\ OnceGranted(inq) /\ Apart(cl, inq) BY DEF Table
  <2>5. OnceGranted(inq') BY <1>1, <2>1, <2>2, <2>4, AppendGranted
  <2>6. \A k : /\ Settled(cl', inq', k) => Settled(cl, inq, k)
               /\ Failed(cl', inq', k) => Failed(cl, inq, k)
        BY <1>8, <2>1, <2>3 DEF Settled, Failed
  <2>7. \A k : Settled(cl', inq', k) => k \in 1..cl.reqno
        BY <2>4, <2>6 DEF Apart, Settled
  <2>8. \A x \in Elements(inq') : Requested(x) =>
           ~Failed(cl', inq', x.reqno) /\ x \in Elements(inq)
        BY <2>1, <2>3, <2>4, <2>6 DEF Apart
  <2>9. Passes(cl, inq, cl', inq', {}) BY <1>8, <2>6, <2>7, <2>8 DEF Passes
  <2>10. OnceSent(cl'.wire) BY <1>8, <2>4
  <2>. QED BY <1>1, <1>2, <2>5, <2>9, <2>10, MovedTable
<1>. HIDE DEF call
<1>. QED BY <1>5, <1>6, <1>7, <1>8, BusNumbers DEF call

LEMMA ManagerTable ==
    ASSUME TypeOK, TypeOK', Named(cl, inq), Table(cl, inq),
           Manager
    PROVE  Table(cl', inq')
<1>1. cl \in Client /\ cl' \in Client /\ inq \in Seq(Message) /\ inq' \in Seq(Message)
      /\ cl.wire \in Seq(Call)
      BY DEF TypeOK, Client
<1>2. /\ cl'.reqno = cl.reqno /\ cl'.reqtyp = cl.reqtyp /\ cl'.overdue = cl.overdue
      BY <1>1, ManagerNumbers, MovesFields
<1>3. PICK m \in Message :
         /\ inq' = Append(inq, m) /\ m.kind # "answer"
         /\ IsGrant(m) => m.cause = "server" /\ m.reqno = 0
      BY ManagerNumbers
<1>4. PICK n \in 0..Len(cl.wire) :
         /\ cl'.wire = SubSeq(cl.wire, n + 1, Len(cl.wire))
         /\ cl'.lost = cl.lost \cup {cl.wire[i].reqno : i \in 1..n}
      BY ManagerNumbers
<1>. DEFINE N == {cl.wire[i].reqno : i \in 1..n}
<1>5. ~Requested(m) BY <1>3 DEF Requested
<1>6. OnceSent(cl.wire) /\ OnceGranted(inq) /\ Apart(cl, inq) BY DEF Table
<1>7. OnceGranted(inq') BY <1>1, <1>3, <1>5, <1>6, AppendGranted
<1>8. Elements(inq') = Elements(inq) \cup {m} BY <1>1, <1>3, AppendElements
<1>9. /\ OnceSent(cl'.wire)
      /\ \A call \in Elements(cl'.wire) : \A i \in 1..n : call.reqno # cl.wire[i].reqno
      BY <1>1, <1>4, <1>6, DropOnce
<1>10. \A call \in Elements(cl'.wire) : call \in Elements(cl.wire) /\ call.reqno \notin N
       BY <1>1, <1>4, <1>9, DropElements
<1>11. \A k \in N : \E call \in Elements(cl.wire) : call.reqno = k
  <2>. SUFFICES ASSUME NEW i \in 1..n
                PROVE  \E call \in Elements(cl.wire) : call.reqno = cl.wire[i].reqno
       OBVIOUS
  <2>1. i \in 1..Len(cl.wire) BY <1>1, <1>4
  <2>. QED BY <2>1 DEF Elements
<1>12. cl'.lost = cl.lost \cup N BY <1>4
<1>. HIDE DEF N
<1>13. \A k : /\ Settled(cl', inq', k) => Settled(cl, inq, k) \/ k \in N
              /\ Failed(cl', inq', k) => Failed(cl, inq, k) \/ k \in N
       BY <1>3, <1>8, <1>12 DEF Settled, Failed
<1>14. N \subseteq 1..cl.reqno BY <1>1, <1>11, UnderWay
<1>15. \A k : Settled(cl, inq, k) => k \in 1..cl.reqno BY <1>6 DEF Apart, Settled
<1>16. \A k : Settled(cl', inq', k) => k \in 1..cl.reqno BY <1>13, <1>14, <1>15
<1>17. ASSUME NEW x \in Elements(inq'), Requested(x)
       PROVE  ~Failed(cl', inq', x.reqno) /\ x \in Elements(inq)
  <2>1. x \in Elements(inq) BY <1>5, <1>8, <1>17
  <2>2. ~Failed(cl, inq, x.reqno) BY <1>6, <1>17, <2>1 DEF Apart
  <2>3. \A call \in Elements(cl.wire) : call.reqno # x.reqno
        BY <1>6, <1>17, <2>1 DEF Apart
  <2>4. x.reqno \notin N BY <1>11, <2>3
  <2>. QED BY <1>13, <2>1, <2>2, <2>4
<1>18. Passes(cl, inq, cl', inq', N) BY <1>10, <1>13, <1>16, <1>17 DEF Passes
<1>. QED BY <1>1, <1>2, <1>7, <1>9, <1>18, MovedTable

LEMMA InitTable == Init => Table(cl, inq) /\ LabelsTrue
<1>. SUFFICES ASSUME Init PROVE Table(cl, inq) /\ LabelsTrue OBVIOUS
<1>1. Started \in Client
  <2>1. Freed \in Rset BY DEF Freed, Rset, RsetState
  <2>2. [i \in 0..(HashDim - 1) |-> "invalid"] \in [0..(HashDim - 1) -> ReqTyp]
        BY DEF ReqTyp
  <2>3. Silent \in Label BY DEF Silent, Label
  <2>4. Options \in Flags BY CliAssumption
  <2>. QED BY <2>1, <2>2, <2>3, <2>4, NoFlagsType DEF Started, Client
<1>2. Asks(cl, Started, "register") /\ SameHistory(cl, Started)
      BY <1>1, ConnectAsks DEF Init
<1>3. cl \in Client /\ inq = <<>> BY InitType DEF Init, TypeOK
<1>4. Named(Started, <<>>) BY ShortElements DEF Named, Started
<1>5. <<>> \in Seq(Message) /\ "register" \in MsgType BY DEF MsgType
<1>6. Table(Started, <<>>)
  <2>1. OnceSent(Started.wire) /\ OnceGranted(<<>>)
        BY DEF OnceSent, OnceGranted, Started
  <2>2. Elements(<<>>) = {} /\ Started.wire = <<>> /\ Started.lost = {}
        BY ShortElements DEF Started
  <2>3. Says(Started, 0, "invalid")
    <3>1. REQHASH_INDEX(0) \in 0..(HashDim - 1) BY IndexType
    <3>2. Started.reqtyp = [i \in 0..(HashDim - 1) |-> "invalid"] BY DEF Started
    <3>. QED BY <3>1, <3>2 DEF Says, type_of
  <2>. QED BY <2>1, <2>2, <2>3 DEF Table, Apart, Looked
<1>7. Table(cl, inq) BY <1>1, <1>2, <1>3, <1>4, <1>5, <1>6, AsksTable DEF SameHistory
<1>8. cl.label = Silent BY <1>2 DEF SameHistory, Started
<1>. QED BY <1>7, <1>8 DEF LabelsTrue

(* An answer takes the entry of no call that is still to be granted.       *)
LEMMA FinishesTable ==
    ASSUME TypeOK, TypeOK', Named(cl, inq), Table(cl, inq), inq # <<>>,
           inq' = Tail(inq), cl'.overdue = cl.overdue, cl'.lost = cl.lost,
           Finishes(cl', cl, Head(inq))
    PROVE  Table(cl', inq')
<1>. DEFINE m == Head(inq)
            k == m.reply.reqno
<1>1. cl \in Client /\ cl' \in Client /\ inq \in Seq(Message) /\ inq' \in Seq(Message)
      BY DEF TypeOK
<1>2. Elements(inq) = Elements(inq') \cup {m} BY <1>1, TailElements
<1>3. OnceGranted(inq) /\ Apart(cl, inq) /\ Looked(cl, inq) BY DEF Table
<1>4. OnceGranted(inq') BY <1>1, <1>3, TailGranted
<1>5. /\ m.kind = "answer" /\ m.reply \in cl.replies
      /\ Ends(cl', cl, m.reply)
      /\ ~m.err /\ cl'.reqtyp # cl.reqtyp => type_of(cl, k) = "register"
      BY DEF Finishes
<1>. HIDE DEF m
<1>6. k \in 0..cl.reqno
  <2>1. k \in 1..cl.reqno BY <1>5 DEF Named, Fits
  <2>. QED BY <2>1
<1>7. m \in Elements(inq) /\ Settled(cl, inq, k) BY <1>2, <1>5 DEF Settled
<1>8. \A call \in Elements(cl.wire) : call.reqno # k BY <1>3, <1>7 DEF Apart
<1>9. ASSUME cl'.reqtyp # cl.reqtyp, NEW x \in Elements(inq'), Requested(x)
      PROVE  x.reqno # k \/ Shared(cl, k) \/ k \in cl.overdue
  <2>1. SUFFICES ASSUME x.reqno = k PROVE Shared(cl, k) \/ k \in cl.overdue OBVIOUS
  <2>2. x \in Elements(inq) BY <1>2
  <2>3. CASE m.err
    <3>1. Failed(cl, inq, k) BY <1>5, <1>7, <2>3 DEF Failed
    <3>. QED BY <1>3, <1>9, <2>1, <2>2, <3>1 DEF Apart
  <2>4. CASE ~m.err
    <3>1. type_of(cl, k) = "register" BY <1>5, <1>9, <2>4
    <3>2. x.cause # "register" BY <1>1, <1>9, <2>2, UnderWay
    <3>3. Says(cl, k, x.cause) BY <1>3, <1>9, <2>1, <2>2 DEF Looked
    <3>. QED BY <3>1, <3>2, <3>3 DEF Says
  <2>. QED BY <2>3, <2>4
<1>10. /\ cl'.reqno = cl.reqno /\ cl'.wire = cl.wire
       /\ \/ cl'.reqtyp = cl.reqtyp
          \/ cl'.reqtyp = [cl.reqtyp EXCEPT ![REQHASH_INDEX(k)] = "invalid"]
       BY <1>5 DEF Ends
<1>11. \/ cl'.reqtyp = cl.reqtyp
       \/ k \in cl'.overdue
       \/ /\ \A call \in Elements(cl.wire) : call.reqno # k
          /\ \A x \in Elements(inq') :
                Requested(x) => x.reqno # k \/ Shared(cl, k) \/ k \in cl.overdue
       BY <1>8, <1>9
<1>12. Elements(inq') \subseteq Elements(inq) /\ cl.overdue \subseteq cl'.overdue
       BY <1>2
<1>. HIDE DEF k
<1>. QED BY <1>1, <1>4, <1>6, <1>10, <1>11, <1>12, LessTable

(* A grant takes its own entry: nothing else under way has its number.     *)
LEMMA TellsTable ==
    ASSUME TypeOK, TypeOK', Named(cl, inq), Table(cl, inq), inq # <<>>,
           inq' = Tail(inq), cl'.overdue = cl.overdue, cl'.lost = cl.lost,
           Tells(cl', cl, Head(inq))
    PROVE  /\ Table(cl', inq')
           /\ LabelsTrue'
<1>. DEFINE m == Head(inq)
            k == m.reqno
<1>1. cl \in Client /\ cl' \in Client /\ inq \in Seq(Message) /\ inq' \in Seq(Message)
      BY DEF TypeOK
<1>2. Elements(inq) = Elements(inq') \cup {m} BY <1>1, TailElements
<1>3. OnceGranted(inq) /\ Apart(cl, inq) /\ Looked(cl, inq) BY DEF Table
<1>4. /\ OnceGranted(inq')
      /\ \A x \in Elements(inq') : Requested(x) /\ Requested(m) => x.reqno # k
      BY <1>1, <1>3, TailGranted
<1>5. m.kind = "empty" /\ Clears(cl', cl, k) /\ cl'.label = Told(cl, m) BY DEF Tells
<1>. HIDE DEF m
<1>6. m \in Elements(inq) /\ IsGrant(m) BY <1>2, <1>5 DEF IsGrant
<1>7. m \in GrantMsg BY <1>1, <1>6, ElementType, MessageKinds DEF IsGrant
<1>8. /\ \A call \in Elements(cl.wire) : call.reqno \in 1..cl.reqno
      /\ \A x \in Elements(inq) : Requested(x) =>
            /\ x.cause \in {"update", "acquire", "release"}
            /\ x.reqno \in 1..cl.reqno
      BY <1>1, UnderWay
<1>. DEFINE Right == \/ word_for(type_of(cl, k)) = Word[m.cause]
                     \/ Shared(cl, k)
                     \/ k \in cl.overdue
<1>9. /\ k \in 0..cl.reqno
      /\ \A call \in Elements(cl.wire) : call.reqno # k
      /\ \A x \in Elements(inq') : Requested(x) => x.reqno # k
      /\ Right
  <2>1. CASE ~Requested(m)
    <3>1. m.cause = "server" BY <1>6, <2>1 DEF Requested
    <3>2. k = 0 BY <1>6, <3>1 DEF Named
    <3>3. cl.reqno \in Nat /\ 0 \notin 1..cl.reqno BY <1>1 DEF Client
    <3>4. Says(cl, k, "invalid") BY <1>3, <3>2 DEF Looked
    <3>5. word_for("invalid") = Word[m.cause] BY <3>1 DEF word_for, Word
    <3>6. Right BY <3>4, <3>5 DEF Says
    <3>. QED BY <1>2, <1>8, <3>2, <3>3, <3>6
  <2>2. CASE Requested(m)
    <3>1. k \in 1..cl.reqno /\ m.cause \in {"update", "acquire", "release"}
          BY <1>6, <1>8, <2>2
    <3>2. \A call \in Elements(cl.wire) : call.reqno # k
          BY <1>3, <1>6, <2>2 DEF Apart
    <3>3. Says(cl, k, m.cause) BY <1>3, <1>6, <2>2 DEF Looked
    <3>4. word_for(m.cause) = Word[m.cause] BY <3>1 DEF word_for, Word
    <3>5. Right BY <3>3, <3>4 DEF Says
    <3>6. k \in 0..cl.reqno BY <3>1
    <3>. QED BY <1>4, <2>2, <3>2, <3>5, <3>6
  <2>. QED BY <2>1, <2>2
<1>10. /\ cl'.reqno = cl.reqno /\ cl'.wire = cl.wire
       /\ \/ cl'.reqtyp = cl.reqtyp
          \/ cl'.reqtyp = [cl.reqtyp EXCEPT ![REQHASH_INDEX(k)] = "invalid"]
       BY <1>5 DEF Clears
<1>11. LabelsTrue'
  <2>1. /\ cl'.label.word = word_for(type_of(cl, k))
        /\ cl'.label.reqno = k /\ cl'.label.cause = m.cause
        BY <1>5 DEF Told
  <2>2. Shared(cl, k) => Shared(cl', k) BY <1>10 DEF Shared
  <2>. QED BY <1>9, <2>1, <2>2 DEF LabelsTrue
<1>12. Elements(inq') \subseteq Elements(inq) /\ cl.overdue \subseteq cl'.overdue
       BY <1>2
<1>. HIDE DEF k, Right
<1>13. Table(cl', inq') BY <1>1, <1>4, <1>9, <1>10, <1>12, LessTable
<1>. QED BY <1>11, <1>13

LEMMA NextTable ==
    ASSUME TypeOK, TypeOK', Named(cl, inq), Table(cl, inq), LabelsTrue, [Next]_vars
    PROVE  Table(cl', inq') /\ LabelsTrue'
<1>1. cl \in Client /\ cl' \in Client /\ inq \in Seq(Message) /\ inq' \in Seq(Message)
      /\ cl.reqno \in Nat
      BY DEF TypeOK, Client
<1>2. cl'.label = Silent => LabelsTrue' BY DEF LabelsTrue
<1>3. ASSUME cl'.label = cl.label, cl'.reqno = cl.reqno, cl'.overdue = cl.overdue
      PROVE  LabelsTrue'
      BY <1>3 DEF LabelsTrue, Shared
<1>4. ASSUME NEW q \in Seq(Message), Table(cl, q), Named(cl, q),
             NEW r \in Seq(Message), Elements(r) \subseteq Elements(q), OnceGranted(r),
             Same(cl', cl), cl'.lost = cl.lost, cl.overdue \subseteq cl'.overdue
      PROVE  Table(cl', r)
  <2>1. 0 \in 0..cl.reqno BY <1>1
  <2>. QED BY <1>1, <1>4, <2>1, LessTable DEF Same
<1>5. OnceGranted(inq) BY DEF Table
<1>6. CASE UNCHANGED vars BY <1>3, <1>6 DEF vars
<1>7. CASE User
  <2>1. /\ inq' = inq /\ cl'.label = Silent
        /\ cl'.overdue = cl.overdue /\ cl'.lost = cl.lost
        /\ Same(cl', cl) \/ \E t \in MsgType : Asks(cl', cl, t)
        BY <1>7, UserNumbers
  <2>2. CASE Same(cl', cl) BY <1>1, <1>2, <1>4, <1>5, <2>1, <2>2
  <2>3. ASSUME NEW t \in MsgType, Asks(cl', cl, t) PROVE Table(cl', inq')
        BY <1>1, <2>1, <2>3, AsksTable
  <2>. QED BY <1>2, <2>1, <2>2, <2>3
<1>8. CASE MainLoop
  <2>1. /\ inq # <<>> /\ inq' = Tail(inq)
        /\ cl'.overdue = cl.overdue /\ cl'.lost = cl.lost
        /\ \/ \E t \in MsgType : Asks(cl', cl, t) /\ cl'.label = Silent
           \/ Same(cl', cl) /\ cl'.label = Silent
           \/ Finishes(cl', cl, Head(inq)) /\ cl'.label = Silent
           \/ Tells(cl', cl, Head(inq))
        BY <1>8, MainLoopNumbers
  <2>2. Elements(inq') \subseteq Elements(inq) /\ OnceGranted(inq')
        BY <1>1, <1>5, <2>1, TailElements, TailGranted
  <2>3. Named(cl, inq') BY <1>1, <2>1, TailNamed
  <2>4. ASSUME NEW t \in MsgType, Asks(cl', cl, t), cl'.label = Silent
        PROVE  Table(cl', inq') /\ LabelsTrue'
    <3>1. Table(cl', inq) BY <1>1, <2>1, <2>4, AsksTable
    <3>2. Named(cl', inq) BY <1>1, <2>4, AsksNamed
    <3>3. 0 \in 0..cl'.reqno BY <1>1, <2>4 DEF Asks
    <3>4. Table(cl', inq') BY <1>1, <2>2, <3>1, <3>2, <3>3, LessTable
    <3>. QED BY <1>2, <2>4, <3>4
  <2>5. CASE Same(cl', cl) /\ cl'.label = Silent
        BY <1>1, <1>2, <1>4, <2>1, <2>2, <2>5
  <2>6. CASE Finishes(cl', cl, Head(inq)) /\ cl'.label = Silent
        BY <1>2, <2>1, <2>6, FinishesTable
  <2>7. CASE Tells(cl', cl, Head(inq)) BY <2>1, <2>7, TellsTable
  <2>. QED BY <2>1, <2>4, <2>5, <2>6, <2>7
<1>9. CASE Timeout
  <2>1. PICK reply \in cl.replies :
           /\ reply \in Reply
           /\ Ends(cl', cl, reply) /\ inq' = inq /\ cl'.label = Silent
           /\ cl'.overdue = cl.overdue \cup {reply.reqno} /\ cl'.lost = cl.lost
        BY <1>9, TimeoutNumbers
  <2>2. reply.reqno \in 0..cl.reqno
    <3>1. reply.reqno \in 1..cl.reqno BY DEF Named, Fits
    <3>. QED BY <3>1
  <2>3. /\ cl'.reqno = cl.reqno /\ cl'.wire = cl.wire
        /\ \/ cl'.reqtyp = cl.reqtyp
           \/ cl'.reqtyp = [cl.reqtyp EXCEPT ![REQHASH_INDEX(reply.reqno)] = "invalid"]
        BY <2>1 DEF Ends
  <2>4. cl.overdue \subseteq cl'.overdue /\ reply.reqno \in cl'.overdue BY <2>1
  <2>5. Table(cl', inq') BY <1>1, <1>5, <2>1, <2>2, <2>3, <2>4, LessTable
  <2>. QED BY <1>2, <2>1, <2>5
<1>10. CASE Bus
  <2>1. Table(cl', inq') BY <1>10, BusTable
  <2>2. cl'.label = cl.label /\ cl'.reqno = cl.reqno /\ cl'.overdue = cl.overdue
        BY <1>1, <1>10, BusNumbers, MovesFields
  <2>. QED BY <1>3, <2>1, <2>2
<1>11. CASE Manager
  <2>1. Table(cl', inq') BY <1>11, ManagerTable
  <2>2. cl'.label = cl.label /\ cl'.reqno = cl.reqno /\ cl'.overdue = cl.overdue
        BY <1>1, <1>11, ManagerNumbers, MovesFields
  <2>. QED BY <1>3, <2>1, <2>2
<1>. QED BY <1>6, <1>7, <1>8, <1>9, <1>10, <1>11 DEF Next

LabelInv == TypeOK /\ Named(cl, inq) /\ Table(cl, inq) /\ LabelsTrue

(* The word printed for an empty grant tells why the manager sent it, for  *)
(* any length of the table, unless another request shares the entry or the *)
(* request had timed out.                                                  *)
THEOREM LabelsTrueAlways == Spec => []LabelsTrue
<1>1. Init => LabelInv BY InitType, InitNamed, InitTable DEF LabelInv
<1>2. LabelInv /\ [Next]_vars => LabelInv'
      BY NextType, NextNamed, NextTable DEF LabelInv
<1>3. LabelInv => LabelsTrue BY DEF LabelInv
<1>. QED BY <1>1, <1>2, <1>3, PTL DEF Spec
-----------------------------------------------------------------------------
(* What is left when nothing is under way.  From here on a state is looked *)
(* at as the pointer rset and the request table allow: the client runs, no *)
(* killed set came back to life, and the table has not come round.         *)

Good(c) == c.fault = "none" /\ ~c.quit /\ ~c.revived /\ c.reqno < HashDim

(* What a step of the client leaves as it is. *)
Place(d, c) == d.rset.state = c.rset.state /\ d.path = c.path
Marks(d, c) ==
    d.accept = c.accept /\ d.denied = c.denied /\ d.dismissed = c.dismissed
Flow(d, c)  == d.flood = c.flood /\ d.count = c.count
Calls(d, c) == d.wire = c.wire /\ d.replies = c.replies
Wish(d, c)  == d.flags = c.flags /\ d.asked = c.asked /\ d.renewed = c.renewed

(* What the functions do to all but the table and the reference count. *)
Sent(d, c, t, flags) ==
    /\ d.wire = Append(c.wire, [msgtyp |-> t, reqno |-> c.reqno + 1, flags |-> flags])
    /\ d.replies = c.replies \cup {[msgtyp |-> t, reqno |-> c.reqno + 1]}

Wishes(d, c, t, flags) ==
    IF t = "update" THEN d.flags = flags /\ d.asked = flags /\ d.renewed = FALSE
                    ELSE Wish(d, c)

Sends(d, c, t, flags) ==
    /\ Place(d, c) /\ Marks(d, c)
    /\ IF c.rset.state = "connected"
       THEN Sent(d, c, t, flags) /\ Wishes(d, c, t, flags) /\ d.broken = c.broken
       ELSE Calls(d, c) /\ Wish(d, c) /\ d.broken

Connects(d, c) ==
    /\ Sent(d, c, "register", Options)
    /\ Marks(d, c) /\ Flow(d, c) /\ d.broken = c.broken
    /\ d.renewed = TRUE /\ d.asked = c.asked
    /\ IF c.rset.state = "freed"
       THEN d.rset.state = "created" /\ d.path /\ d.flags = Options
       ELSE Place(d, c) /\ d.flags = c.flags

Leaves(d, c) ==
    /\ Sent(d, c, "unregister", NoFlags)
    /\ Marks(d, c) /\ Flow(d, c) /\ d.broken = c.broken /\ Wish(d, c)
    /\ d.rset.state = "killed" /\ ~d.path

Drops(d, c) ==
    /\ Calls(d, c) /\ Flow(d, c) /\ Wish(d, c) /\ d.broken = c.broken
    /\ d.denied = c.denied /\ d.dismissed = c.dismissed
    /\ d.rset.state \in {"killed", "freed"} /\ ~d.path

Answers(d, c, p, err) ==
    /\ d.wire = c.wire /\ d.replies = c.replies \ {p}
    /\ d.path = c.path /\ Flow(d, c) /\ Wish(d, c)
    /\ p.msgtyp # "unregister"
    /\ d.broken <=> c.broken \/ (err /\ p.msgtyp \in {"acquire", "release"})
    /\ IF p.msgtyp # "register"
       THEN Marks(d, c) /\ d.rset.state \in {c.rset.state, "freed"}
       ELSE IF err
       THEN /\ d.rset.state \in {"killed", "freed"} /\ d.denied
            /\ d.accept = c.accept /\ d.dismissed = c.dismissed
       ELSE /\ d.rset.state = "connected" /\ c.path
            /\ d.accept /\ ~d.denied /\ ~d.dismissed

(* Nothing but a flood may be over. *)
Stands(d, c) ==
    /\ Place(d, c) /\ Marks(d, c) /\ Calls(d, c)
    /\ Wish(d, c) /\ d.broken = c.broken

LEMMA NumberedStands ==
    ASSUME NEW c \in Client, NEW t \in MsgType
    PROVE  LET n == numbered(c, t)
           IN  /\ n \in Client /\ n.reqno = c.reqno + 1 /\ n.rset = c.rset
               /\ Stands(n, c) /\ Flow(n, c)
<1>. DEFINE n == numbered(c, t)
<1>1. n \in Client BY NumberedType
<1>2. n = [c EXCEPT !.reqno = n.reqno, !.reqtyp = n.reqtyp] /\ n.reqno = c.reqno + 1
      BY NumberedAsks
<1>. HIDE DEF n
<1>. QED BY <1>1, <1>2 DEF Client, n, Stands, Place, Marks, Calls, Flow, Wish

LEMMA RefState ==
    ASSUME NEW r \in Rset
    PROVE  resset_ref(resset_ref(r)).state = r.state
BY DEF resset_ref, Rset

LEMMA SendSent ==
    ASSUME NEW c \in Client, NEW t, NEW flags
    PROVE  LET d == dbus_send_message(c, call_of(c, t, flags))
           IN  /\ d.wire = Append(c.wire, [msgtyp |-> t, reqno |-> c.reqno,
                                           flags |-> flags])
               /\ d.replies = c.replies \cup {[msgtyp |-> t, reqno |-> c.reqno]}
               /\ Place(d, c) /\ Marks(d, c) /\ Flow(d, c)
               /\ Wish(d, c) /\ d.broken = c.broken
<1>. DEFINE call == call_of(c, t, flags)
            d == dbus_send_message(c, call)
<1>1. call = [msgtyp |-> t, reqno |-> c.reqno, flags |-> flags] BY DEF call_of
<1>2. call.msgtyp = t /\ call.reqno = c.reqno BY <1>1
<1>3. c.rset \in Rset BY DEF Client
<1>. HIDE DEF call
<1>4. /\ d.wire = Append(c.wire, call)
      /\ d.replies = c.replies \cup {[msgtyp |-> call.msgtyp, reqno |-> call.reqno]}
      /\ d.rset = resset_ref(resset_ref(c.rset)) /\ d.path = c.path
      /\ Marks(d, c) /\ Flow(d, c)
      /\ Wish(d, c) /\ d.broken = c.broken
      BY DEF dbus_send_message, Client, Marks, Flow, Wish
<1>5. d.rset.state = c.rset.state BY <1>3, <1>4, RefState
<1>. HIDE DEF d
<1>. QED BY <1>1, <1>2, <1>4, <1>5 DEF Place, call, d

LEMMA SendMessageSends ==
    ASSUME NEW c \in Client, NEW t \in MsgType, NEW flags \in Flags,
           resset_find(c.rset)
    PROVE  LET d == manager_send_message(c, t, flags)
           IN  Sends(d, c, t, flags) /\ Flow(d, c)
<1>. DEFINE n == numbered(c, t)
            o == Asking(n, t, flags)
            s == dbus_send_message(o, call_of(n, t, flags))
            b == [n EXCEPT !.broken = TRUE]
            d == manager_send_message(c, t, flags)
<1>1. /\ n \in Client /\ n.reqno = c.reqno + 1 /\ n.rset = c.rset
      /\ Stands(n, c) /\ Flow(n, c)
      BY NumberedStands
<1>2. d = IF ~resset_find(n.rset) THEN [n EXCEPT !.fault = "stale"]
          ELSE IF may_send(n) THEN s ELSE b
      BY DEF manager_send_message, Asking
<1>. HIDE DEF n, d
<1>3. CASE c.rset.state = "connected"
  <2>1. d = s BY <1>1, <1>2, <1>3 DEF may_send
  <2>2. /\ o \in Client /\ Place(o, n) /\ Marks(o, n) /\ Calls(o, n) /\ Flow(o, n)
        /\ o.broken = n.broken /\ o.reqno = n.reqno
        /\ Wishes(o, n, t, flags)
    <3>1. /\ o \in Client /\ SameBut(o, n)
          /\ t = "update" => o.flags = flags /\ o.asked = flags /\ o.renewed = FALSE
          /\ t # "update" => o = n
          BY <1>1, AskingFields
    <3>. HIDE DEF o
    <3>. QED BY <3>1 DEF SameBut, Place, Marks, Calls, Flow, Wish, Wishes
  <2>3. call_of(n, t, flags) = call_of(o, t, flags) BY <2>2 DEF call_of
  <2>. HIDE DEF o
  <2>4. /\ s.wire = Append(o.wire, [msgtyp |-> t, reqno |-> o.reqno, flags |-> flags])
        /\ s.replies = o.replies \cup {[msgtyp |-> t, reqno |-> o.reqno]}
        /\ Place(s, o) /\ Marks(s, o) /\ Flow(s, o)
        /\ Wish(s, o) /\ s.broken = o.broken
        BY <2>2, <2>3, SendSent
  <2>. HIDE DEF s
  <2>. QED BY <1>1, <1>3, <2>1, <2>2, <2>4
           DEF Sends, Sent, Stands, Place, Marks, Calls, Flow, Wish, Wishes, d
<1>4. CASE c.rset.state # "connected"
  <2>1. d = b BY <1>1, <1>2, <1>4 DEF may_send
  <2>2. Place(b, n) /\ Marks(b, n) /\ Calls(b, n) /\ Flow(b, n)
        /\ Wish(b, n) /\ b.broken
        BY <1>1 DEF Client, Place, Marks, Calls, Flow, Wish
  <2>. HIDE DEF b
  <2>. QED BY <1>1, <1>4, <2>1, <2>2
           DEF Sends, Sent, Stands, Place, Marks, Calls, Flow, Wish, d
<1>. QED BY <1>3, <1>4

LEMMA ConnectConnects ==
    ASSUME NEW c \in Client, Kept(c)
    PROVE  Connects(connect_to_manager(c), c)
<1>. DEFINE n == numbered(c, "register")
            o == Renewing(n, c)
            f == dbus_connect_to_manager(o)
            s == dbus_send_message(f, call_of(n, "register", Options))
            d == connect_to_manager(c)
<1>1. Options \in Flags /\ "register" \in MsgType BY CliAssumption DEF MsgType
<1>2. /\ n \in Client /\ n.reqno = c.reqno + 1 /\ n.rset = c.rset
      /\ Stands(n, c) /\ Flow(n, c)
      BY <1>1, NumberedStands
<1>3. d = IF resset_find(f.rset) THEN s ELSE f
      BY DEF connect_to_manager, resconn_connect, Renewing
<1>. HIDE DEF n, d
<1>4. /\ o \in Client /\ o.reqno = n.reqno /\ o.rset = c.rset /\ o.path = n.path
      /\ Marks(o, n) /\ Calls(o, n) /\ Flow(o, n) /\ o.broken = n.broken
      /\ o.renewed = TRUE /\ o.asked = n.asked
      /\ o.flags = IF resset_find(c.rset) THEN n.flags ELSE Options
  <2>1. /\ o \in Client /\ SameBut(o, n) /\ o.renewed = TRUE /\ o.asked = n.asked
        /\ o.flags = IF resset_find(c.rset) THEN n.flags ELSE Options
        BY <1>2, RenewingFields
  <2>. HIDE DEF o
  <2>. QED BY <1>2, <2>1 DEF SameBut, Marks, Calls, Flow
<1>5. call_of(n, "register", Options) = call_of(f, "register", Options)
      /\ f.reqno = n.reqno
      BY <1>4 DEF call_of, dbus_connect_to_manager, Client
<1>. HIDE DEF o
<1>6. /\ f \in Client /\ Marks(f, o) /\ Calls(f, o) /\ Flow(f, o)
      /\ f.broken = o.broken /\ Wish(f, o)
      BY <1>4, FindType DEF dbus_connect_to_manager, Client, Marks, Calls, Flow, Wish
<1>7. IF c.rset.state = "freed" THEN f.rset.state = "created" /\ f.path
                                ELSE f.rset = c.rset /\ f.path = c.path
  <2>1. c.rset.state = "freed" => ~c.path
    <3>1. c.path => c.rset.refcnt = Held(c) + 1 /\ Held(c) \in Nat
          BY HeldType DEF Kept, Counted
    <3>. QED BY <3>1 DEF Kept, Counted
  <2>2. o.path = c.path BY <1>2, <1>4 DEF Stands, Place
  <2>3. CASE c.rset.state = "freed"
    <3>1. f = [o EXCEPT !.path = TRUE, !.rset = resset_create("created")]
          BY <1>4, <2>1, <2>2, <2>3 DEF dbus_connect_to_manager, resset_find, Client
    <3>. HIDE DEF f
    <3>. QED BY <1>4, <2>3, <3>1 DEF resset_create, Client
  <2>4. CASE c.rset.state # "freed"
        BY <1>4, <2>2, <2>4 DEF dbus_connect_to_manager, resset_find
  <2>. QED BY <2>3, <2>4
<1>8. resset_find(f.rset)
      BY <1>7 DEF resset_find
<1>. HIDE DEF f
<1>9. /\ s.wire = Append(f.wire, [msgtyp |-> "register", reqno |-> f.reqno,
                                  flags |-> Options])
      /\ s.replies = f.replies \cup {[msgtyp |-> "register", reqno |-> f.reqno]}
      /\ Place(s, f) /\ Marks(s, f) /\ Flow(s, f)
      /\ Wish(s, f) /\ s.broken = f.broken
      BY <1>5, <1>6, SendSent
<1>. HIDE DEF s
<1>10. d = s BY <1>3, <1>8
<1>. QED BY <1>2, <1>4, <1>5, <1>6, <1>7, <1>9, <1>10
         DEF Connects, Sent, Stands, Place, Marks, Calls, Flow, resset_find, Wish, d

LEMMA DisconnectLeaves ==
    ASSUME NEW c \in Client, NEW q, Named(c, q), Kept(c), resset_find(c.rset)
    PROVE  LET d == disconnect_from_manager(c)
           IN  IF c.rset.state = "connected" THEN Leaves(d, c)
               ELSE Stands(d, c) /\ Flow(d, c)
<1>. DEFINE n == numbered(c, "unregister")
            s == dbus_send_message(n, call_of(n, "unregister", NoFlags))
            d == dbus_disconnect_from_manager(s)
            e == disconnect_from_manager(c)
<1>1. "unregister" \in MsgType /\ NoFlags \in Flags BY NoFlagsType DEF MsgType
<1>2. /\ n \in Client /\ n.reqno = c.reqno + 1 /\ n.rset = c.rset
      /\ Stands(n, c) /\ Flow(n, c)
      BY <1>1, NumberedStands
<1>3. call_of(n, "unregister", NoFlags) \in Call BY <1>1, NumberedType
<1>4. e = IF may_send(n) THEN d ELSE n
      BY <1>2 DEF disconnect_from_manager, resconn_disconnect
<1>5. Kept(e) BY DisconnectKept
<1>. HIDE DEF n, e
<1>6. CASE c.rset.state = "connected"
  <2>1. /\ s.wire = Append(n.wire, [msgtyp |-> "unregister", reqno |-> n.reqno,
                                    flags |-> NoFlags])
        /\ s.replies = n.replies \cup {[msgtyp |-> "unregister", reqno |-> n.reqno]}
        /\ Place(s, n) /\ Marks(s, n) /\ Flow(s, n)
        /\ Wish(s, n) /\ s.broken = n.broken
        BY <1>2, SendSent
  <2>2. s \in Client BY <1>2, <1>3, SendType
  <2>. HIDE DEF s
  <2>3. /\ Calls(d, s) /\ Marks(d, s) /\ Flow(d, s) /\ d.path = FALSE
        /\ Wish(d, s) /\ d.broken = s.broken
        BY <2>2 DEF dbus_disconnect_from_manager, Client, Calls, Marks, Flow, Wish
  <2>. HIDE DEF d
  <2>4. e = d BY <1>2, <1>4, <1>6 DEF may_send
  <2>5. Sent(e, c, "unregister", NoFlags)
        BY <1>2, <2>1, <2>3, <2>4 DEF Sent, Stands, Calls
  <2>6. Leaving(e)
    <3>. DEFINE p == [msgtyp |-> "unregister", reqno |-> c.reqno + 1]
    <3>1. p \in e.replies BY <2>5 DEF Sent
    <3>2. p.msgtyp = "unregister" OBVIOUS
    <3>. HIDE DEF p
    <3>. QED BY <3>1, <3>2 DEF Leaving
  <2>7. e.rset.state = "killed" /\ ~e.path BY <1>5, <2>6 DEF Kept, Accepts
  <2>. QED BY <1>2, <1>6, <2>1, <2>3, <2>4, <2>5, <2>7
           DEF Leaves, Stands, Marks, Flow, Wish, e
<1>7. CASE c.rset.state # "connected"
  <2>1. e = n BY <1>2, <1>4, <1>7 DEF may_send
  <2>. QED BY <1>2, <1>7, <2>1 DEF e
<1>. QED BY <1>6, <1>7

LEMMA LinkDownDrops ==
    ASSUME NEW c \in Client, Kept(c)
    PROVE  LET d == link_down(c)
           IN  Drops(d, c) /\ (d.accept => c.accept)
<1>. DEFINE t == IF may_send(c) THEN [c EXCEPT !.accept = FALSE] ELSE c
            e == dbus_disconnect_from_manager(t)
            d == link_down(c)
<1>1. /\ t \in Client /\ t.rset = c.rset /\ Calls(t, c) /\ Flow(t, c)
      /\ t.denied = c.denied /\ t.dismissed = c.dismissed /\ Wish(t, c)
      /\ t.broken = c.broken /\ (t.accept => c.accept)
  <2>1. CASE may_send(c)
    <3>1. t = [c EXCEPT !.accept = FALSE] BY <2>1
    <3>. HIDE DEF t
    <3>. QED BY <3>1 DEF Client, Calls, Flow, Wish
  <2>2. CASE ~may_send(c)
    <3>1. t = c BY <2>2
    <3>. HIDE DEF t
    <3>. QED BY <3>1 DEF Calls, Flow, Wish
  <2>. QED BY <2>1, <2>2
<1>2. d = IF resset_find(c.rset) THEN e ELSE c BY DEF link_down
<1>. HIDE DEF t, d
<1>3. c.rset \in Rset BY DEF Client
<1>4. CASE resset_find(c.rset)
  <2>1. /\ e.rset = resset_destroy(t.rset) /\ e.path = FALSE
        /\ Calls(e, t) /\ Flow(e, t) /\ e.accept = t.accept
        /\ e.denied = t.denied /\ e.dismissed = t.dismissed /\ Wish(e, t)
        /\ e.broken = t.broken
        BY <1>1 DEF dbus_disconnect_from_manager, Client, Calls, Flow, Wish
  <2>2. resset_destroy(c.rset).state \in {"killed", "freed"}
    <3>. DEFINE k == [c.rset EXCEPT !.state = "killed"]
    <3>1. k \in Rset /\ k.state = "killed" BY <1>3 DEF Rset, RsetState
    <3>. HIDE DEF k
    <3>2. resset_unref(k).state \in {"killed", "freed"}
          BY <3>1 DEF resset_unref, Freed, Rset
    <3>. QED BY <3>2 DEF resset_destroy, k
  <2>. HIDE DEF e
  <2>. QED BY <1>1, <1>2, <1>4, <2>1, <2>2 DEF Drops, Calls, Flow, Wish, d
<1>5. CASE ~resset_find(c.rset)
  <2>1. c.rset.state = "freed" BY <1>5 DEF resset_find
  <2>2. ~c.path
    <3>1. c.path => c.rset.refcnt = Held(c) + 1 /\ Held(c) \in Nat
          BY HeldType DEF Kept, Counted
    <3>. QED BY <2>1, <3>1 DEF Kept, Counted
  <2>. QED BY <1>2, <1>5, <2>1, <2>2 DEF Drops, Calls, Flow, Wish, d
<1>. QED BY <1>4, <1>5

LEMMA StatusMarks ==
    ASSUME NEW a \in Client, NEW reply \in Reply, NEW err \in BOOLEAN,
           \/ type_of(a, reply.reqno) = reply.msgtyp
           \/ /\ type_of(a, reply.reqno) = "invalid"
              /\ reply.msgtyp \notin {"register", "unregister"}
    PROVE  LET b == manager_status(a, reply, err)
           IN  /\ b.rset = a.rset /\ b.path = a.path /\ Calls(b, a) /\ Flow(b, a)
               /\ Wish(b, a)
               /\ err => /\ b.accept = a.accept /\ b.dismissed = a.dismissed
                         /\ b.denied <=> a.denied \/ reply.msgtyp = "register"
                         /\ b.broken <=> a.broken \/ reply.msgtyp \in
                                                       {"acquire", "release"}
               /\ ~err => b.broken = a.broken
               /\ ~err /\ reply.msgtyp = "register" =>
                     b.accept /\ ~b.denied /\ ~b.dismissed
               /\ ~err /\ reply.msgtyp = "unregister" => b.quit
               /\ ~err /\ reply.msgtyp \notin {"register", "unregister"} => Marks(b, a)
<1>. DEFINE b == manager_status(a, reply, err)
            k == with_type(a, reply.reqno, "invalid")
            same(x, y) == /\ x.rset = y.rset /\ x.path = y.path /\ Calls(x, y)
                          /\ Flow(x, y) /\ Wish(x, y)
<1>1. k \in Client BY WithType DEF ReqTyp
<1>2. same(k, a) /\ Marks(k, a) /\ k.broken = a.broken
      BY DEF with_type, Client, Calls, Flow, Marks, Wish
<1>3. CASE err
  <2>1. b = [k EXCEPT !.broken = @ \/ reply.msgtyp \in {"acquire", "release"},
                      !.denied = @ \/ reply.msgtyp = "register"]
        BY <1>3 DEF manager_status
  <2>. HIDE DEF b, k
  <2>2. same(b, k) /\ b.accept = k.accept /\ b.dismissed = k.dismissed
        BY <1>1, <2>1 DEF Client, Calls, Flow, Wish
  <2>3. /\ b.denied <=> k.denied \/ reply.msgtyp = "register"
        /\ b.broken <=> k.broken \/ reply.msgtyp \in {"acquire", "release"}
        BY <1>1, <2>1 DEF Client
  <2>4. same(b, a) /\ b.accept = a.accept /\ b.dismissed = a.dismissed
        BY <1>2, <2>2 DEF Marks, Calls, Flow, Wish
  <2>5. /\ b.denied <=> a.denied \/ reply.msgtyp = "register"
        /\ b.broken <=> a.broken \/ reply.msgtyp \in {"acquire", "release"}
        BY <1>2, <2>3 DEF Marks
  <2>. HIDE DEF same
  <2>. QED BY <1>3, <2>4, <2>5 DEF b, same
<1>4. CASE ~err /\ reply.msgtyp = "register"
  <2>1. type_of(a, reply.reqno) = "register" BY <1>4
  <2>2. b = [k EXCEPT !.accept = TRUE, !.denied = FALSE, !.dismissed = FALSE]
        BY <1>4, <2>1 DEF manager_status
  <2>. HIDE DEF b, k
  <2>3. same(b, k) /\ b.accept /\ ~b.denied /\ ~b.dismissed /\ b.broken = k.broken
        BY <1>1, <2>2 DEF Client, Calls, Flow, Wish
  <2>. QED BY <1>2, <1>4, <2>3 DEF Calls, Flow, Wish, b
<1>5. CASE ~err /\ reply.msgtyp = "unregister"
  <2>1. type_of(a, reply.reqno) = "unregister" BY <1>5
  <2>2. b = [a EXCEPT !.accept = FALSE, !.quit = TRUE]
        BY <1>5, <2>1 DEF manager_status
  <2>. HIDE DEF b
  <2>3. same(b, a) /\ b.quit /\ b.broken = a.broken
        BY <2>2 DEF Client, Calls, Flow, Wish
  <2>. QED BY <1>5, <2>3 DEF b
<1>6. CASE ~err /\ reply.msgtyp \notin {"register", "unregister"}
  <2>1. type_of(a, reply.reqno) \notin {"register", "unregister"} BY <1>6
  <2>2. b = a BY <1>6, <2>1 DEF manager_status
  <2>. QED BY <1>6, <2>2 DEF Calls, Flow, Marks, Wish
<1>. QED BY <1>3, <1>4, <1>5, <1>6

LEMMA StatusMethodAnswers ==
    ASSUME NEW c \in Client, Kept(c), Noted(c), NEW reply \in c.replies,
           NEW err \in BOOLEAN, c.fault = "none",
           Good(status_method(c, reply, err))
    PROVE  Answers(status_method(c, reply, err), c, reply, err)
<1>. DEFINE t == reply.msgtyp
            a == answered(c, t, err)
            b == manager_status(a, reply, err)
            d == status_method(c, reply, err)
<1>1. reply \in Reply /\ t \in MsgType BY DEF Client, Reply
<1>2. /\ a \in Client /\ a.replies = c.replies /\ a.path = c.path
      /\ t = "register" /\ ~err =>
            /\ a.rset = [c.rset EXCEPT !.state = "connected"]
            /\ c.rset.state = "killed" /\ ~c.path => a.revived
      /\ t = "register" /\ err => a.rset = [c.rset EXCEPT !.state = "killed"]
      /\ t = "unregister" /\ err =>
            /\ a.rset = [resset_ref(c.rset) EXCEPT !.state = "connected"]
            /\ c.rset.state = "killed" => a.revived
      /\ t \notin {"register", "unregister"} \/ (t = "unregister" /\ ~err) =>
            a.rset = c.rset
      /\ a.reqtyp = c.reqtyp
      BY <1>1, AnsweredFields
<1>3. a.wire = c.wire /\ Flow(a, c) /\ Marks(a, c) /\ Wish(a, c)
      /\ a.broken = c.broken
      BY DEF answered, Client, Flow, Marks, Wish
<1>4. d = reply_done(b, reply) BY DEF status_method
<1>. HIDE DEF a, d
<1>5. \/ type_of(a, reply.reqno) = t
      \/ type_of(a, reply.reqno) = "invalid" /\ t \notin {"register", "unregister"}
      BY <1>2 DEF Noted, type_of
<1>6. /\ b.rset = a.rset /\ b.path = a.path /\ Calls(b, a) /\ Flow(b, a)
      /\ Wish(b, a)
      /\ err => /\ b.accept = a.accept /\ b.dismissed = a.dismissed
                /\ b.denied <=> a.denied \/ t = "register"
                /\ b.broken <=> a.broken \/ t \in {"acquire", "release"}
      /\ ~err => b.broken = a.broken
      /\ ~err /\ t = "register" => b.accept /\ ~b.denied /\ ~b.dismissed
      /\ ~err /\ t = "unregister" => b.quit
      /\ ~err /\ t \notin {"register", "unregister"} => Marks(b, a)
      BY <1>1, <1>2, <1>5, StatusMarks
<1>7. b \in Client /\ b.revived = a.revived
      BY <1>1, <1>2, <1>5, StatusFields
<1>. HIDE DEF b
<1>8. /\ d.wire = b.wire /\ d.replies = b.replies \ {reply} /\ d.path = b.path
      /\ Flow(d, b) /\ Marks(d, b) /\ Wish(d, b) /\ d.broken = b.broken
      /\ d.quit = b.quit /\ d.revived = b.revived
      /\ d.rset = resset_unref(resset_unref(b.rset))
      BY <1>4, <1>7 DEF reply_done, Client, Flow, Marks, Wish
<1>9. Kept(d)
  <2>1. d.quit \/ d.revived \/ Kept(d)
        BY <1>1, StatusMethodKept DEF d, Noted
  <2>. QED BY <2>1 DEF Good, d
<1>10. ~b.quit /\ ~a.revived BY <1>7, <1>8 DEF Good, d
<1>11. c.rset \in Rset /\ a.rset \in Rset /\ c.path \in BOOLEAN
       /\ c.rset.state # "freed"
  <2>1. Held(c) > 0
    <3>1. Cardinality(c.replies) \in Nat /\ Cardinality(c.replies) # 0
          BY FS_CardinalityType, FS_EmptySet DEF Kept
    <3>. QED BY <3>1 DEF Held
  <2>2. Held(c) \in Nat BY HeldType DEF Kept
  <2>. QED BY <1>2, <2>1, <2>2 DEF Client, Kept, Counted
<1>12. d.rset.state \in {a.rset.state, "freed"}
  <2>1. \A r \in Rset : resset_unref(r) \in Rset
                        /\ resset_unref(r).state \in {r.state, "freed"}
        BY UnrefType DEF resset_unref, Freed, Rset
  <2>2. resset_unref(a.rset) \in Rset BY <1>11, <2>1
  <2>. QED BY <1>6, <1>8, <1>11, <2>1, <2>2
<1>13. t # "unregister"
  <2>1. t = "unregister" => c.rset.state = "killed" BY DEF Kept, Accepts, Leaving
  <2>. QED BY <1>2, <1>6, <1>10, <2>1
<1>14. \A x \in RsetState : [c.rset EXCEPT !.state = x].state = x
       BY <1>11 DEF Rset
<1>15. t = "register" /\ ~err => d.rset.state = "connected" /\ c.path
  <2>. SUFFICES ASSUME t = "register", ~err
                PROVE  d.rset.state = "connected" /\ c.path
       OBVIOUS
  <2>1. a.rset.state = "connected" BY <1>2, <1>14 DEF RsetState
  <2>2. c.path
        BY <1>2, <1>10, <1>11 DEF Kept, Counted, Rset, RsetState
  <2>3. d.path /\ Held(d) \in Nat BY <1>2, <1>6, <1>8, <1>9, <2>2, HeldType DEF Kept
  <2>4. d.rset.state # "freed" BY <1>9, <2>3 DEF Kept, Counted
  <2>. QED BY <1>12, <2>1, <2>2, <2>4
<1>16. t = "register" /\ err => d.rset.state \in {"killed", "freed"}
       BY <1>2, <1>12, <1>14 DEF RsetState
<1>17. t # "register" => d.rset.state \in {c.rset.state, "freed"}
       BY <1>2, <1>12, <1>13
<1>18. d.wire = c.wire /\ d.replies = c.replies \ {reply} /\ d.path = c.path
       /\ Flow(d, c) /\ Wish(d, c)
       BY <1>2, <1>3, <1>6, <1>8 DEF Calls, Flow, Wish
<1>19. d.broken <=> c.broken \/ (err /\ t \in {"acquire", "release"})
       BY <1>3, <1>6, <1>8
<1>20. t # "register" => Marks(d, c)
  <2>1. Marks(d, b) /\ Marks(a, c) BY <1>3, <1>8
  <2>2. err /\ t # "register" => Marks(b, a)
    <3>1. c.denied \in BOOLEAN /\ a.denied \in BOOLEAN /\ b.denied \in BOOLEAN
          BY <1>2, <1>7 DEF Client
    <3>. QED BY <1>6, <3>1 DEF Marks
  <2>3. t # "register" => Marks(b, a) BY <1>6, <1>13, <2>2
  <2>. QED BY <2>1, <2>3 DEF Marks
<1>21. t = "register" /\ ~err => d.accept /\ ~d.denied /\ ~d.dismissed
       BY <1>6, <1>8 DEF Marks
<1>22. t = "register" /\ err =>
          d.denied /\ d.accept = c.accept /\ d.dismissed = c.dismissed
       BY <1>3, <1>6, <1>8 DEF Marks
<1>. HIDE DEF t
<1>. QED BY <1>13, <1>15, <1>16, <1>17, <1>18, <1>19, <1>20, <1>21, <1>22
         DEF Answers, d, t, Wish

(* The label is of no account. *)
Alike(d, c) == Stands(d, c) /\ Flow(d, c) /\ d.reqno = c.reqno

LEMMA AlikeAfter ==
    ASSUME NEW d, NEW c, Alike(d, c)
    PROVE  \A b : /\ \A t, flags : Sends(c, b, t, flags) => Sends(d, b, t, flags)
                  /\ Leaves(c, b) => Leaves(d, b)
                  /\ Stands(c, b) => Stands(d, b)
                  /\ Flow(c, b) => Flow(d, b)
<1>. TAKE b
<1>1. ASSUME NEW t, NEW flags, Sends(c, b, t, flags) PROVE Sends(d, b, t, flags)
      BY <1>1 DEF Alike, Stands, Sends, Sent, Place, Marks, Calls, Wish, Wishes
<1>2. Leaves(c, b) => Leaves(d, b)
      BY DEF Alike, Stands, Leaves, Sent, Place, Marks, Calls, Flow, Wish
<1>3. /\ Stands(c, b) => Stands(d, b)
      /\ Flow(c, b) => Flow(d, b)
      BY DEF Alike, Stands, Place, Marks, Calls, Flow, Wish
<1>. QED BY <1>1, <1>2, <1>3

LEMMA AlikeBefore ==
    ASSUME NEW c, NEW b, Alike(c, b)
    PROVE  \A d : /\ \A t, flags : Sends(d, c, t, flags) => Sends(d, b, t, flags)
                  /\ \A p, err : Answers(d, c, p, err) => Answers(d, b, p, err)
                  /\ Connects(d, c) => Connects(d, b)
                  /\ Drops(d, c) => Drops(d, b)
                  /\ Stands(d, c) => Stands(d, b)
                  /\ Flow(d, c) => Flow(d, b)
<1>. TAKE d
<1>1. ASSUME NEW t, NEW flags, Sends(d, c, t, flags) PROVE Sends(d, b, t, flags)
      BY <1>1 DEF Alike, Stands, Sends, Sent, Place, Marks, Calls, Wish, Wishes
<1>2. ASSUME NEW p, NEW err, Answers(d, c, p, err) PROVE Answers(d, b, p, err)
      BY <1>2 DEF Alike, Stands, Answers, Place, Marks, Calls, Flow, Wish
<1>3. Connects(d, c) => Connects(d, b)
      BY DEF Alike, Stands, Connects, Sent, Place, Marks, Calls, Flow, Wish
<1>4. /\ Drops(d, c) => Drops(d, b)
      /\ Stands(d, c) => Stands(d, b)
      /\ Flow(d, c) => Flow(d, b)
      BY DEF Alike, Stands, Drops, Place, Marks, Calls, Flow, Wish
<1>. QED BY <1>1, <1>2, <1>3, <1>4

LEMMA LabelAlike ==
    ASSUME NEW c \in Client, NEW label
    PROVE  Alike([c EXCEPT !.label = label], c)
BY DEF Client, Alike, Stands, Place, Marks, Calls, Flow, Wish

(* A good state has a past that was good, and the pointer is sound. *)
LEMMA GoodBefore ==
    ASSUME Inv, Inv', User \/ MainLoop \/ Timeout, Good(cl')
    PROVE  /\ Good(cl) /\ Kept(cl) /\ Noted(cl) /\ Kept(cl') /\ Noted(cl')
           /\ cl.reqno <= cl'.reqno
<1>1. TypeOK /\ TypeOK' /\ Named(cl, inq) /\ Sound(cl) /\ Sound(cl') BY DEF Inv
<1>2. cl.fault = "none" /\ ~cl.quit
      BY DEF User, Send, Update, Disconnect, Flood, Stop, Quit, Command,
             MainLoop, DispatchAnswer, DispatchNotice, DispatchUp,
             DispatchDown, Dispatch, Timeout, Running
<1>3. Stays(cl', cl) /\ cl.reqno <= cl'.reqno
      BY <1>1, UserStays, MainLoopStays, TimeoutStays, NotedNext
<1>4. cl.reqno \in Nat /\ cl'.reqno \in Nat /\ HashDim \in Nat
      BY <1>1, CliAssumption DEF TypeOK, Client
<1>5. Good(cl) BY <1>2, <1>3, <1>4 DEF Good, Stays
<1>. QED BY <1>1, <1>3, <1>5 DEF Good, Sound

(* What a command does, and a message that is dispatched. *)
Commands(d, c) ==
    \/ /\ \E t \in Sendable \cup {"update"}, flags \in Flags : Sends(d, c, t, flags)
       /\ Flow(d, c)
    \/ /\ Sends(d, c, "acquire", NoFlags)
       /\ d.flood \in Floods \ {0} /\ d.count = c.count
    \/ Leaves(d, c)
    \/ Stands(d, c) /\ (Flow(d, c) \/ (d.flood = 0 /\ d.count = 0))

LEMMA UserCommands ==
    ASSUME Inv, Inv', User, Good(cl')
    PROVE  Commands(cl', cl) /\ cl.accept
<1>1. /\ cl \in Client /\ NoFlags \in Flags /\ Floods \subseteq Nat
      /\ Sendable \subseteq MsgType /\ "update" \in MsgType /\ "acquire" \in MsgType
      /\ Updates \subseteq Flags /\ Named(cl, inq)
      BY NoFlagsType, CliAssumption DEF Inv, TypeOK, MsgType
<1>2. cl.accept
      BY DEF User, Send, Update, Disconnect, Flood, Stop, Quit, Command
<1>. SUFFICES Commands(cl', cl) BY <1>2
<1>3. Kept(cl) BY GoodBefore
<1>4. resset_find(cl.rset) BY <1>1, <1>2, <1>3, AcceptingFinds
<1>5. ASSUME NEW after \in Client, Command(after), Commands(after, cl)
      PROVE  Commands(cl', cl)
  <2>1. Alike(cl', after) BY <1>5, LabelAlike DEF Command
  <2>2. cl'.flood = after.flood /\ cl'.count = after.count
        BY <2>1 DEF Alike, Flow
  <2>. QED BY <1>5, <2>1, <2>2, AlikeAfter DEF Commands
<1>6. ASSUME NEW t \in Sendable \cup {"update"}, NEW flags \in Flags,
             Command(manager_send_message(cl, t, flags))
      PROVE  Commands(cl', cl)
  <2>. DEFINE d == manager_send_message(cl, t, flags)
  <2>1. d \in Client BY <1>1, SendMessageType
  <2>2. Sends(d, cl, t, flags) /\ Flow(d, cl) BY <1>1, <1>4, SendMessageSends
  <2>. HIDE DEF d
  <2>3. Commands(d, cl) BY <2>2 DEF Commands
  <2>. QED BY <1>5, <1>6, <2>1, <2>3 DEF d
<1>7. CASE Send
  <2>1. PICK t \in Sendable : Command(manager_send_message(cl, t, NoFlags))
        BY <1>7 DEF Send
  <2>. QED BY <1>1, <1>6, <2>1
<1>8. CASE Update
  <2>1. PICK f \in Updates : Command(manager_send_message(cl, "update", f))
        BY <1>8 DEF Update
  <2>. QED BY <1>1, <1>6, <2>1
<1>9. CASE Disconnect
  <2>. DEFINE d == disconnect_from_manager(cl)
  <2>1. d \in Client BY <1>1, DisconnectType
  <2>2. Leaves(d, cl) \/ (Stands(d, cl) /\ Flow(d, cl))
        BY <1>1, <1>3, <1>4, DisconnectLeaves
  <2>3. Command(d) BY <1>9 DEF Disconnect
  <2>. HIDE DEF d
  <2>4. Commands(d, cl) BY <2>2 DEF Commands
  <2>. QED BY <1>5, <2>1, <2>3, <2>4
<1>10. ASSUME Command([cl EXCEPT !.flood = 0, !.count = 0])
       PROVE  Commands(cl', cl)
  <2>. DEFINE k == [cl EXCEPT !.flood = 0, !.count = 0]
  <2>1. k \in Client /\ Stands(k, cl) /\ k.flood = 0 /\ k.count = 0
        BY <1>1 DEF Client, Stands, Place, Marks, Calls, Wish
  <2>2. Command(k) BY <1>10
  <2>. HIDE DEF k
  <2>3. Commands(k, cl) BY <2>1 DEF Commands
  <2>. QED BY <1>5, <2>1, <2>2, <2>3
<1>11. CASE Flood
  <2>1. PICK n \in Floods :
           Command(IF n = 0 THEN [cl EXCEPT !.flood = 0, !.count = 0]
                   ELSE manager_send_message([cl EXCEPT !.flood = n], "acquire",
                                             NoFlags))
        BY <1>11 DEF Flood
  <2>2. CASE n = 0 BY <1>10, <2>1, <2>2
  <2>3. CASE n # 0
    <3>. DEFINE k == [cl EXCEPT !.flood = n]
                d == manager_send_message(k, "acquire", NoFlags)
    <3>1. /\ k \in Client /\ Stands(k, cl) /\ k.flood = n /\ k.count = cl.count
          /\ k.reqno = cl.reqno /\ k.rset = cl.rset
          BY <1>1 DEF Client, Stands, Place, Marks, Calls, Wish
    <3>2. Command(d) BY <2>1, <2>3
    <3>. HIDE DEF k
    <3>3. d \in Client BY <1>1, <3>1, SendMessageType
    <3>4. Sends(d, k, "acquire", NoFlags) /\ Flow(d, k)
          BY <1>1, <1>4, <3>1, SendMessageSends
    <3>. HIDE DEF d
    <3>5. Sends(d, cl, "acquire", NoFlags)
          BY <3>1, <3>4 DEF Sends, Sent, Stands, Place, Marks, Calls, Wish, Wishes
    <3>6. d.flood \in Floods \ {0} /\ d.count = cl.count
          BY <2>3, <3>1, <3>4 DEF Flow
    <3>7. Commands(d, cl) BY <3>5, <3>6 DEF Commands
    <3>. QED BY <1>5, <3>2, <3>3, <3>7
  <2>. QED BY <2>2, <2>3
<1>12. CASE Stop BY <1>10, <1>12 DEF Stop
<1>13. CASE Quit
  <2>1. cl'.quit BY <1>1, <1>13 DEF Quit, Command, Client
  <2>. QED BY <2>1 DEF Good
<1>. QED BY <1>7, <1>8, <1>9, <1>11, <1>12, <1>13 DEF User

Dismisses(d, c) ==
    /\ Place(d, c) /\ Calls(d, c) /\ Flow(d, c)
    /\ Wish(d, c) /\ d.broken = c.broken /\ d.denied = c.denied
    /\ ~d.accept /\ d.dismissed

(* A notice the client takes: the set is there and has its path. *)
Heeds(d, c, m) ==
    \/ m.kind = "unregister" /\ Dismisses(d, c)
    \/ m.kind = "release" /\ Sends(d, c, "release", NoFlags) /\ Flow(d, c)
    \/ /\ m.kind = "advice" \/ (m.kind \in {"full", "empty"} /\ c.flood = 0)
       /\ Stands(d, c) /\ Flow(d, c)
    \/ /\ m.kind = "empty" /\ c.flood # 0
       /\ Sends(d, c, "acquire", NoFlags) /\ Flow(d, c)
    \/ /\ m.kind = "full" /\ c.flood # 0 /\ c.count + 1 >= c.flood
       /\ Stands(d, c) /\ d.flood = 0 /\ d.count = 0
    \/ /\ m.kind = "full" /\ c.flood # 0 /\ c.count + 1 < c.flood
       /\ Sends(d, c, "release", NoFlags)
       /\ d.flood = c.flood /\ d.count = c.count + 1

LEMMA ReceiveHeeds ==
    ASSUME NEW c \in Client, resset_find(c.rset), NEW m, m.kind \in NoticeKind
    PROVE  Heeds(manager_receive_message(c, m), c, m)
<1>. DEFINE d == manager_receive_message(c, m)
<1>1. NoFlags \in Flags /\ "acquire" \in MsgType /\ "release" \in MsgType
      /\ c.flood \in Nat /\ c.count \in Nat
      BY NoFlagsType DEF MsgType, Client
<1>2. CASE m.kind = "unregister"
  <2>1. d = [c EXCEPT !.accept = FALSE, !.dismissed = TRUE]
        BY <1>2 DEF manager_receive_message
  <2>. HIDE DEF d
  <2>2. Dismisses(d, c) BY <2>1 DEF Client, Dismisses, Place, Calls, Flow, Wish
  <2>. QED BY <1>2, <2>2 DEF Heeds, d
<1>3. CASE m.kind = "release"
  <2>1. d = manager_send_message(c, "release", NoFlags)
        BY <1>3 DEF manager_receive_message
  <2>. HIDE DEF d
  <2>2. Sends(d, c, "release", NoFlags) /\ Flow(d, c)
        BY <1>1, <2>1, SendMessageSends
  <2>. QED BY <1>3, <2>2 DEF Heeds, d
<1>4. ASSUME Stands(d, c), Flow(d, c),
             m.kind = "advice" \/ (m.kind \in {"full", "empty"} /\ c.flood = 0)
      PROVE  Heeds(d, c, m)
      BY <1>4 DEF Heeds
<1>5. CASE m.kind = "advice"
  <2>1. d = c BY <1>5 DEF manager_receive_message
  <2>2. Stands(c, c) /\ Flow(c, c) BY DEF Stands, Place, Marks, Calls, Flow, Wish
  <2>. QED BY <1>4, <1>5, <2>1, <2>2
<1>6. CASE m.kind \in {"full", "empty"} /\ c.flood = 0
  <2>. DEFINE k == with_type(c, m.reqno, "invalid")
              label == [word |-> word_for(type_of(c, m.reqno)),
                        reqno |-> m.reqno, cause |-> m.cause]
  <2>1. d = IF m.kind = "full" THEN c ELSE [k EXCEPT !.label = label]
        BY <1>6 DEF manager_receive_message, granted
  <2>2. k \in Client /\ Stands(k, c) /\ Flow(k, c)
    <3>1. k \in Client BY WithType DEF ReqTyp
    <3>2. Stands(k, c) /\ Flow(k, c)
          BY DEF with_type, Client, Stands, Place, Marks, Calls, Flow, Wish
    <3>. QED BY <3>1, <3>2
  <2>. HIDE DEF d, k
  <2>3. Alike([k EXCEPT !.label = label], k) BY <2>2, LabelAlike
  <2>. HIDE DEF label
  <2>4. Stands(c, c) /\ Flow(c, c) BY DEF Stands, Place, Marks, Calls, Flow, Wish
  <2>5. Stands(d, c) /\ Flow(d, c) BY <2>1, <2>2, <2>3, <2>4, AlikeAfter
  <2>. QED BY <1>6, <2>5 DEF Heeds, d
<1>7. CASE m.kind = "empty" /\ c.flood # 0
  <2>1. d = manager_send_message(c, "acquire", NoFlags)
        BY <1>7 DEF manager_receive_message, granted_in_flood
  <2>. HIDE DEF d
  <2>2. Sends(d, c, "acquire", NoFlags) /\ Flow(d, c)
        BY <1>1, <2>1, SendMessageSends
  <2>. QED BY <1>7, <2>2 DEF Heeds, d
<1>8. CASE m.kind = "full" /\ c.flood # 0 /\ c.count + 1 >= c.flood
  <2>1. d = [c EXCEPT !.flood = 0, !.count = 0]
        BY <1>8 DEF manager_receive_message, granted_in_flood
  <2>. HIDE DEF d
  <2>2. Stands(d, c) /\ d.flood = 0 /\ d.count = 0
        BY <2>1 DEF Client, Stands, Place, Marks, Calls, Wish
  <2>. QED BY <1>8, <2>2 DEF Heeds, d
<1>9. CASE m.kind = "full" /\ c.flood # 0 /\ ~(c.count + 1 >= c.flood)
  <2>. DEFINE k == [c EXCEPT !.count = @ + 1]
  <2>1. d = manager_send_message(k, "release", NoFlags)
        BY <1>9 DEF manager_receive_message, granted_in_flood
  <2>. HIDE DEF d
  <2>2. /\ k \in Client /\ Stands(k, c) /\ k.flood = c.flood
        /\ k.count = c.count + 1 /\ k.rset = c.rset /\ k.reqno = c.reqno
        BY DEF Client, Stands, Place, Marks, Calls, Wish
  <2>. HIDE DEF k
  <2>3. Sends(d, k, "release", NoFlags) /\ Flow(d, k)
        BY <1>1, <2>1, <2>2, SendMessageSends
  <2>4. Sends(d, c, "release", NoFlags)
        BY <2>2, <2>3 DEF Sends, Sent, Stands, Place, Marks, Calls, Wish, Wishes
  <2>5. c.count + 1 < c.flood BY <1>1, <1>9
  <2>. QED BY <1>9, <2>2, <2>3, <2>4, <2>5 DEF Heeds, Flow, d
<1>. QED BY <1>2, <1>3, <1>5, <1>6, <1>7, <1>8, <1>9 DEF NoticeKind

(* A message that is dispatched. *)
Handles(d, c, m) ==
    \/ /\ m.kind = "answer" /\ m.reply \in c.replies
       /\ Answers(d, c, m.reply, m.err)
    \/ m.kind = "answer" /\ m.reply \notin c.replies /\ Stands(d, c) /\ Flow(d, c)
    \/ /\ m.kind \in NoticeKind /\ c.path /\ resset_find(c.rset)
       /\ Heeds(d, c, m)
    \/ /\ m.kind \in NoticeKind /\ ~(c.path /\ resset_find(c.rset))
       /\ Stands(d, c) /\ Flow(d, c)
    \/ m.kind = "up" /\ Connects(d, c)
    \/ m.kind = "down" /\ Drops(d, c) /\ (d.accept => c.accept)

LEMMA MainLoopHandles ==
    ASSUME Inv, Inv', MainLoop, Good(cl')
    PROVE  /\ inq # <<>> /\ inq' = Tail(inq) /\ UNCHANGED <<up, known>>
           /\ Head(inq) \in Message
           /\ Handles(cl', cl, Head(inq))
<1>. DEFINE m == Head(inq)
            c == quietly(cl)
<1>1. cl \in Client /\ inq \in Seq(Message) BY DEF Inv, TypeOK
<1>2. inq # <<>> /\ inq' = Tail(inq) /\ UNCHANGED <<up, known>> /\ m \in Message
      BY InqType DEF Inv, MainLoop, DispatchAnswer, DispatchNotice, DispatchUp,
                     DispatchDown, Dispatch
<1>. SUFFICES Handles(cl', cl, m) BY <1>2
<1>3. Kept(cl) /\ Noted(cl) /\ cl.fault = "none" BY GoodBefore DEF Good
<1>4. /\ c \in Client /\ Kept(c) /\ Noted(c) /\ c.fault = "none"
      /\ c.rset = cl.rset /\ c.path = cl.path /\ c.replies = cl.replies
      BY <1>1, <1>3, QuietlyKept
<1>5. Alike(c, cl) BY <1>1, LabelAlike DEF quietly
<1>6. Stands(c, cl) /\ Flow(c, cl) BY <1>5 DEF Alike
<1>. HIDE DEF m, c
<1>7. CASE DispatchAnswer
  <2>1. m \in AnswerMsg /\ m.kind = "answer"
        BY <1>2, <1>7, MessageKinds DEF DispatchAnswer, Dispatch, m
  <2>2. cl' = IF m.reply \in cl.replies THEN status_method(c, m.reply, m.err) ELSE c
        BY <1>7 DEF DispatchAnswer, m, c
  <2>3. CASE m.reply \in cl.replies
    <3>1. m.err \in BOOLEAN BY <2>1 DEF AnswerMsg
    <3>2. Answers(cl', c, m.reply, m.err)
          BY <1>4, <2>2, <2>3, <3>1, StatusMethodAnswers
    <3>. QED BY <1>5, <2>1, <2>3, <3>2, AlikeBefore DEF Handles
  <2>4. CASE m.reply \notin cl.replies
        BY <1>6, <2>1, <2>2, <2>4 DEF Handles
  <2>. QED BY <2>3, <2>4
<1>8. CASE DispatchNotice
  <2>1. m.kind \in NoticeKind BY <1>8 DEF DispatchNotice, Dispatch, NoticeKind, m
  <2>2. cl' = IF cl.path /\ resset_find(cl.rset)
              THEN manager_receive_message(c, m) ELSE c
        BY <1>8 DEF DispatchNotice, m, c
  <2>3. CASE cl.path /\ resset_find(cl.rset)
    <3>1. Heeds(cl', c, m) BY <1>4, <2>1, <2>2, <2>3, ReceiveHeeds
    <3>2. Heeds(cl', cl, m)
      <4>1. c.flood = cl.flood /\ c.count = cl.count BY <1>6 DEF Flow
      <4>2. Dismisses(cl', c) => Dismisses(cl', cl)
            BY <1>6 DEF Dismisses, Stands, Place, Marks, Calls, Flow, Wish
      <4>. QED BY <1>5, <3>1, <4>1, <4>2, AlikeBefore DEF Heeds
    <3>. QED BY <2>1, <2>3, <3>2 DEF Handles
  <2>4. CASE ~(cl.path /\ resset_find(cl.rset))
        BY <1>6, <2>1, <2>2, <2>4 DEF Handles
  <2>. QED BY <2>3, <2>4
<1>9. CASE DispatchUp
  <2>1. cl' = connect_to_manager(c) /\ m.kind = "up"
        BY <1>9 DEF DispatchUp, Dispatch, c, m
  <2>2. Connects(cl', c) BY <1>4, <2>1, ConnectConnects
  <2>. QED BY <1>5, <2>1, <2>2, AlikeBefore DEF Handles
<1>10. CASE DispatchDown
  <2>1. cl' = link_down(c) /\ m.kind = "down"
        BY <1>10 DEF DispatchDown, Dispatch, c, m
  <2>2. Drops(cl', c) /\ (cl'.accept => c.accept) BY <1>4, <2>1, LinkDownDrops
  <2>3. c.accept = cl.accept BY <1>6 DEF Stands, Marks
  <2>. QED BY <1>5, <2>1, <2>2, <2>3, AlikeBefore DEF Handles
<1>. QED BY <1>7, <1>8, <1>9, <1>10 DEF MainLoop

LEMMA TimeoutAnswers ==
    ASSUME Inv, Inv', Timeout, Good(cl')
    PROVE  /\ UNCHANGED <<inq, up, known>>
           /\ \E p \in cl.replies :
                 /\ Answers(cl', cl, p, TRUE)
                 /\ cl'.overdue = cl.overdue \cup {p.reqno}
<1>1. PICK reply \in cl.replies :
         cl' = [status_method(quietly(cl), reply, TRUE) EXCEPT
                   !.overdue = @ \cup {reply.reqno}]
      BY DEF Timeout
<1>. DEFINE c == quietly(cl)
            d == status_method(c, reply, TRUE)
<1>2. cl \in Client /\ reply \in Reply BY DEF Inv, TypeOK, Client, Reply
<1>3. Kept(cl) /\ Noted(cl) /\ cl.fault = "none" BY GoodBefore DEF Good
<1>4. /\ c \in Client /\ Kept(c) /\ Noted(c) /\ c.fault = "none"
      /\ c.replies = cl.replies
      BY <1>2, <1>3, QuietlyKept
<1>5. Alike(c, cl) /\ c.overdue = cl.overdue
      BY <1>2, LabelAlike, QuietlySame DEF quietly
<1>. HIDE DEF c
<1>6. d \in Client /\ d.overdue = c.overdue
      BY <1>2, <1>4, StatusMethodType, StatusMethodEnds DEF SameHistory
<1>7. cl' = [d EXCEPT !.overdue = @ \cup {reply.reqno}] BY <1>1 DEF c
<1>. HIDE DEF d
<1>8. /\ Stands(cl', d) /\ Flow(cl', d)
      /\ cl'.fault = d.fault /\ cl'.quit = d.quit /\ cl'.revived = d.revived
      /\ cl'.reqno = d.reqno /\ cl'.overdue = d.overdue \cup {reply.reqno}
      BY <1>6, <1>7 DEF Client, Stands, Place, Marks, Calls, Flow, Wish
<1>9. Good(d) BY <1>8 DEF Good
<1>10. Answers(d, c, reply, TRUE) BY <1>4, <1>9, StatusMethodAnswers DEF d
<1>11. Answers(d, cl, reply, TRUE) BY <1>5, <1>10, AlikeBefore
<1>12. Answers(cl', cl, reply, TRUE)
       BY <1>8, <1>11 DEF Answers, Stands, Place, Marks, Calls, Flow, Wish
<1>. QED BY <1>5, <1>6, <1>8, <1>12 DEF Timeout
-----------------------------------------------------------------------------
(* What the queue tells of the manager.                                    *)

Ok(m) == m.kind = "answer" /\ ~m.err

(* Behind the last "down" there is an "up" if the manager is there.        *)
Returned(q, u) ==
    u => \A i \in 1..Len(q) : q[i].kind = "down" =>
            \E j \in (i + 1)..Len(q) : q[j].kind = "up"

LEMMA TailPlaces ==
    ASSUME NEW q \in Seq(Message), q # <<>>
    PROVE  /\ Len(q) \in Nat /\ Len(q) > 0 /\ Len(Tail(q)) = Len(q) - 1
           /\ \A i \in 1..Len(Tail(q)) : Tail(q)[i] = q[i + 1] /\ i + 1 \in 1..Len(q)
           /\ Head(q) = q[1]
BY HeadTailProperties

LEMMA AppendPlaces ==
    ASSUME NEW q \in Seq(Message), NEW m \in Message
    PROVE  LET r == Append(q, m)
           IN  /\ r \in Seq(Message) /\ Len(q) \in Nat /\ Len(r) = Len(q) + 1
               /\ \A i \in 1..Len(q) : r[i] = q[i]
               /\ r[Len(q) + 1] = m
BY AppendProperties

LEMMA TailReturned ==
    ASSUME NEW q \in Seq(Message), q # <<>>, NEW u, Returned(q, u)
    PROVE  Returned(Tail(q), u)
<1>. DEFINE r == Tail(q)
<1>1. /\ Len(q) \in Nat /\ Len(r) = Len(q) - 1
      /\ \A i \in 1..Len(r) : r[i] = q[i + 1] /\ i + 1 \in 1..Len(q)
      BY TailPlaces
<1>. HIDE DEF r
<1>2. SUFFICES ASSUME u, NEW i \in 1..Len(r), r[i].kind = "down"
               PROVE  \E j \in (i + 1)..Len(r) : r[j].kind = "up"
      BY DEF Returned, r
<1>3. PICK j \in (i + 2)..Len(q) : q[j].kind = "up" BY <1>1, <1>2 DEF Returned
<1>4. j - 1 \in (i + 1)..Len(r) /\ j - 1 \in 1..Len(r) /\ (j - 1) + 1 = j
      BY <1>1, <1>3
<1>5. r[j - 1].kind = "up" BY <1>1, <1>3, <1>4
<1>. QED BY <1>4, <1>5

LEMMA AppendReturned ==
    ASSUME NEW q \in Seq(Message), NEW m \in Message
    PROVE  LET r == Append(q, m)
           IN  /\ Returned(r, FALSE)
               /\ m.kind = "up" => Returned(r, TRUE)
               /\ \A u : Returned(q, u) /\ m.kind # "down" => Returned(r, u)
<1>. DEFINE r == Append(q, m)
            n == Len(q) + 1
<1>1. /\ Len(q) \in Nat /\ Len(r) = n
      /\ \A i \in 1..Len(q) : r[i] = q[i]
      /\ r[n] = m
      BY AppendPlaces
<1>2. n \in Nat /\ n > Len(q) /\ 1..n = (1..Len(q)) \cup {n} BY <1>1
<1>. HIDE DEF r
<1>3. Returned(r, FALSE) BY DEF Returned
<1>4. ASSUME m.kind = "up" PROVE Returned(r, TRUE)
  <2>. SUFFICES ASSUME NEW i \in 1..n, r[i].kind = "down"
                PROVE  \E j \in (i + 1)..n : r[j].kind = "up"
       BY <1>1 DEF Returned
  <2>1. i # n BY <1>1, <1>4
  <2>. QED BY <1>1, <1>2, <1>4, <2>1
<1>5. ASSUME NEW u, Returned(q, u), m.kind # "down" PROVE Returned(r, u)
  <2>. SUFFICES ASSUME u, NEW i \in 1..n, r[i].kind = "down"
                PROVE  \E j \in (i + 1)..n : r[j].kind = "up"
       BY <1>1 DEF Returned
  <2>1. i \in 1..Len(q) /\ q[i].kind = "down" BY <1>1, <1>2, <1>5
  <2>2. PICK j \in (i + 1)..Len(q) : q[j].kind = "up" BY <1>5, <2>1 DEF Returned
  <2>. QED BY <1>1, <2>1, <2>2
<1>. QED BY <1>3, <1>4, <1>5 DEF r

LEMMA ConcatShort ==
    ASSUME NEW q \in Seq(Message)
    PROVE  /\ q \o <<>> = q
           /\ \A a \in Message : q \o <<a>> = Append(q, a)
           /\ \A a, b \in Message : q \o <<a, b>> = Append(Append(q, a), b)
OBVIOUS
-----------------------------------------------------------------------------
(* What the bus and the manager do.                                        *)

Unmoved(d, c) ==
    /\ Place(d, c) /\ Marks(d, c) /\ Flow(d, c) /\ d.replies = c.replies
    /\ Wish(d, c) /\ d.broken = c.broken
    /\ d.reqno = c.reqno /\ d.reqtyp = c.reqtyp /\ d.overdue = c.overdue
    /\ Good(d) <=> Good(c)

LEMMA MovesUnmoved ==
    ASSUME NEW c \in Client, NEW d, Moves(d, c)
    PROVE  Unmoved(d, c)
<1>1. /\ d.fault = c.fault /\ d.quit = c.quit /\ d.revived = c.revived
      /\ d.reqno = c.reqno
      BY DEF Moves, Client
<1>2. Good(d) <=> Good(c) BY <1>1 DEF Good
<1>3. /\ Place(d, c) /\ Marks(d, c) /\ Flow(d, c) /\ d.replies = c.replies
      /\ Wish(d, c) /\ d.broken = c.broken
      /\ d.reqtyp = c.reqtyp /\ d.overdue = c.overdue
      BY DEF Moves, Client, Place, Marks, Flow, Wish
<1>. QED BY <1>1, <1>2, <1>3 DEF Unmoved

NoSet == [reg |-> FALSE, flags |-> NoFlags]

(* What the manager has recorded behind a call that it did. *)
Recorded(k, call) ==
    CASE call.msgtyp = "unregister" -> NoSet
      [] call.msgtyp \in {"register", "update"} -> [reg |-> TRUE, flags |-> call.flags]
      [] OTHER -> k

Meant(k, call) == (call.msgtyp = "register") # k.reg

Skips == /\ up /\ ~Meant(known, Head(cl.wire))
         /\ Takes(<<>>) /\ known' = known

Rejects ==
    LET call == Head(cl.wire)
    IN  /\ Takes(<<answer(call, TRUE)>>)
        /\ \/ ~up /\ known' = known
           \/ /\ up /\ Meant(known, call) /\ call.msgtyp \in Refused
              /\ known' = IF call.msgtyp = "unregister" THEN NoSet ELSE known

Serves ==
    LET call == Head(cl.wire)
    IN  /\ up /\ Meant(known, call)
        /\ known' = Recorded(known, call)
        /\ \/ /\ Takes(<<answer(call, FALSE)>>)
              /\ call.msgtyp # "release"
              /\ call.msgtyp = "acquire" => "none" \in Outcomes
           \/ /\ call.msgtyp \in {"update", "acquire", "release"}
              /\ \E kind \in {"full", "empty"} :
                    Takes(<<answer(call, FALSE), grant(kind, call)>>)

Breaks ==
    /\ known' = known /\ cl'.wire = cl.wire
    /\ \E reply \in cl.replies :
          /\ reply.reqno \in cl.lost
          /\ inq' = Append(inq, [kind |-> "answer", reply |-> reply, err |-> TRUE])
          /\ cl'.lost = cl.lost \ {reply.reqno}

LEMMA BusSteps ==
    ASSUME TypeOK, Bus
    PROVE  /\ Moves(cl', cl) /\ up' = up
           /\ Skips \/ Rejects \/ Serves \/ Breaks
<1>1. cl \in Client /\ known \in [reg: BOOLEAN, flags: Flags] BY DEF TypeOK
<1>2. Moves(cl', cl) BY BusNumbers
<1>3. ASSUME NEW messages, cl.wire # <<>>, TakeCall(messages) PROVE Takes(messages)
      BY <1>3, TakeMoves DEF Takes
<1>4. CASE Ignores
      BY <1>1, <1>2, <1>3, <1>4 DEF Ignores, Skips, Meant
<1>5. CASE Refuses
  <2>. DEFINE call == Head(cl.wire)
  <2>1. /\ up /\ up' = up /\ cl.wire # <<>> /\ TakeCall(<<answer(call, TRUE)>>)
        /\ (call.msgtyp = "register") # known.reg /\ call.msgtyp \in Refused
        /\ known' = IF call.msgtyp = "unregister"
                    THEN [reg |-> FALSE, flags |-> NoFlags] ELSE known
        BY <1>5 DEF Refuses
  <2>. QED BY <1>2, <1>3, <2>1 DEF Rejects, Meant, NoSet
<1>6. CASE Bounce
      BY <1>2, <1>3, <1>6 DEF Bounce, Rejects
<1>7. CASE NoReply
  <2>1. PICK reply \in cl.replies :
           /\ reply.reqno \in cl.lost
           /\ inq' = Append(inq, [kind |-> "answer", reply |-> reply, err |-> TRUE])
           /\ cl' = [cl EXCEPT !.lost = @ \ {reply.reqno}]
        BY <1>7 DEF NoReply
  <2>2. cl'.lost = cl.lost \ {reply.reqno} /\ cl'.wire = cl.wire
        BY <1>1, <2>1 DEF Client
  <2>. QED BY <1>2, <1>7, <2>1, <2>2 DEF NoReply, Breaks
<1>8. CASE Grants
  <2>. DEFINE call == Head(cl.wire)
              one == Takes(<<answer(call, FALSE)>>)
              two(kind) == Takes(<<answer(call, FALSE), grant(kind, call)>>)
              told == [reg |-> TRUE, flags |-> call.flags]
  <2>1. /\ up /\ up' = up /\ cl.wire # <<>>
        /\ (call.msgtyp = "register") # known.reg
        BY <1>8 DEF Grants
  <2>2. \/ call.msgtyp = "unregister" /\ one /\ known' = NoSet
        \/ call.msgtyp = "register" /\ one /\ known' = told
        \/ call.msgtyp = "update" /\ (one \/ two("empty")) /\ known' = told
        \/ call.msgtyp \in {"audio", "video"} /\ one /\ known' = known
        \/ call.msgtyp = "release" /\ two("empty") /\ known' = known
        \/ call.msgtyp = "acquire" /\ two("full") /\ known' = known
        \/ call.msgtyp = "acquire" /\ two("empty") /\ known' = known
        \/ call.msgtyp = "acquire" /\ "none" \in Outcomes /\ one /\ known' = known
    <3>1. \A s : TakeCall(s) => Takes(s) BY <1>3, <2>1
    <3>. QED BY <1>8, <3>1 DEF Grants, NoSet
  <2>. HIDE DEF one, two
  <2>3. known' = Recorded(known, call) BY <2>2 DEF Recorded
  <2>4. \/ one /\ call.msgtyp # "release" /\ (call.msgtyp = "acquire" => "none" \in Outcomes)
        \/ /\ call.msgtyp \in {"update", "acquire", "release"}
           /\ \E kind \in {"full", "empty"} : two(kind)
        BY <2>2
  <2>. HIDE DEF call
  <2>. QED BY <1>2, <2>1, <2>3, <2>4 DEF Serves, Meant, one, two, call
<1>. QED BY <1>4, <1>5, <1>6, <1>7, <1>8 DEF Bus

Arrives == /\ ~up /\ up' = TRUE /\ inq' = Append(inq, [kind |-> "up"])
           /\ cl' = cl /\ known' = known

(* What becomes of the calls on the wire when the manager is gone. *)
Orphans ==
    /\ known' = NoSet
    /\ \E n \in 0..Len(cl.wire) :
          /\ cl'.wire = SubSeq(cl.wire, n + 1, Len(cl.wire))
          /\ cl'.lost = cl.lost \cup {cl.wire[i].reqno : i \in 1..n}

Goes == up /\ up' = FALSE /\ inq' = Append(inq, [kind |-> "down"]) /\ Orphans

Yields == up /\ up' = up /\ inq' = Append(inq, [kind |-> "up"]) /\ Orphans

Tidings ==
    /\ up /\ up' = up /\ known.reg /\ cl' = cl
    /\ \E m \in Message :
          /\ inq' = Append(inq, m) /\ m.kind \in NoticeKind
          /\ known' = IF m.kind = "unregister" THEN NoSet ELSE known

LEMMA ManagerSteps ==
    ASSUME TypeOK, Manager
    PROVE  Moves(cl', cl) /\ (Arrives \/ Goes \/ Yields \/ Tidings)
<1>1. Moves(cl', cl) BY ManagerNumbers
<1>2. CASE ManagerStarts BY <1>1, <1>2 DEF ManagerStarts, Arrives
<1>3. ASSUME LostWithManager PROVE Orphans
  <2>1. \E n \in 0..Len(cl.wire) :
           /\ cl'.wire = SubSeq(cl.wire, n + 1, Len(cl.wire))
           /\ cl'.lost = cl.lost \cup {cl.wire[i].reqno : i \in 1..n}
        BY ManagerNumbers
  <2>. QED BY <1>3, <2>1 DEF LostWithManager, Orphans, NoSet
<1>5. CASE ManagerDies BY <1>1, <1>3, <1>5 DEF ManagerDies, Goes
<1>6. CASE ManagerReplaced BY <1>1, <1>3, <1>6 DEF ManagerReplaced, Yields
<1>4. CASE ManagerNotifies
  <2>1. PICK kind \in Notices :
           /\ inq' = Append(inq, IF kind \in {"full", "empty"}
                                 THEN [kind |-> kind, reqno |-> 0, cause |-> "server"]
                                 ELSE [kind |-> kind])
           /\ known' = IF kind = "unregister"
                       THEN [reg |-> FALSE, flags |-> NoFlags] ELSE known
        BY <1>4 DEF ManagerNotifies
  <2>2. kind \in NoticeKind BY CliAssumption DEF NoticeKind
  <2>. DEFINE m == IF kind \in {"full", "empty"}
                   THEN [kind |-> kind, reqno |-> 0, cause |-> "server"]
                   ELSE [kind |-> kind]
  <2>3. m \in Message /\ m.kind = kind
    <3>1. kind \in {"full", "empty"} \/ kind \in {"advice", "release", "unregister"}
          BY <2>2 DEF NoticeKind
    <3>2. CASE kind \in {"full", "empty"} BY <3>2 DEF Message
    <3>3. CASE kind \in {"advice", "release", "unregister"} BY <3>3 DEF Message
    <3>. QED BY <3>1, <3>2, <3>3
  <2>4. inq' = Append(inq, m) BY <2>1
  <2>. HIDE DEF m
  <2>5. known' = IF m.kind = "unregister" THEN NoSet ELSE known
        BY <2>1, <2>3 DEF NoSet
  <2>. QED BY <1>1, <1>4, <2>2, <2>3, <2>4, <2>5 DEF ManagerNotifies, Tidings
<1>. QED BY <1>2, <1>4, <1>5, <1>6 DEF Manager

LEMMA AnswerFacts ==
    ASSUME NEW call \in Call, NEW err \in BOOLEAN
    PROVE  LET m == answer(call, err)
           IN  /\ m \in Message /\ m.kind = "answer" /\ (m.err <=> err)
               /\ Ok(m) <=> ~err
               /\ m.reply = [msgtyp |-> call.msgtyp, reqno |-> call.reqno]
               /\ m.reply.msgtyp = call.msgtyp /\ m.reply.reqno = call.reqno
BY DEF answer, Message, Call, Ok

LEMMA GrantFacts ==
    ASSUME NEW call \in Call, call.msgtyp \in {"update", "acquire", "release"},
           NEW kind \in {"full", "empty"}
    PROVE  LET m == grant(kind, call)
           IN  m \in Message /\ m.kind = kind /\ IsGrant(m)
BY DEF grant, Message, Call, IsGrant

LEMMA CallTaken ==
    ASSUME TypeOK, NEW messages, Takes(messages)
    PROVE  Head(cl.wire) \in Call /\ cl.wire # <<>> /\ inq \in Seq(Message)
BY HeadTailProperties DEF TypeOK, Client, Takes

(* The bus adds answers and grants to the queue, one after the other.      *)
LEMMA BusQueues ==
    ASSUME TypeOK, Bus
    PROVE  \/ inq' = inq
           \/ \E a \in Message : /\ inq' = Append(inq, a)
                                 /\ a.kind = "answer" /\ (Ok(a) => up)
           \/ \E a, b \in Message :
                 /\ inq' = Append(Append(inq, a), b)
                 /\ a.kind = "answer" /\ up /\ IsGrant(b)
<1>. DEFINE call == Head(cl.wire)
<1>1. inq \in Seq(Message) /\ cl \in Client BY DEF TypeOK
<1>2. Skips \/ Rejects \/ Serves \/ Breaks BY BusSteps
<1>3. CASE Skips BY <1>1, <1>3, ConcatShort DEF Skips, Takes
<1>4. CASE Rejects
  <2>1. Takes(<<answer(call, TRUE)>>) BY <1>4 DEF Rejects
  <2>2. call \in Call BY <2>1, CallTaken
  <2>3. /\ answer(call, TRUE) \in Message /\ answer(call, TRUE).kind = "answer"
        /\ ~Ok(answer(call, TRUE))
        BY <2>2, AnswerFacts
  <2>4. inq' = Append(inq, answer(call, TRUE))
        BY <1>1, <2>1, <2>3, ConcatShort DEF Takes
  <2>. QED BY <2>3, <2>4
<1>5. CASE Serves
  <2>1. up BY <1>5 DEF Serves
  <2>2. CASE Takes(<<answer(call, FALSE)>>)
    <3>1. call \in Call BY <2>2, CallTaken
    <3>2. answer(call, FALSE) \in Message /\ answer(call, FALSE).kind = "answer"
          BY <3>1, AnswerFacts
    <3>3. inq' = Append(inq, answer(call, FALSE))
          BY <1>1, <2>2, <3>2, ConcatShort DEF Takes
    <3>. QED BY <2>1, <3>2, <3>3
  <2>3. ASSUME call.msgtyp \in {"update", "acquire", "release"},
               NEW kind \in {"full", "empty"},
               Takes(<<answer(call, FALSE), grant(kind, call)>>)
        PROVE  \E a, b \in Message :
                  /\ inq' = Append(Append(inq, a), b)
                  /\ a.kind = "answer" /\ up /\ IsGrant(b)
    <3>1. call \in Call BY <2>3, CallTaken
    <3>. HIDE DEF call
    <3>2. answer(call, FALSE) \in Message /\ answer(call, FALSE).kind = "answer"
          BY <3>1, AnswerFacts
    <3>3. grant(kind, call) \in Message /\ IsGrant(grant(kind, call))
          BY <2>3, <3>1, GrantFacts
    <3>4. inq' = Append(Append(inq, answer(call, FALSE)), grant(kind, call))
          BY <1>1, <2>3, <3>2, <3>3, ConcatShort DEF Takes
    <3>. QED BY <2>1, <3>2, <3>3, <3>4
  <2>. QED BY <1>5, <2>2, <2>3 DEF Serves
<1>6. CASE Breaks
  <2>1. PICK reply \in cl.replies :
           inq' = Append(inq, [kind |-> "answer", reply |-> reply, err |-> TRUE])
        BY <1>6 DEF Breaks
  <2>. DEFINE m == [kind |-> "answer", reply |-> reply, err |-> TRUE]
  <2>2. m \in Message /\ m.kind = "answer" /\ ~Ok(m)
        BY <1>1 DEF Message, Client, Ok
  <2>. QED BY <2>1, <2>2
<1>. QED BY <1>2, <1>3, <1>4, <1>5, <1>6

LEMMA UpDown ==
    ASSUME NEW kind \in {"up", "down"}
    PROVE  LET m == [kind |-> kind] IN m \in Message /\ m.kind = kind
BY DEF Message

LEMMA NextReturned ==
    ASSUME TypeOK, [Next]_vars, Returned(inq, up)
    PROVE  Returned(inq', up')
<1>1. inq \in Seq(Message) BY DEF TypeOK
<1>2. CASE UNCHANGED vars \/ User \/ Timeout
  <2>1. inq' = inq /\ up' = up
        BY <1>2 DEF vars, User, Send, Update, Disconnect, Flood, Stop, Quit, Command,
                    Timeout
  <2>. QED BY <2>1
<1>3. CASE MainLoop
  <2>1. inq # <<>> /\ inq' = Tail(inq) /\ up' = up
        BY <1>3 DEF MainLoop, DispatchAnswer, DispatchNotice, DispatchUp,
                    DispatchDown, Dispatch
  <2>. QED BY <1>1, <2>1, TailReturned
<1>4. CASE Bus
  <2>1. up' = up BY <1>4, BusSteps
  <2>2. CASE inq' = inq BY <2>1, <2>2
  <2>3. ASSUME NEW a \in Message, inq' = Append(inq, a), a.kind = "answer"
        PROVE  Returned(inq', up')
        BY <1>1, <2>1, <2>3, AppendReturned
  <2>4. ASSUME NEW a \in Message, NEW b \in Message,
               inq' = Append(Append(inq, a), b), a.kind = "answer", IsGrant(b)
        PROVE  Returned(inq', up')
    <3>1. Append(inq, a) \in Seq(Message) BY <1>1
    <3>2. Returned(Append(inq, a), up) BY <1>1, <2>4, AppendReturned
    <3>3. b.kind # "down" BY <2>4 DEF IsGrant
    <3>. HIDE DEF Returned
    <3>. QED BY <2>1, <2>4, <3>1, <3>2, <3>3, AppendReturned
  <2>. QED BY <1>4, <2>2, <2>3, <2>4, BusQueues
<1>5. CASE Manager
  <2>1. CASE Arrives BY <1>1, <2>1, UpDown, AppendReturned DEF Arrives
  <2>2. CASE Goes BY <1>1, <2>2, UpDown, AppendReturned DEF Goes
  <2>3. CASE Yields
    <3>1. up \in BOOLEAN BY DEF TypeOK
    <3>. QED BY <1>1, <2>3, <3>1, UpDown, AppendReturned DEF Yields
  <2>4. CASE Tidings
    <3>1. PICK m \in Message : inq' = Append(inq, m) /\ m.kind \in NoticeKind
          BY <2>4 DEF Tidings
    <3>2. m.kind # "down" BY <3>1 DEF NoticeKind
    <3>. QED BY <1>1, <2>4, <3>1, <3>2, AppendReturned DEF Tidings
  <2>. QED BY <1>5, <2>1, <2>2, <2>3, <2>4, ManagerSteps
<1>. QED BY <1>2, <1>3, <1>4, <1>5 DEF Next
-----------------------------------------------------------------------------
(* A client that does not accept commands waits for something.             *)

Asked(c, t) == \E p \in c.replies : p.msgtyp = t

Wakes(c, q, u) ==
    \/ c.accept \/ c.denied \/ c.dismissed
    \/ ~u
    \/ Asked(c, "register")
    \/ \E m \in Elements(q) : m.kind = "up"

Wakeful == Good(cl) => Wakes(cl, inq, up)

LEMMA SendsAsked ==
    ASSUME NEW c, NEW d, NEW t, NEW flags, Sends(d, c, t, flags) \/ Sent(d, c, t, flags)
    PROVE  \A s : Asked(c, s) => Asked(d, s)
<1>1. c.replies \subseteq d.replies BY DEF Sends, Sent, Calls
<1>. QED BY <1>1 DEF Asked

LEMMA AnswersWake ==
    ASSUME NEW c \in Client, NEW d, NEW p \in c.replies, NEW err \in BOOLEAN,
           Answers(d, c, p, err), NEW q, NEW u, Wakes(c, q, u)
    PROVE  Wakes(d, q, u)
<1>1. CASE p.msgtyp = "register"
      BY <1>1 DEF Answers, Wakes
<1>2. CASE p.msgtyp # "register"
  <2>1. Marks(d, c) /\ d.replies = c.replies \ {p} BY <1>2 DEF Answers
  <2>2. Asked(c, "register") => Asked(d, "register") BY <1>2, <2>1 DEF Asked
  <2>. QED BY <2>1, <2>2 DEF Wakes, Marks
<1>. QED BY <1>1, <1>2

LEMMA SameWakes ==
    ASSUME NEW c, NEW d, Marks(d, c), Asked(c, "register") => Asked(d, "register"),
           NEW q, NEW u, Wakes(c, q, u)
    PROVE  Wakes(d, q, u)
BY DEF Wakes, Marks

LEMMA HandlesWake ==
    ASSUME Inv, Inv', MainLoop, Good(cl'), Returned(inq, up), Wakes(cl, inq, up)
    PROVE  Wakes(cl', inq', up')
<1>. DEFINE m == Head(inq)
<1>1. /\ inq # <<>> /\ inq' = Tail(inq) /\ up' = up /\ m \in Message
      /\ Handles(cl', cl, m)
      BY MainLoopHandles
<1>2. cl \in Client /\ inq \in Seq(Message) BY DEF Inv, TypeOK
<1>3. Elements(inq) = Elements(inq') \cup {m} BY <1>1, <1>2, TailElements
<1>. HIDE DEF m
<1>4. m.kind # "up" => Wakes(cl, inq', up')
      BY <1>1, <1>3 DEF Wakes
<1>5. ASSUME Stands(cl', cl), m.kind # "up" PROVE Wakes(cl', inq', up')
      BY <1>4, <1>5, SameWakes DEF Stands, Calls, Asked
<1>6. ASSUME NEW t, Sends(cl', cl, t, NoFlags), m.kind # "up"
      PROVE  Wakes(cl', inq', up')
  <2>1. Asked(cl, "register") => Asked(cl', "register") BY <1>6, SendsAsked
  <2>. QED BY <1>4, <1>6, <2>1, SameWakes DEF Sends
<1>7. CASE m.kind = "answer" /\ m.reply \in cl.replies
           /\ Answers(cl', cl, m.reply, m.err)
  <2>1. m.err \in BOOLEAN BY <1>1, <1>7, MessageKinds DEF AnswerMsg
  <2>. QED BY <1>2, <1>4, <1>7, <2>1, AnswersWake
<1>8. CASE m.kind = "answer" /\ m.reply \notin cl.replies /\ Stands(cl', cl)
      BY <1>5, <1>8
<1>9. CASE m.kind \in NoticeKind /\ Heeds(cl', cl, m)
  <2>1. m.kind # "up" BY <1>9 DEF NoticeKind
  <2>2. CASE Dismisses(cl', cl) BY <2>2 DEF Dismisses, Wakes
  <2>. QED BY <1>5, <1>6, <1>9, <2>1, <2>2 DEF Heeds
<1>10. CASE m.kind \in NoticeKind /\ Stands(cl', cl)
       BY <1>5, <1>10 DEF NoticeKind
<1>11. CASE m.kind = "up" /\ Connects(cl', cl)
  <2>. DEFINE p == [msgtyp |-> "register", reqno |-> cl.reqno + 1]
  <2>1. p \in cl'.replies BY <1>11 DEF Connects, Sent
  <2>2. p.msgtyp = "register" OBVIOUS
  <2>. HIDE DEF p
  <2>3. Asked(cl', "register") BY <2>1, <2>2 DEF Asked
  <2>. QED BY <2>3 DEF Wakes
<1>12. CASE m.kind = "down"
  <2>1. SUFFICES ASSUME up PROVE \E x \in Elements(inq') : x.kind = "up"
        BY <1>1 DEF Wakes
  <2>2. /\ Len(inq) \in Nat /\ Len(inq) > 0 /\ Len(inq') = Len(inq) - 1
        /\ \A i \in 1..Len(inq') : inq'[i] = inq[i + 1]
        /\ inq[1] = m
        BY <1>1, <1>2, TailPlaces DEF m
  <2>3. PICK j \in 2..Len(inq) : inq[j].kind = "up"
        BY <1>12, <2>1, <2>2 DEF Returned
  <2>4. j - 1 \in 1..Len(inq') /\ (j - 1) + 1 = j BY <2>2, <2>3
  <2>5. inq'[j - 1].kind = "up" BY <2>2, <2>3, <2>4
  <2>. QED BY <2>4, <2>5 DEF Elements
<1>. QED BY <1>1, <1>7, <1>8, <1>9, <1>10, <1>11, <1>12 DEF Handles

LEMMA GrownWakes ==
    ASSUME NEW c, NEW d, Marks(d, c), d.replies = c.replies,
           NEW q, NEW r, NEW u, Elements(q) \subseteq Elements(r), Wakes(c, q, u)
    PROVE  Wakes(d, r, u)
BY DEF Wakes, Marks, Asked

LEMMA NextWakeful ==
    ASSUME Inv, Inv', [Next]_vars, Returned(inq, up), Wakeful
    PROVE  Wakeful'
<1>. SUFFICES ASSUME Good(cl') PROVE Wakes(cl', inq', up')
     BY DEF Wakeful
<1>1. cl \in Client /\ inq \in Seq(Message) BY DEF Inv, TypeOK
<1>2. CASE UNCHANGED vars BY <1>2 DEF vars, Wakeful
<1>3. CASE User \/ MainLoop \/ Timeout
  <2>1. Wakes(cl, inq, up) BY <1>3, GoodBefore DEF Wakeful
  <2>2. CASE User
    <3>1. Commands(cl', cl) /\ cl.accept BY <2>2, UserCommands
    <3>2. Marks(cl', cl) BY <3>1 DEF Commands, Sends, Leaves, Stands
    <3>. QED BY <3>1, <3>2 DEF Wakes, Marks
  <2>3. CASE MainLoop BY <2>1, <2>3, HandlesWake
  <2>4. CASE Timeout BY <1>1, <2>1, <2>4, TimeoutAnswers, AnswersWake
  <2>. QED BY <1>3, <2>2, <2>3, <2>4
<1>4. CASE Bus \/ Manager
  <2>1. Moves(cl', cl) BY <1>4, BusSteps, ManagerSteps DEF Inv
  <2>2. Marks(cl', cl) /\ cl'.replies = cl.replies /\ Good(cl)
        BY <1>1, <2>1, MovesUnmoved DEF Unmoved
  <2>3. Wakes(cl, inq, up) BY <2>2 DEF Wakeful
  <2>4. \A q \in Seq(Message), m \in Message :
           Elements(Append(q, m)) = Elements(q) \cup {m} /\ Append(q, m) \in Seq(Message)
        BY AppendElements
  <2>5. CASE Bus
    <3>1. Elements(inq) \subseteq Elements(inq')
      <4>1. ASSUME NEW a \in Message, NEW b \in Message, inq' = Append(Append(inq, a), b)
            PROVE  Elements(inq) \subseteq Elements(inq')
        <5>. DEFINE r == Append(inq, a)
        <5>1. Elements(r) = Elements(inq) \cup {a} /\ r \in Seq(Message)
              BY <1>1, <2>4
        <5>2. inq' = Append(r, b) BY <4>1
        <5>. HIDE DEF r
        <5>. QED BY <2>4, <5>1, <5>2
      <4>2. ASSUME NEW a \in Message, inq' = Append(inq, a)
            PROVE  Elements(inq) \subseteq Elements(inq')
            BY <1>1, <2>4, <4>2
      <4>. QED BY <2>5, <4>1, <4>2, BusQueues DEF Inv
    <3>2. up' = up BY <2>5, BusSteps DEF Inv
    <3>. QED BY <2>2, <2>3, <3>1, <3>2, GrownWakes
  <2>6. CASE Arrives \/ Yields
    <3>. DEFINE m == [kind |-> "up"]
    <3>1. m \in Message /\ m.kind = "up" /\ inq' = Append(inq, m)
          BY <2>6, UpDown DEF Arrives, Yields
    <3>. HIDE DEF m
    <3>2. m \in Elements(inq') BY <1>1, <2>4, <3>1
    <3>. QED BY <3>1, <3>2 DEF Wakes
  <2>7. CASE Goes BY <2>7 DEF Goes, Wakes
  <2>8. CASE Tidings
    <3>1. Elements(inq) \subseteq Elements(inq') /\ up' = up
          BY <1>1, <2>4, <2>8 DEF Tidings
    <3>. QED BY <2>2, <2>3, <3>1, GrownWakes
  <2>. QED BY <1>4, <2>5, <2>6, <2>7, <2>8, ManagerSteps DEF Inv
<1>. QED BY <1>2, <1>3, <1>4 DEF Next

(* The first REGISTER is on its way. *)
LEMMA InitConnects ==
    ASSUME Init
    PROVE  Connects(cl, Started) /\ Kept(Started) /\ Started \in Client
<1>1. Started \in Client
  <2>1. Freed \in Rset BY DEF Freed, Rset, RsetState
  <2>2. [i \in 0..(HashDim - 1) |-> "invalid"] \in [0..(HashDim - 1) -> ReqTyp]
        BY DEF ReqTyp
  <2>3. Silent \in Label BY DEF Silent, Label
  <2>4. Options \in Flags BY CliAssumption
  <2>. QED BY <2>1, <2>2, <2>3, <2>4, NoFlagsType DEF Started, Client
<1>2. /\ Started.replies = {} /\ Started.rset = Freed /\ Started.path = FALSE
      /\ Started.accept = FALSE
      BY DEF Started
<1>3. IsFiniteSet({}) /\ Cardinality({}) = 0 BY FS_EmptySet
<1>4. Held(Started) = 0 /\ ~Leaving(Started) BY <1>2, <1>3 DEF Held, Leaving
<1>5. Kept(Started)
      BY <1>2, <1>3, <1>4 DEF Kept, Counted, Accepts, Freed
<1>. QED BY <1>1, <1>5, ConnectConnects DEF Init

LEMMA InitReturned == Init => Returned(inq, up) /\ Wakeful
<1>. SUFFICES ASSUME Init PROVE Returned(inq, up) /\ Wakeful OBVIOUS
<1>1. Len(inq) = 0 BY DEF Init
<1>2. Returned(inq, up) BY <1>1 DEF Returned
<1>. DEFINE p == [msgtyp |-> "register", reqno |-> Started.reqno + 1]
<1>3. p \in cl.replies BY InitConnects DEF Connects, Sent
<1>4. p.msgtyp = "register" OBVIOUS
<1>. HIDE DEF p
<1>5. Asked(cl, "register") BY <1>3, <1>4 DEF Asked
<1>. QED BY <1>2, <1>5 DEF Wakeful, Wakes

(* No lost wake-up, for any bound: a client left silent by a manager that  *)
(* is there was refused or dismissed by it.  Once the table has come round *)
(* the answer to a REGISTER need not be recognised, and TLC checks that    *)
(* its set has then come back to life.                                     *)
THEOREM SilentOnlyIfDeniedAlways == Spec => [](~Wrapped => SilentOnlyIfDenied)
<1>. DEFINE I == Inv /\ Returned(inq, up) /\ Wakeful
<1>1. Init => I BY InvInit, InitReturned
<1>2. I /\ [Next]_vars => I' BY InvNext, NextReturned, NextWakeful DEF Inv
<1>3. I => (~Wrapped => SilentOnlyIfDenied)
  <2>. SUFFICES ASSUME I, ~Wrapped, Running, up, Quiet, ~cl.accept, ~cl.revived
                PROVE  cl.denied \/ cl.dismissed
       BY DEF SilentOnlyIfDenied
  <2>1. cl.reqno \in Nat /\ HashDim \in Nat
        BY CliAssumption DEF Inv, TypeOK, Client
  <2>2. Good(cl) BY <2>1 DEF Good, Wrapped, Running
  <2>3. Elements(inq) = {} /\ ~Asked(cl, "register")
        BY ShortElements DEF Quiet, Asked
  <2>4. Wakes(cl, inq, up) BY <2>2 DEF Wakeful
  <2>. QED BY <2>3, <2>4 DEF Wakes
<1>. HIDE DEF I
<1>. QED BY <1>1, <1>2, <1>3, PTL DEF Spec
-----------------------------------------------------------------------------
(* The flags of the set.  What the manager has recorded becomes what the   *)
(* client's record says once it has done the calls on the wire.            *)

(* Behind the i-th call the manager that had f has g. *)
Carries(w, i, f, g) ==
    \/ \E k \in i..Len(w) : /\ w[k].msgtyp = "update" /\ w[k].flags = g
                            /\ \A l \in (k + 1)..Len(w) : w[l].msgtyp # "update"
    \/ f = g /\ \A k \in i..Len(w) : w[k].msgtyp # "update"

(* It has the flags of the set, or those of a REGISTER that came later.    *)
Lands(c, i, f) ==
    \/ Carries(c.wire, i, f, c.flags)
    \/ c.renewed /\ Carries(c.wire, i, f, Options)

Agrees(c, k) == k.reg /\ Lands(c, 1, k.flags)

LEMMA CarriesAppend ==
    ASSUME NEW w \in Seq(Call), NEW x \in Call, NEW i \in 1..(Len(w) + 1)
    PROVE  LET v == Append(w, x)
           IN  /\ \A f : x.msgtyp = "update" => Carries(v, i, f, x.flags)
               /\ \A f, g : x.msgtyp # "update" /\ Carries(w, i, f, g) =>
                     Carries(v, i, f, g)
<1>. DEFINE v == Append(w, x)
            n == Len(w) + 1
<1>1. /\ Len(w) \in Nat /\ Len(v) = n /\ v[n] = x
      /\ \A j \in 1..Len(w) : v[j] = w[j]
      BY AppendProperties
<1>2. i \in Nat /\ i >= 1 /\ i <= n /\ n \in Nat BY <1>1
<1>. HIDE DEF v
<1>3. ASSUME x.msgtyp = "update", NEW f PROVE Carries(v, i, f, x.flags)
  <2>1. n \in i..Len(v) /\ v[n].msgtyp = "update" /\ v[n].flags = x.flags
        BY <1>1, <1>2, <1>3
  <2>2. \A l \in (n + 1)..Len(v) : v[l].msgtyp # "update" BY <1>1
  <2>. QED BY <2>1, <2>2 DEF Carries
<1>4. ASSUME NEW f, NEW g, x.msgtyp # "update", Carries(w, i, f, g)
      PROVE  Carries(v, i, f, g)
  <2>1. ASSUME NEW k \in i..Len(w), w[k].msgtyp = "update", w[k].flags = g,
               \A l \in (k + 1)..Len(w) : w[l].msgtyp # "update"
        PROVE  Carries(v, i, f, g)
    <3>1. k \in 1..Len(w) /\ k \in i..Len(v) /\ v[k] = w[k] BY <1>1, <1>2, <2>1
    <3>2. ASSUME NEW l \in (k + 1)..Len(v) PROVE v[l].msgtyp # "update"
      <4>1. CASE l = n BY <1>1, <1>4, <4>1
      <4>2. CASE l # n
        <5>1. l \in (k + 1)..Len(w) /\ l \in 1..Len(w) BY <1>1, <1>2, <2>1, <4>2
        <5>. QED BY <1>1, <2>1, <5>1
      <4>. QED BY <4>1, <4>2
    <3>. QED BY <2>1, <3>1, <3>2 DEF Carries
  <2>2. ASSUME f = g, \A k \in i..Len(w) : w[k].msgtyp # "update"
        PROVE  Carries(v, i, f, g)
    <3>1. ASSUME NEW k \in i..Len(v) PROVE v[k].msgtyp # "update"
      <4>1. CASE k = n BY <1>1, <1>4, <4>1
      <4>2. CASE k # n
        <5>1. k \in i..Len(w) /\ k \in 1..Len(w) BY <1>1, <1>2, <4>2
        <5>. QED BY <1>1, <2>2, <5>1
      <4>. QED BY <4>1, <4>2
    <3>. QED BY <2>2, <3>1 DEF Carries
  <2>. QED BY <1>4, <2>1, <2>2 DEF Carries
<1>. QED BY <1>3, <1>4 DEF v

LEMMA CarriesTail ==
    ASSUME NEW w \in Seq(Call), w # <<>>, NEW i \in 1..Len(w), NEW f, NEW g,
           Carries(w, i + 1, f, g)
    PROVE  Carries(Tail(w), i, f, g)
<1>. DEFINE v == Tail(w)
<1>1. /\ Len(w) \in Nat /\ Len(v) = Len(w) - 1
      /\ \A j \in 1..(Len(w) - 1) : v[j] = w[j + 1]
      BY HeadTailProperties, EmptySeq
<1>. HIDE DEF v
<1>2. ASSUME NEW k \in (i + 1)..Len(w), w[k].msgtyp = "update", w[k].flags = g,
             \A l \in (k + 1)..Len(w) : w[l].msgtyp # "update"
      PROVE  Carries(v, i, f, g)
  <2>1. k - 1 \in i..Len(v) /\ k - 1 \in 1..(Len(w) - 1) /\ (k - 1) + 1 = k
        BY <1>1, <1>2
  <2>2. v[k - 1] = w[k] BY <1>1, <2>1
  <2>3. ASSUME NEW l \in ((k - 1) + 1)..Len(v) PROVE v[l].msgtyp # "update"
    <3>1. l + 1 \in (k + 1)..Len(w) /\ l \in 1..(Len(w) - 1) BY <1>1, <1>2
    <3>. QED BY <1>1, <1>2, <3>1
  <2>. QED BY <1>2, <2>1, <2>2, <2>3 DEF Carries
<1>3. ASSUME f = g, \A k \in (i + 1)..Len(w) : w[k].msgtyp # "update"
      PROVE  Carries(v, i, f, g)
  <2>1. ASSUME NEW k \in i..Len(v) PROVE v[k].msgtyp # "update"
    <3>1. k + 1 \in (i + 1)..Len(w) /\ k \in 1..(Len(w) - 1) BY <1>1
    <3>. QED BY <1>1, <1>3, <3>1
  <2>. QED BY <1>3, <2>1 DEF Carries
<1>. QED BY <1>2, <1>3 DEF Carries, v

LEMMA CarriesNext ==
    ASSUME NEW w \in Seq(Call), w # <<>>, NEW f, NEW g, Carries(w, 1, f, g)
    PROVE  Carries(Tail(w), 1,
                   IF Head(w).msgtyp = "update" THEN Head(w).flags ELSE f, g)
<1>1. Len(w) \in Nat /\ Len(w) > 0 /\ Head(w) = w[1] /\ 1 \in 1..Len(w)
      BY HeadTailProperties, EmptySeq
<1>. DEFINE h == IF Head(w).msgtyp = "update" THEN Head(w).flags ELSE f
<1>2. Carries(w, 1 + 1, h, g)
  <2>1. ASSUME NEW k \in 1..Len(w), w[k].msgtyp = "update", w[k].flags = g,
               \A l \in (k + 1)..Len(w) : w[l].msgtyp # "update"
        PROVE  Carries(w, 1 + 1, h, g)
    <3>1. CASE k = 1
      <4>1. h = g BY <1>1, <2>1, <3>1
      <4>. QED BY <2>1, <3>1, <4>1 DEF Carries
    <3>2. CASE k # 1
      <4>1. k \in (1 + 1)..Len(w) BY <1>1, <3>2
      <4>. QED BY <2>1, <4>1 DEF Carries
    <3>. QED BY <3>1, <3>2
  <2>2. ASSUME f = g, \A k \in 1..Len(w) : w[k].msgtyp # "update"
        PROVE  Carries(w, 1 + 1, h, g)
    <3>1. h = g BY <1>1, <2>2
    <3>2. \A k \in (1 + 1)..Len(w) : w[k].msgtyp # "update" BY <1>1, <2>2
    <3>. QED BY <3>1, <3>2 DEF Carries
  <2>. QED BY <2>1, <2>2 DEF Carries
<1>. HIDE DEF h
<1>3. Carries(Tail(w), 1, h, g) BY <1>1, <1>2, CarriesTail
<1>. QED BY <1>3 DEF h

LEMMA CarriesFirst ==
    ASSUME NEW w \in Seq(Call), w # <<>>, NEW f, NEW g, NEW h, Carries(w, 1, f, g),
           Head(w).msgtyp # "update", h = f
    PROVE  Carries(Tail(w), 1, h, g)
BY CarriesNext

LEMMA CarriesEmpty ==
    ASSUME NEW f, NEW g, Carries(<<>>, 1, f, g)
    PROVE  f = g
<1>1. Len(<<>>) = 0 /\ 1..0 = {} OBVIOUS
<1>. QED BY <1>1 DEF Carries

(* Behind the n-th message nothing says that the manager forgot the set. *)
Unbroken(q, n) ==
    \A i \in (n + 1)..Len(q) : q[i].kind \notin {"up", "down", "unregister"}

(* The manager has, or will have, the flags of a client that accepts       *)
(* commands ...                                                            *)
InForce(c, q, k) ==
    /\ c.accept /\ ~c.denied /\ ~Leaving(c) /\ ~Asked(c, "register")
    /\ Unbroken(q, 0)
    => Agrees(c, k)

(* ... of one that is about to, having been registered ...                 *)
Approved(c, q, i) ==
    /\ Ok(q[i]) /\ q[i].reply.msgtyp = "register" /\ q[i].reply \in c.replies
    /\ Unbroken(q, i)

Welcomed(c, q, k) ==
    \A i \in 1..Len(q) : Approved(c, q, i) => Leaving(c) \/ Agrees(c, k)

(* ... and of one whose REGISTER is still on the way. *)
Applies(c, i) ==
    /\ c.wire[i].msgtyp = "register"
    /\ [msgtyp |-> "register", reqno |-> c.wire[i].reqno] \in c.replies

Applied(c) ==
    \A i \in 1..Len(c.wire) : Applies(c, i) =>
       c.wire[i].flags = Options /\ Lands(c, i, Options)

Parting(c) ==
    \A i \in 1..Len(c.wire) : c.wire[i].msgtyp = "unregister" => Leaving(c)

(* What the set has of the flags the user asked for. *)
Wished(c) == IF c.renewed THEN c.flags \in {Options, c.asked} ELSE c.flags = c.asked

Ready(c, q, k) == Welcomed(c, q, k) /\ Applied(c) /\ Parting(c) /\ Wished(c)

Flagged(c, q, k) == InForce(c, q, k) /\ Ready(c, q, k)

LEMMA TailUnbroken ==
    ASSUME NEW q \in Seq(Message), q # <<>>
    PROVE  /\ \A n \in 0..Len(Tail(q)) : Unbroken(Tail(q), n) => Unbroken(q, n + 1)
           /\ Unbroken(q, 1) /\ Head(q).kind \notin {"up", "down", "unregister"}
                 => Unbroken(q, 0)
<1>. DEFINE r == Tail(q)
<1>1. /\ Len(q) \in Nat /\ Len(q) > 0 /\ Len(r) = Len(q) - 1
      /\ \A i \in 1..Len(r) : r[i] = q[i + 1]
      /\ Head(q) = q[1]
      BY TailPlaces
<1>. HIDE DEF r
<1>2. ASSUME NEW n \in 0..Len(r), Unbroken(r, n) PROVE Unbroken(q, n + 1)
  <2>. SUFFICES ASSUME NEW i \in ((n + 1) + 1)..Len(q)
                PROVE  q[i].kind \notin {"up", "down", "unregister"}
       BY DEF Unbroken
  <2>1. i - 1 \in (n + 1)..Len(r) /\ i - 1 \in 1..Len(r) /\ (i - 1) + 1 = i BY <1>1
  <2>2. r[i - 1] = q[i] BY <1>1, <2>1
  <2>. QED BY <1>2, <2>1, <2>2 DEF Unbroken
<1>3. ASSUME Unbroken(q, 1), q[1].kind \notin {"up", "down", "unregister"}
      PROVE  Unbroken(q, 0)
  <2>. SUFFICES ASSUME NEW i \in 1..Len(q)
                PROVE  q[i].kind \notin {"up", "down", "unregister"}
       BY DEF Unbroken
  <2>1. i = 1 \/ i \in (1 + 1)..Len(q) BY <1>1
  <2>. QED BY <1>3, <2>1 DEF Unbroken
<1>. QED BY <1>1, <1>2, <1>3 DEF r

LEMMA TailReady ==
    ASSUME NEW c, NEW q \in Seq(Message), q # <<>>, NEW k, Ready(c, q, k)
    PROVE  Ready(c, Tail(q), k)
<1>. DEFINE r == Tail(q)
<1>1. /\ Len(q) \in Nat /\ Len(r) = Len(q) - 1
      /\ \A i \in 1..Len(r) : r[i] = q[i + 1] /\ i + 1 \in 1..Len(q)
      BY TailPlaces
<1>2. \A n \in 0..Len(r) : Unbroken(r, n) => Unbroken(q, n + 1) BY TailUnbroken
<1>. HIDE DEF r
<1>3. Welcomed(c, r, k)
  <2>. SUFFICES ASSUME NEW i \in 1..Len(r), Approved(c, r, i)
                PROVE  Leaving(c) \/ Agrees(c, k)
       BY DEF Welcomed
  <2>1. i \in 0..Len(r) /\ i + 1 \in 1..Len(q) /\ r[i] = q[i + 1] BY <1>1
  <2>2. Approved(c, q, i + 1) BY <1>2, <2>1 DEF Approved
  <2>. QED BY <2>1, <2>2 DEF Ready, Welcomed
<1>. QED BY <1>3 DEF Ready, r

LEMMA TailFlagged ==
    ASSUME NEW c, NEW q \in Seq(Message), q # <<>>, NEW k,
           Head(q).kind \notin {"up", "down", "unregister"}, Flagged(c, q, k)
    PROVE  Flagged(c, Tail(q), k)
<1>1. Ready(c, Tail(q), k) BY TailReady DEF Flagged
<1>2. Unbroken(Tail(q), 0) => Unbroken(q, 0)
  <2>1. 0 \in 0..Len(Tail(q)) /\ 0 + 1 = 1 BY TailPlaces
  <2>. QED BY <2>1, TailUnbroken
<1>. QED BY <1>1, <1>2 DEF Flagged, InForce

(* What leaves the flags in order, the queue being the same. *)
Steady(d, c) ==
    /\ d.accept => c.accept
    /\ ~d.denied => ~c.denied /\ (Asked(c, "register") => Asked(d, "register"))
    /\ Leaving(c) => Leaving(d)
    /\ \A p \in d.replies : p.msgtyp = "register" => p \in c.replies
    /\ \A f : \A i \in 1..(Len(c.wire) + 1) : Lands(c, i, f) => Lands(d, i, f)
    /\ \A i \in 1..Len(d.wire) :
          \/ i \in 1..Len(c.wire) /\ d.wire[i] = c.wire[i]
          \/ /\ d.wire[i].msgtyp # "register"
             /\ d.wire[i].msgtyp = "unregister" => Leaving(d)
    /\ Wished(c) => Wished(d)

LEMMA SteadyReady ==
    ASSUME NEW c \in Client, NEW d, Steady(d, c), NEW q, NEW k
    PROVE  /\ Ready(c, q, k) => Ready(d, q, k)
           /\ Flagged(c, q, k) => Flagged(d, q, k)
<1>. SUFFICES ASSUME Ready(c, q, k)
              PROVE  Ready(d, q, k) /\ (InForce(c, q, k) => InForce(d, q, k))
     BY DEF Flagged
<1>1. Len(c.wire) \in Nat BY DEF Client
<1>2. Agrees(c, k) => Agrees(d, k)
  <2>1. 1 \in 1..(Len(c.wire) + 1) BY <1>1
  <2>. QED BY <2>1 DEF Agrees, Steady
<1>3. InForce(c, q, k) => InForce(d, q, k) BY <1>2 DEF InForce, Steady
<1>4. Welcomed(d, q, k)
  <2>. SUFFICES ASSUME NEW i \in 1..Len(q), Approved(d, q, i)
                PROVE  Leaving(d) \/ Agrees(d, k)
       BY DEF Welcomed
  <2>1. Approved(c, q, i) BY DEF Approved, Steady
  <2>. QED BY <1>2, <2>1 DEF Ready, Welcomed, Steady
<1>5. Applied(d)
  <2>. SUFFICES ASSUME NEW i \in 1..Len(d.wire), Applies(d, i)
                PROVE  d.wire[i].flags = Options /\ Lands(d, i, Options)
       BY DEF Applied
  <2>1. i \in 1..Len(c.wire) /\ d.wire[i] = c.wire[i] BY DEF Applies, Steady
  <2>2. Applies(c, i) BY <2>1 DEF Applies, Steady
  <2>3. c.wire[i].flags = Options /\ Lands(c, i, Options)
        BY <2>1, <2>2 DEF Ready, Applied
  <2>4. i \in 1..(Len(c.wire) + 1) BY <1>1, <2>1
  <2>. QED BY <2>1, <2>3, <2>4 DEF Steady
<1>6. Parting(d)
  <2>. SUFFICES ASSUME NEW i \in 1..Len(d.wire), d.wire[i].msgtyp = "unregister"
                PROVE  Leaving(d)
       BY DEF Parting
  <2>. QED BY DEF Ready, Parting, Steady
<1>7. Wished(d) BY DEF Ready, Steady
<1>. QED BY <1>3, <1>4, <1>5, <1>6, <1>7 DEF Ready

(* A call was sent, the x at the end of the wire. *)
Posted(d, c, x) ==
    /\ x \in Call /\ x.reqno = c.reqno + 1
    /\ c.wire \in Seq(Call) /\ d.wire = Append(c.wire, x)
    /\ Len(c.wire) \in Nat /\ Len(d.wire) = Len(c.wire) + 1
    /\ \A i \in 1..Len(c.wire) : d.wire[i] = c.wire[i]
    /\ d.wire[Len(c.wire) + 1] = x
    /\ \A p \in d.replies : p \in c.replies \/ p.msgtyp = x.msgtyp
    /\ c.replies \subseteq d.replies
    /\ [msgtyp |-> x.msgtyp, reqno |-> x.reqno] \in d.replies

LEMMA SentPosted ==
    ASSUME NEW c \in Client, NEW d, NEW t \in MsgType, NEW flags \in Flags,
           Sent(d, c, t, flags)
    PROVE  \E x : Posted(d, c, x) /\ x.msgtyp = t /\ x.flags = flags
<1>. DEFINE x == [msgtyp |-> t, reqno |-> c.reqno + 1, flags |-> flags]
            p == [msgtyp |-> t, reqno |-> c.reqno + 1]
<1>1. x \in Call /\ x.msgtyp = t /\ x.flags = flags /\ x.reqno = c.reqno + 1
      BY DEF Client, Call
<1>2. d.wire = Append(c.wire, x) /\ c.wire \in Seq(Call) BY DEF Sent, Client
<1>3. d.replies = c.replies \cup {p} /\ p.msgtyp = t BY DEF Sent
<1>5. [msgtyp |-> x.msgtyp, reqno |-> x.reqno] = p OBVIOUS
<1>. HIDE DEF x, p
<1>4. /\ Len(c.wire) \in Nat /\ Len(d.wire) = Len(c.wire) + 1
      /\ \A i \in 1..Len(c.wire) : d.wire[i] = c.wire[i]
      /\ d.wire[Len(c.wire) + 1] = x
      BY <1>1, <1>2, AppendProperties
<1>6. Posted(d, c, x) BY <1>1, <1>2, <1>3, <1>4, <1>5 DEF Posted
<1>. QED BY <1>1, <1>6

LEMMA PostedLast ==
    ASSUME NEW d, NEW c, NEW x, Posted(d, c, x), NEW i \in 1..Len(d.wire)
    PROVE  (i \in 1..Len(c.wire) /\ d.wire[i] = c.wire[i]) \/ d.wire[i] = x
<1>1. CASE i = Len(c.wire) + 1 BY <1>1 DEF Posted
<1>2. CASE i # Len(c.wire) + 1
  <2>1. i \in 1..Len(c.wire) BY <1>2 DEF Posted
  <2>. QED BY <2>1 DEF Posted
<1>. QED BY <1>1, <1>2

LEMMA StandsSteady ==
    ASSUME NEW c \in Client, NEW d, Stands(d, c) \/ Dismisses(d, c)
    PROVE  Steady(d, c)
<1>1. /\ Calls(d, c) /\ Wish(d, c) /\ d.denied = c.denied
      /\ d.accept => c.accept
      BY DEF Stands, Dismisses, Marks
<1>2. \A f, i : Lands(c, i, f) => Lands(d, i, f) BY <1>1 DEF Lands, Calls, Wish
<1>3. Wished(c) => Wished(d) BY <1>1 DEF Wished, Wish
<1>. QED BY <1>1, <1>2, <1>3 DEF Steady, Calls, Leaving, Asked

(* Another call than a REGISTER is sent. *)
LEMMA PostedSteady ==
    ASSUME NEW c \in Client, NEW d, NEW x, Posted(d, c, x), Marks(d, c),
           x.msgtyp # "register", x.msgtyp = "unregister" => Leaving(d),
           IF x.msgtyp = "update"
           THEN d.flags = x.flags /\ d.asked = x.flags /\ d.renewed = FALSE
           ELSE Wish(d, c)
    PROVE  Steady(d, c)
<1>1. \A p \in d.replies : p.msgtyp = "register" => p \in c.replies BY DEF Posted
<1>2. /\ Leaving(c) => Leaving(d)
      /\ Asked(c, "register") => Asked(d, "register")
      BY DEF Leaving, Asked, Posted
<1>3. ASSUME NEW i \in 1..(Len(c.wire) + 1), NEW f, Lands(c, i, f)
      PROVE  Lands(d, i, f)
  <2>1. c.wire \in Seq(Call) /\ x \in Call /\ d.wire = Append(c.wire, x) BY DEF Posted
  <2>2. CASE x.msgtyp = "update"
    <3>1. Carries(d.wire, i, f, x.flags) BY <2>1, <2>2, CarriesAppend
    <3>. QED BY <2>2, <3>1 DEF Lands
  <2>3. CASE x.msgtyp # "update"
    <3>1. \A g : Carries(c.wire, i, f, g) => Carries(d.wire, i, f, g)
          BY <2>1, <2>3, CarriesAppend
    <3>. QED BY <1>3, <2>3, <3>1 DEF Lands, Wish
  <2>. QED BY <2>2, <2>3
<1>4. ASSUME NEW i \in 1..Len(d.wire)
      PROVE  \/ i \in 1..Len(c.wire) /\ d.wire[i] = c.wire[i]
             \/ /\ d.wire[i].msgtyp # "register"
                /\ d.wire[i].msgtyp = "unregister" => Leaving(d)
      BY PostedLast
<1>5. Wished(c) => Wished(d) BY DEF Wished, Wish
<1>6. d.accept = c.accept /\ d.denied = c.denied BY DEF Marks
<1>. QED BY <1>1, <1>2, <1>3, <1>4, <1>5, <1>6 DEF Steady

LEMMA SendsSteady ==
    ASSUME NEW c \in Client, NEW d, NEW t \in MsgType \ {"register", "unregister"},
           NEW flags \in Flags, Sends(d, c, t, flags)
    PROVE  Steady(d, c)
<1>1. Place(d, c) /\ Marks(d, c) BY DEF Sends
<1>2. CASE c.rset.state # "connected"
  <2>1. Calls(d, c) /\ Wish(d, c) BY <1>2 DEF Sends
  <2>2. \A f, i : Lands(c, i, f) => Lands(d, i, f) BY <2>1 DEF Lands, Calls, Wish
  <2>3. Wished(c) => Wished(d) BY <2>1 DEF Wished, Wish
  <2>. QED BY <1>1, <2>1, <2>2, <2>3 DEF Steady, Marks, Calls, Leaving, Asked
<1>3. CASE c.rset.state = "connected"
  <2>1. Sent(d, c, t, flags) /\ Wishes(d, c, t, flags) BY <1>3 DEF Sends
  <2>2. PICK x : Posted(d, c, x) /\ x.msgtyp = t /\ x.flags = flags
        BY <2>1, SentPosted
  <2>3. IF x.msgtyp = "update"
        THEN d.flags = x.flags /\ d.asked = x.flags /\ d.renewed = FALSE
        ELSE Wish(d, c)
        BY <2>1, <2>2 DEF Wishes
  <2>. QED BY <1>1, <2>2, <2>3, PostedSteady
<1>. QED BY <1>2, <1>3

LEMMA FreedAlone ==
    ASSUME NEW c, Kept(c), c.rset.state = "freed"
    PROVE  c.replies = {} /\ ~c.path
<1>1. IsFiniteSet(c.replies) /\ Cardinality(c.replies) \in Nat
      BY FS_CardinalityType DEF Kept
<1>2. c.rset.refcnt = 0 /\ c.rset.refcnt \in {Held(c), Held(c) + 1}
      /\ (c.path => c.rset.refcnt = Held(c) + 1)
      BY DEF Kept, Counted
<1>3. Cardinality(c.replies) = 0 /\ ~c.path BY <1>1, <1>2 DEF Held
<1>. QED BY <1>1, <1>3, FS_EmptySet

LEMMA LeavesSteady ==
    ASSUME NEW c \in Client, NEW d, Leaves(d, c)
    PROVE  Steady(d, c)
<1>1. "unregister" \in MsgType /\ NoFlags \in Flags BY NoFlagsType DEF MsgType
<1>2. Sent(d, c, "unregister", NoFlags) /\ Marks(d, c) /\ Wish(d, c) BY DEF Leaves
<1>3. PICK x : Posted(d, c, x) /\ x.msgtyp = "unregister" BY <1>1, <1>2, SentPosted
<1>4. Leaving(d)
  <2>. DEFINE p == [msgtyp |-> x.msgtyp, reqno |-> x.reqno]
  <2>1. p \in d.replies /\ p.msgtyp = "unregister" BY <1>3 DEF Posted
  <2>. QED BY <2>1 DEF Leaving
<1>. QED BY <1>2, <1>3, <1>4, PostedSteady

LEMMA AnswersSteady ==
    ASSUME NEW c \in Client, NEW d, NEW p \in c.replies, NEW err \in BOOLEAN,
           Answers(d, c, p, err), err \/ p.msgtyp # "register"
    PROVE  Steady(d, c)
<1>1. /\ d.wire = c.wire /\ d.replies = c.replies \ {p} /\ Wish(d, c)
      /\ p.msgtyp # "unregister"
      BY DEF Answers
<1>2. /\ d.accept => c.accept
      /\ ~d.denied => ~c.denied /\ p.msgtyp # "register"
      BY DEF Answers, Marks
<1>3. /\ Leaving(c) => Leaving(d)
      /\ p.msgtyp # "register" => (Asked(c, "register") => Asked(d, "register"))
      BY <1>1 DEF Leaving, Asked
<1>4. \A f, i : Lands(c, i, f) => Lands(d, i, f) BY <1>1 DEF Lands, Wish
<1>5. Wished(c) => Wished(d) BY <1>1 DEF Wished, Wish
<1>. QED BY <1>1, <1>2, <1>3, <1>4, <1>5 DEF Steady

(* The client has been told that it is registered. *)
LEMMA RegisteredFlagged ==
    ASSUME NEW c \in Client, NEW d, NEW q \in Seq(Message), q # <<>>, NEW k,
           Ready(c, q, k), Ok(Head(q)),
           Head(q).reply \in c.replies, Head(q).reply.msgtyp = "register",
           Answers(d, c, Head(q).reply, FALSE)
    PROVE  Flagged(d, Tail(q), k)
<1>. DEFINE r == Tail(q)
            p == Head(q).reply
<1>1. Len(q) \in Nat /\ Len(q) > 0 /\ Head(q) = q[1] BY TailPlaces
<1>2. Ready(c, r, k) BY TailReady
<1>3. Unbroken(r, 0) => Unbroken(q, 1)
  <2>1. 0 \in 0..Len(r) /\ 0 + 1 = 1 BY TailPlaces
  <2>. QED BY <2>1, TailUnbroken
<1>4. Ok(q[1]) /\ q[1].reply \in c.replies /\ q[1].reply.msgtyp = "register"
      BY <1>1
<1>. HIDE DEF r
<1>5. /\ d.wire = c.wire /\ d.replies = c.replies \ {p} /\ Wish(d, c)
      /\ p.msgtyp = "register"
      BY DEF Answers
<1>. HIDE DEF p
<1>6. /\ \A f, i : Lands(c, i, f) => Lands(d, i, f)
      /\ Agrees(c, k) => Agrees(d, k)
      BY <1>5 DEF Lands, Wish, Agrees
<1>7. Leaving(c) <=> Leaving(d) BY <1>5 DEF Leaving
<1>8. InForce(d, r, k)
  <2>. SUFFICES ASSUME ~Leaving(d), Unbroken(r, 0) PROVE Agrees(d, k)
       BY DEF InForce
  <2>1. Approved(c, q, 1) BY <1>3, <1>4 DEF Approved
  <2>2. 1 \in 1..Len(q) BY <1>1
  <2>. QED BY <1>6, <1>7, <2>1, <2>2 DEF Ready, Welcomed
<1>9. Welcomed(d, r, k)
  <2>1. \A i : Approved(d, r, i) => Approved(c, r, i) BY <1>5 DEF Approved
  <2>. QED BY <1>2, <1>6, <1>7, <2>1 DEF Ready, Welcomed
<1>10. Applied(d)
  <2>1. \A i : Applies(d, i) => Applies(c, i) BY <1>5 DEF Applies
  <2>. QED BY <1>2, <1>5, <1>6, <2>1 DEF Ready, Applied
<1>11. Parting(d) BY <1>2, <1>5, <1>7 DEF Ready, Parting
<1>12. Wished(d) BY <1>2, <1>5 DEF Ready, Wished, Wish
<1>. QED BY <1>8, <1>9, <1>10, <1>11, <1>12 DEF Flagged, Ready, r

(* It has been told that the manager is gone. *)
LEMMA DroppedFlagged ==
    ASSUME NEW c, NEW d, Kept(d), Drops(d, c), NEW q, NEW k, Ready(c, q, k)
    PROVE  Flagged(d, q, k)
<1>1. Calls(d, c) /\ Wish(d, c) /\ d.rset.state \in {"killed", "freed"} BY DEF Drops
<1>2. InForce(d, q, k) BY <1>1 DEF InForce, Kept, Accepts
<1>3. /\ \A f, i : Lands(c, i, f) => Lands(d, i, f)
      /\ Agrees(c, k) => Agrees(d, k)
      /\ Leaving(c) => Leaving(d)
      BY <1>1 DEF Lands, Wish, Agrees, Calls, Leaving
<1>4. Welcomed(d, q, k)
  <2>1. \A i : Approved(d, q, i) => Approved(c, q, i) BY <1>1 DEF Approved, Calls
  <2>. QED BY <1>3, <2>1 DEF Ready, Welcomed
<1>5. Applied(d)
  <2>1. \A i : Applies(d, i) => Applies(c, i) BY <1>1 DEF Applies, Calls
  <2>. QED BY <1>1, <1>3, <2>1 DEF Ready, Applied, Calls
<1>6. Parting(d) BY <1>1, <1>3 DEF Ready, Parting, Calls
<1>7. Wished(d) BY <1>1 DEF Ready, Wished, Wish
<1>. QED BY <1>2, <1>4, <1>5, <1>6, <1>7 DEF Flagged, Ready

(* It has been told that there is a manager, or another one. *)
LEMMA ConnectedFlagged ==
    ASSUME NEW c \in Client, NEW d, NEW q \in Seq(Message), NEW k,
           Ready(c, q, k), Kept(c), Named(c, q), Apart(c, q), Connects(d, c)
    PROVE  Flagged(d, q, k)
<1>1. Sent(d, c, "register", Options) /\ d.renewed = TRUE /\ d.asked = c.asked
      BY DEF Connects
<1>2. Options \in Flags /\ "register" \in MsgType BY CliAssumption DEF MsgType
<1>3. PICK x : Posted(d, c, x) /\ x.msgtyp = "register" /\ x.flags = Options
      BY <1>1, <1>2, SentPosted
<1>4. c.reqno \in Nat BY DEF Client
<1>5. \A p \in d.replies : p \in c.replies \/ p.reqno = c.reqno + 1
      BY <1>1 DEF Sent
<1>6. InForce(d, q, k)
  <2>. DEFINE p == [msgtyp |-> x.msgtyp, reqno |-> x.reqno]
  <2>1. p \in d.replies /\ p.msgtyp = "register" BY <1>3 DEF Posted
  <2>2. Asked(d, "register") BY <2>1 DEF Asked
  <2>. QED BY <2>2 DEF InForce
<1>7. c.replies # {} => d.flags = c.flags
  <2>1. CASE c.rset.state = "freed"
    <3>1. c.replies = {} BY <2>1, FreedAlone
    <3>. QED BY <3>1
  <2>2. CASE c.rset.state # "freed" BY <2>2 DEF Connects
  <2>. QED BY <2>1, <2>2
<1>8. ASSUME c.replies # {}, NEW i \in 1..(Len(c.wire) + 1), NEW f, Lands(c, i, f)
      PROVE  Lands(d, i, f)
  <2>1. \A g : Carries(c.wire, i, f, g) => Carries(d.wire, i, f, g)
        BY <1>3, CarriesAppend DEF Posted
  <2>. QED BY <1>1, <1>7, <1>8, <2>1 DEF Lands
<1>9. Leaving(c) => Leaving(d) BY <1>3 DEF Posted, Leaving
<1>10. Welcomed(d, q, k)
  <2>. SUFFICES ASSUME NEW i \in 1..Len(q), Approved(d, q, i)
                PROVE  Leaving(d) \/ Agrees(d, k)
       BY DEF Welcomed
  <2>1. q[i].reply.reqno \in 1..c.reqno
    <3>1. q[i] \in Elements(q) /\ q[i].kind = "answer"
          BY DEF Elements, Approved, Ok
    <3>. QED BY <3>1 DEF Apart
  <2>2. q[i].reply \in c.replies BY <1>4, <1>5, <2>1 DEF Approved
  <2>3. Approved(c, q, i) BY <2>2 DEF Approved
  <2>4. CASE Leaving(c) BY <1>9, <2>4
  <2>5. CASE Agrees(c, k)
    <3>1. 1 \in 1..(Len(c.wire) + 1) BY <1>3 DEF Posted
    <3>. QED BY <1>8, <2>2, <2>5, <3>1 DEF Agrees
  <2>. QED BY <2>3, <2>4, <2>5 DEF Ready, Welcomed
<1>11. Applied(d)
  <2>. SUFFICES ASSUME NEW i \in 1..Len(d.wire), Applies(d, i)
                PROVE  d.wire[i].flags = Options /\ Lands(d, i, Options)
       BY DEF Applied
  <2>1. CASE i \in 1..Len(c.wire)
    <3>1. d.wire[i] = c.wire[i] /\ i \in 1..(Len(c.wire) + 1) BY <1>3, <2>1 DEF Posted
    <3>2. c.wire[i].reqno \in 1..c.reqno
      <4>1. c.wire[i] \in Elements(c.wire) BY <2>1 DEF Elements
      <4>. QED BY <4>1 DEF Named, Fits
    <3>. DEFINE p == [msgtyp |-> "register", reqno |-> c.wire[i].reqno]
    <3>3. p \in d.replies /\ p.reqno = c.wire[i].reqno BY <3>1 DEF Applies
    <3>. HIDE DEF p
    <3>4. p \in c.replies BY <1>4, <1>5, <3>2, <3>3
    <3>5. Applies(c, i) BY <3>1, <3>4 DEF Applies, p
    <3>6. c.wire[i].flags = Options /\ Lands(c, i, Options)
          BY <2>1, <3>5 DEF Ready, Applied
    <3>. QED BY <1>8, <3>1, <3>4, <3>6
  <2>2. CASE i \notin 1..Len(c.wire)
    <3>1. i = Len(c.wire) + 1 /\ Len(d.wire) = i /\ d.wire[i] = x /\ i \in Nat
          BY <1>3, <2>2 DEF Posted
    <3>2. \A j \in i..Len(d.wire) : d.wire[j].msgtyp # "update" BY <1>3, <3>1
    <3>. QED BY <1>1, <1>3, <3>1, <3>2 DEF Carries, Lands
  <2>. QED BY <2>1, <2>2
<1>12. Parting(d)
  <2>. SUFFICES ASSUME NEW i \in 1..Len(d.wire), d.wire[i].msgtyp = "unregister"
                PROVE  Leaving(d)
       BY DEF Parting
  <2>1. i \in 1..Len(c.wire) /\ d.wire[i] = c.wire[i] BY <1>3, PostedLast
  <2>. QED BY <1>9, <2>1 DEF Ready, Parting
<1>13. Wished(d) BY <1>1 DEF Ready, Wished, Connects
<1>. QED BY <1>6, <1>10, <1>11, <1>12, <1>13 DEF Flagged, Ready

LEMMA HandlesFlagged ==
    ASSUME Inv, Inv', MainLoop, Good(cl'), Apart(cl, inq), Flagged(cl, inq, known)
    PROVE  Flagged(cl', inq', known')
<1>. DEFINE m == Head(inq)
            r == Tail(inq)
<1>1. /\ inq # <<>> /\ inq' = r /\ known' = known /\ m \in Message
      /\ Handles(cl', cl, m)
      BY MainLoopHandles
<1>2. cl \in Client /\ inq \in Seq(Message) /\ Named(cl, inq) BY DEF Inv, TypeOK
<1>3. Kept(cl) /\ Kept(cl') BY GoodBefore
<1>. SUFFICES Flagged(cl', r, known) BY <1>1
<1>4. m.kind \notin {"up", "down", "unregister"} => Flagged(cl, r, known)
      BY <1>1, <1>2, TailFlagged
<1>5. Ready(cl, r, known) BY <1>1, <1>2, TailReady DEF Flagged
<1>6. CASE m.kind = "up" /\ Connects(cl', cl)
  <2>1. r \in Seq(Message) BY <1>1, <1>2
  <2>2. Elements(r) \subseteq Elements(inq) BY <1>1, <1>2, TailElements
  <2>3. Named(cl, r) BY <1>2, <2>2 DEF Named
  <2>4. Apart(cl, r) BY <2>2 DEF Apart, Settled, Failed
  <2>. HIDE DEF r
  <2>. QED BY <1>2, <1>3, <1>5, <1>6, <2>1, <2>3, <2>4, ConnectedFlagged
<1>7. CASE m.kind = "down" /\ Drops(cl', cl)
      BY <1>3, <1>5, <1>7, DroppedFlagged
<1>8. CASE m.kind = "answer" /\ m.reply \in cl.replies
           /\ Answers(cl', cl, m.reply, m.err)
  <2>1. CASE m.err = FALSE /\ m.reply.msgtyp = "register"
    <3>1. Ok(m) /\ Answers(cl', cl, m.reply, FALSE) BY <1>8, <2>1 DEF Ok
    <3>. QED BY <1>1, <1>2, <1>8, <2>1, <3>1, RegisteredFlagged DEF Flagged
  <2>2. CASE ~(m.err = FALSE /\ m.reply.msgtyp = "register")
    <3>1. m.err \in BOOLEAN BY <1>1, <1>8, MessageKinds DEF AnswerMsg
    <3>2. m.err \/ m.reply.msgtyp # "register" BY <2>2, <3>1
    <3>. HIDE DEF m
    <3>3. Steady(cl', cl) BY <1>2, <1>8, <3>1, <3>2, AnswersSteady
    <3>. QED BY <1>2, <1>4, <1>8, <3>3, SteadyReady
  <2>. QED BY <2>1, <2>2
<1>. HIDE DEF m, r
<1>9. ASSUME Stands(cl', cl), m.kind \notin {"up", "down", "unregister"}
      PROVE  Flagged(cl', r, known)
      BY <1>2, <1>4, <1>9, StandsSteady, SteadyReady
<1>10. ASSUME NEW t \in {"acquire", "release"}, Sends(cl', cl, t, NoFlags),
              m.kind \notin {"up", "down", "unregister"}
       PROVE  Flagged(cl', r, known)
  <2>1. t \in MsgType \ {"register", "unregister"} /\ NoFlags \in Flags
        BY NoFlagsType DEF MsgType
  <2>2. Steady(cl', cl) BY <1>2, <1>10, <2>1, SendsSteady
  <2>. QED BY <1>2, <1>4, <1>10, <2>2, SteadyReady
<1>11. CASE m.kind = "answer" /\ m.reply \notin cl.replies /\ Stands(cl', cl)
       BY <1>9, <1>11
<1>12. CASE m.kind \in NoticeKind /\ Heeds(cl', cl, m)
  <2>1. CASE m.kind = "unregister"
    <3>1. Dismisses(cl', cl) BY <2>1, <1>12 DEF Heeds
    <3>2. Ready(cl', r, known) BY <1>2, <1>5, <3>1, StandsSteady, SteadyReady
    <3>3. InForce(cl', r, known) BY <3>1 DEF InForce, Dismisses
    <3>. QED BY <3>2, <3>3 DEF Flagged
  <2>2. CASE m.kind # "unregister"
    <3>1. m.kind \notin {"up", "down", "unregister"} BY <1>12, <2>2 DEF NoticeKind
    <3>. QED BY <1>9, <1>10, <1>12, <2>2, <3>1 DEF Heeds
  <2>. QED BY <2>1, <2>2
<1>13. CASE m.kind \in NoticeKind /\ ~(cl.path /\ resset_find(cl.rset))
            /\ Stands(cl', cl)
  <2>1. CASE m.kind = "unregister"
    <3>1. Ready(cl', r, known) BY <1>2, <1>5, <1>13, StandsSteady, SteadyReady
    <3>2. InForce(cl', r, known)
      <4>1. cl.rset.state # "connected"
            BY <1>3, <1>13 DEF Kept, Counted, resset_find
      <4>2. cl'.rset.state # "connected" BY <1>13, <4>1 DEF Stands, Place
      <4>. QED BY <1>3, <4>2 DEF InForce, Kept, Accepts
    <3>. QED BY <3>1, <3>2 DEF Flagged
  <2>2. CASE m.kind # "unregister"
    <3>1. m.kind \notin {"up", "down", "unregister"} BY <1>13, <2>2 DEF NoticeKind
    <3>. QED BY <1>9, <1>13, <3>1
  <2>. QED BY <2>1, <2>2
<1>. QED BY <1>1, <1>6, <1>7, <1>8, <1>11, <1>12, <1>13 DEF Handles

LEMMA CommandsSteady ==
    ASSUME NEW c \in Client, NEW d, Commands(d, c)
    PROVE  Steady(d, c)
<1>1. ASSUME NEW t \in Sendable \cup {"update"}, NEW flags \in Flags,
             Sends(d, c, t, flags)
      PROVE  Steady(d, c)
  <2>1. t \in MsgType \ {"register", "unregister"} BY CliAssumption DEF MsgType
  <2>. QED BY <1>1, <2>1, SendsSteady
<1>2. CASE Sends(d, c, "acquire", NoFlags)
  <2>1. "acquire" \in MsgType \ {"register", "unregister"} /\ NoFlags \in Flags
        BY NoFlagsType DEF MsgType
  <2>. QED BY <1>2, <2>1, SendsSteady
<1>. QED BY <1>1, <1>2, LeavesSteady, StandsSteady DEF Commands

LEMMA ClientFlagged ==
    ASSUME Inv, Inv', User \/ Timeout, Good(cl'), Flagged(cl, inq, known)
    PROVE  Flagged(cl', inq', known')
<1>1. cl \in Client BY DEF Inv, TypeOK
<1>2. UNCHANGED <<inq, up, known>>
      BY DEF User, Send, Update, Disconnect, Flood, Stop, Quit, Command, Timeout
<1>3. Steady(cl', cl)
  <2>1. CASE User BY <1>1, <2>1, UserCommands, CommandsSteady
  <2>2. CASE Timeout BY <1>1, <2>2, TimeoutAnswers, AnswersSteady
  <2>. QED BY <2>1, <2>2
<1>. QED BY <1>1, <1>2, <1>3, SteadyReady
-----------------------------------------------------------------------------
(* The bus and the manager take calls from the wire and add to the queue.  *)

(* Of what is added to q only a may be a positive answer. *)
Grows(r, q, a) ==
    /\ Len(q) \in Nat /\ Len(r) \in Nat /\ Len(r) >= Len(q)
    /\ \A i \in 1..Len(q) : r[i] = q[i]
    /\ \A i \in 1..Len(r) : i \in 1..Len(q) \/ r[i] = a \/ ~Ok(r[i])

LEMMA QueueGrows ==
    ASSUME NEW q \in Seq(Message), NEW a \in Message
    PROVE  /\ Grows(q, q, a)
           /\ Grows(Append(q, a), q, a)
           /\ \A b \in Message : ~Ok(b) => Grows(Append(Append(q, a), b), q, a)
<1>. DEFINE r == Append(q, a)
<1>1. /\ r \in Seq(Message) /\ Len(q) \in Nat /\ Len(r) = Len(q) + 1
      /\ \A i \in 1..Len(q) : r[i] = q[i]
      /\ r[Len(q) + 1] = a
      BY AppendPlaces
<1>. HIDE DEF r
<1>2. Grows(q, q, a) BY <1>1 DEF Grows
<1>3. \A i \in 1..Len(r) : i \in 1..Len(q) \/ i = Len(q) + 1 BY <1>1
<1>4. Grows(r, q, a) BY <1>1, <1>3 DEF Grows
<1>5. ASSUME NEW b \in Message, ~Ok(b) PROVE Grows(Append(r, b), q, a)
  <2>. DEFINE s == Append(r, b)
  <2>1. /\ Len(s) = Len(r) + 1
        /\ \A i \in 1..Len(r) : s[i] = r[i]
        /\ s[Len(r) + 1] = b
        BY <1>1, AppendPlaces
  <2>. HIDE DEF s
  <2>2. ASSUME NEW i \in 1..Len(s)
        PROVE  i \in 1..Len(q) \/ s[i] = a \/ ~Ok(s[i])
    <3>1. CASE i \in 1..Len(r) BY <1>1, <1>3, <2>1, <3>1
    <3>2. CASE i \notin 1..Len(r)
      <4>1. i = Len(r) + 1 BY <1>1, <2>1, <3>2
      <4>. QED BY <1>5, <2>1, <4>1
    <3>. QED BY <3>1, <3>2
  <2>3. Len(s) \in Nat /\ Len(s) >= Len(q) /\ 1..Len(q) \subseteq 1..Len(r)
        BY <1>1, <2>1
  <2>4. \A i \in 1..Len(q) : s[i] = q[i] BY <1>1, <2>1, <2>3
  <2>. QED BY <1>1, <2>2, <2>3, <2>4 DEF Grows, s
<1>. QED BY <1>2, <1>4, <1>5 DEF r

(* The wire is as it was, or its first calls are gone. *)
Drained(d, c) ==
    \/ d.wire = c.wire
    \/ c.wire # <<>> /\ d.wire = Tail(c.wire)
    \/ \E n \in 0..Len(c.wire) : d.wire = SubSeq(c.wire, n + 1, Len(c.wire))

LEMMA CarriesDrop ==
    ASSUME NEW w \in Seq(Call), NEW n \in 0..Len(w),
           NEW i \in 1..Len(SubSeq(w, n + 1, Len(w)))
    PROVE  LET v == SubSeq(w, n + 1, Len(w))
           IN  /\ n + i \in 1..Len(w) /\ v[i] = w[n + i]
               /\ \A f, g : Carries(w, n + i, f, g) => Carries(v, i, f, g)
<1>. DEFINE v == SubSeq(w, n + 1, Len(w))
<1>1. /\ Len(w) \in Nat /\ n \in Nat /\ Len(v) = Len(w) - n
      /\ \A j \in 1..(Len(w) - n) : v[j] = w[n + j]
      BY SubSeqProperties
<1>. HIDE DEF v
<1>2. i \in 1..Len(v) BY DEF v
<1>3. n + i \in 1..Len(w) /\ v[i] = w[n + i] BY <1>1, <1>2
<1>4. ASSUME NEW f, NEW g, NEW k \in (n + i)..Len(w), w[k].msgtyp = "update",
             w[k].flags = g, \A l \in (k + 1)..Len(w) : w[l].msgtyp # "update"
      PROVE  Carries(v, i, f, g)
  <2>1. k - n \in i..Len(v) /\ k - n \in 1..(Len(w) - n) /\ n + (k - n) = k
        BY <1>1, <1>2
  <2>2. v[k - n] = w[k] BY <1>1, <2>1
  <2>3. ASSUME NEW l \in ((k - n) + 1)..Len(v) PROVE v[l].msgtyp # "update"
    <3>1. n + l \in (k + 1)..Len(w) /\ l \in 1..(Len(w) - n) BY <1>1, <1>2, <2>1
    <3>. QED BY <1>1, <1>4, <3>1
  <2>. QED BY <1>4, <2>1, <2>2, <2>3 DEF Carries
<1>5. ASSUME NEW f, NEW g, f = g, \A k \in (n + i)..Len(w) : w[k].msgtyp # "update"
      PROVE  Carries(v, i, f, g)
  <2>1. ASSUME NEW k \in i..Len(v) PROVE v[k].msgtyp # "update"
    <3>1. n + k \in (n + i)..Len(w) /\ k \in 1..(Len(w) - n) BY <1>1, <1>2
    <3>. QED BY <1>1, <1>5, <3>1
  <2>. QED BY <1>5, <2>1 DEF Carries
<1>6. ASSUME NEW f, NEW g, Carries(w, n + i, f, g) PROVE Carries(v, i, f, g)
  <2>1. CASE f = g /\ \A k \in (n + i)..Len(w) : w[k].msgtyp # "update"
        BY <1>5, <2>1
  <2>2. CASE \E k \in (n + i)..Len(w) :
                /\ w[k].msgtyp = "update" /\ w[k].flags = g
                /\ \A l \in (k + 1)..Len(w) : w[l].msgtyp # "update"
    <3>1. PICK k \in (n + i)..Len(w) :
             /\ w[k].msgtyp = "update" /\ w[k].flags = g
             /\ \A l \in (k + 1)..Len(w) : w[l].msgtyp # "update"
          BY <2>2
    <3>. QED BY <1>4, <3>1
  <2>. QED BY <1>6, <2>1, <2>2 DEF Carries
<1>. QED BY <1>3, <1>6 DEF v

LEMMA DrainedPlaces ==
    ASSUME NEW c \in Client, NEW d, Drained(d, c), Wish(d, c), NEW i \in 1..Len(d.wire)
    PROVE  \E j \in 1..Len(c.wire) :
              /\ d.wire[i] = c.wire[j]
              /\ \A f : Lands(c, j, f) => Lands(d, i, f)
<1>1. c.wire \in Seq(Call) BY DEF Client
<1>2. ASSUME NEW j, \A f, g : Carries(c.wire, j, f, g) => Carries(d.wire, i, f, g)
      PROVE  \A f : Lands(c, j, f) => Lands(d, i, f)
      BY <1>2 DEF Lands, Wish
<1>3. CASE d.wire = c.wire BY <1>2, <1>3
<1>4. CASE c.wire # <<>> /\ d.wire = Tail(c.wire)
  <2>1. /\ Len(c.wire) \in Nat /\ Len(d.wire) = Len(c.wire) - 1
        /\ \A j \in 1..(Len(c.wire) - 1) : d.wire[j] = c.wire[j + 1]
        BY <1>1, <1>4, HeadTailProperties, EmptySeq
  <2>2. i + 1 \in 1..Len(c.wire) /\ i \in 1..Len(c.wire) /\ i \in 1..(Len(c.wire) - 1)
        BY <2>1
  <2>3. d.wire[i] = c.wire[i + 1] BY <2>1, <2>2
  <2>4. \A f, g : Carries(c.wire, i + 1, f, g) => Carries(d.wire, i, f, g)
        BY <1>1, <1>4, <2>2, CarriesTail
  <2>. QED BY <1>2, <2>2, <2>3, <2>4
<1>5. CASE \E n \in 0..Len(c.wire) : d.wire = SubSeq(c.wire, n + 1, Len(c.wire))
  <2>1. PICK n \in 0..Len(c.wire) : d.wire = SubSeq(c.wire, n + 1, Len(c.wire))
        BY <1>5
  <2>2. /\ n + i \in 1..Len(c.wire) /\ d.wire[i] = c.wire[n + i]
        /\ \A f, g : Carries(c.wire, n + i, f, g) => Carries(d.wire, i, f, g)
        BY <1>1, <2>1, CarriesDrop
  <2>. QED BY <1>2, <2>2
<1>. QED BY <1>3, <1>4, <1>5 DEF Drained

LEMMA GrownFlagged ==
    ASSUME NEW c \in Client, NEW d, Unmoved(d, c), Drained(d, c),
           NEW q, NEW r, NEW a, Grows(r, q, a), NEW k, NEW l, Flagged(c, q, k),
           \/ /\ Agrees(c, k) => Agrees(d, l)
              /\ Ok(a) /\ a.reply.msgtyp = "register" /\ a.reply \in c.replies
                    => Agrees(d, l)
           \/ Leaving(d)
           \/ Len(r) > Len(q) /\ r[Len(r)].kind \in {"up", "down", "unregister"}
    PROVE  Flagged(d, r, l)
<1>1. /\ d.accept = c.accept /\ d.denied = c.denied
      /\ d.replies = c.replies /\ Wish(d, c)
      BY DEF Unmoved, Marks
<1>2. (Leaving(d) <=> Leaving(c)) /\ (Asked(d, "register") <=> Asked(c, "register"))
      BY <1>1 DEF Leaving, Asked
<1>3. /\ Len(q) \in Nat /\ Len(r) \in Nat /\ 1..Len(q) \subseteq 1..Len(r)
      /\ \A i \in 1..Len(q) : r[i] = q[i]
      BY DEF Grows
<1>4. ASSUME NEW n \in Nat, Unbroken(r, n) PROVE Unbroken(q, n)
  <2>1. \A i \in (n + 1)..Len(q) : i \in (n + 1)..Len(r) /\ i \in 1..Len(q)
        BY <1>3
  <2>. QED BY <1>3, <1>4, <2>1 DEF Unbroken
<1>5. Applied(d)
  <2>. SUFFICES ASSUME NEW i \in 1..Len(d.wire), Applies(d, i)
                PROVE  d.wire[i].flags = Options /\ Lands(d, i, Options)
       BY DEF Applied
  <2>1. PICK j \in 1..Len(c.wire) :
           d.wire[i] = c.wire[j] /\ \A f : Lands(c, j, f) => Lands(d, i, f)
        BY <1>1, DrainedPlaces
  <2>2. Applies(c, j) BY <1>1, <2>1 DEF Applies
  <2>. QED BY <2>1, <2>2 DEF Flagged, Ready, Applied
<1>6. Parting(d)
  <2>. SUFFICES ASSUME NEW i \in 1..Len(d.wire), d.wire[i].msgtyp = "unregister"
                PROVE  Leaving(d)
       BY DEF Parting
  <2>1. \E j \in 1..Len(c.wire) : d.wire[i] = c.wire[j] BY <1>1, DrainedPlaces
  <2>. QED BY <1>2, <2>1 DEF Flagged, Ready, Parting
<1>7. Wished(d) BY <1>1 DEF Flagged, Ready, Wished, Wish
<1>8. ASSUME NEW i \in 1..Len(q), Approved(d, r, i) PROVE Approved(c, q, i)
  <2>1. i \in Nat OBVIOUS
  <2>. QED BY <1>1, <1>3, <1>4, <1>8, <2>1 DEF Approved
<1>9. InForce(d, r, l) /\ Welcomed(d, r, l)
  <2>1. CASE /\ Agrees(c, k) => Agrees(d, l)
             /\ Ok(a) /\ a.reply.msgtyp = "register" /\ a.reply \in c.replies
                   => Agrees(d, l)
    <3>1. InForce(d, r, l) BY <1>1, <1>2, <1>4, <2>1 DEF Flagged, InForce
    <3>2. Welcomed(d, r, l)
      <4>. SUFFICES ASSUME NEW i \in 1..Len(r), Approved(d, r, i)
                    PROVE  Leaving(d) \/ Agrees(d, l)
           BY DEF Welcomed
      <4>1. CASE i \in 1..Len(q)
            BY <1>2, <1>8, <2>1, <4>1 DEF Flagged, Ready, Welcomed
      <4>2. CASE i \notin 1..Len(q)
        <5>1. r[i] = a BY <4>2 DEF Grows, Approved
        <5>2. Ok(a) /\ a.reply.msgtyp = "register" /\ a.reply \in c.replies
              BY <1>1, <5>1 DEF Approved
        <5>. QED BY <2>1, <5>2
      <4>. QED BY <4>1, <4>2
    <3>. QED BY <3>1, <3>2
  <2>2. CASE Leaving(d) BY <2>2 DEF InForce, Welcomed
  <2>3. CASE Len(r) > Len(q) /\ r[Len(r)].kind \in {"up", "down", "unregister"}
    <3>1. ASSUME NEW n \in 0..(Len(r) - 1) PROVE ~Unbroken(r, n)
      <4>1. Len(r) \in (n + 1)..Len(r) BY <1>3
      <4>. QED BY <2>3, <4>1 DEF Unbroken
    <3>2. 0 \in 0..(Len(r) - 1) BY <1>3, <2>3
    <3>3. InForce(d, r, l) BY <3>1, <3>2 DEF InForce
    <3>4. ASSUME NEW i \in 1..Len(r), Approved(d, r, i) PROVE FALSE
      <4>1. i # Len(r) BY <2>3, <3>4 DEF Approved, Ok
      <4>2. i \in 0..(Len(r) - 1) BY <1>3, <4>1
      <4>. QED BY <3>1, <3>4, <4>2 DEF Approved
    <3>. QED BY <3>3, <3>4 DEF Welcomed
  <2>. QED BY <2>1, <2>2, <2>3
<1>. QED BY <1>5, <1>6, <1>7, <1>9 DEF Flagged, Ready

(* Unless the manager refuses an UPDATE, whose flags resproto_send_message *)
(* has kept already.                                                       *)
LEMMA AgreesTaken ==
    ASSUME NEW c \in Client, NEW d, Wish(d, c), c.wire # <<>>,
           d.wire = Tail(c.wire), NEW k, NEW l, l.reg, Agrees(c, k),
           IF Head(c.wire).msgtyp = "update" THEN l.flags = Head(c.wire).flags
           ELSE l.flags = k.flags
    PROVE  Agrees(d, l)
<1>1. c.wire \in Seq(Call) BY DEF Client
<1>2. \A g : Carries(c.wire, 1, k.flags, g) => Carries(d.wire, 1, l.flags, g)
      BY <1>1, CarriesNext
<1>. QED BY <1>2 DEF Agrees, Lands, Wish

KnownUp == known.reg => up

LEMMA SkipsFlagged ==
    ASSUME TypeOK, Moves(cl', cl), Skips, Flagged(cl, inq, known)
    PROVE  Flagged(cl', inq', known')
<1>1. cl \in Client /\ inq \in Seq(Message) /\ inq' = inq /\ known' = known
      /\ cl.wire # <<>> /\ cl'.wire = Tail(cl.wire)
      /\ known \in [reg: BOOLEAN, flags: Flags]
      BY ConcatShort DEF TypeOK, Skips, Takes
<1>2. Unmoved(cl', cl) BY <1>1, MovesUnmoved
<1>. DEFINE a == [kind |-> "up"]
<1>3. a \in Message /\ ~Ok(a) BY UpDown DEF Ok
<1>. HIDE DEF a
<1>4. Grows(inq', inq, a) BY <1>1, <1>3, QueueGrows
<1>5. Agrees(cl, known) => Agrees(cl', known')
  <2>1. known.reg => Head(cl.wire).msgtyp # "update"
        BY DEF Skips, Meant
  <2>2. Wish(cl', cl) BY <1>2 DEF Unmoved
  <2>. QED BY <1>1, <2>1, <2>2, AgreesTaken DEF Agrees
<1>. QED BY <1>1, <1>2, <1>3, <1>4, <1>5, GrownFlagged DEF Drained

LEMMA RejectsFlagged ==
    ASSUME "update" \notin Refused, TypeOK, Moves(cl', cl), Rejects,
           KnownUp, Flagged(cl, inq, known)
    PROVE  Flagged(cl', inq', known')
<1>. DEFINE call == Head(cl.wire)
            a == answer(call, TRUE)
<1>1. cl \in Client /\ inq \in Seq(Message) /\ known \in [reg: BOOLEAN, flags: Flags]
      BY DEF TypeOK
<1>2. Takes(<<a>>) BY DEF Rejects
<1>3. call \in Call /\ cl.wire # <<>> /\ cl'.wire = Tail(cl.wire)
      BY <1>2, CallTaken DEF Takes
<1>4. a \in Message /\ a.kind = "answer" /\ ~Ok(a) BY <1>3, AnswerFacts
<1>5. inq' = Append(inq, a) BY <1>1, <1>2, <1>4, ConcatShort DEF Takes
<1>6. Unmoved(cl', cl) BY <1>1, MovesUnmoved
<1>7. \/ ~up /\ known' = known
      \/ /\ up /\ Meant(known, call) /\ call.msgtyp \in Refused
         /\ known' = IF call.msgtyp = "unregister" THEN NoSet ELSE known
      BY DEF Rejects
<1>. HIDE DEF a
<1>8. Grows(inq', inq, a) BY <1>1, <1>4, <1>5, QueueGrows
<1>9. (Agrees(cl, known) => Agrees(cl', known')) \/ Leaving(cl')
  <2>1. CASE ~up BY <2>1 DEF KnownUp, Agrees
  <2>2. CASE up /\ call.msgtyp = "unregister"
    <3>1. Leaving(cl)
      <4>1. 1 \in 1..Len(cl.wire) /\ cl.wire[1] = call
        <5>1. cl.wire \in Seq(Call) BY <1>1 DEF Client
        <5>. QED BY <1>3, <5>1, HeadTailProperties, EmptySeq
      <4>. QED BY <2>2, <4>1 DEF Flagged, Ready, Parting
    <3>. QED BY <1>6, <3>1 DEF Unmoved, Leaving
  <2>3. CASE up /\ call.msgtyp # "unregister"
    <3>1. known' = known /\ call.msgtyp # "update" BY <1>7, <2>3
    <3>2. Wish(cl', cl) BY <1>6 DEF Unmoved
    <3>. HIDE DEF call
    <3>3. ASSUME Agrees(cl, known) PROVE Agrees(cl', known')
      <4>1. known'.reg BY <3>1, <3>3 DEF Agrees
      <4>. QED BY <1>1, <1>3, <3>1, <3>2, <3>3, <4>1, AgreesTaken DEF call
    <3>. QED BY <3>3
  <2>. QED BY <2>1, <2>2, <2>3
<1>. HIDE DEF call
<1>10. Drained(cl', cl) BY <1>3 DEF Drained
<1>. QED BY <1>1, <1>4, <1>6, <1>8, <1>9, <1>10, GrownFlagged

LEMMA ServesFlagged ==
    ASSUME TypeOK, Moves(cl', cl), Serves, Flagged(cl, inq, known)
    PROVE  Flagged(cl', inq', known')
<1>. DEFINE call == Head(cl.wire)
            a == answer(call, FALSE)
<1>1. cl \in Client /\ inq \in Seq(Message) /\ known \in [reg: BOOLEAN, flags: Flags]
      BY DEF TypeOK
<1>2. \/ Takes(<<a>>)
      \/ /\ call.msgtyp \in {"update", "acquire", "release"}
         /\ \E kind \in {"full", "empty"} : Takes(<<a, grant(kind, call)>>)
      BY DEF Serves
<1>3. call \in Call /\ cl.wire # <<>> /\ cl'.wire = Tail(cl.wire)
      BY <1>2, CallTaken DEF Takes
<1>4. a \in Message /\ a.kind = "answer" /\ Ok(a) /\ a.reply.msgtyp = call.msgtyp
      /\ a.reply = [msgtyp |-> call.msgtyp, reqno |-> call.reqno]
      BY <1>3, AnswerFacts
<1>5. \/ inq' = Append(inq, a)
      \/ \E b \in Message : inq' = Append(Append(inq, a), b) /\ IsGrant(b)
  <2>1. CASE Takes(<<a>>) BY <1>1, <1>4, <2>1, ConcatShort DEF Takes
  <2>2. ASSUME call.msgtyp \in {"update", "acquire", "release"},
               NEW kind \in {"full", "empty"}, Takes(<<a, grant(kind, call)>>)
        PROVE  \E b \in Message : inq' = Append(Append(inq, a), b) /\ IsGrant(b)
    <3>. HIDE DEF call, a
    <3>1. grant(kind, call) \in Message /\ IsGrant(grant(kind, call))
          BY <1>3, <2>2, GrantFacts
    <3>2. inq' = Append(Append(inq, a), grant(kind, call))
          BY <1>1, <1>4, <2>2, <3>1, ConcatShort DEF Takes
    <3>. QED BY <3>1, <3>2
  <2>. QED BY <1>2, <2>1, <2>2
<1>6. Unmoved(cl', cl) BY <1>1, MovesUnmoved
<1>7. Meant(known, call) /\ known' = Recorded(known, call) BY DEF Serves
<1>. HIDE DEF a
<1>8. Grows(inq', inq, a)
  <2>1. CASE inq' = Append(inq, a) BY <1>1, <1>4, <2>1, QueueGrows
  <2>2. ASSUME NEW b \in Message, inq' = Append(Append(inq, a), b), IsGrant(b)
        PROVE  Grows(inq', inq, a)
    <3>1. ~Ok(b) BY <2>2 DEF IsGrant, Ok
    <3>. QED BY <1>1, <1>4, <2>2, <3>1, QueueGrows
  <2>. QED BY <1>5, <2>1, <2>2
<1>9. 1 \in 1..Len(cl.wire) /\ cl.wire[1] = call /\ cl.wire \in Seq(Call)
  <2>1. cl.wire \in Seq(Call) BY <1>1 DEF Client
  <2>. QED BY <1>3, <2>1, HeadTailProperties, EmptySeq
<1>10. Wish(cl', cl) BY <1>6 DEF Unmoved
<1>11. Drained(cl', cl) BY <1>3 DEF Drained
<1>12. CASE call.msgtyp = "unregister"
  <2>1. Leaving(cl) BY <1>9, <1>12 DEF Flagged, Ready, Parting
  <2>2. Leaving(cl') BY <1>6, <2>1 DEF Unmoved, Leaving
  <2>. HIDE DEF call
  <2>. QED BY <1>1, <1>6, <1>8, <1>11, <2>2, GrownFlagged
<1>13. CASE call.msgtyp = "register"
  <2>1. ~Agrees(cl, known) BY <1>7, <1>13 DEF Meant, Agrees
  <2>2. known' = [reg |-> TRUE, flags |-> call.flags]
        BY <1>7, <1>13 DEF Recorded
  <2>3. ASSUME a.reply \in cl.replies PROVE Agrees(cl', known')
    <3>1. Applies(cl, 1) BY <1>4, <1>9, <1>13, <2>3 DEF Applies
    <3>2. call.flags = Options /\ Lands(cl, 1, Options)
          BY <1>9, <3>1 DEF Flagged, Ready, Applied
    <3>. DEFINE k == [reg |-> TRUE, flags |-> Options]
    <3>3. Agrees(cl, k) /\ k.flags = Options BY <3>2 DEF Agrees
    <3>4. known'.reg /\ known'.flags = Options /\ call.msgtyp # "update"
          BY <1>13, <2>2, <3>2
    <3>. HIDE DEF call, k
    <3>. QED BY <1>1, <1>3, <1>10, <3>3, <3>4, AgreesTaken DEF call
  <2>. HIDE DEF call
  <2>. QED BY <1>1, <1>6, <1>8, <1>11, <2>1, <2>3, GrownFlagged
<1>14. CASE call.msgtyp \notin {"register", "unregister"}
  <2>1. known.reg BY <1>1, <1>7, <1>14 DEF Meant
  <2>2. known'.reg /\ known'.flags = IF call.msgtyp = "update" THEN call.flags
                                     ELSE known.flags
        BY <1>7, <1>14, <2>1 DEF Recorded
  <2>. HIDE DEF call
  <2>3. Agrees(cl, known) => Agrees(cl', known')
        BY <1>1, <1>3, <1>10, <2>2, AgreesTaken DEF call
  <2>. QED BY <1>1, <1>4, <1>6, <1>8, <1>11, <1>14, <2>3, GrownFlagged
<1>. QED BY <1>12, <1>13, <1>14

LEMMA BreaksFlagged ==
    ASSUME TypeOK, Moves(cl', cl), Breaks, Flagged(cl, inq, known)
    PROVE  Flagged(cl', inq', known')
<1>1. cl \in Client /\ inq \in Seq(Message) BY DEF TypeOK
<1>2. PICK reply \in cl.replies :
         inq' = Append(inq, [kind |-> "answer", reply |-> reply, err |-> TRUE])
      BY DEF Breaks
<1>. DEFINE a == [kind |-> "answer", reply |-> reply, err |-> TRUE]
<1>3. a \in Message /\ a.kind = "answer" /\ ~Ok(a) /\ inq' = Append(inq, a)
      BY <1>1, <1>2 DEF Message, Client, Ok
<1>. HIDE DEF a
<1>4. Unmoved(cl', cl) /\ Drained(cl', cl) /\ known' = known /\ cl'.wire = cl.wire
      BY <1>1, MovesUnmoved DEF Breaks, Drained
<1>5. Agrees(cl, known) => Agrees(cl', known')
      BY <1>4 DEF Unmoved, Agrees, Lands, Wish
<1>6. Grows(inq', inq, a) BY <1>1, <1>3, QueueGrows
<1>. QED BY <1>1, <1>3, <1>4, <1>5, <1>6, GrownFlagged

LEMMA ManagerFlagged ==
    ASSUME TypeOK, Moves(cl', cl), Arrives \/ Goes \/ Yields \/ Tidings,
           Flagged(cl, inq, known)
    PROVE  Flagged(cl', inq', known')
<1>1. cl \in Client /\ inq \in Seq(Message) BY DEF TypeOK
<1>2. Unmoved(cl', cl) BY <1>1, MovesUnmoved
<1>3. Drained(cl', cl) BY DEF Drained, Arrives, Goes, Yields, Orphans, Tidings
<1>4. ASSUME NEW m \in Message, inq' = Append(inq, m),
             m.kind \in {"up", "down", "unregister"}
      PROVE  Flagged(cl', inq', known')
  <2>1. Grows(inq', inq, m) BY <1>1, <1>4, QueueGrows
  <2>2. Len(inq') > Len(inq) /\ inq'[Len(inq')] = m BY <1>1, <1>4, AppendPlaces
  <2>. QED BY <1>1, <1>2, <1>3, <1>4, <2>1, <2>2, GrownFlagged
<1>5. CASE Arrives \/ Yields BY <1>4, <1>5, UpDown DEF Arrives, Yields
<1>6. CASE Goes BY <1>4, <1>6, UpDown DEF Goes
<1>7. CASE Tidings
  <2>1. PICK m \in Message :
           /\ inq' = Append(inq, m) /\ m.kind \in NoticeKind
           /\ known' = IF m.kind = "unregister" THEN NoSet ELSE known
        BY <1>7 DEF Tidings
  <2>2. CASE m.kind = "unregister" BY <1>4, <2>1, <2>2
  <2>3. CASE m.kind # "unregister"
    <3>1. ~Ok(m) BY <2>1 DEF NoticeKind, Ok
    <3>2. Grows(inq', inq, m) BY <1>1, <2>1, QueueGrows
    <3>3. Agrees(cl, known) => Agrees(cl', known') BY <1>7, <2>1, <2>3 DEF Tidings
    <3>. QED BY <1>1, <1>2, <1>3, <3>1, <3>2, <3>3, GrownFlagged
  <2>. QED BY <2>2, <2>3
<1>. QED BY <1>5, <1>6, <1>7

FlagInv == KnownUp /\ (Good(cl) => Flagged(cl, inq, known))

LEMMA NextFlagged ==
    ASSUME "update" \notin Refused, Inv, Inv', [Next]_vars, Apart(cl, inq), FlagInv
    PROVE  FlagInv'
<1>1. TypeOK /\ cl \in Client /\ inq \in Seq(Message) BY DEF Inv, TypeOK
<1>2. CASE UNCHANGED vars BY <1>2 DEF vars, FlagInv, KnownUp
<1>3. CASE User \/ MainLoop \/ Timeout
  <2>1. known' = known /\ up' = up
        BY <1>3 DEF User, Send, Update, Disconnect, Flood, Stop, Quit, Command, Timeout,
                    MainLoop, DispatchAnswer, DispatchNotice, DispatchUp,
                    DispatchDown, Dispatch
  <2>2. KnownUp' BY <2>1 DEF FlagInv, KnownUp
  <2>3. Good(cl') => Flagged(cl', inq', known')
    <3>. SUFFICES ASSUME Good(cl') PROVE Flagged(cl', inq', known') OBVIOUS
    <3>1. Flagged(cl, inq, known) BY <1>3, GoodBefore DEF FlagInv
    <3>. QED BY <1>3, <3>1, HandlesFlagged, ClientFlagged
  <2>. QED BY <2>2, <2>3 DEF FlagInv
<1>4. CASE Bus
  <2>1. Moves(cl', cl) /\ up' = up /\ (Skips \/ Rejects \/ Serves \/ Breaks)
        BY <1>1, <1>4, BusSteps
  <2>2. KnownUp'
    <3>1. Skips \/ Breaks => known' = known BY DEF Skips, Breaks
    <3>2. Rejects => known' = known \/ up BY DEF Rejects
    <3>3. Serves => up BY DEF Serves
    <3>. QED BY <2>1, <3>1, <3>2, <3>3 DEF FlagInv, KnownUp
  <2>3. Good(cl') => Good(cl) BY <1>1, <2>1, MovesUnmoved DEF Unmoved
  <2>. QED BY <1>1, <2>1, <2>2, <2>3, SkipsFlagged, RejectsFlagged,
              ServesFlagged, BreaksFlagged DEF FlagInv
<1>5. CASE Manager
  <2>1. Moves(cl', cl) /\ (Arrives \/ Goes \/ Yields \/ Tidings)
        BY <1>1, <1>5, ManagerSteps
  <2>2. KnownUp'
    <3>1. CASE Arrives BY <3>1 DEF Arrives, KnownUp
    <3>2. CASE Goes BY <3>2 DEF Goes, Orphans, KnownUp, NoSet
    <3>3. CASE Yields BY <3>3 DEF Yields, Orphans, KnownUp, NoSet
    <3>4. CASE Tidings BY <3>4 DEF Tidings, KnownUp
    <3>. QED BY <2>1, <3>1, <3>2, <3>3, <3>4
  <2>3. Good(cl') => Good(cl) BY <1>1, <2>1, MovesUnmoved DEF Unmoved
  <2>. QED BY <1>1, <2>1, <2>2, <2>3, ManagerFlagged DEF FlagInv
<1>. QED BY <1>2, <1>3, <1>4, <1>5 DEF Next

LEMMA InitFlagged == Init => FlagInv
<1>. SUFFICES ASSUME Init PROVE FlagInv OBVIOUS
<1>1. KnownUp BY DEF Init, KnownUp
<1>2. Connects(cl, Started) BY InitConnects
<1>3. /\ Started.rset = Freed /\ Started.accept = FALSE /\ Started.wire = <<>>
      /\ Freed.state = "freed" /\ Started.asked = Options
      BY DEF Started, Freed
<1>4. cl.flags = Options /\ ~cl.accept /\ cl.renewed = TRUE
      BY <1>2, <1>3 DEF Connects, Marks
<1>5. PICK x : Posted(cl, Started, x) /\ x.msgtyp = "register" /\ x.flags = Options
  <2>1. Options \in Flags /\ "register" \in MsgType BY CliAssumption DEF MsgType
  <2>. QED BY <1>2, <2>1, InitConnects, SentPosted DEF Connects
<1>6. Len(cl.wire) = 1 /\ cl.wire[1] = x /\ 1..1 = {1}
  <2>1. Len(Started.wire) = 0 BY <1>3
  <2>. QED BY <1>5, <2>1 DEF Posted
<1>7. Applied(cl)
  <2>1. \A k \in 1..Len(cl.wire) : cl.wire[k].msgtyp # "update" BY <1>5, <1>6
  <2>2. Lands(cl, 1, Options) BY <1>4, <2>1 DEF Carries, Lands
  <2>. QED BY <1>5, <1>6, <2>2 DEF Applied
<1>8. Len(inq) = 0 BY DEF Init
<1>9. Welcomed(cl, inq, known) BY <1>8 DEF Welcomed
<1>10. InForce(cl, inq, known) BY <1>4 DEF InForce
<1>11. Parting(cl) BY <1>5, <1>6 DEF Parting
<1>12. Wished(cl) BY <1>4 DEF Wished
<1>. QED BY <1>1, <1>7, <1>9, <1>10, <1>11, <1>12 DEF FlagInv, Flagged, Ready

(* When nothing is under way the manager and the set have what the user    *)
(* asked for last, unless a REGISTER sent since made the manager, or the   *)
(* set that was created for it, take the flags of the start: for any       *)
(* bound, over restarts of the manager and handovers without a gap, as     *)
(* long as the manager refuses no UPDATE.                                  *)
THEOREM FlagsAgreeAlways ==
    ASSUME "update" \notin Refused
    PROVE  Spec => []FlagsAgree
<1>. DEFINE I == Inv /\ LabelInv /\ FlagInv
<1>1. Init => I
      BY InvInit, InitFlagged, InitTable DEF LabelInv, Inv
<1>2. I /\ [Next]_vars => I'
  <2>1. ASSUME Inv, LabelInv, [Next]_vars PROVE Inv' /\ LabelInv'
        BY <2>1, InvNext, NextTable DEF LabelInv, Inv
  <2>2. Table(cl, inq) => Apart(cl, inq) BY DEF Table
  <2>3. ASSUME I, [Next]_vars PROVE I'
    <3>1. Inv' /\ LabelInv' BY <2>1, <2>3
    <3>2. FlagInv' BY <2>2, <2>3, <3>1, NextFlagged DEF LabelInv
    <3>. QED BY <3>1, <3>2
  <2>. HIDE DEF I
  <2>. QED BY <2>3
<1>3. I => FlagsAgree
  <2>. SUFFICES ASSUME I, Running, Quiet, cl.accept, ~cl.revived, ~cl.denied, ~Wrapped
                PROVE  /\ known.reg
                       /\ \/ known.flags = cl.asked /\ cl.flags = cl.asked
                          \/ /\ cl.renewed /\ known.flags = Options
                             /\ cl.flags \in {Options, cl.asked}
       BY DEF FlagsAgree
  <2>1. cl.reqno \in Nat /\ HashDim \in Nat
        BY CliAssumption DEF Inv, TypeOK, Client
  <2>2. Good(cl) BY <2>1 DEF Good, Wrapped, Running
  <2>3. Len(inq) = 0 /\ ~Leaving(cl) /\ ~Asked(cl, "register") /\ cl.wire = <<>>
        BY DEF Quiet, Leaving, Asked
  <2>4. Unbroken(inq, 0) BY <2>3 DEF Unbroken
  <2>5. Agrees(cl, known) /\ Wished(cl)
        BY <2>2, <2>3, <2>4 DEF FlagInv, Flagged, InForce, Ready
  <2>6. known.flags = cl.flags \/ (cl.renewed /\ known.flags = Options)
        BY <2>3, <2>5, CarriesEmpty DEF Agrees, Lands
  <2>. QED BY <2>5, <2>6 DEF Agrees, Wished
<1>. HIDE DEF I
<1>. QED BY <1>1, <1>2, <1>3, PTL DEF Spec
-----------------------------------------------------------------------------
(* The flood.  What keeps it going is an ACQUIRE or a RELEASE that is not  *)
(* answered yet, or a grant on its way to a set that will take it.         *)

OfFlood(t) == t \in {"acquire", "release"}

Trades(m) == Ok(m) /\ OfFlood(m.reply.msgtyp)

(* Behind a positive answer there is a grant. *)
Followed(q) ==
    \A i \in 1..Len(q) : Trades(q[i]) => i + 1 \in 1..Len(q) /\ IsGrant(q[i + 1])

(* Before the i-th message nothing says that the manager is gone. *)
Heard(q, i) == \A j \in 1..(i - 1) : q[j].kind # "down"

(* A grant comes before the news that the manager is gone. *)
Promised(q) == \E i \in 1..Len(q) : IsGrant(q[i]) /\ Heard(q, i)

Moving(c, q) ==
    ~Leaving(c) /\ c.flood # 0 /\ ~c.broken =>
       (\E p \in c.replies : OfFlood(p.msgtyp)) \/ (c.path /\ Promised(q))

LEMMA TailFollowed ==
    ASSUME NEW q \in Seq(Message), q # <<>>, Followed(q)
    PROVE  Followed(Tail(q))
<1>. DEFINE r == Tail(q)
<1>1. /\ Len(q) \in Nat /\ Len(r) = Len(q) - 1
      /\ \A i \in 1..Len(r) : r[i] = q[i + 1] /\ i + 1 \in 1..Len(q)
      BY TailPlaces
<1>. HIDE DEF r
<1>2. ASSUME NEW i \in 1..Len(r), Trades(r[i])
      PROVE  i + 1 \in 1..Len(r) /\ IsGrant(r[i + 1])
  <2>1. (i + 1) + 1 \in 1..Len(q) /\ IsGrant(q[(i + 1) + 1])
        BY <1>1, <1>2 DEF Followed
  <2>2. i + 1 \in 1..Len(r) BY <1>1, <2>1
  <2>. QED BY <1>1, <2>1, <2>2
<1>. QED BY <1>2 DEF Followed, r

LEMMA AppendFollowed ==
    ASSUME NEW q \in Seq(Message), NEW a \in Message, Followed(q)
    PROVE  /\ ~Trades(a) => Followed(Append(q, a))
           /\ \A b \in Message : IsGrant(b) => Followed(Append(Append(q, a), b))
<1>. DEFINE r == Append(q, a)
            n == Len(q) + 1
<1>1. /\ r \in Seq(Message) /\ Len(q) \in Nat /\ Len(r) = n
      /\ \A i \in 1..Len(q) : r[i] = q[i]
      /\ r[n] = a
      BY AppendPlaces
<1>2. n \in Nat /\ 1..n = (1..Len(q)) \cup {n} BY <1>1
<1>. HIDE DEF r
<1>3. ASSUME NEW i \in 1..Len(q), Trades(r[i])
      PROVE  i + 1 \in 1..Len(q) /\ IsGrant(r[i + 1])
  <2>1. i + 1 \in 1..Len(q) /\ IsGrant(q[i + 1]) BY <1>1, <1>3 DEF Followed
  <2>. QED BY <1>1, <2>1
<1>4. ASSUME ~Trades(a) PROVE Followed(r)
  <2>1. ASSUME NEW i \in 1..Len(r), Trades(r[i])
        PROVE  i + 1 \in 1..Len(r) /\ IsGrant(r[i + 1])
    <3>1. i \in 1..Len(q) BY <1>1, <1>2, <1>4, <2>1
    <3>. QED BY <1>1, <1>2, <1>3, <2>1, <3>1
  <2>. QED BY <2>1 DEF Followed
<1>5. ASSUME NEW b \in Message, IsGrant(b) PROVE Followed(Append(r, b))
  <2>. DEFINE s == Append(r, b)
  <2>1. /\ Len(s) = n + 1
        /\ \A i \in 1..n : s[i] = r[i]
        /\ s[n + 1] = b
        BY <1>1, AppendPlaces
  <2>. HIDE DEF s
  <2>2. ASSUME NEW i \in 1..Len(s), Trades(s[i])
        PROVE  i + 1 \in 1..Len(s) /\ IsGrant(s[i + 1])
    <3>1. ~Trades(b) BY <1>5 DEF IsGrant, Trades, Ok
    <3>2. i # n + 1 BY <2>1, <2>2, <3>1
    <3>3. i \in 1..n /\ n + 1 \in 1..Len(s) BY <1>1, <2>1, <3>2
    <3>4. CASE i = n BY <1>5, <2>1, <3>3, <3>4
    <3>5. CASE i # n
      <4>1. i \in 1..Len(q) /\ Trades(r[i]) BY <1>2, <2>1, <2>2, <3>3, <3>5
      <4>2. i + 1 \in 1..Len(q) /\ IsGrant(r[i + 1]) BY <1>3, <4>1
      <4>3. i + 1 \in 1..n /\ i + 1 \in 1..Len(s) BY <1>1, <2>1, <4>2
      <4>. QED BY <2>1, <4>2, <4>3
    <3>. QED BY <3>4, <3>5
  <2>. QED BY <2>2 DEF Followed, s
<1>. QED BY <1>4, <1>5 DEF r

LEMMA TailPromised ==
    ASSUME NEW q \in Seq(Message), q # <<>>, Promised(q), ~IsGrant(Head(q))
    PROVE  Head(q).kind # "down" /\ Promised(Tail(q))
<1>. DEFINE r == Tail(q)
<1>1. /\ Len(q) \in Nat /\ Len(r) = Len(q) - 1
      /\ \A i \in 1..Len(r) : r[i] = q[i + 1]
      /\ Head(q) = q[1]
      BY TailPlaces
<1>. HIDE DEF r
<1>2. PICK i \in 1..Len(q) : IsGrant(q[i]) /\ Heard(q, i) BY DEF Promised
<1>3. i # 1 BY <1>1, <1>2
<1>4. i - 1 \in 1..Len(r) /\ (i - 1) + 1 = i /\ 1 \in 1..(i - 1) BY <1>1, <1>3
<1>5. Head(q).kind # "down" BY <1>1, <1>2, <1>4 DEF Heard
<1>6. Heard(r, i - 1)
  <2>. SUFFICES ASSUME NEW j \in 1..((i - 1) - 1) PROVE r[j].kind # "down"
       BY DEF Heard
  <2>1. j \in 1..Len(r) /\ j + 1 \in 1..(i - 1) BY <1>1, <1>2
  <2>. QED BY <1>1, <1>2, <2>1 DEF Heard
<1>7. IsGrant(r[i - 1]) BY <1>1, <1>2, <1>4
<1>. QED BY <1>4, <1>5, <1>6, <1>7 DEF Promised, r

LEMMA AppendPromised ==
    ASSUME NEW q \in Seq(Message), NEW m \in Message, Promised(q)
    PROVE  Promised(Append(q, m))
<1>. DEFINE r == Append(q, m)
<1>1. /\ Len(q) \in Nat /\ Len(r) = Len(q) + 1
      /\ \A i \in 1..Len(q) : r[i] = q[i]
      BY AppendPlaces
<1>. HIDE DEF r
<1>2. PICK i \in 1..Len(q) : IsGrant(q[i]) /\ Heard(q, i) BY DEF Promised
<1>3. i \in 1..Len(r) /\ IsGrant(r[i]) BY <1>1, <1>2
<1>4. \A j \in 1..(i - 1) : j \in 1..Len(q) BY <1>1
<1>5. Heard(r, i) BY <1>1, <1>2, <1>4 DEF Heard
<1>. QED BY <1>3, <1>5 DEF Promised, r
-----------------------------------------------------------------------------
(* A set that has lost its path, and is not leaving, or will lose it when  *)
(* the message at s is dispatched. *)
Away(c) == ~c.path /\ ~Leaving(c)

Since(c, q, s) ==
    \/ s \in 1..Len(q) /\ q[s].kind = "down"
    \/ s = 0 /\ Away(c)

Calm(q, s, i) == \A j \in (s + 1)..(i - 1) : q[j].kind # "down"

(* At i the manager knew the set. *)
KnownAt(q, k, i) == (i \in 1..Len(q) /\ Trades(q[i])) \/ (i = Len(q) + 1 /\ k.reg)

Admits(m) == Ok(m) /\ m.reply.msgtyp = "register"

(* It had been registered anew, and of that the set hears first. *)
Introduced(c, q, k) ==
    \A s \in 0..Len(q) : Since(c, q, s) =>
       \A i \in (s + 1)..(Len(q) + 1) : Calm(q, s, i) /\ KnownAt(q, k, i) =>
          \E l \in (s + 1)..(i - 1) : Admits(q[l])

LEMMA SameIntroduced ==
    ASSUME NEW c, NEW d, Away(d) => Away(c), NEW q, NEW k, Introduced(c, q, k)
    PROVE  Introduced(d, q, k)
BY DEF Introduced, Since

LEMMA TailIntroduced ==
    ASSUME NEW c, NEW d, NEW q \in Seq(Message), q # <<>>, NEW k, Introduced(c, q, k),
           Away(d) => Head(q).kind = "down"
                      \/ (Away(c) /\ Head(q).kind # "down" /\ ~Admits(Head(q)))
    PROVE  Introduced(d, Tail(q), k)
<1>. DEFINE r == Tail(q)
<1>1. /\ Len(q) \in Nat /\ Len(q) > 0 /\ Len(r) = Len(q) - 1
      /\ \A i \in 1..Len(r) : r[i] = q[i + 1] /\ i + 1 \in 1..Len(q)
      /\ Head(q) = q[1]
      BY TailPlaces
<1>. HIDE DEF r
<1>. SUFFICES ASSUME NEW s \in 0..Len(r), Since(d, r, s),
                     NEW i \in (s + 1)..(Len(r) + 1), Calm(r, s, i), KnownAt(r, k, i)
              PROVE  \E l \in (s + 1)..(i - 1) : Admits(r[l])
     BY DEF Introduced, r
<1>2. KnownAt(q, k, i + 1)
  <2>1. CASE i \in 1..Len(r) /\ Trades(r[i]) BY <1>1, <2>1 DEF KnownAt
  <2>2. CASE i = Len(r) + 1 /\ k.reg BY <1>1, <2>2 DEF KnownAt
  <2>. QED BY <2>1, <2>2 DEF KnownAt
<1>3. ASSUME NEW j \in (s + 2)..i PROVE q[j].kind # "down"
  <2>1. j - 1 \in (s + 1)..(i - 1) /\ j - 1 \in 1..Len(r) /\ (j - 1) + 1 = j BY <1>1
  <2>. QED BY <1>1, <2>1 DEF Calm
<1>4. ASSUME NEW l \in (s + 2)..i, Admits(q[l])
      PROVE  \E x \in (s + 1)..(i - 1) : Admits(r[x])
  <2>1. l - 1 \in (s + 1)..(i - 1) /\ l - 1 \in 1..Len(r) /\ (l - 1) + 1 = l BY <1>1
  <2>2. Admits(r[l - 1]) BY <1>1, <1>4, <2>1
  <2>. QED BY <2>1, <2>2
<1>5. CASE Since(c, q, s + 1)
  <2>1. s + 1 \in 0..Len(q) /\ i + 1 \in ((s + 1) + 1)..(Len(q) + 1) BY <1>1
  <2>2. Calm(q, s + 1, i + 1) BY <1>3 DEF Calm
  <2>3. PICK l \in ((s + 1) + 1)..((i + 1) - 1) : Admits(q[l])
        BY <1>2, <1>5, <2>1, <2>2 DEF Introduced
  <2>4. l \in (s + 2)..i BY <2>3
  <2>. QED BY <1>4, <2>3, <2>4
<1>6. CASE s = 0 /\ Away(c) /\ Head(q).kind # "down" /\ ~Admits(Head(q))
  <2>1. 0 \in 0..Len(q) /\ i + 1 \in (0 + 1)..(Len(q) + 1) BY <1>1
  <2>2. Since(c, q, 0) BY <1>6 DEF Since
  <2>3. ASSUME NEW j \in (0 + 1)..((i + 1) - 1) PROVE q[j].kind # "down"
    <3>1. CASE j = 1 BY <1>1, <1>6, <3>1
    <3>2. CASE j # 1
      <4>1. j \in (s + 2)..i BY <1>6, <3>2
      <4>. QED BY <1>3, <4>1
    <3>. QED BY <3>1, <3>2
  <2>4. Calm(q, 0, i + 1) BY <2>3 DEF Calm
  <2>5. PICK l \in (0 + 1)..((i + 1) - 1) : Admits(q[l])
        BY <1>2, <2>1, <2>2, <2>4 DEF Introduced
  <2>6. l # 1 BY <1>1, <1>6, <2>5
  <2>7. l \in (s + 2)..i BY <1>6, <2>5, <2>6
  <2>. QED BY <1>4, <2>5, <2>7
<1>7. Since(c, q, s + 1) \/ (s = 0 /\ Away(c) /\ Head(q).kind # "down" /\ ~Admits(Head(q)))
  <2>1. CASE s \in 1..Len(r) /\ r[s].kind = "down" BY <1>1, <2>1 DEF Since
  <2>2. CASE s = 0 /\ Away(d)
    <3>1. 1 \in 1..Len(q) BY <1>1
    <3>. QED BY <1>1, <2>2, <3>1 DEF Since
  <2>. QED BY <2>1, <2>2 DEF Since
<1>. QED BY <1>5, <1>6, <1>7

LEMMA AppendIntroduced ==
    ASSUME NEW c, NEW d, Away(d) => Away(c), NEW q \in Seq(Message), NEW m \in Message,
           NEW k, NEW l, Introduced(c, q, k), Trades(m) => k.reg,
           l.reg => m.kind # "down" /\ (k.reg \/ Admits(m))
    PROVE  Introduced(d, Append(q, m), l)
<1>. DEFINE r == Append(q, m)
            n == Len(q) + 1
<1>1. /\ Len(q) \in Nat /\ Len(r) = n /\ n \in Nat
      /\ \A i \in 1..Len(q) : r[i] = q[i]
      /\ r[n] = m
      BY AppendPlaces
<1>. HIDE DEF r
<1>. SUFFICES ASSUME NEW s \in 0..n, Since(d, r, s),
                     NEW i \in (s + 1)..(n + 1), Calm(r, s, i), KnownAt(r, l, i)
              PROVE  \E x \in (s + 1)..(i - 1) : Admits(r[x])
     BY <1>1 DEF Introduced, r
<1>2. CASE s = n
  <2>1. i = n + 1 /\ n # 0 BY <1>1, <1>2
  <2>2. m.kind = "down" BY <1>1, <1>2, <2>1 DEF Since
  <2>3. i \notin 1..Len(r) BY <1>1, <2>1
  <2>. QED BY <2>2, <2>3 DEF KnownAt
<1>3. CASE s # n
  <2>1. s \in 0..Len(q) /\ Since(c, q, s)
    <3>1. s \in 0..Len(q) BY <1>1, <1>3
    <3>. QED BY <1>1, <3>1 DEF Since
  <2>2. ASSUME NEW j \in (s + 1)..n, Calm(r, s, j), KnownAt(q, k, j), j <= i
        PROVE  \E x \in (s + 1)..(i - 1) : Admits(r[x])
    <3>1. \A x \in (s + 1)..(j - 1) : x \in 1..Len(q) /\ x \in (s + 1)..(i - 1)
          BY <1>1, <2>2
    <3>2. Calm(q, s, j) BY <1>1, <2>2, <3>1 DEF Calm
    <3>3. \E x \in (s + 1)..(j - 1) : Admits(q[x])
          BY <2>1, <2>2, <3>2 DEF Introduced
    <3>. QED BY <1>1, <3>1, <3>3
  <2>3. CASE i \in 1..Len(q)
    <3>1. i # Len(r) + 1 BY <1>1, <2>3
    <3>2. Trades(q[i]) BY <1>1, <2>3, <3>1 DEF KnownAt
    <3>3. KnownAt(q, k, i) /\ i \in (s + 1)..n BY <1>1, <2>3, <3>2 DEF KnownAt
    <3>. QED BY <2>2, <3>3
  <2>4. CASE i = n
    <3>1. i # Len(r) + 1 BY <1>1, <2>4
    <3>2. Trades(m) BY <1>1, <2>4, <3>1 DEF KnownAt
    <3>3. KnownAt(q, k, i) /\ i \in (s + 1)..n BY <1>1, <2>4, <3>2 DEF KnownAt
    <3>. QED BY <2>2, <3>3
  <2>5. CASE i = n + 1
    <3>1. l.reg
      <4>1. i \notin 1..Len(r) BY <1>1, <2>5
      <4>. QED BY <4>1 DEF KnownAt
    <3>2. CASE Admits(m)
      <4>1. n \in (s + 1)..(i - 1) BY <1>1, <1>3, <2>5
      <4>. QED BY <1>1, <3>2, <4>1
    <3>3. CASE k.reg
      <4>1. KnownAt(q, k, n) /\ n \in (s + 1)..n /\ n <= i
            BY <1>1, <1>3, <2>5, <3>3 DEF KnownAt
      <4>2. \A j \in (s + 1)..(n - 1) : j \in (s + 1)..(i - 1) BY <1>1, <2>5
      <4>3. Calm(r, s, n) BY <4>2 DEF Calm
      <4>. QED BY <2>2, <4>1, <4>3
    <3>. QED BY <3>1, <3>2, <3>3
  <2>6. i \in 1..Len(q) \/ i = n \/ i = n + 1 BY <1>1
  <2>. QED BY <2>3, <2>4, <2>5, <2>6
<1>. QED BY <1>2, <1>3
-----------------------------------------------------------------------------
(* A call that was answered once is not answered again. *)
Once(q) ==
    \A i, j \in 1..Len(q) : i # j /\ q[i].kind = "answer" /\ q[j].kind = "answer" =>
       q[i].reply.reqno # q[j].reply.reqno

Answered(c, q) ==
    Once(q) /\ \A m \in Elements(q) : m.kind = "answer" => m.reply.reqno \notin c.lost

Bears(call) == [msgtyp |-> call.msgtyp, reqno |-> call.reqno]

(* As long as no call has timed out its reply is awaited. *)
Pending(c, q) ==
    /\ \A m \in Elements(q) : m.kind = "answer" => m.reply \in c.replies
    /\ \A call \in Elements(c.wire) : Bears(call) \in c.replies

LEMMA TailOnceAnswered ==
    ASSUME NEW q \in Seq(Message), q # <<>>, Once(q)
    PROVE  /\ Once(Tail(q))
           /\ Head(q).kind = "answer" =>
                 \A m \in Elements(Tail(q)) : m.kind = "answer" =>
                    m.reply.reqno # Head(q).reply.reqno
<1>. DEFINE r == Tail(q)
<1>1. /\ Len(q) \in Nat /\ Len(q) > 0 /\ Len(r) = Len(q) - 1
      /\ \A i \in 1..Len(r) : r[i] = q[i + 1] /\ i + 1 \in 1..Len(q)
      /\ Head(q) = q[1]
      BY TailPlaces
<1>. HIDE DEF r
<1>2. Once(r)
  <2>. SUFFICES ASSUME NEW i \in 1..Len(r), NEW j \in 1..Len(r), i # j,
                       r[i].kind = "answer", r[j].kind = "answer"
                PROVE  r[i].reply.reqno # r[j].reply.reqno
       BY DEF Once
  <2>1. i + 1 # j + 1 OBVIOUS
  <2>. QED BY <1>1, <2>1 DEF Once
<1>3. ASSUME Head(q).kind = "answer", NEW m \in Elements(r), m.kind = "answer"
      PROVE  m.reply.reqno # Head(q).reply.reqno
  <2>1. PICK i \in 1..Len(r) : m = r[i] BY DEF Elements
  <2>2. i + 1 \in 1..Len(q) /\ 1 \in 1..Len(q) /\ i + 1 # 1 /\ m = q[i + 1]
        BY <1>1, <2>1
  <2>. QED BY <1>1, <1>3, <2>2 DEF Once
<1>. QED BY <1>2, <1>3 DEF r

LEMMA AppendOnceAnswered ==
    ASSUME NEW q \in Seq(Message), NEW a \in Message, Once(q),
           a.kind = "answer" => \A m \in Elements(q) : m.kind = "answer" =>
                                   m.reply.reqno # a.reply.reqno
    PROVE  Once(Append(q, a))
<1>. DEFINE r == Append(q, a)
<1>1. /\ Len(q) \in Nat /\ Len(r) = Len(q) + 1
      /\ \A i \in 1..Len(q) : r[i] = q[i]
      /\ r[Len(q) + 1] = a
      BY AppendPlaces
<1>. HIDE DEF r
<1>2. \A i \in 1..Len(r) : i \in 1..Len(q) \/ i = Len(q) + 1 BY <1>1
<1>3. \A i \in 1..Len(q) : r[i] \in Elements(q) BY <1>1 DEF Elements
<1>. SUFFICES ASSUME NEW i \in 1..Len(r), NEW j \in 1..Len(r), i # j,
                     r[i].kind = "answer", r[j].kind = "answer"
              PROVE  r[i].reply.reqno # r[j].reply.reqno
     BY DEF Once, r
<1>4. CASE i \in 1..Len(q) /\ j \in 1..Len(q) BY <1>1, <1>4 DEF Once
<1>5. CASE i \in 1..Len(q) /\ j = Len(q) + 1 BY <1>1, <1>3, <1>5
<1>6. CASE i = Len(q) + 1 /\ j \in 1..Len(q) BY <1>1, <1>3, <1>6
<1>. QED BY <1>2, <1>4, <1>5, <1>6

(* What the answer a is to: the oldest call, or one that was lost. *)
Fills(a) ==
    \/ /\ cl.wire # <<>> /\ cl'.wire = Tail(cl.wire) /\ cl'.lost = cl.lost
       /\ a.reply = Bears(Head(cl.wire)) /\ a.reply.reqno = Head(cl.wire).reqno
    \/ /\ cl'.wire = cl.wire
       /\ a.reply \in cl.replies /\ a.reply.reqno \in cl.lost
       /\ cl'.lost = cl.lost \ {a.reply.reqno}

Loses ==
    /\ inq' = inq /\ known' = known
    /\ cl.wire # <<>> /\ cl'.wire = Tail(cl.wire)
    /\ cl'.lost = cl.lost \cup {Head(cl.wire).reqno}

AnswersOnly(a) ==
    /\ Fills(a) /\ inq' = Append(inq, a) /\ a.kind = "answer"
    /\ ~Trades(a) /\ (known'.reg => known.reg \/ Admits(a))

AnswersAndGrants(a, b) ==
    /\ Fills(a) /\ inq' = Append(Append(inq, a), b) /\ a.kind = "answer"
    /\ IsGrant(b) /\ known.reg

LEMMA BusFills ==
    ASSUME "none" \notin Outcomes, TypeOK, Bus
    PROVE  \/ Loses
           \/ \E a \in Message : AnswersOnly(a)
           \/ \E a, b \in Message : AnswersAndGrants(a, b)
<1>. DEFINE call == Head(cl.wire)
<1>1. inq \in Seq(Message) /\ cl \in Client /\ known \in [reg: BOOLEAN, flags: Flags]
      BY DEF TypeOK
<1>2. Skips \/ Rejects \/ Serves \/ Breaks BY BusSteps
<1>3. CASE Skips BY <1>1, <1>3, ConcatShort DEF Skips, Takes, Loses
<1>4. ASSUME NEW err \in BOOLEAN,
             Takes(<<answer(call, err)>>)
             \/ \E kind \in {"full", "empty"} :
                   Takes(<<answer(call, err), grant(kind, call)>>)
      PROVE  LET a == answer(call, err)
             IN  /\ Fills(a) /\ a \in Message /\ a.kind = "answer" /\ call \in Call
                 /\ (Ok(a) <=> ~err) /\ a.reply.msgtyp = call.msgtyp
                 /\ Takes(<<a>>) => inq' = Append(inq, a)
  <2>1. call \in Call BY <1>4, CallTaken
  <2>2. cl.wire # <<>> /\ cl'.wire = Tail(cl.wire) /\ cl'.lost = cl.lost
    <3>1. \A x, y : <<x>> # <<>> /\ <<x, y>> # <<>> OBVIOUS
    <3>. QED BY <1>4, <3>1 DEF Takes
  <2>. DEFINE a == answer(call, err)
  <2>3. /\ a \in Message /\ a.kind = "answer" /\ (Ok(a) <=> ~err)
        /\ a.reply = [msgtyp |-> call.msgtyp, reqno |-> call.reqno]
        /\ a.reply.msgtyp = call.msgtyp /\ a.reply.reqno = call.reqno
        BY <2>1, AnswerFacts
  <2>. HIDE DEF a
  <2>4. Fills(a) BY <2>2, <2>3 DEF Fills, Bears
  <2>5. Takes(<<a>>) => inq' = Append(inq, a)
        BY <1>1, <2>3, ConcatShort DEF Takes
  <2>. QED BY <2>1, <2>3, <2>4, <2>5 DEF a
<1>5. CASE Rejects
  <2>. DEFINE a == answer(call, TRUE)
  <2>1. Takes(<<a>>) /\ (known'.reg => known.reg) BY <1>5 DEF Rejects, NoSet
  <2>2. Fills(a) /\ a \in Message /\ a.kind = "answer" /\ ~Ok(a)
        /\ inq' = Append(inq, a)
        BY <1>4, <2>1
  <2>. HIDE DEF a
  <2>. QED BY <2>1, <2>2 DEF AnswersOnly, Trades
<1>6. CASE Serves
  <2>. DEFINE a == answer(call, FALSE)
  <2>1. /\ Meant(known, call) /\ known' = Recorded(known, call)
        /\ \/ /\ Takes(<<a>>) /\ call.msgtyp \notin {"release", "acquire"}
           \/ /\ call.msgtyp \in {"update", "acquire", "release"}
              /\ \E kind \in {"full", "empty"} : Takes(<<a, grant(kind, call)>>)
        BY <1>6 DEF Serves
  <2>2. Fills(a) /\ a \in Message /\ a.kind = "answer" /\ call \in Call
        /\ Ok(a) /\ a.reply.msgtyp = call.msgtyp
        /\ (Takes(<<a>>) => inq' = Append(inq, a))
        BY <1>4, <2>1
  <2>3. call.msgtyp # "register" => known.reg BY <1>1, <2>1 DEF Meant
  <2>4. CASE Takes(<<a>>) /\ call.msgtyp \notin {"release", "acquire"}
    <3>1. ~Trades(a) /\ (call.msgtyp = "register" => Admits(a))
          BY <2>2, <2>4 DEF Trades, OfFlood, Admits
    <3>. HIDE DEF a, call
    <3>. QED BY <2>2, <2>3, <2>4, <3>1 DEF AnswersOnly
  <2>5. ASSUME call.msgtyp \in {"update", "acquire", "release"},
               NEW kind \in {"full", "empty"}, Takes(<<a, grant(kind, call)>>)
        PROVE  \E b \in Message : AnswersAndGrants(a, b)
    <3>. HIDE DEF a, call
    <3>1. grant(kind, call) \in Message /\ IsGrant(grant(kind, call))
          BY <2>2, <2>5, GrantFacts
    <3>2. inq' = Append(Append(inq, a), grant(kind, call))
          BY <1>1, <2>2, <2>5, <3>1, ConcatShort DEF Takes
    <3>3. known.reg BY <2>3, <2>5
    <3>. QED BY <2>2, <3>1, <3>2, <3>3 DEF AnswersAndGrants
  <2>. HIDE DEF a
  <2>. QED BY <2>1, <2>2, <2>4, <2>5
<1>7. CASE Breaks
  <2>1. PICK reply \in cl.replies :
           /\ reply.reqno \in cl.lost
           /\ inq' = Append(inq, [kind |-> "answer", reply |-> reply, err |-> TRUE])
           /\ cl'.lost = cl.lost \ {reply.reqno}
        BY <1>7 DEF Breaks
  <2>. DEFINE a == [kind |-> "answer", reply |-> reply, err |-> TRUE]
  <2>2. a \in Message /\ a.kind = "answer" /\ ~Ok(a) /\ a.reply = reply
        /\ inq' = Append(inq, a)
        BY <1>1, <2>1 DEF Message, Client, Ok
  <2>. HIDE DEF a
  <2>3. Fills(a) BY <1>7, <2>1, <2>2 DEF Fills, Breaks
  <2>. QED BY <1>7, <2>2, <2>3 DEF AnswersOnly, Trades, Breaks
<1>. QED BY <1>2, <1>3, <1>5, <1>6, <1>7

LEMMA AppendAnswered ==
    ASSUME NEW c, NEW d, NEW q \in Seq(Message), NEW a \in Message, Answered(c, q),
           d.lost \subseteq c.lost,
           a.kind = "answer" =>
              /\ a.reply.reqno \notin d.lost
              /\ \A m \in Elements(q) : m.kind = "answer" =>
                    m.reply.reqno # a.reply.reqno
    PROVE  Answered(d, Append(q, a))
<1>1. Once(Append(q, a)) BY AppendOnceAnswered DEF Answered
<1>2. Elements(Append(q, a)) = Elements(q) \cup {a} BY AppendElements
<1>. QED BY <1>1, <1>2 DEF Answered

LEMMA NextAnswered ==
    ASSUME "none" \notin Outcomes, TypeOK, [Next]_vars, Apart(cl, inq),
           Answered(cl, inq)
    PROVE  Answered(cl', inq')
<1>1. cl \in Client /\ inq \in Seq(Message) BY DEF TypeOK
<1>2. CASE UNCHANGED vars BY <1>2 DEF vars, Answered, Once
<1>3. CASE inq' = inq /\ cl'.lost = cl.lost BY <1>3 DEF Answered
<1>4. CASE User \/ Timeout BY <1>3, <1>4, UserNumbers, TimeoutNumbers
<1>5. CASE MainLoop
  <2>1. inq # <<>> /\ inq' = Tail(inq) /\ cl'.lost = cl.lost BY <1>5, MainLoopNumbers
  <2>2. Once(inq') BY <1>1, <2>1, TailOnceAnswered DEF Answered
  <2>3. Elements(inq') \subseteq Elements(inq) BY <1>1, <2>1, TailElements
  <2>. QED BY <2>1, <2>2, <2>3 DEF Answered
<1>6. ASSUME NEW call \in Elements(cl.wire)
      PROVE  /\ call.reqno \notin cl.lost
             /\ \A m \in Elements(inq) : m.kind = "answer" =>
                   m.reply.reqno # call.reqno
      BY DEF Apart, Settled
<1>7. CASE Bus
  <2>1. cl.wire # <<>> => Head(cl.wire) \in Elements(cl.wire)
        BY <1>1, TailElements DEF Client
  <2>2. ASSUME NEW a \in Message, Fills(a), a.kind = "answer"
        PROVE  Answered(cl', Append(inq, a))
    <3>1. /\ cl'.lost \subseteq cl.lost /\ a.reply.reqno \notin cl'.lost
          /\ \A m \in Elements(inq) : m.kind = "answer" =>
                m.reply.reqno # a.reply.reqno
      <4>1. CASE /\ cl.wire # <<>> /\ cl'.lost = cl.lost
                 /\ a.reply.reqno = Head(cl.wire).reqno
            BY <1>6, <2>1, <4>1
      <4>2. CASE a.reply.reqno \in cl.lost /\ cl'.lost = cl.lost \ {a.reply.reqno}
            BY <4>2 DEF Answered
      <4>. QED BY <2>2, <4>1, <4>2 DEF Fills
    <3>. QED BY <1>1, <3>1, AppendAnswered
  <2>3. CASE Loses
    <3>1. /\ inq' = inq /\ cl'.lost = cl.lost \cup {Head(cl.wire).reqno}
          /\ Head(cl.wire) \in Elements(cl.wire)
          BY <2>1, <2>3 DEF Loses
    <3>. QED BY <1>6, <3>1 DEF Answered
  <2>4. ASSUME NEW a \in Message, AnswersOnly(a) PROVE Answered(cl', inq')
        BY <2>2, <2>4 DEF AnswersOnly
  <2>5. ASSUME NEW a \in Message, NEW b \in Message, AnswersAndGrants(a, b)
        PROVE  Answered(cl', inq')
    <3>1. /\ Answered(cl', Append(inq, a)) /\ b.kind # "answer"
          /\ inq' = Append(Append(inq, a), b)
          BY <2>2, <2>5 DEF AnswersAndGrants, IsGrant
    <3>2. Append(inq, a) \in Seq(Message) BY <1>1, AppendPlaces
    <3>. QED BY <3>1, <3>2, AppendAnswered
  <2>. QED BY <1>7, <2>3, <2>4, <2>5, BusFills
<1>8. CASE Manager
  <2>1. PICK m \in Message : inq' = Append(inq, m) /\ m.kind # "answer"
        BY <1>8, ManagerNumbers
  <2>2. PICK n \in 0..Len(cl.wire) :
           cl'.lost = cl.lost \cup {cl.wire[i].reqno : i \in 1..n}
        BY <1>8, ManagerNumbers
  <2>3. \A i \in 1..n : cl.wire[i] \in Elements(cl.wire) BY <1>1, <2>2 DEF Elements, Client
  <2>4. Answered(cl', inq) BY <1>6, <2>2, <2>3 DEF Answered
  <2>. QED BY <1>1, <2>1, <2>4, AppendAnswered
<1>. QED BY <1>2, <1>4, <1>5, <1>7, <1>8 DEF Next

LEMMA NextFollowed ==
    ASSUME "none" \notin Outcomes, TypeOK, [Next]_vars, Followed(inq)
    PROVE  Followed(inq')
<1>1. inq \in Seq(Message) BY DEF TypeOK
<1>2. CASE UNCHANGED vars BY <1>2 DEF vars
<1>3. CASE User \/ Timeout BY <1>3, UserNumbers, TimeoutNumbers
<1>4. CASE MainLoop BY <1>1, <1>4, MainLoopNumbers, TailFollowed
<1>5. CASE Bus
  <2>1. ASSUME NEW a \in Message, AnswersOnly(a) PROVE Followed(inq')
        BY <1>1, <2>1, AppendFollowed DEF AnswersOnly
  <2>2. ASSUME NEW a \in Message, NEW b \in Message, AnswersAndGrants(a, b)
        PROVE  Followed(inq')
        BY <1>1, <2>2, AppendFollowed DEF AnswersAndGrants
  <2>. QED BY <1>5, <2>1, <2>2, BusFills DEF Loses
<1>6. CASE Manager
  <2>1. PICK m \in Message : inq' = Append(inq, m) /\ m.kind # "answer"
        BY <1>6, ManagerNumbers
  <2>. QED BY <1>1, <2>1, AppendFollowed DEF Trades, Ok
<1>. QED BY <1>2, <1>3, <1>4, <1>5, <1>6 DEF Next
-----------------------------------------------------------------------------
(* From here on no call has timed out. *)
Timely(c) == Good(c) /\ c.overdue = {}

OnTheWay(c, q, k) == Pending(c, q) /\ Introduced(c, q, k) /\ Moving(c, q)

(* What the client says in the course of a flood keeps it going. *)
LEMMA SentPending ==
    ASSUME NEW c \in Client, NEW d, NEW t, NEW flags, Sent(d, c, t, flags),
           NEW q, Pending(c, q)
    PROVE  Pending(d, q)
<1>. DEFINE x == [msgtyp |-> t, reqno |-> c.reqno + 1, flags |-> flags]
<1>1. d.wire = Append(c.wire, x) /\ d.replies = c.replies \cup {Bears(x)}
      BY DEF Sent, Bears
<1>. HIDE DEF x
<1>2. ASSUME NEW call \in Elements(d.wire) PROVE call \in Elements(c.wire) \/ call = x
  <2>1. Len(c.wire) \in Nat /\ Len(d.wire) = Len(c.wire) + 1
        /\ \A i \in 1..Len(d.wire) :
              d.wire[i] = IF i = Len(c.wire) + 1 THEN x ELSE c.wire[i]
    <3>1. c.wire \in Seq(Call) BY DEF Client
    <3>. QED BY <1>1, <3>1
  <2>2. PICK i \in 1..Len(d.wire) : call = d.wire[i] BY DEF Elements
  <2>3. i \in 1..Len(c.wire) \/ i = Len(c.wire) + 1 BY <2>1
  <2>. QED BY <2>1, <2>2, <2>3 DEF Elements
<1>. QED BY <1>1, <1>2 DEF Pending

LEMMA SamePending ==
    ASSUME NEW c, NEW d, Calls(d, c), NEW q, Pending(c, q)
    PROVE  Pending(d, q)
BY DEF Calls, Pending

LEMMA TailPending ==
    ASSUME NEW c, NEW q \in Seq(Message), q # <<>>, Pending(c, q)
    PROVE  Pending(c, Tail(q)) /\ (Head(q).kind = "answer" => Head(q).reply \in c.replies)
<1>1. Elements(q) = Elements(Tail(q)) \cup {Head(q)} BY TailElements
<1>. QED BY <1>1 DEF Pending

(* A step that takes nothing from the flood. *)
Furthers(d, c) ==
    /\ Away(d) => Away(c)
    /\ ~Leaving(d) /\ d.flood # 0 /\ ~d.broken =>
          \/ \E p \in d.replies : OfFlood(p.msgtyp)
          \/ /\ ~Leaving(c) /\ c.flood # 0 /\ ~c.broken /\ (c.path => d.path)
             /\ \A p \in c.replies : OfFlood(p.msgtyp) => p \in d.replies
    /\ \A q : Pending(c, q) => Pending(d, q)

LEMMA SendsFurthers ==
    ASSUME NEW c \in Client, NEW d, NEW t, NEW flags, Sends(d, c, t, flags),
           Flow(d, c) \/ OfFlood(t)
    PROVE  Furthers(d, c)
<1>1. \A q : Pending(c, q) => Pending(d, q)
      BY SentPending, SamePending DEF Sends
<1>2. d.path = c.path BY DEF Sends, Place
<1>3. CASE c.rset.state = "connected"
  <2>1. /\ d.replies = c.replies \cup {[msgtyp |-> t, reqno |-> c.reqno + 1]}
        /\ d.broken = c.broken
        BY <1>3 DEF Sends, Sent
  <2>2. Leaving(c) => Leaving(d) BY <2>1 DEF Leaving
  <2>3. OfFlood(t) => \E p \in d.replies : OfFlood(p.msgtyp)
    <3>1. [msgtyp |-> t, reqno |-> c.reqno + 1].msgtyp = t OBVIOUS
    <3>. QED BY <2>1, <3>1
  <2>. QED BY <1>1, <1>2, <2>1, <2>2, <2>3 DEF Furthers, Away, Flow
<1>4. CASE c.rset.state # "connected"
  <2>1. d.replies = c.replies /\ d.broken BY <1>4 DEF Sends, Calls
  <2>. QED BY <1>1, <1>2, <2>1 DEF Furthers, Away, Leaving
<1>. QED BY <1>3, <1>4

LEMMA StandsFurthers ==
    ASSUME NEW c, NEW d, Stands(d, c) \/ Dismisses(d, c), Flow(d, c) \/ d.flood = 0
    PROVE  Furthers(d, c)
<1>1. Calls(d, c) /\ d.path = c.path /\ d.broken = c.broken
      BY DEF Stands, Dismisses, Place
<1>2. \A q : Pending(c, q) => Pending(d, q) BY <1>1, SamePending
<1>3. d.replies = c.replies BY <1>1 DEF Calls
<1>. QED BY <1>1, <1>2, <1>3 DEF Furthers, Away, Leaving, Flow

LEMMA LeavesFurthers ==
    ASSUME NEW c \in Client, NEW d, Leaves(d, c)
    PROVE  Furthers(d, c)
<1>1. \A q : Pending(c, q) => Pending(d, q) BY SentPending DEF Leaves
<1>2. Leaving(d)
  <2>1. [msgtyp |-> "unregister", reqno |-> c.reqno + 1] \in d.replies
        BY DEF Leaves, Sent
  <2>. QED BY <2>1 DEF Leaving
<1>. QED BY <1>1, <1>2 DEF Furthers, Away

LEMMA ConnectsFurthers ==
    ASSUME NEW c \in Client, NEW d, Connects(d, c)
    PROVE  Furthers(d, c)
<1>1. \A q : Pending(c, q) => Pending(d, q) BY SentPending DEF Connects
<1>2. c.replies \subseteq d.replies /\ Flow(d, c) /\ d.broken = c.broken
      BY DEF Connects, Sent
<1>3. c.path => d.path BY DEF Connects, Place
<1>. QED BY <1>1, <1>2, <1>3 DEF Furthers, Away, Leaving, Flow

LEMMA FurthersOnTheWay ==
    ASSUME NEW c, NEW d, Furthers(d, c), NEW q, NEW k, OnTheWay(c, q, k)
    PROVE  OnTheWay(d, q, k)
<1>1. Pending(d, q) BY DEF Furthers, OnTheWay
<1>2. Introduced(d, q, k) BY SameIntroduced DEF Furthers, OnTheWay
<1>3. Moving(d, q) BY DEF Furthers, OnTheWay, Moving
<1>. QED BY <1>1, <1>2, <1>3 DEF OnTheWay

LEMMA UserOnTheWay ==
    ASSUME Inv, Inv', User, Good(cl'), OnTheWay(cl, inq, known)
    PROVE  OnTheWay(cl', inq', known')
<1>1. cl \in Client /\ inq' = inq /\ known' = known
      BY DEF Inv, TypeOK, User, Send, Update, Disconnect, Flood, Stop, Quit, Command
<1>2. Commands(cl', cl) BY UserCommands
<1>3. OfFlood("acquire") BY DEF OfFlood
<1>4. Furthers(cl', cl)
      BY <1>1, <1>2, <1>3, SendsFurthers, LeavesFurthers, StandsFurthers DEF Commands
<1>. QED BY <1>1, <1>4, FurthersOnTheWay

(* Something of the flood is not answered yet. *)
Driven(d) ==
    ~Leaving(d) /\ d.flood # 0 /\ ~d.broken => \E p \in d.replies : OfFlood(p.msgtyp)

LEMMA SendsDriven ==
    ASSUME NEW c, NEW d, NEW t, NEW flags, Sends(d, c, t, flags), OfFlood(t)
    PROVE  Driven(d)
<1>1. CASE c.rset.state = "connected"
  <2>1. [msgtyp |-> t, reqno |-> c.reqno + 1] \in d.replies
        BY <1>1 DEF Sends, Sent
  <2>2. [msgtyp |-> t, reqno |-> c.reqno + 1].msgtyp = t OBVIOUS
  <2>. QED BY <2>1, <2>2 DEF Driven
<1>2. CASE c.rset.state # "connected" BY <1>2 DEF Sends, Driven
<1>. QED BY <1>1, <1>2

LEMMA DrivenOnTheWay ==
    ASSUME NEW c, NEW d, Furthers(d, c), Driven(d), NEW q, NEW k,
           Pending(c, q), Introduced(c, q, k)
    PROVE  OnTheWay(d, q, k)
<1>1. Pending(d, q) BY DEF Furthers
<1>2. Introduced(d, q, k) BY SameIntroduced DEF Furthers
<1>3. Moving(d, q) BY DEF Driven, Moving
<1>. QED BY <1>1, <1>2, <1>3 DEF OnTheWay

(* No answer and no bad news is at the head. *)
LEMMA TailRest ==
    ASSUME NEW c, NEW q \in Seq(Message), q # <<>>, NEW k, OnTheWay(c, q, k),
           Head(q).kind \notin {"answer", "down"}
    PROVE  /\ Pending(c, Tail(q)) /\ Introduced(c, Tail(q), k)
           /\ ~IsGrant(Head(q)) => OnTheWay(c, Tail(q), k)
<1>1. Pending(c, Tail(q)) BY TailPending DEF OnTheWay
<1>2. ~Admits(Head(q)) BY DEF Admits, Ok
<1>3. Introduced(c, Tail(q), k) BY <1>2, TailIntroduced DEF OnTheWay
<1>4. ~IsGrant(Head(q)) => Moving(c, Tail(q))
      BY TailPromised DEF OnTheWay, Moving
<1>. QED BY <1>1, <1>3, <1>4 DEF OnTheWay

(* The client is told that the manager is gone: in the course of a flood   *)
(* no grant was awaited from it.                                           *)
LEMMA DroppedOnTheWay ==
    ASSUME NEW c, NEW d, Drops(d, c), NEW q \in Seq(Message), q # <<>>, NEW k,
           OnTheWay(c, q, k), Head(q).kind = "down"
    PROVE  OnTheWay(d, Tail(q), k)
<1>1. /\ d.replies = c.replies /\ d.wire = c.wire
      /\ d.flood = c.flood /\ d.broken = c.broken
      BY DEF Drops, Calls, Flow
<1>2. Pending(d, Tail(q)) BY <1>1, TailPending DEF OnTheWay, Pending
<1>3. Introduced(d, Tail(q), k) BY TailIntroduced DEF OnTheWay
<1>4. ~Promised(q) BY TailPromised DEF IsGrant
<1>5. Moving(d, Tail(q)) BY <1>1, <1>4 DEF OnTheWay, Moving, Leaving
<1>. QED BY <1>2, <1>3, <1>5 DEF OnTheWay

(* A positive answer to a request of the flood has a grant behind it, and  *)
(* the set still has its path: the client was registered before.           *)
LEMMA AnswersOnTheWay ==
    ASSUME NEW c, NEW d, NEW q \in Seq(Message), q # <<>>, NEW k,
           OnTheWay(c, q, k), Followed(q), Answered(c, q), Apart(c, q),
           Head(q).kind = "answer", Head(q).err \in BOOLEAN,
           Answers(d, c, Head(q).reply, Head(q).err)
    PROVE  OnTheWay(d, Tail(q), k)
<1>. DEFINE m == Head(q)
            r == Tail(q)
<1>1. /\ Len(q) \in Nat /\ Len(q) > 0 /\ Len(r) = Len(q) - 1 /\ m = q[1]
      /\ \A i \in 1..Len(r) : r[i] = q[i + 1]
      BY TailPlaces
<1>2. Elements(q) = Elements(r) \cup {m} BY TailElements
<1>3. /\ d.wire = c.wire /\ d.replies = c.replies \ {m.reply} /\ d.path = c.path
      /\ d.flood = c.flood /\ m.reply.msgtyp # "unregister"
      /\ d.broken <=> c.broken \/ (m.err /\ OfFlood(m.reply.msgtyp))
      BY DEF Answers, Flow, OfFlood
<1>4. Leaving(d) <=> Leaving(c) BY <1>3 DEF Leaving
<1>5. Pending(d, r)
  <2>1. Pending(c, q) BY DEF OnTheWay
  <2>2. ASSUME NEW x \in Elements(r), x.kind = "answer" PROVE x.reply \in d.replies
    <3>1. x.reply.reqno # m.reply.reqno BY <2>2, TailOnceAnswered DEF Answered
    <3>. QED BY <1>2, <1>3, <2>1, <2>2, <3>1 DEF Pending
  <2>3. ASSUME NEW call \in Elements(d.wire) PROVE Bears(call) \in d.replies
    <3>1. call \in Elements(c.wire) BY <1>3
    <3>2. m.reply.reqno # call.reqno BY <1>2, <3>1 DEF Apart, Settled
    <3>3. Bears(call).reqno = call.reqno BY DEF Bears
    <3>. QED BY <1>3, <2>1, <3>1, <3>2, <3>3 DEF Pending
  <2>. QED BY <2>2, <2>3 DEF Pending
<1>6. Away(d) => Away(c) BY <1>3, <1>4 DEF Away
<1>7. Admits(m) => c.path BY DEF Admits, Ok, Answers
<1>8. Introduced(d, r, k)
  <2>1. Away(d) => Away(c) /\ m.kind # "down" /\ ~Admits(m) BY <1>6, <1>7 DEF Away
  <2>. QED BY <2>1, TailIntroduced DEF OnTheWay
<1>9. ASSUME Trades(m), ~Leaving(c) PROVE c.path /\ Promised(r)
  <2>1. 1 \in 1..Len(q) BY <1>1
  <2>2. 2 \in 1..Len(q) /\ IsGrant(q[2])
    <3>1. 1 + 1 \in 1..Len(q) /\ IsGrant(q[1 + 1]) BY <1>1, <1>9, <2>1 DEF Followed
    <3>. QED BY <3>1
  <2>3. 1 \in 1..Len(r) /\ IsGrant(r[1]) BY <1>1, <2>2
  <2>4. Promised(r)
    <3>. HIDE DEF r
    <3>1. Heard(r, 1) BY DEF Heard
    <3>. QED BY <2>3, <3>1 DEF Promised
  <2>5. c.path
    <3>. SUFFICES ASSUME ~c.path PROVE FALSE OBVIOUS
    <3>1. Since(c, q, 0) BY <1>9 DEF Since, Away
    <3>2. Calm(q, 0, 1) BY DEF Calm
    <3>3. KnownAt(q, k, 1) BY <1>1, <1>9, <2>1 DEF KnownAt
    <3>4. 0 \in 0..Len(q) /\ 1 \in (0 + 1)..(Len(q) + 1) BY <1>1
    <3>5. \E l \in (0 + 1)..(1 - 1) : Admits(q[l])
          BY <3>1, <3>2, <3>3, <3>4 DEF Introduced, OnTheWay
    <3>. QED BY <3>5
  <2>. QED BY <2>4, <2>5
<1>10. ~IsGrant(m) BY DEF IsGrant
<1>. HIDE DEF m, r
<1>11. Moving(d, r)
  <2>. SUFFICES ASSUME ~Leaving(d), d.flood # 0, ~d.broken
                PROVE  (\E p \in d.replies : OfFlood(p.msgtyp)) \/ (d.path /\ Promised(r))
       BY DEF Moving
  <2>1. \/ \E p \in c.replies : OfFlood(p.msgtyp)
        \/ c.path /\ Promised(q)
        BY <1>3, <1>4 DEF OnTheWay, Moving
  <2>2. CASE c.path /\ Promised(q)
    <3>1. Promised(r) BY <1>10, <2>2, TailPromised DEF m, r
    <3>. QED BY <1>3, <2>2, <3>1
  <2>3. ASSUME NEW p \in c.replies, OfFlood(p.msgtyp)
        PROVE  (\E x \in d.replies : OfFlood(x.msgtyp)) \/ (d.path /\ Promised(r))
    <3>1. CASE p # m.reply BY <1>3, <2>3, <3>1
    <3>2. CASE p = m.reply
      <4>1. Trades(m) BY <1>3, <2>3, <3>2 DEF Trades, Ok, m
      <4>. QED BY <1>3, <1>4, <1>9, <4>1
    <3>. QED BY <3>1, <3>2
  <2>. QED BY <2>1, <2>2, <2>3
<1>. QED BY <1>5, <1>8, <1>11 DEF OnTheWay, r

(* The client takes a notice, in the course of a flood also a grant. *)
LEMMA HeedsOnTheWay ==
    ASSUME NEW c \in Client, NEW d, NEW q \in Seq(Message), q # <<>>, NEW k,
           OnTheWay(c, q, k), Head(q).kind \in NoticeKind, Heeds(d, c, Head(q))
    PROVE  OnTheWay(d, Tail(q), k)
<1>. DEFINE m == Head(q)
<1>1. m.kind \notin {"answer", "down"} BY DEF NoticeKind
<1>2. Pending(c, Tail(q)) /\ Introduced(c, Tail(q), k) BY <1>1, TailRest
<1>3. ~IsGrant(m) => OnTheWay(c, Tail(q), k) BY <1>1, TailRest
<1>4. OfFlood("acquire") /\ OfFlood("release") BY DEF OfFlood
<1>. HIDE DEF m
<1>5. ASSUME NEW t, OfFlood(t), Sends(d, c, t, NoFlags) PROVE OnTheWay(d, Tail(q), k)
      BY <1>2, <1>5, SendsFurthers, SendsDriven, DrivenOnTheWay
<1>6. CASE m.kind = "unregister" /\ Dismisses(d, c)
  <2>1. ~IsGrant(m) /\ Flow(d, c) BY <1>6 DEF IsGrant, Dismisses
  <2>. QED BY <1>3, <1>6, <2>1, StandsFurthers, FurthersOnTheWay
<1>7. CASE m.kind = "advice" /\ Stands(d, c) /\ Flow(d, c)
  <2>1. ~IsGrant(m) BY <1>7 DEF IsGrant
  <2>. QED BY <1>3, <1>7, <2>1, StandsFurthers, FurthersOnTheWay
<1>8. CASE Stands(d, c) /\ d.flood = 0
  <2>1. Driven(d) BY <1>8 DEF Driven
  <2>. QED BY <1>2, <1>8, <2>1, StandsFurthers, DrivenOnTheWay
<1>9. Heeds(d, c, m) BY DEF m
<1>. QED BY <1>4, <1>5, <1>6, <1>7, <1>8, <1>9 DEF Heeds, Flow

(* It does not take one that finds no set; then no grant was awaited. *)
LEMMA UnheededOnTheWay ==
    ASSUME NEW c \in Client, NEW d, NEW q \in Seq(Message), q # <<>>, NEW k,
           OnTheWay(c, q, k), Head(q).kind \in NoticeKind, Kept(c),
           ~(c.path /\ resset_find(c.rset)), Stands(d, c), Flow(d, c)
    PROVE  OnTheWay(d, Tail(q), k)
<1>1. Head(q).kind \notin {"answer", "down"} BY DEF NoticeKind
<1>2. Pending(c, Tail(q)) /\ Introduced(c, Tail(q), k) BY <1>1, TailRest
<1>3. Furthers(d, c) BY StandsFurthers
<1>4. ~c.path
  <2>1. Held(c) \in Nat BY HeldType DEF Kept
  <2>2. c.path => c.rset.refcnt = Held(c) + 1 BY DEF Kept, Counted
  <2>3. c.rset.state = "freed" <=> c.rset.refcnt = 0 BY DEF Kept, Counted
  <2>4. c.path => c.rset.state # "freed" BY <2>1, <2>2, <2>3
  <2>. QED BY <2>4 DEF resset_find
<1>5. Driven(d)
  <2>1. d.replies = c.replies /\ d.flood = c.flood /\ d.broken = c.broken
        BY DEF Stands, Calls, Flow
  <2>2. Moving(c, q) BY DEF OnTheWay
  <2>. QED BY <1>4, <2>1, <2>2 DEF Moving, Driven, Leaving
<1>. QED BY <1>2, <1>3, <1>5, DrivenOnTheWay

LEMMA HandlesOnTheWay ==
    ASSUME Inv, Inv', MainLoop, Good(cl'), Apart(cl, inq), Followed(inq),
           Answered(cl, inq), OnTheWay(cl, inq, known)
    PROVE  OnTheWay(cl', inq', known')
<1>1. /\ inq # <<>> /\ inq' = Tail(inq) /\ known' = known /\ Head(inq) \in Message
      /\ Handles(cl', cl, Head(inq))
      BY MainLoopHandles
<1>2. cl \in Client /\ inq \in Seq(Message) BY DEF Inv, TypeOK
<1>3. Kept(cl) BY GoodBefore
<1>. SUFFICES OnTheWay(cl', Tail(inq), known) BY <1>1
<1>4. CASE Head(inq).kind = "answer"
  <2>1. Head(inq).reply \in cl.replies BY <1>1, <1>2, <1>4, TailPending DEF OnTheWay
  <2>2. Head(inq).err \in BOOLEAN BY <1>1, <1>4, MessageKinds DEF AnswerMsg
  <2>3. Answers(cl', cl, Head(inq).reply, Head(inq).err)
        BY <1>1, <1>4, <2>1 DEF Handles, NoticeKind
  <2>. QED BY <1>1, <1>2, <1>4, <2>2, <2>3, AnswersOnTheWay
<1>5. CASE Head(inq).kind \in NoticeKind
  <2>1. CASE cl.path /\ resset_find(cl.rset)
    <3>1. Heeds(cl', cl, Head(inq)) BY <1>1, <1>5, <2>1 DEF Handles, NoticeKind
    <3>. QED BY <1>1, <1>2, <1>5, <3>1, HeedsOnTheWay
  <2>2. CASE ~(cl.path /\ resset_find(cl.rset))
    <3>1. Stands(cl', cl) /\ Flow(cl', cl) BY <1>1, <1>5, <2>2 DEF Handles, NoticeKind
    <3>. QED BY <1>1, <1>2, <1>3, <1>5, <2>2, <3>1, UnheededOnTheWay
  <2>. QED BY <2>1, <2>2
<1>6. CASE Head(inq).kind = "up"
  <2>1. Connects(cl', cl) BY <1>1, <1>6 DEF Handles, NoticeKind
  <2>2. OnTheWay(cl, Tail(inq), known)
        BY <1>1, <1>2, <1>6, TailRest DEF IsGrant
  <2>. QED BY <1>2, <2>1, <2>2, ConnectsFurthers, FurthersOnTheWay
<1>7. CASE Head(inq).kind = "down"
  <2>1. Drops(cl', cl) BY <1>1, <1>7 DEF Handles, NoticeKind
  <2>. QED BY <1>1, <1>2, <1>7, <2>1, DroppedOnTheWay
<1>. QED BY <1>1, <1>4, <1>5, <1>6, <1>7 DEF Handles

Rests(d, c) ==
    /\ d.replies = c.replies /\ d.path = c.path
    /\ d.flood = c.flood /\ d.broken = c.broken
    /\ Elements(d.wire) \subseteq Elements(c.wire)

LEMMA RestsOnTheWay ==
    ASSUME NEW c, NEW d, Rests(d, c), NEW q, NEW k, OnTheWay(c, q, k)
    PROVE  OnTheWay(d, q, k)
<1>1. Pending(d, q) BY DEF Rests, OnTheWay, Pending
<1>2. Introduced(d, q, k) BY SameIntroduced DEF Rests, OnTheWay, Away, Leaving
<1>3. Moving(d, q) BY DEF Rests, OnTheWay, Moving, Leaving
<1>. QED BY <1>1, <1>2, <1>3 DEF OnTheWay

LEMMA AppendOnTheWay ==
    ASSUME NEW c, NEW q \in Seq(Message), NEW a \in Message, NEW k, NEW l,
           OnTheWay(c, q, k), a.kind = "answer" => a.reply \in c.replies,
           Trades(a) => k.reg, l.reg => a.kind # "down" /\ (k.reg \/ Admits(a))
    PROVE  OnTheWay(c, Append(q, a), l)
<1>1. Elements(Append(q, a)) = Elements(q) \cup {a} BY AppendElements
<1>2. Pending(c, Append(q, a)) BY <1>1 DEF OnTheWay, Pending
<1>3. Introduced(c, Append(q, a), l) BY AppendIntroduced DEF OnTheWay
<1>4. Moving(c, Append(q, a)) BY AppendPromised DEF OnTheWay, Moving
<1>. QED BY <1>2, <1>3, <1>4 DEF OnTheWay

LEMMA BusOnTheWay ==
    ASSUME "none" \notin Outcomes, TypeOK, Bus, OnTheWay(cl, inq, known)
    PROVE  OnTheWay(cl', inq', known')
<1>1. cl \in Client /\ inq \in Seq(Message) BY DEF TypeOK
<1>2. Unmoved(cl', cl) BY <1>1, BusNumbers, MovesUnmoved
<1>3. cl.wire # <<>> => /\ Elements(cl.wire) = Elements(Tail(cl.wire)) \cup {Head(cl.wire)}
                        /\ Head(cl.wire) \in Elements(cl.wire)
      BY <1>1, TailElements DEF Client
<1>4. ASSUME cl.wire # <<>>, cl'.wire = Tail(cl.wire) PROVE Rests(cl', cl)
      BY <1>2, <1>3, <1>4 DEF Rests, Unmoved, Place, Flow
<1>5. CASE Loses
  <2>1. inq' = inq /\ known' = known /\ Rests(cl', cl) BY <1>4, <1>5 DEF Loses
  <2>. QED BY <2>1, RestsOnTheWay
<1>6. ASSUME NEW a \in Message, Fills(a) PROVE Rests(cl', cl) /\ a.reply \in cl.replies
  <2>1. CASE /\ cl.wire # <<>> /\ cl'.wire = Tail(cl.wire)
             /\ a.reply = Bears(Head(cl.wire))
        BY <1>3, <1>4, <2>1 DEF OnTheWay, Pending
  <2>2. CASE cl'.wire = cl.wire /\ a.reply \in cl.replies
        BY <1>2, <2>2 DEF Rests, Unmoved, Place, Flow
  <2>. QED BY <1>6, <2>1, <2>2 DEF Fills
<1>7. ASSUME NEW a \in Message, AnswersOnly(a) PROVE OnTheWay(cl', inq', known')
  <2>1. Rests(cl', cl) /\ a.reply \in cl.replies BY <1>6, <1>7 DEF AnswersOnly
  <2>2. /\ inq' = Append(inq, a) /\ ~Trades(a) /\ a.kind # "down"
        /\ known'.reg => known.reg \/ Admits(a)
        BY <1>7 DEF AnswersOnly
  <2>3. OnTheWay(cl, Append(inq, a), known') BY <1>1, <2>1, <2>2, AppendOnTheWay
  <2>. QED BY <2>1, <2>2, <2>3, RestsOnTheWay
<1>8. ASSUME NEW a \in Message, NEW b \in Message, AnswersAndGrants(a, b)
      PROVE  OnTheWay(cl', inq', known')
  <2>1. Rests(cl', cl) /\ a.reply \in cl.replies BY <1>6, <1>8 DEF AnswersAndGrants
  <2>2. /\ inq' = Append(Append(inq, a), b) /\ known.reg /\ a.kind # "down"
        /\ b.kind \notin {"answer", "down"} /\ ~Trades(b)
        BY <1>8 DEF AnswersAndGrants, IsGrant, Trades, Ok
  <2>3. Append(inq, a) \in Seq(Message) BY <1>1, AppendPlaces
  <2>4. OnTheWay(cl, Append(inq, a), known) BY <1>1, <2>1, <2>2, AppendOnTheWay
  <2>5. OnTheWay(cl, Append(Append(inq, a), b), known')
        BY <2>2, <2>3, <2>4, AppendOnTheWay
  <2>. QED BY <2>1, <2>2, <2>5, RestsOnTheWay
<1>. QED BY <1>5, <1>7, <1>8, BusFills

LEMMA ManagerOnTheWay ==
    ASSUME TypeOK, Manager,
           OnTheWay(cl, inq, known)
    PROVE  OnTheWay(cl', inq', known')
<1>1. cl \in Client /\ inq \in Seq(Message) BY DEF TypeOK
<1>2. Unmoved(cl', cl) /\ (Arrives \/ Goes \/ Yields \/ Tidings)
      BY <1>1, ManagerSteps, MovesUnmoved
<1>3. \A m : m.kind # "answer" => ~Trades(m) BY DEF Trades, Ok
<1>4. CASE Arrives
  <2>. DEFINE m == [kind |-> "up"]
  <2>1. m \in Message /\ m.kind = "up" BY UpDown
  <2>2. inq' = Append(inq, m) /\ cl' = cl /\ known' = known BY <1>4 DEF Arrives
  <2>. HIDE DEF m
  <2>. QED BY <1>1, <1>3, <2>1, <2>2, AppendOnTheWay
<1>5. CASE Goes \/ Yields
  <2>1. PICK m \in Message :
           /\ inq' = Append(inq, m) /\ m.kind \in {"up", "down"} /\ ~known'.reg
        BY <1>5, UpDown DEF Goes, Yields, Orphans, NoSet
  <2>2. OnTheWay(cl, inq', known') BY <1>1, <1>3, <2>1, AppendOnTheWay
  <2>3. Rests(cl', cl)
    <3>1. PICK n \in 0..Len(cl.wire) : cl'.wire = SubSeq(cl.wire, n + 1, Len(cl.wire))
          BY <1>5 DEF Goes, Yields, Orphans
    <3>2. Elements(cl'.wire) \subseteq Elements(cl.wire)
          BY <1>1, <3>1, DropElements DEF Client
    <3>. QED BY <1>2, <3>2 DEF Rests, Unmoved, Place, Flow
  <2>. QED BY <2>2, <2>3, RestsOnTheWay
<1>6. CASE Tidings
  <2>1. PICK m \in Message :
           /\ inq' = Append(inq, m) /\ m.kind \in NoticeKind
           /\ cl' = cl /\ known.reg
        BY <1>6 DEF Tidings
  <2>2. m.kind \notin {"answer", "down"} BY <2>1 DEF NoticeKind
  <2>. QED BY <1>1, <1>3, <2>1, <2>2, AppendOnTheWay
<1>. QED BY <1>2, <1>4, <1>5, <1>6
-----------------------------------------------------------------------------
FloodInv ==
    /\ Followed(inq) /\ Answered(cl, inq)
    /\ Timely(cl) => OnTheWay(cl, inq, known)

LEMMA NextFlood ==
    ASSUME "none" \notin Outcomes, Inv, Inv', [Next]_vars, Apart(cl, inq), FloodInv
    PROVE  FloodInv'
<1>1. TypeOK /\ cl \in Client BY DEF Inv, TypeOK
<1>2. Followed(inq') /\ Answered(cl', inq')
      BY <1>1, NextFollowed, NextAnswered DEF FloodInv
<1>. SUFFICES ASSUME Timely(cl') PROVE OnTheWay(cl', inq', known')
     BY <1>2 DEF FloodInv
<1>3. Good(cl') /\ cl'.overdue = {} BY DEF Timely
<1>4. CASE UNCHANGED vars BY <1>4 DEF vars, FloodInv
<1>5. CASE User
  <2>1. Timely(cl) BY <1>1, <1>3, <1>5, GoodBefore, UserNumbers DEF Timely
  <2>. QED BY <1>3, <1>5, <2>1, UserOnTheWay DEF FloodInv
<1>6. CASE MainLoop
  <2>1. Timely(cl) BY <1>1, <1>3, <1>6, GoodBefore, MainLoopNumbers DEF Timely
  <2>. QED BY <1>3, <1>6, <2>1, HandlesOnTheWay DEF FloodInv
<1>7. CASE Timeout
  <2>1. cl'.overdue # {} BY <1>3, <1>7, TimeoutAnswers
  <2>. QED BY <1>3, <2>1
<1>8. CASE Bus
  <2>1. Unmoved(cl', cl) BY <1>1, <1>8, BusNumbers, MovesUnmoved
  <2>2. Timely(cl) BY <1>3, <2>1 DEF Unmoved, Timely
  <2>. QED BY <1>1, <1>8, <2>2, BusOnTheWay DEF FloodInv
<1>9. CASE Manager
  <2>1. Unmoved(cl', cl) BY <1>1, <1>9, ManagerSteps, MovesUnmoved
  <2>2. Timely(cl) BY <1>3, <2>1 DEF Unmoved, Timely
  <2>. QED BY <1>1, <1>9, <2>2, ManagerOnTheWay DEF FloodInv
<1>. QED BY <1>4, <1>5, <1>6, <1>7, <1>8, <1>9 DEF Next

LEMMA InitFlood == Init => FloodInv
<1>. SUFFICES ASSUME Init PROVE FloodInv OBVIOUS
<1>1. inq = <<>> /\ Len(inq) = 0 /\ known.reg = FALSE BY DEF Init
<1>2. Elements(inq) = {} BY <1>1, ShortElements
<1>3. Followed(inq) BY <1>1 DEF Followed
<1>4. Answered(cl, inq) BY <1>1, <1>2 DEF Answered, Once
<1>5. Connects(cl, Started) /\ Started \in Client BY InitConnects
<1>6. Started.wire = <<>> /\ Started.flood = 0 BY DEF Started
<1>7. Pending(Started, inq)
  <2>1. Elements(Started.wire) = {} BY <1>6, ShortElements
  <2>. QED BY <1>2, <2>1 DEF Pending
<1>8. Pending(cl, inq) BY <1>5, <1>7, SentPending DEF Connects
<1>9. Introduced(cl, inq, known)
  <2>1. \A i : ~KnownAt(inq, known, i) BY <1>1 DEF KnownAt
  <2>. QED BY <2>1 DEF Introduced
<1>10. Moving(cl, inq) BY <1>5, <1>6 DEF Moving, Connects, Flow
<1>. QED BY <1>3, <1>4, <1>8, <1>9, <1>10 DEF FloodInv, OnTheWay
-----------------------------------------------------------------------------
(* The count of grants, whatever the state of the rest.                    *)
Bounded(c) ==
    /\ c.flood = 0 \/ c.flood \in Floods
    /\ c.count = 0 \/ \E n \in Floods : c.count < n

LEMMA SameBounded ==
    ASSUME NEW c, NEW d, Flow(d, c), Bounded(c)
    PROVE  Bounded(d)
BY DEF Flow, Bounded

LEMMA SendMessageFlow ==
    ASSUME NEW c \in Client, NEW t \in MsgType, NEW flags \in Flags
    PROVE  Flow(manager_send_message(c, t, flags), c)
<1>. DEFINE n == numbered(c, t)
            o == Asking(n, t, flags)
            s == dbus_send_message(o, call_of(n, t, flags))
            f == [n EXCEPT !.fault = "stale"]
            b == [n EXCEPT !.broken = TRUE]
            d == manager_send_message(c, t, flags)
<1>1. n \in Client /\ Flow(n, c) BY NumberedStands
<1>2. d = IF ~resset_find(n.rset) THEN f ELSE IF may_send(n) THEN s ELSE b
      BY DEF manager_send_message, Asking
<1>. HIDE DEF n, d
<1>3. o \in Client /\ Flow(o, n)
  <2>1. o \in Client /\ SameBut(o, n) BY <1>1, AskingFields
  <2>. HIDE DEF o
  <2>. QED BY <2>1 DEF SameBut, Flow
<1>4. Flow(f, n) /\ Flow(b, n) BY <1>1 DEF Client, Flow
<1>. HIDE DEF o
<1>5. Flow(s, o) BY <1>3 DEF dbus_send_message, Client, Flow
<1>. HIDE DEF s, f, b
<1>. QED BY <1>1, <1>2, <1>3, <1>4, <1>5 DEF Flow, d

LEMMA ConnectFlow ==
    ASSUME NEW c \in Client
    PROVE  Flow(connect_to_manager(c), c)
<1>. DEFINE n == numbered(c, "register")
            o == Renewing(n, c)
            g == dbus_connect_to_manager(o)
            s == dbus_send_message(g, call_of(n, "register", Options))
            d == connect_to_manager(c)
<1>1. "register" \in MsgType /\ Options \in Flags BY CliAssumption DEF MsgType
<1>2. n \in Client /\ Flow(n, c) BY <1>1, NumberedStands
<1>3. call_of(o, "register", Options) = call_of(n, "register", Options)
  <2>1. SameBut(o, n) BY <1>2, RenewingFields
  <2>. HIDE DEF o
  <2>. QED BY <2>1 DEF SameBut, call_of
<1>4. d = IF resset_find(g.rset) THEN s ELSE g
      BY <1>3 DEF connect_to_manager, resconn_connect, Renewing
<1>. HIDE DEF n, d
<1>5. o \in Client /\ Flow(o, n)
  <2>1. o \in Client /\ SameBut(o, n) BY <1>2, RenewingFields
  <2>. HIDE DEF o
  <2>. QED BY <2>1 DEF SameBut, Flow
<1>. HIDE DEF o
<1>6. g \in Client BY <1>5, FindType
<1>7. Flow(g, o) BY <1>5 DEF dbus_connect_to_manager, Client, Flow
<1>. HIDE DEF g
<1>8. Flow(s, g) BY <1>6 DEF dbus_send_message, Client, Flow
<1>. HIDE DEF s
<1>. QED BY <1>2, <1>4, <1>5, <1>7, <1>8 DEF Flow, d

LEMMA DisconnectFlow ==
    ASSUME NEW c \in Client
    PROVE  Flow(disconnect_from_manager(c), c)
<1>. DEFINE n == numbered(c, "unregister")
            f == [n EXCEPT !.fault = "stale"]
            s == dbus_send_message(n, call_of(n, "unregister", NoFlags))
            e == dbus_disconnect_from_manager(s)
            d == disconnect_from_manager(c)
<1>1. "unregister" \in MsgType /\ NoFlags \in Flags BY NoFlagsType DEF MsgType
<1>2. n \in Client /\ Flow(n, c) BY <1>1, NumberedStands
<1>3. d = IF ~resset_find(n.rset) THEN f ELSE IF may_send(n) THEN e ELSE n
      BY DEF disconnect_from_manager, resconn_disconnect
<1>4. call_of(n, "unregister", NoFlags) \in Call BY <1>1, NumberedType
<1>5. s \in Client BY <1>2, <1>4, SendType
<1>. HIDE DEF n, d
<1>6. Flow(f, n) BY <1>2 DEF Client, Flow
<1>7. Flow(s, n) BY <1>2 DEF dbus_send_message, Client, Flow
<1>. HIDE DEF s, f
<1>8. Flow(e, s) BY <1>5 DEF dbus_disconnect_from_manager, Client, Flow
<1>. HIDE DEF e
<1>. QED BY <1>2, <1>3, <1>6, <1>7, <1>8 DEF Flow, d

LEMMA LinkDownFlow ==
    ASSUME NEW c \in Client
    PROVE  Flow(link_down(c), c)
<1>. DEFINE told == IF may_send(c) THEN [c EXCEPT !.accept = FALSE] ELSE c
<1>1. told \in Client /\ Flow(told, c) BY DEF Client, Flow
<1>2. link_down(c) = IF resset_find(c.rset) THEN dbus_disconnect_from_manager(told)
                     ELSE c
      BY DEF link_down
<1>. HIDE DEF told
<1>3. Flow(dbus_disconnect_from_manager(told), told)
      BY <1>1 DEF dbus_disconnect_from_manager, Client, Flow
<1>4. Flow(c, c) BY DEF Flow
<1>. QED BY <1>1, <1>2, <1>3, <1>4 DEF Flow

LEMMA StatusMethodFlow ==
    ASSUME NEW c \in Client, NEW reply \in Reply, NEW err \in BOOLEAN
    PROVE  Flow(status_method(c, reply, err), c)
<1>. DEFINE a == answered(c, reply.msgtyp, err)
            k == with_type(a, reply.reqno, "invalid")
            b == manager_status(a, reply, err)
<1>1. a \in Client BY AnsweredType
<1>2. Flow(a, c) BY DEF answered, Client, Flow
<1>. HIDE DEF a
<1>3. k \in Client BY <1>1, WithType DEF ReqTyp
<1>4. Flow(k, a) BY <1>1 DEF with_type, Client, Flow
<1>5. b \in Client BY <1>1, StatusType
<1>6. \/ b = a
      \/ b = [a EXCEPT !.accept = FALSE, !.quit = TRUE]
      \/ b = [k EXCEPT !.accept = TRUE, !.denied = FALSE, !.dismissed = FALSE]
      \/ b = [k EXCEPT !.broken = @ \/ reply.msgtyp \in {"acquire", "release"},
                       !.denied = @ \/ reply.msgtyp = "register"]
      BY DEF manager_status
<1>. HIDE DEF k, b
<1>7. Flow(b, a) BY <1>1, <1>3, <1>4, <1>6 DEF Client, Flow
<1>8. Flow(reply_done(b, reply), b) BY <1>5 DEF reply_done, Client, Flow
<1>. QED BY <1>2, <1>7, <1>8 DEF status_method, Flow, a, b

LEMMA ReceiveBounded ==
    ASSUME NEW c \in Client, resset_find(c.rset), NEW m, m.kind \in NoticeKind,
           Bounded(c)
    PROVE  Bounded(manager_receive_message(c, m))
<1>. DEFINE d == manager_receive_message(c, m)
<1>1. Heeds(d, c, m) BY ReceiveHeeds
<1>. SUFFICES Bounded(d) OBVIOUS
<1>. HIDE DEF d
<1>2. CASE Flow(d, c) BY <1>2, SameBounded
<1>3. CASE d.flood = 0 /\ d.count = 0 BY <1>3 DEF Bounded
<1>4. CASE c.flood # 0 /\ c.count + 1 < c.flood
           /\ d.flood = c.flood /\ d.count = c.count + 1
  <2>1. c.flood \in Floods /\ d.count < c.flood BY <1>4 DEF Bounded
  <2>. QED BY <1>4, <2>1 DEF Bounded
<1>5. Flow(d, c) \/ (d.flood = 0 /\ d.count = 0)
      \/ (c.flood # 0 /\ c.count + 1 < c.flood
          /\ d.flood = c.flood /\ d.count = c.count + 1)
      BY <1>1 DEF Heeds, Dismisses
<1>. QED BY <1>2, <1>3, <1>4, <1>5

LEMMA CommandBounded ==
    ASSUME NEW after \in Client, Command(after), Bounded(after)
    PROVE  Bounded(cl')
<1>1. cl'.flood = after.flood /\ cl'.count = after.count BY DEF Command, Client
<1>. QED BY <1>1, SameBounded DEF Flow

LEMMA UserBounded ==
    ASSUME TypeOK, User, Bounded(cl)
    PROVE  Bounded(cl')
<1>1. /\ cl \in Client /\ NoFlags \in Flags /\ Floods \subseteq Nat
      /\ Sendable \subseteq MsgType /\ "update" \in MsgType /\ "acquire" \in MsgType
      /\ Updates \subseteq Flags
      BY NoFlagsType, CliAssumption DEF TypeOK, MsgType
<1>2. ASSUME NEW after \in Client, Command(after), Flow(after, cl)
      PROVE  Bounded(cl')
      BY <1>2, SameBounded, CommandBounded
<1>3. ASSUME NEW t \in MsgType, NEW flags \in Flags,
             Command(manager_send_message(cl, t, flags))
      PROVE  Bounded(cl')
  <2>1. manager_send_message(cl, t, flags) \in Client BY <1>1, SendMessageType
  <2>2. Flow(manager_send_message(cl, t, flags), cl) BY <1>1, SendMessageFlow
  <2>. QED BY <1>2, <1>3, <2>1, <2>2
<1>4. ASSUME Command([cl EXCEPT !.flood = 0, !.count = 0]) PROVE Bounded(cl')
  <2>. DEFINE k == [cl EXCEPT !.flood = 0, !.count = 0]
  <2>1. k \in Client /\ k.flood = 0 /\ k.count = 0 BY <1>1 DEF Client
  <2>2. Command(k) BY <1>4
  <2>. HIDE DEF k
  <2>3. Bounded(k) BY <2>1 DEF Bounded
  <2>. QED BY <2>1, <2>2, <2>3, CommandBounded
<1>5. CASE Send BY <1>1, <1>3, <1>5 DEF Send
<1>6. CASE Update BY <1>1, <1>3, <1>6 DEF Update
<1>7. CASE Disconnect
      BY <1>1, <1>2, <1>7, DisconnectType, DisconnectFlow DEF Disconnect
<1>8. CASE Flood
  <2>1. PICK n \in Floods :
           Command(IF n = 0 THEN [cl EXCEPT !.flood = 0, !.count = 0]
                   ELSE manager_send_message([cl EXCEPT !.flood = n], "acquire",
                                             NoFlags))
        BY <1>8 DEF Flood
  <2>2. CASE n = 0 BY <1>4, <2>1, <2>2
  <2>3. CASE n # 0
    <3>. DEFINE k == [cl EXCEPT !.flood = n]
                d == manager_send_message(k, "acquire", NoFlags)
    <3>1. k \in Client /\ k.flood = n /\ k.count = cl.count BY <1>1 DEF Client
    <3>2. Command(d) BY <2>1, <2>3
    <3>. HIDE DEF k
    <3>3. d \in Client BY <1>1, <3>1, SendMessageType
    <3>4. Flow(d, k) BY <1>1, <3>1, SendMessageFlow
    <3>5. Bounded(k) BY <3>1 DEF Bounded
    <3>. HIDE DEF d
    <3>. QED BY <3>2, <3>3, <3>4, <3>5, SameBounded, CommandBounded
  <2>. QED BY <2>2, <2>3
<1>9. CASE Stop BY <1>4, <1>9 DEF Stop
<1>10. CASE Quit
  <2>. DEFINE k == [cl EXCEPT !.quit = TRUE, !.accept = FALSE]
  <2>1. k \in Client /\ Flow(k, cl) BY <1>1 DEF Client, Flow
  <2>2. Command(k) BY <1>10 DEF Quit
  <2>. HIDE DEF k
  <2>. QED BY <1>2, <2>1, <2>2
<1>. QED BY <1>5, <1>6, <1>7, <1>8, <1>9, <1>10 DEF User

LEMMA MainLoopBounded ==
    ASSUME TypeOK, MainLoop, Bounded(cl)
    PROVE  Bounded(cl')
<1>. DEFINE m == Head(inq)
            c == quietly(cl)
<1>1. cl \in Client BY DEF TypeOK
<1>2. m \in Message
      BY InqType DEF MainLoop, DispatchAnswer, DispatchNotice, DispatchUp,
                     DispatchDown, Dispatch
<1>3. c \in Client /\ c.rset = cl.rset /\ Flow(c, cl)
      BY <1>1, QuietType DEF quietly, Client, Flow
<1>4. Bounded(c) BY <1>3, SameBounded
<1>. HIDE DEF m, c
<1>5. CASE DispatchAnswer
  <2>1. m \in AnswerMsg BY <1>2, <1>5, MessageKinds DEF DispatchAnswer, Dispatch, m
  <2>2. m.reply \in Reply /\ m.err \in BOOLEAN BY <2>1 DEF AnswerMsg
  <2>3. cl' = c \/ cl' = status_method(c, m.reply, m.err)
        BY <1>5 DEF DispatchAnswer, m, c
  <2>. QED BY <1>3, <1>4, <2>2, <2>3, StatusMethodFlow, SameBounded
<1>6. CASE DispatchNotice
  <2>1. m.kind \in NoticeKind BY <1>6 DEF DispatchNotice, Dispatch, NoticeKind, m
  <2>2. cl' = IF cl.path /\ resset_find(cl.rset)
              THEN manager_receive_message(c, m) ELSE c
        BY <1>6 DEF DispatchNotice, m, c
  <2>. QED BY <1>3, <1>4, <2>1, <2>2, ReceiveBounded
<1>7. CASE DispatchUp
  <2>1. cl' = connect_to_manager(c) BY <1>7 DEF DispatchUp, c
  <2>. QED BY <1>3, <1>4, <2>1, ConnectFlow, SameBounded
<1>8. CASE DispatchDown
  <2>1. cl' = link_down(c) BY <1>8 DEF DispatchDown, c
  <2>. QED BY <1>3, <1>4, <2>1, LinkDownFlow, SameBounded
<1>. QED BY <1>5, <1>6, <1>7, <1>8 DEF MainLoop

LEMMA NextBounded ==
    ASSUME TypeOK, [Next]_vars, Bounded(cl)
    PROVE  Bounded(cl')
<1>1. cl \in Client BY DEF TypeOK
<1>2. CASE UNCHANGED vars BY <1>2 DEF vars
<1>3. CASE User BY <1>3, UserBounded
<1>4. CASE MainLoop BY <1>4, MainLoopBounded
<1>5. CASE Timeout
  <2>1. PICK reply \in cl.replies :
           cl' = [status_method(quietly(cl), reply, TRUE) EXCEPT
                     !.overdue = @ \cup {reply.reqno}]
        BY <1>5 DEF Timeout
  <2>. DEFINE c == quietly(cl)
              d == status_method(c, reply, TRUE)
  <2>2. c \in Client /\ Flow(c, cl) BY <1>1, QuietType DEF quietly, Client, Flow
  <2>3. reply \in Reply BY <1>1 DEF Client, Reply
  <2>4. cl' = [d EXCEPT !.overdue = @ \cup {reply.reqno}] BY <2>1
  <2>. HIDE DEF c
  <2>5. d \in Client /\ Flow(d, c) BY <2>2, <2>3, StatusMethodType, StatusMethodFlow
  <2>. HIDE DEF d
  <2>6. Flow(cl', d) BY <2>4, <2>5 DEF Client, Flow
  <2>. QED BY <2>2, <2>5, <2>6, SameBounded
<1>6. CASE Bus BY <1>1, <1>6, BusNumbers, MovesUnmoved, SameBounded DEF Unmoved
<1>7. CASE Manager
      BY <1>1, <1>7, ManagerSteps, MovesUnmoved, SameBounded DEF Unmoved
<1>. QED BY <1>2, <1>3, <1>4, <1>5, <1>6, <1>7 DEF Next

LEMMA InitBounded == Init => Bounded(cl)
<1>. SUFFICES ASSUME Init PROVE Bounded(cl) OBVIOUS
<1>1. Started.flood = 0 /\ Started.count = 0 BY DEF Started
<1>2. Flow(cl, Started) BY InitConnects DEF Connects
<1>. QED BY <1>1, <1>2 DEF Flow, Bounded

(* A flood goes on to its end and counts no more grants than were asked    *)
(* for, for any bound, as long as the manager follows every ACQUIRE that   *)
(* it answers with a grant, full or empty.                                 *)
THEOREM FloodGoesOnAlways ==
    ASSUME "none" \notin Outcomes
    PROVE  Spec => []FloodGoesOn
<1>. DEFINE I == Inv /\ LabelInv /\ FloodInv /\ Bounded(cl)
<1>1. Init => I
      BY InvInit, InitTable, InitFlood, InitBounded DEF LabelInv, Inv
<1>2. I /\ [Next]_vars => I'
  <2>1. ASSUME Inv, LabelInv, [Next]_vars PROVE Inv' /\ LabelInv'
        BY <2>1, InvNext, NextTable DEF LabelInv, Inv
  <2>2. ASSUME I, [Next]_vars PROVE I'
    <3>1. Inv' /\ LabelInv' BY <2>1, <2>2
    <3>2. Apart(cl, inq) BY <2>2 DEF LabelInv, Table
    <3>3. FloodInv' BY <2>2, <3>1, <3>2, NextFlood
    <3>4. Bounded(cl)' BY <2>2, NextBounded DEF Inv
    <3>. QED BY <3>1, <3>3, <3>4
  <2>. HIDE DEF I
  <2>. QED BY <2>2
<1>3. I => FloodGoesOn
  <2>. SUFFICES ASSUME I PROVE FloodGoesOn OBVIOUS
  <2>1. cl.count = 0 \/ \E n \in Floods : cl.count < n BY DEF Bounded
  <2>2. ASSUME Running, cl.flood # 0, Quiet, cl.rset.state = "connected",
               ~cl.broken, ~cl.revived, cl.overdue = {}, ~Wrapped
        PROVE  FALSE
    <3>1. cl \in Client /\ HashDim \in Nat BY CliAssumption DEF Inv, TypeOK
    <3>2. cl.reqno < HashDim BY <2>2, <3>1 DEF Wrapped, Client
    <3>3. Timely(cl) BY <2>2, <3>2 DEF Timely, Good, Running
    <3>4. Moving(cl, inq) BY <3>3 DEF FloodInv, OnTheWay
    <3>5. cl.replies = {} /\ inq = <<>> BY <2>2 DEF Quiet
    <3>6. Len(inq) = 0 BY <3>5
    <3>7. ~Promised(inq) BY <3>6 DEF Promised
    <3>. QED BY <2>2, <3>4, <3>5, <3>7 DEF Moving, Leaving
  <2>. QED BY <2>1, <2>2 DEF FloodGoesOn
<1>. HIDE DEF I
<1>. QED BY <1>1, <1>2, <1>3, PTL DEF Spec
=============================================================================
