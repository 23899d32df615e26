------------------------ MODULE ResourceClientProofs ------------------------
(***************************************************************************)
(* Type correctness of module ResourceClient: TypeOK is inductive as it    *)
(* stands, for each function of module ResourceSet maps a well-formed      *)
(* record of a set to a well-formed record, whatever the record.  Then     *)
(* the request queue of resource.c, of which one request is outstanding.   *)
(***************************************************************************)
EXTENDS ResourceClient, TLAPS, WellFoundedInduction, SequenceTheorems

(* The smallest element of a non-empty set of naturals: what SelectInSeq   *)
(* relies on.                                                              *)
Less == {p \in Nat \X Nat : p[1] < p[2]}

LEMMA LessWellFounded == IsWellFoundedOn(Less, Nat)
BY NatLessThanWellFounded DEF OpToRel, Less

LEMMA MinExists ==
    ASSUME NEW S \in SUBSET Nat, S # {}
    PROVE  Min(S) \in S /\ \A x \in S : Min(S) <= x
<1>1. PICK m \in S : \A x \in S : ~(<<x, m>> \in Less)
      BY WFMin, LessWellFounded
<1>2. \A x, y \in Nat : x < y => <<x, y>> \in Less
      BY DEF Less
<1>3. ASSUME NEW x \in S PROVE m <= x
  <2>1. x \in Nat /\ m \in Nat OBVIOUS
  <2>2. ~(<<x, m>> \in Less) BY <1>1
  <2>3. ~(x < m) BY <2>1, <2>2, <1>2
  <2>. QED BY <2>1, <2>3
<1>. QED BY <1>3 DEF Min

LEMMA UnrefType == ASSUME NEW r \in Rset PROVE resset_unref(r) \in Rset
BY DEF resset_unref, Rset, RsetState, Freed

LEMMA DestroyType == ASSUME NEW r \in Rset PROVE resset_destroy(r) \in Rset
<1>1. [r EXCEPT !.state = "killed"] \in Rset BY DEF Rset, RsetState
<1>. QED BY <1>1, UnrefType DEF resset_destroy

LEMMA RefType == ASSUME NEW r \in Rset PROVE resset_ref(r) \in Rset
BY DEF resset_ref, Rset, RsetState

LEMMA SendType ==
    ASSUME NEW c \in ResourceSetRec, NEW call \in Call
    PROVE  dbus_send_message(c, call) \in ResourceSetRec
<1>1. c.rset \in Rset /\ resset_ref(resset_ref(c.rset)) \in Rset
      BY RefType DEF ResourceSetRec
<1>2. Append(c.wire, call) \in Seq(Call) BY DEF ResourceSetRec
<1>3. c.replies \cup {[msgtyp |-> call.msgtyp, reqno  |-> call.reqno]} \in SUBSET Reply
      BY DEF ResourceSetRec, Reply, Call
<1>. QED BY <1>1, <1>2, <1>3 DEF dbus_send_message, ResourceSetRec

LEMMA ConnectType ==
    ASSUME NEW c \in ResourceSetRec
    PROVE  dbus_connect_to_manager(c) \in ResourceSetRec
<1>1. resset_create("created") \in Rset
      BY DEF resset_create, Rset, RsetState
<1>2. [c EXCEPT !.path = TRUE, !.rset = resset_create("created")]
         \in ResourceSetRec
      BY <1>1 DEF ResourceSetRec
<1>. QED BY <1>2 DEF dbus_connect_to_manager

LEMMA DisconnectType ==
    ASSUME NEW c \in ResourceSetRec
    PROVE  dbus_disconnect_from_manager(c) \in ResourceSetRec
<1>1. c.rset \in Rset /\ resset_destroy(c.rset) \in Rset
      BY DestroyType DEF ResourceSetRec
<1>. QED BY <1>1 DEF dbus_disconnect_from_manager, ResourceSetRec

LEMMA ConfigValueType ==
    ASSUME NEW c \in ResourceSetRec, NEW kind, configured(c, kind)
    PROVE  config_value(c, kind) \in ConfigValue
<1>1. c.configs \in Seq(Config) BY DEF ResourceSetRec
<1>2. PICK i \in DOMAIN c.configs : c.configs[i].kind = kind
      BY DEF configured
<1>3. ASSUME NEW j \in DOMAIN c.configs
      PROVE  c.configs[j].value \in ConfigValue
  <2>1. c.configs[j] \in Config BY <1>1
  <2>. QED BY <2>1 DEF Config
<1>. QED BY <1>2, <1>3 DEF config_value

LEMMA MessageType ==
    ASSUME NEW c \in ResourceSetRec, NEW rq \in Request,
           rq.msgtyp \in Kind => configured(c, rq.msgtyp)
    PROVE  /\ message(c, rq) \in Call
           /\ message(c, rq).msgtyp = rq.msgtyp
           /\ message(c, rq).reqno = rq.reqno
<1>1. rq.msgtyp \in MsgType /\ rq.reqno \in Nat BY DEF Request
<1>2. c.resources \in ResourceFlags /\ NoFlags \in ResourceFlags
      BY DEF ResourceSetRec, ResourceFlags, NoFlags
<1>3. rq.msgtyp \in Kind => config_value(c, rq.msgtyp) \in ConfigValue
      BY ConfigValueType
<1>. QED BY <1>1, <1>2, <1>3 DEF message, Call

LEMMA SendMessageType ==
    ASSUME NEW c \in ResourceSetRec, NEW rq \in Request,
           rq.msgtyp \in Kind => configured(c, rq.msgtyp)
    PROVE  send_message(c, rq) \in ResourceSetRec
<1>1. message(c, rq) \in Call BY MessageType
<1>2. dbus_send_message(c, message(c, rq)) \in ResourceSetRec
      BY <1>1, SendType
<1>3. resconn_disconnect(c, message(c, rq)) \in ResourceSetRec
      BY <1>2, DisconnectType DEF resconn_disconnect
<1>4. resconn_connect(c, message(c, rq)) \in ResourceSetRec
      BY <1>1, ConnectType, SendType DEF resconn_connect
<1>5. send_register_message(c, rq) \in ResourceSetRec
  <2>. DEFINE d == resconn_connect(c, message(c, rq))
  <2>1. (d.resset \/ resset_find(d.rset)) \in BOOLEAN
        BY <1>4 DEF ResourceSetRec, resset_find
  <2>2. d \in ResourceSetRec BY <1>4
  <2>3. [d EXCEPT !.resset = @ \/ resset_find(d.rset)] \in ResourceSetRec
    <3>. HIDE DEF d
    <3>. QED BY <2>1, <2>2 DEF ResourceSetRec
  <2>. QED BY <2>3 DEF send_register_message
<1>. QED BY <1>2, <1>3, <1>5 DEF send_message

LEMMA TransmitType ==
    ASSUME NEW c \in ResourceSetRec, c.reqlist # <<>>,
           \/ Head(c.reqlist).msgtyp = "register"
           \/ sendable(c, Head(c.reqlist).msgtyp)
    PROVE  transmit(c) \in ResourceSetRec
<1>. DEFINE rq == Head(c.reqlist)
            sent == send_message(c, rq)
<1>1. rq \in Request /\ Tail(c.reqlist) \in Seq(Request)
      BY DEF ResourceSetRec
<1>2. rq.msgtyp \in Kind => configured(c, rq.msgtyp)
      BY DEF sendable, Kind
<1>3. sent \in ResourceSetRec BY <1>1, <1>2, SendMessageType
<1>4. <<[rq EXCEPT !.busy = TRUE]>> \o Tail(c.reqlist) \in Seq(Request)
  <2>1. [rq EXCEPT !.busy = TRUE] \in Request BY <1>1 DEF Request
  <2>. QED BY <1>1, <2>1
<1>5. [sent EXCEPT !.reqlist = <<[rq EXCEPT !.busy = TRUE]>> \o Tail(c.reqlist)]
         \in ResourceSetRec
  <2>. HIDE DEF sent, rq
  <2>. QED BY <1>3, <1>4 DEF ResourceSetRec
<1>6. [c EXCEPT !.client  = "created",
                !.denied  = TRUE,
                !.reqlist = Tail(@),
                !.fault   = IF Tail(c.reqlist) = <<>> THEN @ ELSE "spin"]
         \in ResourceSetRec
      BY <1>1 DEF ResourceSetRec
<1>. QED BY <1>5, <1>6 DEF transmit

LEMMA FirstSent ==
    ASSUME NEW c \in ResourceSetRec, first_sent(c) # 0
    PROVE  /\ first_sent(c) \in 1..Len(c.reqlist)
           /\ \/ c.reqlist[first_sent(c)].msgtyp = "register"
              \/ sendable(c, c.reqlist[first_sent(c)].msgtyp)
<1>. DEFINE Test(i) == \/ c.reqlist[i].msgtyp = "register"
                       \/ sendable(c, c.reqlist[i].msgtyp)
            I == {i \in 1..Len(c.reqlist) : Test(i)}
<1>1. c.reqlist \in Seq(Request) BY DEF ResourceSetRec
<1>2. first_sent(c) = IF I # {} THEN Min(I) ELSE 0
      BY DEF first_sent, SelectInSeq
<1>3. I \in SUBSET Nat BY <1>1
<1>4. I # {} => Min(I) \in I BY <1>3, MinExists
<1>5. first_sent(c) \in I
  <2>. HIDE DEF I
  <2>. QED BY <1>2, <1>4
<1>. QED BY <1>5

LEMMA SendFirstType ==
    ASSUME NEW c \in ResourceSetRec
    PROVE  send_first(c) \in ResourceSetRec
<1>1. [c EXCEPT !.reqlist = <<>>] \in ResourceSetRec
  <2>1. <<>> \in Seq(Request) OBVIOUS
  <2>. QED BY <2>1 DEF ResourceSetRec
<1>2. ASSUME first_sent(c) # 0
      PROVE  transmit([c EXCEPT !.reqlist = SubSeq(@, first_sent(c), Len(@))])
                \in ResourceSetRec
  <2>. DEFINE n == first_sent(c)
              rest == SubSeq(c.reqlist, n, Len(c.reqlist))
              d == [c EXCEPT !.reqlist = rest]
  <2>1. c.reqlist \in Seq(Request) BY DEF ResourceSetRec
  <2>2. n \in 1..Len(c.reqlist) BY <1>2, FirstSent
  <2>3. rest \in Seq(Request) /\ rest # <<>> /\ Head(rest) = c.reqlist[n]
    <3>. HIDE DEF n
    <3>1. Len(c.reqlist) \in n..Len(c.reqlist) BY <2>1, <2>2
    <3>2. Head(rest) = c.reqlist[n] BY <2>1, <2>2, <3>1, HeadTailOfSubSeq
    <3>3. \A i \in n..Len(c.reqlist) : c.reqlist[i] \in Request
          BY <2>1, <2>2
    <3>4. rest \in Seq(Request) /\ Len(rest) > 0
          BY <2>1, <2>2, <3>3, SubSeqProperties
    <3>5. rest # <<>>
      <4>. HIDE DEF rest
      <4>. QED BY <3>4
    <3>. QED BY <3>2, <3>4, <3>5
  <2>4. d \in ResourceSetRec /\ d.reqlist = rest
    <3>. HIDE DEF rest
    <3>. QED BY <2>3 DEF ResourceSetRec
  <2>5. \A t : sendable(c, t) => sendable(d, t)
    <3>. HIDE DEF rest
    <3>. QED BY DEF sendable, may_send, configured, ResourceSetRec
  <2>6. \/ Head(d.reqlist).msgtyp = "register"
        \/ sendable(d, Head(d.reqlist).msgtyp)
      BY <1>2, <2>3, <2>4, <2>5, FirstSent
  <2>7. transmit(d) \in ResourceSetRec
    <3>. HIDE DEF d
    <3>. QED BY <2>3, <2>4, <2>6, TransmitType
  <2>. QED BY <2>7
<1>. QED BY <1>1, <1>2 DEF send_first

LEMMA SendRequestType ==
    ASSUME NEW c \in ResourceSetRec
    PROVE  send_request(c) \in ResourceSetRec
<1>1. [c EXCEPT !.fault = "spin"] \in ResourceSetRec BY DEF ResourceSetRec
<1>2. [c EXCEPT !.fault = "stale"] \in ResourceSetRec BY DEF ResourceSetRec
<1>3. send_first(c) \in ResourceSetRec BY SendFirstType
<1>. QED BY <1>1, <1>2, <1>3 DEF send_request

LEMMA EnqueueType ==
    ASSUME NEW c \in ResourceSetRec, NEW msgtyps \in Seq(MsgType)
    PROVE  enqueue(c, msgtyps) \in ResourceSetRec
<1>. DEFINE new == [i \in 1..Len(msgtyps) |-> [msgtyp |-> msgtyps[i],
                                               reqno  |-> c.reqno + i,
                                               busy   |-> FALSE]]
<1>1. Len(msgtyps) \in Nat /\ c.reqno \in Nat /\ c.reqlist \in Seq(Request)
      BY DEF ResourceSetRec
<1>2. new \in Seq(Request)
  <2>1. ASSUME NEW i \in 1..Len(msgtyps)
        PROVE  [msgtyp |-> msgtyps[i], reqno |-> c.reqno + i, busy |-> FALSE]
                  \in Request
        BY <1>1 DEF Request
  <2>. QED BY <1>1, <2>1
<1>3. c.reqlist \o new \in Seq(Request) BY <1>1, <1>2
<1>4. c.reqno + Len(msgtyps) \in Nat BY <1>1
<1>5. [c EXCEPT !.reqno = @ + Len(msgtyps), !.reqlist = @ \o new]
         \in ResourceSetRec
  <2>. HIDE DEF new
  <2>. QED BY <1>3, <1>4 DEF ResourceSetRec
<1>. QED BY <1>5 DEF enqueue

LEMMA PushRequestType ==
    ASSUME NEW c \in ResourceSetRec, NEW msgtyp \in MsgType
    PROVE  push_request(c, msgtyp) \in ResourceSetRec
<1>1. <<msgtyp>> \in Seq(MsgType) OBVIOUS
<1>. QED BY <1>1, EnqueueType, SendRequestType DEF push_request

LEMMA ConnectMessagesType ==
    ASSUME NEW c
    PROVE  connect_messages(c) \in Seq(MsgType)
<1>1. \A kind : config_messages(kind) \in Seq(MsgType)
  <2>1. {"audio", "video"} \subseteq MsgType BY DEF MsgType
  <2>. QED BY <2>1 DEF config_messages
<1>2. <<"acquire">> \in Seq(MsgType) BY DEF MsgType
<1>3. <<>> \in Seq(MsgType) OBVIOUS
<1>. QED BY <1>1, <1>2, <1>3, ConcatProperties DEF connect_messages

LEMMA ConnectToManagerType ==
    ASSUME NEW c \in ResourceSetRec
    PROVE  connect_to_manager(c) \in ResourceSetRec
<1>1. [c EXCEPT !.client = "connecting", !.denied = FALSE] \in ResourceSetRec
      BY DEF ResourceSetRec
<1>2. "register" \in MsgType BY DEF MsgType
<1>. QED BY <1>1, <1>2, PushRequestType, ConnectMessagesType, EnqueueType
         DEF connect_to_manager

LEMMA ManagerIsUpType ==
    ASSUME NEW c \in ResourceSetRec
    PROVE  manager_is_up(c) \in ResourceSetRec
BY ConnectToManagerType DEF manager_is_up

LEMMA CreateType ==
    ASSUME NEW conn \in BOOLEAN, NEW mandatory \in SUBSET Resource,
           NEW optional \in SUBSET Resource
    PROVE  resource_set_create(conn, mandatory, optional) \in ResourceSetRec
<1>1. NoSet \in ResourceSetRec
      BY DEF NoSet, ResourceSetRec, NoFlags, ResourceFlags, Freed, Rset, RsetState
<1>2. [all |-> mandatory \cup optional, opt |-> optional \ mandatory]
         \in ResourceFlags
      BY DEF ResourceFlags
<1>3. [NoSet EXCEPT !.life = "live", !.held = TRUE, !.conn = conn,
                    !.resources = [all |-> mandatory \cup optional,
                                   opt |-> optional \ mandatory]]
         \in ResourceSetRec
      BY <1>1, <1>2 DEF ResourceSetRec
<1>. QED BY <1>3, ConnectToManagerType DEF resource_set_create

LEMMA OperationsType ==
    ASSUME NEW c \in ResourceSetRec
    PROVE  /\ resource_set_destroy(c) \in ResourceSetRec
           /\ resource_set_acquire(c) \in ResourceSetRec
           /\ resource_set_release(c) \in ResourceSetRec
<1>1. /\ [c EXCEPT !.held = FALSE] \in ResourceSetRec
      /\ [c EXCEPT !.acquire = TRUE] \in ResourceSetRec
      /\ [c EXCEPT !.acquire = FALSE] \in ResourceSetRec
      BY DEF ResourceSetRec
<1>2. {"unregister", "acquire", "release"} \subseteq MsgType BY DEF MsgType
<1>. QED BY <1>1, <1>2, PushRequestType
         DEF resource_set_destroy, resource_set_acquire, resource_set_release

LEMMA ConfigureResourcesType ==
    ASSUME NEW c \in ResourceSetRec, NEW mandatory \in SUBSET Resource,
           NEW optional \in SUBSET Resource
    PROVE  resource_set_configure_resources(c, mandatory, optional)
              \in ResourceSetRec
<1>. DEFINE flags == [all |-> mandatory \cup optional,
                      opt |-> optional \ mandatory]
<1>1. flags \in ResourceFlags BY DEF ResourceFlags
<1>2. [c EXCEPT !.resources = flags] \in ResourceSetRec
  <2>. HIDE DEF flags
  <2>. QED BY <1>1 DEF ResourceSetRec
<1>3. "update" \in MsgType BY DEF MsgType
<1>. QED BY <1>2, <1>3, PushRequestType DEF resource_set_configure_resources

LEMMA MergedType ==
    ASSUME NEW kind, NEW old \in ConfigValue, NEW given \in ConfigValue
    PROVE  merged(kind, old, given) \in ConfigValue
BY DEF merged, audio_config_update, video_config_update, ConfigValue, Setting

LEMMA ConfigsAfterType ==
    ASSUME NEW c \in ResourceSetRec, NEW kind \in Kind, NEW given \in ConfigValue
    PROVE  configs_after(c, kind, given) \in Seq(Config)
<1>. DEFINE new(i) == [kind |-> kind, value |-> merged(kind, c.configs[i].value, given)]
            entry(i) == IF c.configs[i].kind = kind THEN new(i) ELSE c.configs[i]
            updated == [i \in DOMAIN c.configs |-> entry(i)]
            first == [kind |-> kind, value |-> given]
            created == IF creates(kind, given) THEN <<first>> \o c.configs
                                               ELSE c.configs
<1>1. c.configs \in Seq(Config) BY DEF ResourceSetRec
<1>2. first \in Config BY DEF Config
<1>3. ASSUME NEW i \in DOMAIN c.configs PROVE entry(i) \in Config
  <2>1. c.configs[i] \in Config BY <1>1
  <2>2. c.configs[i].value \in ConfigValue BY <2>1 DEF Config
  <2>3. new(i) \in Config BY <2>2, MergedType DEF Config
  <2>. HIDE DEF new
  <2>. QED BY <2>1, <2>3
<1>4. updated \in Seq(Config)
  <2>. HIDE DEF entry
  <2>. QED BY <1>1, <1>3
<1>5. created \in Seq(Config)
  <2>. HIDE DEF first
  <2>. QED BY <1>1, <1>2
<1>. QED BY <1>4, <1>5 DEF configs_after

LEMMA ConfigureType ==
    ASSUME NEW c \in ResourceSetRec, NEW kind \in Kind, NEW given \in ConfigValue
    PROVE  configure(c, kind, given) \in ResourceSetRec
<1>. DEFINE configs == configs_after(c, kind, given)
<1>1. configs \in Seq(Config) BY ConfigsAfterType
<1>2. [c EXCEPT !.configs = configs] \in ResourceSetRec
  <2>. HIDE DEF configs
  <2>. QED BY <1>1 DEF ResourceSetRec
<1>3. kind \in MsgType BY DEF MsgType, Kind
<1>. QED BY <1>2, <1>3, PushRequestType DEF configure

LEMMA AnsweredType ==
    ASSUME NEW c \in ResourceSetRec, NEW msgtyp, NEW err \in BOOLEAN
    PROVE  answered(c, msgtyp, err) \in ResourceSetRec
<1>1. c.rset \in Rset BY DEF ResourceSetRec
<1>2. ASSUME NEW st \in RsetState
      PROVE  [c.rset EXCEPT !.state = st] \in Rset
      BY <1>1 DEF Rset
<1>3. resset_ref(c.rset) \in Rset BY <1>1, RefType
<1>4. [resset_ref(c.rset) EXCEPT !.state = "connected"] \in Rset
      BY <1>3 DEF Rset, RsetState
<1>5. ASSUME NEW r \in Rset, NEW rev \in BOOLEAN
      PROVE  [c EXCEPT !.rset = r, !.revived = rev] \in ResourceSetRec
      BY DEF ResourceSetRec
<1>6. c.revived \in BOOLEAN BY DEF ResourceSetRec
<1>7. [c EXCEPT !.rset.state = IF err THEN "killed" ELSE "connected",
                !.revived    = @ \/ (~err /\ c.rset.state = "killed" /\ ~c.path)]
         \in ResourceSetRec
  <2>1. (IF err THEN "killed" ELSE "connected") \in RsetState BY DEF RsetState
  <2>2. [c.rset EXCEPT !.state = IF err THEN "killed" ELSE "connected"] \in Rset
        BY <2>1, <1>2
  <2>3. (c.revived \/ (~err /\ c.rset.state = "killed" /\ ~c.path)) \in BOOLEAN
        BY <1>6
  <2>. QED BY <2>2, <2>3, <1>5
<1>8. [c EXCEPT !.rset    = [resset_ref(@) EXCEPT !.state = "connected"],
                !.revived = @ \/ c.rset.state = "killed"]
         \in ResourceSetRec
  <2>1. (c.revived \/ c.rset.state = "killed") \in BOOLEAN BY <1>6
  <2>. QED BY <2>1, <1>4, <1>5
<1>. QED BY <1>7, <1>8 DEF answered

LEMMA ReplyDoneType ==
    ASSUME NEW c \in ResourceSetRec, NEW reply
    PROVE  reply_done(c, reply) \in ResourceSetRec
<1>1. c.rset \in Rset /\ c.replies \ {reply} \in SUBSET Reply
      BY DEF ResourceSetRec
<1>2. resset_unref(resset_unref(c.rset)) \in Rset BY <1>1, UnrefType
<1>. QED BY <1>1, <1>2 DEF reply_done, ResourceSetRec

LEMMA PopRequestType ==
    ASSUME NEW c \in ResourceSetRec, NEW reqno, queued(c, reqno)
    PROVE  pop_request(c, reqno) \in ResourceSetRec
<1>. DEFINE i == CHOOSE i \in DOMAIN c.reqlist : c.reqlist[i].reqno = reqno
<1>1. c.reqlist \in Seq(Request) BY DEF ResourceSetRec
<1>2. i \in 1..Len(c.reqlist) BY <1>1 DEF queued
<1>3. RemoveAt(c.reqlist, i) \in Seq(Request)
  <2>. HIDE DEF i
  <2>1. SubSeq(c.reqlist, 1, i - 1) \in Seq(Request)
        BY <1>1, <1>2, SubSeqProperties
  <2>2. SubSeq(c.reqlist, i + 1, Len(c.reqlist)) \in Seq(Request)
        BY <1>1, <1>2, SubSeqProperties
  <2>. QED BY <2>1, <2>2, ConcatProperties DEF RemoveAt
<1>4. [c EXCEPT !.reqlist = RemoveAt(@, i)] \in ResourceSetRec
  <2>. HIDE DEF i
  <2>. QED BY <1>3 DEF ResourceSetRec
<1>. QED BY <1>4 DEF pop_request

LEMMA StatusCbType ==
    ASSUME NEW c \in ResourceSetRec, NEW reply, NEW err \in BOOLEAN
    PROVE  status_cb(c, reply, err) \in ResourceSetRec
<1>. DEFINE popped == pop_request(c, reply.reqno)
<1>1. [c EXCEPT !.fault = "stale"] \in ResourceSetRec BY DEF ResourceSetRec
<1>2. ASSUME queued(c, reply.reqno)
      PROVE  /\ send_request(connect_complete_cb(popped, err)) \in ResourceSetRec
             /\ disconnect_complete_cb(popped) \in ResourceSetRec
             /\ send_request(popped) \in ResourceSetRec
  <2>1. popped \in ResourceSetRec BY <1>2, PopRequestType
  <2>. HIDE DEF popped
  <2>2. connect_complete_cb(popped, err) \in ResourceSetRec
        BY <2>1 DEF connect_complete_cb, ResourceSetRec
  <2>3. disconnect_complete_cb(popped) \in ResourceSetRec
    <3>1. <<>> \in Seq(Request) OBVIOUS
    <3>. QED BY <2>1, <3>1 DEF disconnect_complete_cb, ResourceSetRec
  <2>. QED BY <2>1, <2>2, <2>3, SendRequestType
<1>. QED BY <1>1, <1>2 DEF status_cb

LEMMA StatusMethodType ==
    ASSUME NEW c \in ResourceSetRec, NEW reply, NEW err \in BOOLEAN
    PROVE  status_method(c, reply, err) \in ResourceSetRec
<1>1. [c EXCEPT !.fault = "stale"] \in ResourceSetRec BY DEF ResourceSetRec
<1>. QED BY <1>1, AnsweredType, StatusCbType, ReplyDoneType DEF status_method

LEMMA HandlersType ==
    ASSUME NEW c \in ResourceSetRec
    PROVE  /\ disconnect_from_manager(c) \in ResourceSetRec
           /\ \A granted, auto : receive_grant_message(c, granted, auto)
                                    \in ResourceSetRec
           /\ receive_advice_message(c) \in ResourceSetRec
           /\ receive_release_message(c) \in ResourceSetRec
           /\ link_down(c) \in ResourceSetRec
<1>1. /\ [c EXCEPT !.fault = "stale"] \in ResourceSetRec
      /\ [c EXCEPT !.client = "created"] \in ResourceSetRec
      /\ [c EXCEPT !.acquire = FALSE] \in ResourceSetRec
      BY DEF ResourceSetRec
<1>2. "release" \in MsgType BY DEF MsgType
<1>3. push_request([c EXCEPT !.acquire = FALSE], "release") \in ResourceSetRec
      BY <1>1, <1>2, PushRequestType
<1>4. disconnect_from_manager(c) \in ResourceSetRec
      BY <1>1 DEF disconnect_from_manager
<1>5. \A granted, auto : receive_grant_message(c, granted, auto) \in ResourceSetRec
      BY <1>1 DEF receive_grant_message
<1>6. receive_advice_message(c) \in ResourceSetRec
      BY <1>1 DEF receive_advice_message
<1>7. receive_release_message(c) \in ResourceSetRec
      BY <1>1, <1>3 DEF receive_release_message
<1>8. link_down(c) \in ResourceSetRec
      BY <1>4, DisconnectType DEF link_down
<1>. QED BY <1>4, <1>5, <1>6, <1>7, <1>8
-----------------------------------------------------------------------------
(* The actions. *)
LEMMA InitType == Init => TypeOK
<1>1. NoSet \in ResourceSetRec
      BY DEF NoSet, ResourceSetRec, NoFlags, ResourceFlags, Freed, Rset, RsetState
<1>2. Unknown \in ManagerRec
      BY DEF Unknown, ManagerRec, NoFlags, ResourceFlags
<1>. QED BY <1>1, <1>2 DEF Init, TypeOK

LEMMA UseType ==
    ASSUME used \in [Counter -> Nat], NEW k \in Counter, NEW bound, Use(k, bound)
    PROVE  used' \in [Counter -> Nat]
BY DEF Use

LEMMA CallAPIType ==
    ASSUME TypeOK, NEW s \in Sets, NEW after \in ResourceSetRec, CallAPI(s, after)
    PROVE  TypeOK'
BY DEF TypeOK, CallAPI, Use, Counter

LEMMA AppType ==
    ASSUME TypeOK, NEW s \in Sets, App(s)
    PROVE  TypeOK'
<1>1. cs[s] \in ResourceSetRec BY DEF TypeOK
<1>2. ASSUME NEW f \in FlagChoice
      PROVE  f.mandatory \in SUBSET Resource /\ f.optional \in SUBSET Resource
      BY ChoiceAssumption
<1>3. CASE Create(s)
      BY <1>3, <1>2, CreateType, CallAPIType, ChoiceAssumption DEF Create
<1>4. CASE Destroy(s)
      BY <1>4, <1>1, OperationsType, CallAPIType DEF Destroy
<1>5. CASE Acquire(s)
      BY <1>5, <1>1, OperationsType, CallAPIType DEF Acquire
<1>6. CASE Release(s)
      BY <1>6, <1>1, OperationsType, CallAPIType DEF Release
<1>7. CASE ConfigureResources(s)
      BY <1>7, <1>1, <1>2, ConfigureResourcesType, CallAPIType
         DEF ConfigureResources
<1>8. CASE Configure(s)
      BY <1>8, <1>1, ConfigureType, CallAPIType, ChoiceAssumption DEF Configure
<1>. QED BY <1>3, <1>4, <1>5, <1>6, <1>7, <1>8 DEF App

LEMMA InqType ==
    ASSUME TypeOK, inq # <<>>
    PROVE  /\ Tail(inq) \in Seq(Answer \cup Notice \cup Owner)
           /\ Head(inq).kind = "answer" => Head(inq) \in Answer
           /\ Head(inq).kind \in NoticeKind => Head(inq) \in Notice
<1>1. /\ Head(inq) \in Answer \cup Notice \cup Owner
      /\ Tail(inq) \in Seq(Answer \cup Notice \cup Owner)
      BY DEF TypeOK
<1>2. \A m \in Answer : m.kind = "answer" BY DEF Answer
<1>3. \A m \in Notice : m.kind \in NoticeKind BY DEF Notice
<1>4. \A m \in Owner : m.kind \in {"up", "down"} BY DEF Owner
<1>. QED BY <1>1, <1>2, <1>3, <1>4 DEF NoticeKind

LEMMA MainLoopType ==
    ASSUME TypeOK, MainLoop
    PROVE  TypeOK'
<1>1. ASSUME NEW kinds, Dispatch(kinds), cs' \in [Sets -> ResourceSetRec]
      PROVE  TypeOK'
      BY <1>1, InqType DEF TypeOK, Dispatch
<1>2. CASE DispatchAnswer
  <2>. DEFINE m == Head(inq)
  <2>1. m \in Answer BY <1>2, InqType DEF DispatchAnswer, Dispatch
  <2>2. m.set \in Sets /\ m.err \in BOOLEAN BY <2>1 DEF Answer
  <2>3. status_method(cs[m.set], m.reply, m.err) \in ResourceSetRec
        BY <2>2, StatusMethodType DEF TypeOK
  <2>4. cs' \in [Sets -> ResourceSetRec]
        BY <1>2, <2>2, <2>3 DEF DispatchAnswer, TypeOK
  <2>. QED BY <1>1, <1>2, <2>4 DEF DispatchAnswer
<1>3. CASE DispatchNotice
  <2>. DEFINE m == Head(inq)
  <2>1. m \in Notice BY <1>3, InqType DEF DispatchNotice, Dispatch
  <2>2. m.set \in Sets BY <2>1 DEF Notice
  <2>3. cs[m.set] \in ResourceSetRec BY <2>2 DEF TypeOK
  <2>4. cs' \in [Sets -> ResourceSetRec]
        BY <1>3, <2>2, <2>3, HandlersType DEF DispatchNotice, TypeOK
  <2>. QED BY <1>1, <1>3, <2>4 DEF DispatchNotice
<1>4. CASE DispatchUp
  <2>1. cs' \in [Sets -> ResourceSetRec]
        BY <1>4, ManagerIsUpType DEF DispatchUp, TypeOK
  <2>. QED BY <1>1, <1>4, <2>1 DEF DispatchUp
<1>5. CASE DispatchDown
  <2>1. cs' \in [Sets -> ResourceSetRec]
        BY <1>5, HandlersType DEF DispatchDown, TypeOK
  <2>. QED BY <1>1, <1>5, <2>1 DEF DispatchDown
<1>. QED BY <1>2, <1>3, <1>4, <1>5 DEF MainLoop

LEMMA TimeoutType ==
    ASSUME TypeOK, NEW s \in Sets, Timeout(s)
    PROVE  TypeOK'
<1>1. \A reply : status_method(cs[s], reply, TRUE) \in ResourceSetRec
      BY StatusMethodType DEF TypeOK
<1>2. cs' \in [Sets -> ResourceSetRec]
  <2>1. PICK reply : cs' = [cs EXCEPT ![s] = status_method(@, reply, TRUE)]
        BY DEF Timeout
  <2>. QED BY <1>1, <2>1 DEF TypeOK
<1>3. used' \in [Counter -> Nat] BY UseType DEF Timeout, TypeOK, Counter
<1>. QED BY <1>2, <1>3 DEF Timeout, TypeOK

LEMMA TakeCallType ==
    ASSUME TypeOK, NEW s \in Sets, cs[s].wire # <<>>,
           NEW answers \in Seq(Answer), TakeCall(s, answers)
    PROVE  /\ cs' \in [Sets -> ResourceSetRec]
           /\ inq' \in Seq(Answer \cup Notice \cup Owner)
<1>1. cs[s].wire \in Seq(Call) BY DEF TypeOK, ResourceSetRec
<1>. DEFINE tail == Tail(cs[s].wire)
           lost == IF answers = <<>>
                   THEN cs[s].lost \cup {Head(cs[s].wire).reqno} ELSE cs[s].lost
<1>2. tail \in Seq(Call) /\ Head(cs[s].wire) \in Call
      BY <1>1, HeadTailProperties
<1>3. lost \in SUBSET Nat
      BY <1>2 DEF Call, TypeOK, ResourceSetRec
<1>4. cs' \in [Sets -> ResourceSetRec]
  <2>1. cs' = [cs EXCEPT ![s] = [@ EXCEPT !.wire = tail, !.lost = lost]]
        BY DEF TakeCall, TypeOK, ResourceSetRec
  <2>2. cs[s] \in ResourceSetRec /\ tail \in Seq(Call) BY <1>2 DEF TypeOK
  <2>. HIDE DEF tail, lost
  <2>3. [cs[s] EXCEPT !.wire = tail, !.lost = lost] \in ResourceSetRec
        BY <2>2, <1>3 DEF ResourceSetRec
  <2>. QED BY <2>1, <2>3 DEF TypeOK
<1>5. answers \in Seq(Answer \cup Notice \cup Owner) BY SeqMonotonic
<1>6. inq' \in Seq(Answer \cup Notice \cup Owner)
      BY <1>5, ConcatProperties DEF TakeCall, TypeOK
<1>. QED BY <1>4, <1>6

LEMMA AnswerType ==
    ASSUME NEW s \in Sets, NEW call \in Call, NEW err \in BOOLEAN
    PROVE  <<answer(s, call, err)>> \in Seq(Answer)
BY DEF answer, Answer, Reply, Call

LEMMA BusType ==
    ASSUME TypeOK, NEW s \in Sets, Bus(s)
    PROVE  TypeOK'
<1>1. ASSUME cs[s].wire # <<>> PROVE Head(cs[s].wire) \in Call
      BY <1>1 DEF TypeOK, ResourceSetRec
<1>2. CASE ManagerHandles(s)
  <2>. DEFINE call == Head(cs[s].wire)
  <2>1. call \in Call BY <1>1, <1>2 DEF ManagerHandles
  <2>. HIDE DEF call
  <2>2. handled(ms[s], call) \in ManagerRec
    <3>1. ms[s] \in ManagerRec /\ Unknown \in ManagerRec
          BY DEF TypeOK, Unknown, ManagerRec, NoFlags, ResourceFlags
    <3>2. call.resources \in ResourceFlags
          /\ call.value \in ConfigValue \cup {NoSettings}
          BY <2>1 DEF Call
    <3>. QED BY <3>1, <3>2 DEF handled, ManagerRec
  <2>3. ms' \in [Sets -> ManagerRec]
        BY <1>2, <2>2 DEF ManagerHandles, TypeOK, call
  <2>4. PICK answers \in Seq(Answer) : TakeCall(s, answers)
    <3>1. <<>> \in Seq(Answer) OBVIOUS
    <3>2. \A err \in BOOLEAN : <<answer(s, call, err)>> \in Seq(Answer)
          BY <2>1, AnswerType
    <3>3. (call.msgtyp \in Refused) \in BOOLEAN OBVIOUS
    <3>. QED BY <1>2, <3>1, <3>2, <3>3 DEF ManagerHandles, call
  <2>5. cs[s].wire # <<>> BY <1>2 DEF ManagerHandles
  <2>. QED BY <1>2, <2>3, <2>4, <2>5, TakeCallType DEF ManagerHandles, TypeOK
<1>3. CASE Bounce(s)
  <2>1. <<answer(s, Head(cs[s].wire), TRUE)>> \in Seq(Answer)
        BY <1>1, <1>3, AnswerType DEF Bounce
  <2>. QED BY <1>3, <2>1, TakeCallType DEF Bounce, TypeOK
<1>4. CASE NoReply(s)
  <2>1. PICK reply \in cs[s].replies :
          /\ inq' = Append(inq, [kind |-> "answer", set |-> s, reply |-> reply,
                                 err |-> TRUE])
          /\ cs' = [cs EXCEPT ![s].lost = @ \ {reply.reqno}]
        BY <1>4 DEF NoReply
  <2>2. reply \in Reply BY DEF TypeOK, ResourceSetRec
  <2>3. [kind |-> "answer", set |-> s, reply |-> reply, err |-> TRUE] \in Answer
        BY <2>2 DEF Answer
  <2>4. inq' \in Seq(Answer \cup Notice \cup Owner)
        BY <2>1, <2>3, AppendProperties DEF TypeOK
  <2>. DEFINE lost == cs[s].lost \ {reply.reqno}
  <2>5. [cs[s] EXCEPT !.lost = lost] \in ResourceSetRec
    <3>1. cs[s] \in ResourceSetRec BY DEF TypeOK
    <3>2. lost \in SUBSET Nat BY <3>1 DEF ResourceSetRec
    <3>. HIDE DEF lost
    <3>. QED BY <3>1, <3>2 DEF ResourceSetRec
  <2>6. cs' \in [Sets -> ResourceSetRec] BY <2>1, <2>5 DEF TypeOK
  <2>. QED BY <1>4, <2>4, <2>6 DEF NoReply, TypeOK
<1>. QED BY <1>2, <1>3, <1>4 DEF Bus

LEMMA LostType ==
    ASSUME TypeOK, LostWithManager
    PROVE  cs' \in [Sets -> ResourceSetRec]
<1>1. PICK n \in [Sets -> 0..(MaxTimeouts + 1)] :
        /\ \A s \in Sets : n[s] <= Len(cs[s].wire)
        /\ cs' = [s \in Sets |->
                    [cs[s] EXCEPT !.wire = SubSeq(@, n[s] + 1, Len(@)),
                                  !.lost = @ \cup {cs[s].wire[i].reqno :
                                                      i \in 1..n[s]}]]
      BY DEF LostWithManager
<1>2. ASSUME NEW s \in Sets
      PROVE  [cs[s] EXCEPT !.wire = SubSeq(@, n[s] + 1, Len(@)),
                           !.lost = @ \cup {cs[s].wire[i].reqno :
                                               i \in 1..n[s]}]
                \in ResourceSetRec
  <2>1. cs[s] \in ResourceSetRec /\ cs[s].wire \in Seq(Call)
        /\ cs[s].lost \in SUBSET Nat
        BY DEF TypeOK, ResourceSetRec
  <2>2. n[s] \in Nat /\ n[s] <= Len(cs[s].wire)
    <3>1. n[s] \in 0..(MaxTimeouts + 1) BY <1>1
    <3>2. n[s] \in Nat BY <3>1, BoundAssumption
    <3>3. n[s] <= Len(cs[s].wire) BY <1>1
    <3>. QED BY <3>2, <3>3
  <2>3. SubSeq(cs[s].wire, n[s] + 1, Len(cs[s].wire)) \in Seq(Call)
        BY <2>1, <2>2, SubSeqProperties
  <2>4. ASSUME NEW i \in 1..n[s] PROVE cs[s].wire[i].reqno \in Nat
    <3>1. i \in 1..Len(cs[s].wire) BY <2>1, <2>2
    <3>2. cs[s].wire[i] \in Call BY <3>1, <2>1, ElementOfSeq
    <3>. QED BY <3>2 DEF Call
  <2>. DEFINE wire == SubSeq(cs[s].wire, n[s] + 1, Len(cs[s].wire))
              lost == cs[s].lost \cup {cs[s].wire[i].reqno : i \in 1..n[s]}
  <2>5. lost \in SUBSET Nat BY <2>1, <2>4
  <2>6. wire \in Seq(Call) BY <2>3
  <2>. HIDE DEF wire, lost
  <2>7. [cs[s] EXCEPT !.wire = wire, !.lost = lost] \in ResourceSetRec
        BY <2>1, <2>5, <2>6 DEF ResourceSetRec
  <2>. QED BY <2>7 DEF wire, lost
<1>. QED BY <1>1, <1>2

LEMMA ManagerType ==
    ASSUME TypeOK,
           \/ ManagerStarts
           \/ ManagerDies
           \/ ManagerReplaced
           \/ \E s \in Sets : ManagerNotifies(s)
    PROVE  TypeOK'
<1>. DEFINE Msg == Answer \cup Notice \cup Owner
<1>1. ASSUME NEW m \in Msg PROVE Append(inq, m) \in Seq(Msg)
      BY AppendProperties DEF TypeOK
<1>2. [kind |-> "up"] \in Msg /\ [kind |-> "down"] \in Msg BY DEF Owner
<1>3. Unknown \in ManagerRec
      BY DEF Unknown, ManagerRec, NoFlags, ResourceFlags
<1>4. CASE ManagerStarts
  <2>1. inq' \in Seq(Msg) BY <1>1, <1>2, <1>4 DEF ManagerStarts, Announce, TypeOK
  <2>. QED BY <1>4, <2>1 DEF ManagerStarts, Use, TypeOK, Counter
<1>5. CASE ManagerDies
  <2>1. inq' \in Seq(Msg) BY <1>1, <1>2, <1>5 DEF ManagerDies, Announce, TypeOK
  <2>2. cs' \in [Sets -> ResourceSetRec] BY <1>5, LostType DEF ManagerDies
  <2>3. ms' \in [Sets -> ManagerRec] BY <1>3, <1>5 DEF ManagerDies
  <2>4. used' \in [Counter -> Nat]
        BY <1>5, UseType DEF ManagerDies, TypeOK, Counter
  <2>. QED BY <1>5, <2>1, <2>2, <2>3, <2>4 DEF ManagerDies, TypeOK
<1>6. CASE ManagerReplaced
  <2>1. inq' \in Seq(Msg)
        BY <1>1, <1>2, <1>6 DEF ManagerReplaced, Announce, TypeOK
  <2>2. cs' \in [Sets -> ResourceSetRec] BY <1>6, LostType DEF ManagerReplaced
  <2>3. \A passed \in BOOLEAN : [Unknown EXCEPT !.passed = passed] \in ManagerRec
        BY <1>3 DEF ManagerRec
  <2>4. ms' \in [Sets -> ManagerRec] BY <1>6, <2>3 DEF ManagerReplaced
  <2>5. used' \in [Counter -> Nat]
        BY <1>6, UseType DEF ManagerReplaced, TypeOK, Counter
  <2>. QED BY <1>6, <2>1, <2>2, <2>4, <2>5 DEF ManagerReplaced, TypeOK
<1>7. ASSUME NEW s \in Sets, ManagerNotifies(s)
      PROVE  TypeOK'
  <2>1. PICK kind \in Notices :
          /\ inq' = Append(inq, [kind |-> kind, set |-> s])
          /\ ms' = [ms EXCEPT ![s] =
                      CASE kind = "revoke" /\ s \in AutoRelease ->
                               [@ EXCEPT !.acquire = FALSE]
                        [] kind = "unregister" -> Unknown
                        [] OTHER -> @]
        BY <1>7 DEF ManagerNotifies
  <2>2. [kind |-> kind, set |-> s] \in Msg BY ChoiceAssumption DEF Notice
  <2>3. inq' \in Seq(Msg) BY <1>1, <2>1, <2>2
  <2>4. [ms[s] EXCEPT !.acquire = FALSE] \in ManagerRec BY DEF TypeOK, ManagerRec
  <2>5. ms' \in [Sets -> ManagerRec] BY <1>3, <2>1, <2>4 DEF TypeOK
  <2>. QED BY <1>7, <2>3, <2>5 DEF ManagerNotifies, Use, TypeOK, Counter
<1>. QED BY <1>4, <1>5, <1>6, <1>7

LEMMA NextType == TypeOK /\ [Next]_vars => TypeOK'
<1>. SUFFICES ASSUME TypeOK, [Next]_vars PROVE TypeOK'
     OBVIOUS
<1>1. CASE UNCHANGED vars BY <1>1 DEF TypeOK, vars
<1>. QED BY <1>1, AppType, MainLoopType, TimeoutType, BusType, ManagerType
         DEF Next

(* Every variable keeps the shape TypeOK gives it: request queues, wires   *)
(* and the process's message queue stay sequences of their kinds, and no   *)
(* reference count of a resset_t (resset_unref) becomes negative.          *)
THEOREM TypeCorrect == Spec => []TypeOK
<1>. QED BY InitType, NextType, PTL DEF Spec
-----------------------------------------------------------------------------
(* The request queue: one request is outstanding.                          *)
(*                                                                         *)
(* send_request is called in the middle of handlers, so its effect is      *)
(* stated with two predicates.  Idle(c, R, k): no request of the queue has *)
(* been sent, the reply records are R, and they account for k references   *)
(* of the resset_t.  Settled(c, R, k): the queue is empty, or its head and *)
(* nothing else has been sent and added one reply record to R and two      *)
(* references to k.  Between two steps of the process every set that is    *)
(* not at fault is Settled(c, {}, 0).                                      *)

Pending(rq) == [msgtyp |-> rq.msgtyp, reqno |-> rq.reqno]

Ascending(list, reqno) ==
    \A i \in 1..Len(list) :
        /\ list[i].reqno <= reqno
        /\ \A j \in 1..(i - 1) : list[j].reqno < list[i].reqno

NoneBusy(list) == \A i \in 1..Len(list) : ~list[i].busy

HeadBusy(list) == list[1].busy /\ \A i \in 2..Len(list) : ~list[i].busy

(* As long as the object path exists the creator's reference does, so that *)
(* a REGISTER always finds or makes a set to be sent for.                  *)
Backed(c, k) == c.path => resset_find(c.rset) /\ c.rset.refcnt >= k + 1

Idle(c, R, k) ==
    /\ c \in ResourceSetRec /\ c.fault = "none"
    /\ NoneBusy(c.reqlist) /\ Ascending(c.reqlist, c.reqno)
    /\ c.replies = R /\ Backed(c, k)
    /\ \A i \in 1..Len(c.reqlist) : Pending(c.reqlist[i]) \notin R
    /\ c.resset => c.conn
    /\ k > 0 => resset_find(c.rset) /\ c.resset

Settled(c, R, k) ==
    c.fault = "none" =>
        /\ Ascending(c.reqlist, c.reqno)
        /\ c.resset => c.conn
        /\ c.reqlist = <<>> => c.replies = R /\ Backed(c, k)
        /\ c.reqlist # <<>> =>
              /\ HeadBusy(c.reqlist) /\ c.resset
              /\ Pending(Head(c.reqlist)) \notin R
              /\ c.replies = R \cup {Pending(Head(c.reqlist))}
              /\ Backed(c, k + 2)

QueueInv(c) == Settled(c, {}, 0)
-----------------------------------------------------------------------------
LEMMA DbusSend ==
    ASSUME NEW c \in ResourceSetRec, NEW call, NEW k \in Nat,
           Backed(c, k), resset_find(c.rset)
    PROVE  LET d == dbus_send_message(c, call)
           IN  /\ d.fault = c.fault /\ d.reqno = c.reqno /\ d.conn = c.conn
               /\ d.resset = c.resset /\ d.path = c.path
               /\ resset_find(d.rset)
               /\ d.replies = c.replies \cup {Pending(call)}
               /\ Backed(d, k + 2)
<1>1. c.rset \in Rset BY DEF ResourceSetRec
<1>. DEFINE r == resset_ref(resset_ref(c.rset))
<1>2. r.state = c.rset.state /\ r.refcnt = c.rset.refcnt + 2
      BY <1>1 DEF resset_ref, Rset
<1>. HIDE DEF r
<1>. DEFINE d == dbus_send_message(c, call)
<1>3. /\ d.fault = c.fault /\ d.reqno = c.reqno /\ d.conn = c.conn
      /\ d.resset = c.resset /\ d.path = c.path /\ d.rset = r
      /\ d.replies = c.replies \cup {Pending(call)}
      BY DEF dbus_send_message, ResourceSetRec, r, Pending
<1>. HIDE DEF d
<1>4. resset_find(d.rset) BY <1>2, <1>3 DEF resset_find
<1>5. Backed(d, k + 2)
      BY <1>1, <1>2, <1>3, <1>4 DEF Backed, Rset
<1>. QED BY <1>3, <1>4, <1>5 DEF d

LEMMA SendRegister ==
    ASSUME NEW c, NEW R, NEW k \in Nat, Idle(c, R, k), NEW rq \in Request
    PROVE  LET d == send_register_message(c, rq)
           IN  /\ d.fault = "none" /\ d.reqno = c.reqno /\ d.conn = c.conn
               /\ d.resset => /\ d.conn
                              /\ d.replies = R \cup {Pending(rq)}
                              /\ Backed(d, k + 2)
<1>1. c \in ResourceSetRec BY DEF Idle
<1>. DEFINE call  == message(c, rq)
            found == dbus_connect_to_manager(c)
            d     == resconn_connect(c, call)
            e     == send_register_message(c, rq)
<1>2. CASE ~c.conn
      BY <1>2 DEF Idle, send_register_message
<1>3. CASE c.conn
  <2>1. /\ found \in ResourceSetRec /\ found.fault = c.fault
        /\ found.reqno = c.reqno /\ found.conn = c.conn
        /\ found.replies = c.replies
        BY <1>1, ConnectType DEF dbus_connect_to_manager, ResourceSetRec
  <2>2. resset_find(found.rset) /\ Backed(found, k)
    <3>1. CASE resset_find(c.rset)
          BY <3>1 DEF dbus_connect_to_manager, Idle
    <3>2. CASE ~resset_find(c.rset)
      <4>1. ~c.path /\ k = 0 BY <3>2 DEF Idle, Backed
      <4>2. found.rset = resset_create("created")
            BY <1>1, <3>2, <4>1 DEF dbus_connect_to_manager, ResourceSetRec
      <4>3. found.rset.state = "created" /\ found.rset.refcnt = 1
            BY <4>2 DEF resset_create
      <4>. QED BY <4>1, <4>3 DEF Backed, resset_find
    <3>. QED BY <3>1, <3>2
  <2>3. Pending(call) = Pending(rq) BY DEF Pending, message
  <2>4. rq.msgtyp \in MsgType /\ rq.reqno \in Nat BY DEF Request
  <2>5. d = dbus_send_message(found, call)
        BY <2>2 DEF resconn_connect
  <2>. HIDE DEF found, call
  <2>6. /\ d.fault = "none" /\ d.reqno = c.reqno /\ d.conn = c.conn
        /\ d.replies = R \cup {Pending(rq)}
        /\ resset_find(d.rset) /\ Backed(d, k + 2)
        BY <2>1, <2>2, <2>3, <2>5, DbusSend DEF Idle
  <2>7. e = [d EXCEPT !.resset = @ \/ resset_find(d.rset)]
        BY <1>3 DEF send_register_message, call
  <2>8. d = [found EXCEPT !.wire    = Append(@, call),
                          !.replies = @ \cup {[msgtyp |-> call.msgtyp,
                                               reqno  |-> call.reqno]},
                          !.rset    = resset_ref(resset_ref(@))]
        BY <2>5 DEF dbus_send_message
  <2>9. "resset" \in DOMAIN d
        BY <2>1, <2>8 DEF ResourceSetRec
  <2>. HIDE DEF d
  <2>10. /\ e.fault = d.fault /\ e.reqno = d.reqno /\ e.conn = d.conn
         /\ e.replies = d.replies /\ e.path = d.path /\ e.rset = d.rset
         BY <2>7
  <2>. HIDE DEF e
  <2>. QED BY <1>3, <2>6, <2>10 DEF Backed, e
<1>. QED BY <1>2, <1>3

LEMMA SendOther ==
    ASSUME NEW c, NEW R, NEW k \in Nat, Idle(c, R, k), NEW rq \in Request,
           rq.msgtyp # "register", sendable(c, rq.msgtyp)
    PROVE  LET d == send_message(c, rq)
           IN  /\ d.fault = "none" /\ d.reqno = c.reqno /\ d.conn
               /\ d.resset /\ d.replies = R \cup {Pending(rq)}
               /\ Backed(d, k + 2)
<1>1. c \in ResourceSetRec BY DEF Idle
<1>. DEFINE call == message(c, rq)
            d    == dbus_send_message(c, call)
<1>2. Pending(call) = Pending(rq) BY DEF Pending, message
<1>3. c.resset /\ c.conn /\ resset_find(c.rset)
      BY DEF sendable, may_send, Idle, resset_find
<1>4. call \in Call
  <2>1. rq.msgtyp \in Kind => configured(c, rq.msgtyp) BY DEF sendable
  <2>. QED BY <1>1, <2>1, MessageType
<1>5. d \in ResourceSetRec BY <1>1, <1>4, SendType
<1>. HIDE DEF call
<1>6. /\ d.fault = "none" /\ d.reqno = c.reqno /\ d.conn /\ d.resset
      /\ d.replies = R \cup {Pending(rq)} /\ Backed(d, k + 2)
      BY <1>1, <1>2, <1>3, DbusSend DEF Idle
<1>. HIDE DEF d
<1>7. LET e == dbus_disconnect_from_manager(d)
      IN  /\ e.fault = "none" /\ e.reqno = c.reqno /\ e.conn /\ e.resset
          /\ e.replies = R \cup {Pending(rq)} /\ Backed(e, k + 2)
      BY <1>5, <1>6 DEF dbus_disconnect_from_manager, ResourceSetRec, Backed
<1>8. send_message(c, rq) = IF rq.msgtyp = "unregister"
                            THEN dbus_disconnect_from_manager(d) ELSE d
      BY DEF send_message, resconn_disconnect, d, call
<1>. QED BY <1>6, <1>7, <1>8

LEMMA TransmitSettles ==
    ASSUME NEW c, NEW R, NEW k \in Nat, Idle(c, R, k), c.reqlist # <<>>,
           \/ Head(c.reqlist).msgtyp = "register"
           \/ sendable(c, Head(c.reqlist).msgtyp)
    PROVE  Settled(transmit(c), R, k)
<1>1. c \in ResourceSetRec BY DEF Idle
<1>2. c.reqlist \in Seq(Request) BY <1>1 DEF ResourceSetRec
<1>. DEFINE rq   == Head(c.reqlist)
            sent == send_message(c, rq)
            busy == [rq EXCEPT !.busy = TRUE]
            list == <<busy>> \o Tail(c.reqlist)
<1>3. rq \in Request /\ rq = c.reqlist[1] /\ Tail(c.reqlist) \in Seq(Request)
      BY <1>2, HeadTailProperties
<1>4. CASE rq.msgtyp = "register" /\ ~sent.resset
  <2>. DEFINE d == transmit(c)
  <2>1. d = [c EXCEPT !.client  = "created",
                      !.denied  = TRUE,
                      !.reqlist = Tail(@),
                      !.fault   = IF Tail(c.reqlist) = <<>> THEN @ ELSE "spin"]
        BY <1>4 DEF transmit
  <2>2. /\ d.fault = "none" => d.reqlist = <<>>
        /\ d.replies = R /\ d.conn = c.conn /\ d.resset = c.resset
        /\ d.path = c.path /\ d.rset = c.rset
        BY <1>1, <2>1 DEF ResourceSetRec, Idle
  <2>. HIDE DEF d
  <2>3. Backed(d, k) BY <2>2 DEF Backed, Idle
  <2>4. d.fault = "none" => Ascending(d.reqlist, d.reqno)
    <3>1. ASSUME d.fault = "none" PROVE Len(d.reqlist) = 0 BY <2>2, <3>1
    <3>. QED BY <3>1 DEF Ascending
  <2>. QED BY <2>2, <2>3, <2>4 DEF Settled, Idle, d
<1>5. CASE ~(rq.msgtyp = "register" /\ ~sent.resset)
  <2>. DEFINE d == [sent EXCEPT !.reqlist = list]
  <2>1. transmit(c) = d BY <1>5 DEF transmit
  <2>2. sent \in ResourceSetRec
        BY <1>1, <1>3, SendMessageType DEF sendable, Kind
  <2>3. /\ sent.fault = "none" /\ sent.reqno = c.reqno /\ sent.conn
        /\ sent.resset /\ sent.replies = R \cup {Pending(rq)}
        /\ Backed(sent, k + 2)
    <3>1. CASE rq.msgtyp = "register"
      <4>1. sent = send_register_message(c, rq) BY <3>1 DEF send_message
      <4>. QED BY <1>3, <1>5, <3>1, <4>1, SendRegister
    <3>2. CASE rq.msgtyp # "register"
          BY <1>3, <3>2, SendOther
    <3>. QED BY <3>1, <3>2
  <2>4. /\ list # <<>> /\ Head(list) = busy /\ Len(list) = Len(c.reqlist)
        /\ list[1] = busy
        /\ \A i \in 2..Len(list) : list[i] = c.reqlist[i]
    <3>. HIDE DEF rq
    <3>1. /\ Len(Tail(c.reqlist)) = Len(c.reqlist) - 1
          /\ \A i \in 1..(Len(c.reqlist) - 1) : Tail(c.reqlist)[i] = c.reqlist[i + 1]
          BY <1>2
    <3>. DEFINE t == Tail(c.reqlist)
    <3>2. t \in Seq(Request) BY <1>3
    <3>3. busy \in Request BY <1>3 DEF Request
    <3>4. Len(c.reqlist) \in Nat BY <1>2
    <3>. HIDE DEF t, busy
    <3>5. /\ Len(<<busy>> \o t) = 1 + Len(t)
          /\ (<<busy>> \o t)[1] = busy
          /\ \A i \in 2..(1 + Len(t)) : (<<busy>> \o t)[i] = t[i - 1]
          BY <3>2, <3>3
    <3>6. list # <<>> /\ Head(list) = list[1]
          BY <3>2, <3>3 DEF t
    <3>. QED BY <3>1, <3>4, <3>5, <3>6 DEF t
  <2>5. busy.busy = TRUE /\ busy.reqno = rq.reqno /\ busy.msgtyp = rq.msgtyp
        BY <1>3 DEF Request
  <2>6. HeadBusy(list)
    <3>. HIDE DEF list, busy
    <3>. QED BY <2>4, <2>5 DEF HeadBusy, Idle, NoneBusy
  <2>7. Ascending(list, c.reqno)
    <3>1. \A i \in 1..Len(list) : list[i].reqno = c.reqlist[i].reqno
      <4>. HIDE DEF list, busy, rq
      <4>1. ASSUME NEW i \in 1..Len(list), i # 1 PROVE i \in 2..Len(list)
            BY <1>2, <2>4, <4>1
      <4>. QED BY <1>3, <2>4, <2>5, <4>1
    <3>2. Len(list) = Len(c.reqlist) BY <2>4
    <3>. HIDE DEF list
    <3>. QED BY <1>2, <3>1, <3>2 DEF Ascending, Idle
  <2>8. Pending(Head(list)) = Pending(rq) /\ Pending(rq) \notin R
    <3>1. Pending(busy) = Pending(rq) BY <2>5 DEF Pending
    <3>2. 1 \in 1..Len(c.reqlist) BY <1>2
    <3>3. Pending(rq) \notin R BY <1>3, <3>2 DEF Idle
    <3>. QED BY <2>4, <3>1, <3>3
  <2>. HIDE DEF list, sent
  <2>9. /\ d.fault = sent.fault /\ d.reqno = sent.reqno /\ d.conn = sent.conn
        /\ d.resset = sent.resset /\ d.replies = sent.replies
        /\ d.path = sent.path /\ d.rset = sent.rset /\ d.reqlist = list
        BY <2>2 DEF ResourceSetRec
  <2>10. Backed(d, k + 2) BY <2>3, <2>9 DEF Backed
  <2>. HIDE DEF d
  <2>11. Settled(d, R, k)
        BY <2>3, <2>4, <2>6, <2>7, <2>8, <2>9, <2>10 DEF Settled
  <2>. QED BY <2>1, <2>11
<1>. QED BY <1>4, <1>5

LEMMA DropFront ==
    ASSUME NEW c, NEW R, NEW k \in Nat, Idle(c, R, k),
           NEW n \in 1..Len(c.reqlist)
    PROVE  LET d == [c EXCEPT !.reqlist = SubSeq(@, n, Len(@))]
           IN  Idle(d, R, k) /\ d.reqlist # <<>> /\ Head(d.reqlist) = c.reqlist[n]
<1>. DEFINE rest == SubSeq(c.reqlist, n, Len(c.reqlist))
            d    == [c EXCEPT !.reqlist = rest]
<1>1. c \in ResourceSetRec /\ c.reqlist \in Seq(Request)
      BY DEF Idle, ResourceSetRec
<1>2. Len(c.reqlist) \in n..Len(c.reqlist) BY <1>1
<1>3. Head(rest) = c.reqlist[n] BY <1>1, <1>2, HeadTailOfSubSeq
<1>4. /\ rest \in Seq(Request) /\ Len(rest) = Len(c.reqlist) - n + 1
      /\ \A i \in 1..Len(rest) : rest[i] = c.reqlist[n + i - 1]
  <2>1. \A i \in n..Len(c.reqlist) : c.reqlist[i] \in Request BY <1>1
  <2>. QED BY <1>1, <2>1, SubSeqProperties
<1>. HIDE DEF rest
<1>5. rest # <<>> BY <1>1, <1>4
<1>6. /\ d \in ResourceSetRec /\ d.reqlist = rest /\ d.fault = c.fault
      /\ d.reqno = c.reqno /\ d.replies = c.replies /\ d.path = c.path
      /\ d.rset = c.rset /\ d.resset = c.resset /\ d.conn = c.conn
      BY <1>1, <1>4 DEF ResourceSetRec
<1>. HIDE DEF d
<1>7. NoneBusy(rest)
  <2>. SUFFICES ASSUME NEW i \in 1..Len(rest) PROVE ~rest[i].busy
       BY DEF NoneBusy
  <2>. DEFINE x == n + i - 1
  <2>1. x \in 1..Len(c.reqlist) /\ rest[i] = c.reqlist[x] BY <1>1, <1>4
  <2>. HIDE DEF x
  <2>. QED BY <2>1 DEF Idle, NoneBusy
<1>8. Ascending(rest, c.reqno)
  <2>. SUFFICES ASSUME NEW i \in 1..Len(rest)
                PROVE  /\ rest[i].reqno <= c.reqno
                       /\ \A j \in 1..(i - 1) : rest[j].reqno < rest[i].reqno
       BY DEF Ascending
  <2>1. n + i - 1 \in 1..Len(c.reqlist) /\ rest[i] = c.reqlist[n + i - 1]
        BY <1>1, <1>4
  <2>2. ASSUME NEW j \in 1..(i - 1) PROVE rest[j].reqno < rest[i].reqno
    <3>. DEFINE x == n + i - 1
                y == n + j - 1
    <3>1. j \in 1..Len(rest) BY <1>1, <1>4
    <3>2. y \in 1..(x - 1) /\ rest[j] = c.reqlist[y]
          BY <1>1, <1>4, <3>1
    <3>3. x \in 1..Len(c.reqlist) /\ rest[i] = c.reqlist[x] BY <2>1
    <3>. HIDE DEF x, y
    <3>4. c.reqlist[y].reqno < c.reqlist[x].reqno
          BY <3>2, <3>3 DEF Idle, Ascending
    <3>. QED BY <3>2, <3>3, <3>4
  <2>3. c.reqlist[n + i - 1].reqno <= c.reqno BY <2>1 DEF Idle, Ascending
  <2>. QED BY <2>1, <2>2, <2>3
<1>9. Backed(d, k) BY <1>6 DEF Idle, Backed
<1>10. \A i \in 1..Len(rest) : Pending(rest[i]) \notin R
  <2>. SUFFICES ASSUME NEW i \in 1..Len(rest) PROVE Pending(rest[i]) \notin R
       OBVIOUS
  <2>. DEFINE x == n + i - 1
  <2>1. x \in 1..Len(c.reqlist) /\ rest[i] = c.reqlist[x] BY <1>1, <1>4
  <2>. HIDE DEF x
  <2>. QED BY <2>1 DEF Idle
<1>11. Idle(d, R, k) BY <1>6, <1>7, <1>8, <1>9, <1>10 DEF Idle
<1>. QED BY <1>3, <1>5, <1>6, <1>11 DEF rest, d

(* send_request, called with nothing outstanding, sends the first request  *)
(* that can be sent.                                                       *)
LEMMA SendRequestSettles ==
    ASSUME NEW c, NEW R, NEW k \in Nat, Idle(c, R, k)
    PROVE  Settled(send_request(c), R, k)
<1>1. c \in ResourceSetRec BY DEF Idle
<1>2. c.reqlist \in Seq(Request) BY <1>1 DEF ResourceSetRec
<1>3. CASE c.reqlist = <<>>
  <2>1. Settled(c, R, k)
    <3>1. Len(c.reqlist) = 0 BY <1>3
    <3>2. Ascending(c.reqlist, c.reqno) BY <3>1 DEF Ascending
    <3>. QED BY <1>3, <3>2 DEF Settled, Idle
  <2>. QED BY <1>3, <2>1 DEF send_request
<1>4. CASE c.reqlist # <<>>
  <2>1. ~Head(c.reqlist).busy
    <3>1. Head(c.reqlist) = c.reqlist[1] /\ 1 \in 1..Len(c.reqlist)
          BY <1>2, <1>4
    <3>. QED BY <3>1 DEF Idle, NoneBusy
  <2>2. \A f \in {"spin", "stale"} : Settled([c EXCEPT !.fault = f], R, k)
        BY <1>1 DEF Settled, ResourceSetRec
  <2>3. Settled(send_first(c), R, k)
    <3>1. CASE first_sent(c) = 0
      <4>. DEFINE d == [c EXCEPT !.reqlist = <<>>]
      <4>1. /\ d.reqlist = <<>> /\ d.replies = c.replies /\ d.path = c.path
            /\ d.rset = c.rset /\ d.resset = c.resset /\ d.conn = c.conn
            BY <1>1 DEF ResourceSetRec
      <4>. HIDE DEF d
      <4>2. Len(d.reqlist) = 0 BY <4>1
      <4>3. Settled(d, R, k)
            BY <4>1, <4>2 DEF Settled, Idle, Backed, Ascending
      <4>. QED BY <3>1, <4>3 DEF send_first, d
    <3>2. CASE first_sent(c) # 0
      <4>. DEFINE n == first_sent(c)
                  d == [c EXCEPT !.reqlist = SubSeq(@, n, Len(@))]
      <4>1. /\ n \in 1..Len(c.reqlist)
            /\ \/ c.reqlist[n].msgtyp = "register"
               \/ sendable(c, c.reqlist[n].msgtyp)
            BY <1>1, <3>2, FirstSent
      <4>2. Idle(d, R, k) /\ d.reqlist # <<>> /\ Head(d.reqlist) = c.reqlist[n]
            BY <4>1, DropFront
      <4>3. \A t : sendable(c, t) => sendable(d, t)
        <5>. HIDE DEF n
        <5>. QED BY <1>1 DEF sendable, may_send, configured, ResourceSetRec
      <4>4. send_first(c) = transmit(d) BY <3>2 DEF send_first
      <4>. HIDE DEF d, n
      <4>. QED BY <4>1, <4>2, <4>3, <4>4, TransmitSettles
    <3>. QED BY <3>1, <3>2
  <2>. QED BY <1>4, <2>1, <2>2, <2>3 DEF send_request
<1>. QED BY <1>3, <1>4
-----------------------------------------------------------------------------
(* New requests join at the back, with higher numbers and not yet sent.    *)
LEMMA EnqueueAppends ==
    ASSUME NEW c \in ResourceSetRec, NEW msgtyps \in Seq(MsgType),
           Ascending(c.reqlist, c.reqno)
    PROVE  LET d == enqueue(c, msgtyps)
           IN  /\ Ascending(d.reqlist, d.reqno)
               /\ Len(d.reqlist) = Len(c.reqlist) + Len(msgtyps)
               /\ \A i \in 1..Len(c.reqlist) : d.reqlist[i] = c.reqlist[i]
               /\ \A i \in (Len(c.reqlist) + 1)..Len(d.reqlist) :
                     /\ ~d.reqlist[i].busy
                     /\ d.reqlist[i].msgtyp = msgtyps[i - Len(c.reqlist)]
               /\ d.fault = c.fault /\ d.conn = c.conn /\ d.resset = c.resset
               /\ d.path = c.path /\ d.rset = c.rset /\ d.replies = c.replies
               /\ d.client = c.client
<1>. DEFINE new == [i \in 1..Len(msgtyps) |-> [msgtyp |-> msgtyps[i],
                                               reqno  |-> c.reqno + i,
                                               busy   |-> FALSE]]
            old  == c.reqlist
            list == old \o new
            d    == enqueue(c, msgtyps)
<1>1. /\ c.reqno \in Nat /\ old \in Seq(Request)
      /\ Len(msgtyps) \in Nat /\ Len(old) \in Nat
      BY DEF ResourceSetRec
<1>2. new \in Seq(Request) /\ Len(new) = Len(msgtyps)
  <2>1. ASSUME NEW i \in 1..Len(msgtyps)
        PROVE  [msgtyp |-> msgtyps[i], reqno |-> c.reqno + i, busy |-> FALSE]
                  \in Request
        BY <1>1 DEF Request
  <2>. QED BY <1>1, <2>1
<1>3. \A i \in 1..Len(msgtyps) : /\ new[i].reqno = c.reqno + i /\ ~new[i].busy
                                  /\ new[i].msgtyp = msgtyps[i]
      OBVIOUS
<1>4. /\ d.reqlist = list /\ d.reqno = c.reqno + Len(msgtyps)
      /\ d.fault = c.fault /\ d.conn = c.conn /\ d.resset = c.resset
      /\ d.path = c.path /\ d.rset = c.rset /\ d.replies = c.replies
      /\ d.client = c.client
  <2>1. d = [c EXCEPT !.reqno = @ + Len(msgtyps), !.reqlist = @ \o new]
        BY DEF enqueue
  <2>. HIDE DEF new, d
  <2>. QED BY <2>1 DEF ResourceSetRec
<1>. HIDE DEF new, d
<1>5. /\ Len(list) = Len(old) + Len(msgtyps)
      /\ \A i \in 1..Len(old) : list[i] = old[i]
      /\ \A i \in (Len(old) + 1)..Len(list) : list[i] = new[i - Len(old)]
  <2>. HIDE DEF old
  <2>1. /\ Len(list) = Len(old) + Len(new)
        /\ \A i \in 1..(Len(old) + Len(new)) :
              list[i] = IF i <= Len(old) THEN old[i] ELSE new[i - Len(old)]
        BY <1>1, <1>2, ConcatProperties
  <2>. HIDE DEF list
  <2>2. \A i \in 1..Len(old) : i \in 1..(Len(old) + Len(new)) /\ i <= Len(old)
        BY <1>1, <1>2
  <2>3. \A i \in (Len(old) + 1)..(Len(old) + Len(new)) :
           i \in 1..(Len(old) + Len(new)) /\ ~(i <= Len(old))
        BY <1>1, <1>2
  <2>. QED BY <1>2, <2>1, <2>2, <2>3
<1>6. \A i \in 1..Len(old) :
         /\ old[i].reqno \in Nat /\ old[i].reqno <= c.reqno
         /\ \A j \in 1..(i - 1) : old[j].reqno < old[i].reqno
  <2>1. \A i \in 1..Len(old) : old[i] \in Request BY <1>1
  <2>. QED BY <2>1 DEF Ascending, Request
<1>. HIDE DEF list, old
<1>7. ASSUME NEW i \in (Len(old) + 1)..Len(list)
      PROVE  /\ i - Len(old) \in 1..Len(msgtyps)
             /\ list[i].reqno = c.reqno + i - Len(old)
             /\ ~list[i].busy
             /\ list[i].msgtyp = msgtyps[i - Len(old)]
  <2>1. i - Len(old) \in 1..Len(msgtyps) BY <1>1, <1>5
  <2>2. list[i] = new[i - Len(old)] BY <1>5
  <2>3. new[i - Len(old)].reqno = c.reqno + (i - Len(old))
        BY <1>3, <2>1
  <2>. QED BY <1>1, <1>3, <2>1, <2>2, <2>3
<1>8. Ascending(list, c.reqno + Len(msgtyps))
  <2>. SUFFICES ASSUME NEW i \in 1..Len(list)
                PROVE  /\ list[i].reqno <= c.reqno + Len(msgtyps)
                       /\ \A j \in 1..(i - 1) : list[j].reqno < list[i].reqno
       BY DEF Ascending
  <2>1. CASE i \in 1..Len(old)
    <3>1. list[i].reqno <= c.reqno + Len(msgtyps)
          BY <1>1, <1>5, <1>6, <2>1
    <3>2. ASSUME NEW j \in 1..(i - 1) PROVE list[j].reqno < list[i].reqno
      <4>1. j \in 1..Len(old) BY <1>1, <2>1
      <4>2. old[j].reqno < old[i].reqno BY <1>6, <2>1
      <4>. QED BY <1>5, <2>1, <4>1, <4>2
    <3>. QED BY <3>1, <3>2
  <2>2. CASE i \in (Len(old) + 1)..Len(list)
    <3>1. ASSUME NEW j \in 1..(i - 1) PROVE list[j].reqno < list[i].reqno
      <4>1. CASE j \in 1..Len(old)
        <5>1. old[j].reqno \in Nat /\ old[j].reqno <= c.reqno
              BY <1>6, <4>1
        <5>2. list[j] = old[j] BY <1>5, <4>1
        <5>3. /\ list[i].reqno = c.reqno + i - Len(old)
              /\ i - Len(old) \in 1..Len(msgtyps)
              BY <1>7, <2>2
        <5>4. i \in Nat BY <1>1, <2>2
        <5>. QED BY <1>1, <5>1, <5>2, <5>3, <5>4
      <4>2. CASE j \in (Len(old) + 1)..Len(list)
        <5>1. /\ list[i].reqno = c.reqno + i - Len(old)
              /\ list[j].reqno = c.reqno + j - Len(old)
              BY <1>7, <2>2, <4>2
        <5>2. i \in Nat /\ j \in Nat /\ j < i BY <1>1, <2>2, <4>2
        <5>. QED BY <1>1, <5>1, <5>2
      <4>. QED BY <1>1, <1>5, <2>2, <4>1, <4>2
    <3>2. i - Len(old) \in 1..Len(msgtyps) /\ i \in Nat
          /\ list[i].reqno = c.reqno + i - Len(old)
          BY <1>1, <1>7, <2>2
    <3>3. list[i].reqno <= c.reqno + Len(msgtyps) BY <1>1, <3>2
    <3>. QED BY <3>1, <3>3
  <2>. QED BY <1>1, <1>5, <2>1, <2>2
<1>. QED BY <1>4, <1>5, <1>7, <1>8 DEF old, d

LEMMA EnqueueBehind ==
    ASSUME NEW c \in ResourceSetRec, NEW msgtyps \in Seq(MsgType),
           QueueInv(c), c.reqlist # <<>>
    PROVE  QueueInv(enqueue(c, msgtyps))
<1>. DEFINE d == enqueue(c, msgtyps)
<1>1. c.reqlist \in Seq(Request) BY DEF ResourceSetRec
<1>2. d \in ResourceSetRec BY EnqueueType
<1>. SUFFICES ASSUME d.fault = "none" PROVE QueueInv(d)
     BY DEF QueueInv, Settled
<1>3. c.fault = "none"
      BY DEF enqueue, ResourceSetRec
<1>4. /\ Ascending(c.reqlist, c.reqno) /\ HeadBusy(c.reqlist) /\ c.resset
      /\ c.conn /\ c.replies = {} \cup {Pending(Head(c.reqlist))}
      /\ Backed(c, 0 + 2)
      BY <1>3 DEF QueueInv, Settled
<1>5. /\ Ascending(d.reqlist, d.reqno)
      /\ Len(d.reqlist) = Len(c.reqlist) + Len(msgtyps)
      /\ \A i \in 1..Len(c.reqlist) : d.reqlist[i] = c.reqlist[i]
      /\ \A i \in (Len(c.reqlist) + 1)..Len(d.reqlist) : ~d.reqlist[i].busy
      /\ d.conn = c.conn /\ d.resset = c.resset
      /\ d.path = c.path /\ d.rset = c.rset /\ d.replies = c.replies
      BY <1>4, EnqueueAppends
<1>6. d.reqlist \in Seq(Request) BY <1>2 DEF ResourceSetRec
<1>7. Len(msgtyps) \in Nat OBVIOUS
<1>. HIDE DEF d
<1>8. /\ Len(c.reqlist) \in Nat /\ Len(c.reqlist) >= 1
      /\ Head(c.reqlist) = c.reqlist[1]
      BY <1>1
<1>9. d.reqlist # <<>> /\ Head(d.reqlist) = Head(c.reqlist)
  <2>1. Len(d.reqlist) >= 1 /\ d.reqlist[1] = c.reqlist[1]
        BY <1>5, <1>7, <1>8
  <2>. QED BY <1>6, <1>8, <2>1
<1>10. HeadBusy(d.reqlist)
  <2>1. d.reqlist[1].busy
    <3>1. d.reqlist[1] = c.reqlist[1] BY <1>5, <1>8
    <3>. QED BY <1>4, <3>1 DEF HeadBusy
  <2>2. ASSUME NEW i \in 2..Len(d.reqlist) PROVE ~d.reqlist[i].busy
    <3>1. CASE i \in 2..Len(c.reqlist)
      <4>1. d.reqlist[i] = c.reqlist[i] BY <1>5, <1>8, <3>1
      <4>. QED BY <1>4, <3>1, <4>1 DEF HeadBusy
    <3>2. CASE i \in (Len(c.reqlist) + 1)..Len(d.reqlist)
          BY <1>5, <3>2
    <3>3. Len(d.reqlist) \in Nat BY <1>5, <1>7, <1>8
    <3>. QED BY <1>8, <3>1, <3>2, <3>3
  <2>. QED BY <2>1, <2>2 DEF HeadBusy
<1>11. Backed(d, 0 + 2) BY <1>4, <1>5 DEF Backed
<1>. QED BY <1>4, <1>5, <1>9, <1>10, <1>11 DEF QueueInv, Settled

LEMMA EnqueueFirst ==
    ASSUME NEW c \in ResourceSetRec, NEW msgtyps \in Seq(MsgType),
           QueueInv(c), c.fault = "none", c.reqlist = <<>>
    PROVE  Idle(enqueue(c, msgtyps), {}, 0)
<1>. DEFINE d == enqueue(c, msgtyps)
<1>1. /\ Ascending(c.reqlist, c.reqno) /\ (c.resset => c.conn)
      /\ c.replies = {} /\ Backed(c, 0) /\ Len(c.reqlist) = 0
      BY DEF QueueInv, Settled
<1>2. /\ Ascending(d.reqlist, d.reqno)
      /\ d.fault = c.fault /\ d.conn = c.conn /\ d.resset = c.resset
      /\ d.path = c.path /\ d.rset = c.rset /\ d.replies = c.replies
      BY <1>1, EnqueueAppends
<1>3. \A i \in (Len(c.reqlist) + 1)..Len(d.reqlist) : ~d.reqlist[i].busy
      BY <1>1, EnqueueAppends
<1>4. d \in ResourceSetRec BY EnqueueType
<1>. HIDE DEF d
<1>5. NoneBusy(d.reqlist) BY <1>1, <1>3 DEF NoneBusy
<1>6. Backed(d, 0) BY <1>1, <1>2 DEF Backed
<1>7. Idle(d, {}, 0) BY <1>1, <1>2, <1>4, <1>5, <1>6 DEF Idle
<1>. QED BY <1>7 DEF d

LEMMA PushRequestSettles ==
    ASSUME NEW c \in ResourceSetRec, NEW msgtyp \in MsgType,
           QueueInv(c), c.fault = "none"
    PROVE  QueueInv(push_request(c, msgtyp))
<1>. DEFINE d == enqueue(c, <<msgtyp>>)
<1>1. <<msgtyp>> \in Seq(MsgType) OBVIOUS
<1>2. CASE c.reqlist = <<>>
  <2>1. Idle(d, {}, 0) BY <1>1, <1>2, EnqueueFirst
  <2>. HIDE DEF d
  <2>2. QueueInv(send_request(d)) BY <2>1, SendRequestSettles DEF QueueInv
  <2>. QED BY <2>2 DEF push_request, d
<1>3. CASE c.reqlist # <<>>
  <2>1. QueueInv(d) BY <1>1, <1>3, EnqueueBehind
  <2>2. d.fault = "none" /\ d.reqlist # <<>>
    <3>1. d \in ResourceSetRec BY <1>1, EnqueueType
    <3>2. /\ Len(d.reqlist) = Len(c.reqlist) + Len(<<msgtyp>>)
          /\ d.fault = c.fault
          BY <1>1, EnqueueAppends DEF QueueInv, Settled
    <3>3. Len(c.reqlist) \in Nat BY DEF ResourceSetRec
    <3>. HIDE DEF d
    <3>4. d.reqlist # <<>> BY <3>2, <3>3
    <3>. QED BY <3>2, <3>4
  <2>3. d.reqlist \in Seq(Request) BY <1>1, EnqueueType DEF ResourceSetRec
  <2>. HIDE DEF d
  <2>4. Head(d.reqlist).busy BY <2>1, <2>2, <2>3 DEF QueueInv, Settled, HeadBusy
  <2>5. send_request(d) = d BY <2>4 DEF send_request
  <2>. QED BY <2>1, <2>5 DEF push_request, d
<1>. QED BY <1>2, <1>3
-----------------------------------------------------------------------------
LEMMA SameQueue ==
    ASSUME NEW c, NEW d, QueueInv(c),
           d.fault = c.fault, d.reqlist = c.reqlist, d.reqno = c.reqno,
           d.conn = c.conn, d.resset = c.resset, d.replies = c.replies,
           \/ ~d.path
           \/ d.path = c.path /\ d.rset = c.rset
    PROVE  QueueInv(d)
BY DEF QueueInv, Settled, Backed

LEMMA FaultSettles ==
    ASSUME NEW c, NEW R, NEW k, c.fault # "none"
    PROVE  Settled(c, R, k)
BY DEF Settled

(* The REGISTER that connect_to_manager queues is sent or refused before   *)
(* the other messages are queued: they find a busy head, or no client.     *)
LEMMA RegisterSent ==
    ASSUME NEW c \in ResourceSetRec, QueueInv(c), c.fault = "none",
           c.client = "connecting"
    PROVE  LET d == push_request(c, "register")
           IN  d.fault # "none" \/ d.client = "created" \/ d.reqlist # <<>>
<1>. DEFINE e == enqueue(c, <<"register">>)
            d == push_request(c, "register")
<1>1. <<"register">> \in Seq(MsgType) BY DEF MsgType
<1>2. d = send_request(e) BY DEF push_request
<1>3. e \in ResourceSetRec BY <1>1, EnqueueType
<1>4. Len(c.reqlist) \in Nat /\ Ascending(c.reqlist, c.reqno)
      BY DEF ResourceSetRec, QueueInv, Settled
<1>5. /\ Len(e.reqlist) = Len(c.reqlist) + Len(<<"register">>)
      /\ \A i \in 1..Len(c.reqlist) : e.reqlist[i] = c.reqlist[i]
      /\ e.client = c.client
      BY <1>1, <1>4, EnqueueAppends
<1>6. \A i \in (Len(c.reqlist) + 1)..Len(e.reqlist) :
         e.reqlist[i].msgtyp = <<"register">>[i - Len(c.reqlist)]
      BY <1>1, <1>4, EnqueueAppends
<1>. SUFFICES d.fault # "none" \/ d.client = "created" \/ d.reqlist # <<>>
     OBVIOUS
<1>. HIDE DEF e, d
<1>7. e.reqlist \in Seq(Request) /\ e.reqlist # <<>>
      /\ Head(e.reqlist) = e.reqlist[1]
      BY <1>3, <1>4, <1>5 DEF ResourceSetRec
<1>8. CASE Head(e.reqlist).busy
      BY <1>2, <1>7, <1>8 DEF send_request
<1>9. CASE ~Head(e.reqlist).busy
  <2>1. c.reqlist = <<>>
    <3>1. ASSUME c.reqlist # <<>> PROVE FALSE
      <4>1. c.reqlist[1].busy
            BY <3>1 DEF QueueInv, Settled, HeadBusy
      <4>2. 1 \in 1..Len(c.reqlist) BY <1>4, <3>1 DEF ResourceSetRec
      <4>3. e.reqlist[1] = c.reqlist[1] BY <1>5, <4>2
      <4>. QED BY <1>7, <1>9, <4>1, <4>3
    <3>. QED BY <3>1
  <2>2. e.reqlist[1].msgtyp = "register" /\ 1 \in 1..Len(e.reqlist)
    <3>1. Len(c.reqlist) = 0 /\ Len(e.reqlist) = 1 BY <1>5, <2>1
    <3>2. 1 \in (Len(c.reqlist) + 1)..Len(e.reqlist) BY <3>1
    <3>3. <<"register">>[1 - Len(c.reqlist)] = "register" BY <3>1
    <3>. QED BY <1>6, <3>1, <3>2, <3>3
  <2>3. d = send_first(e)
        BY <1>2, <1>5, <1>7, <1>9, <2>2 DEF send_request
  <2>4. first_sent(e) # 0
    <3>. DEFINE I == {i \in 1..Len(e.reqlist) :
                        \/ e.reqlist[i].msgtyp = "register"
                        \/ sendable(e, e.reqlist[i].msgtyp)}
    <3>1. first_sent(e) = IF I # {} THEN Min(I) ELSE 0
          BY DEF first_sent, SelectInSeq
    <3>2. 1 \in I BY <2>2
    <3>3. I \in SUBSET Nat /\ \A i \in I : i # 0 BY <1>7
    <3>. HIDE DEF I
    <3>. QED BY <3>1, <3>2, <3>3, MinExists
  <2>. DEFINE f == [e EXCEPT !.reqlist = SubSeq(@, first_sent(e), Len(@))]
              rq == Head(f.reqlist)
  <2>5. d = transmit(f) BY <2>3, <2>4 DEF send_first
  <2>6. /\ f \in ResourceSetRec /\ rq \in Request /\ f.reqlist # <<>>
        /\ rq.msgtyp \in Kind => configured(f, rq.msgtyp)
    <3>1. Idle(e, {}, 0) BY <1>1, <2>1, EnqueueFirst DEF e
    <3>. DEFINE n == first_sent(e)
    <3>2. /\ n \in 1..Len(e.reqlist)
          /\ \/ e.reqlist[n].msgtyp = "register"
             \/ sendable(e, e.reqlist[n].msgtyp)
          BY <1>3, <2>4, FirstSent
    <3>3. Idle(f, {}, 0) /\ f.reqlist # <<>> /\ rq = e.reqlist[n]
          BY <3>1, <3>2, DropFront
    <3>4. f.configs = e.configs
      <4>. HIDE DEF n
      <4>. QED BY <1>3 DEF ResourceSetRec
    <3>5. rq \in Request BY <1>7, <3>2, <3>3
    <3>6. f \in ResourceSetRec BY <3>3 DEF Idle
    <3>. HIDE DEF f, n
    <3>7. rq.msgtyp \in Kind => configured(f, rq.msgtyp)
          BY <3>2, <3>3, <3>4 DEF sendable, configured, Kind
    <3>. QED BY <3>3, <3>5, <3>6, <3>7
  <2>. DEFINE sent == send_message(f, rq)
  <2>7. sent \in ResourceSetRec BY <2>6, SendMessageType
  <2>. HIDE DEF f
  <2>8. CASE rq.msgtyp = "register" /\ ~sent.resset
    <3>1. d.client = "created"
          BY <2>5, <2>6, <2>8 DEF transmit, ResourceSetRec
    <3>. QED BY <3>1
  <2>9. CASE ~(rq.msgtyp = "register" /\ ~sent.resset)
    <3>. DEFINE tail == Tail(f.reqlist)
                busy == [rq EXCEPT !.busy = TRUE]
    <3>1. d = [sent EXCEPT !.reqlist = <<busy>> \o tail]
          BY <2>5, <2>9 DEF transmit
    <3>2. tail \in Seq(Request) BY <2>6 DEF ResourceSetRec
    <3>. HIDE DEF sent, tail, busy
    <3>3. d.reqlist = <<busy>> \o tail BY <2>7, <3>1 DEF ResourceSetRec
    <3>. QED BY <3>2, <3>3
  <2>. QED BY <2>8, <2>9
<1>. QED BY <1>8, <1>9

LEMMA ConnectSettles ==
    ASSUME NEW c \in ResourceSetRec, QueueInv(c), c.fault = "none"
    PROVE  QueueInv(connect_to_manager(c))
<1>. DEFINE b == [c EXCEPT !.client = "connecting", !.denied = FALSE]
            d == push_request(b, "register")
<1>1. b \in ResourceSetRec /\ b.client = "connecting" /\ b.fault = "none"
      BY DEF ResourceSetRec
<1>2. QueueInv(b) BY SameQueue DEF ResourceSetRec
<1>3. "register" \in MsgType BY DEF MsgType
<1>. HIDE DEF b
<1>4. QueueInv(d) /\ d \in ResourceSetRec
      BY <1>1, <1>2, <1>3, PushRequestSettles, PushRequestType
<1>5. d.fault # "none" \/ d.client = "created" \/ d.reqlist # <<>>
      BY <1>1, <1>2, RegisterSent
<1>. HIDE DEF d
<1>6. d.reqlist # <<>> => QueueInv(enqueue(d, connect_messages(d)))
      BY <1>4, ConnectMessagesType, EnqueueBehind
<1>. QED BY <1>4, <1>5, <1>6 DEF connect_to_manager, b, d

LEMMA ManagerIsUpSettles ==
    ASSUME NEW c \in ResourceSetRec, QueueInv(c), c.fault = "none"
    PROVE  QueueInv(manager_is_up(c))
BY ConnectSettles DEF manager_is_up

LEMMA CreateSettles ==
    ASSUME NEW conn \in BOOLEAN, NEW mandatory \in SUBSET Resource,
           NEW optional \in SUBSET Resource
    PROVE  QueueInv(resource_set_create(conn, mandatory, optional))
<1>. DEFINE flags == [all |-> mandatory \cup optional,
                      opt |-> optional \ mandatory]
            c == [NoSet EXCEPT !.life = "live", !.held = TRUE, !.conn = conn,
                               !.resources = flags]
<1>1. flags \in ResourceFlags BY DEF ResourceFlags
<1>2. NoSet \in ResourceSetRec
      BY DEF NoSet, ResourceSetRec, NoFlags, ResourceFlags, Freed, Rset, RsetState
<1>. HIDE DEF flags
<1>3. c \in ResourceSetRec BY <1>1, <1>2 DEF ResourceSetRec
<1>4. /\ c.fault = "none" /\ c.reqlist = <<>> /\ ~c.path /\ ~c.resset
      /\ c.replies = {}
      BY DEF NoSet
<1>. HIDE DEF c
<1>5. QueueInv(c)
  <2>1. Len(c.reqlist) = 0 BY <1>4
  <2>. QED BY <1>4, <2>1 DEF QueueInv, Settled, Ascending, Backed
<1>. QED BY <1>3, <1>4, <1>5, ConnectSettles DEF resource_set_create, c, flags

LEMMA OperationsSettle ==
    ASSUME NEW c \in ResourceSetRec, QueueInv(c), c.fault = "none"
    PROVE  /\ QueueInv(resource_set_destroy(c))
           /\ QueueInv(resource_set_acquire(c))
           /\ QueueInv(resource_set_release(c))
           /\ QueueInv(receive_release_message(c))
<1>. DEFINE destroyed == [c EXCEPT !.held = FALSE]
<1>1. destroyed \in ResourceSetRec /\ destroyed.fault = "none"
      BY DEF ResourceSetRec
<1>2. QueueInv(destroyed) BY SameQueue DEF ResourceSetRec
<1>3. ASSUME NEW a \in BOOLEAN
      PROVE  LET d == [c EXCEPT !.acquire = a]
             IN  d \in ResourceSetRec /\ d.fault = "none" /\ QueueInv(d)
  <2>. DEFINE d == [c EXCEPT !.acquire = a]
  <2>1. d \in ResourceSetRec /\ d.fault = "none" BY DEF ResourceSetRec
  <2>2. QueueInv(d) BY SameQueue DEF ResourceSetRec
  <2>. QED BY <2>1, <2>2
<1>4. {"unregister", "acquire", "release"} \subseteq MsgType BY DEF MsgType
<1>5. QueueInv(push_request(destroyed, "unregister"))
  <2>. HIDE DEF destroyed
  <2>. QED BY <1>1, <1>2, <1>4, PushRequestSettles
<1>6. ASSUME NEW a \in BOOLEAN, NEW t \in {"acquire", "release"}
      PROVE  QueueInv(push_request([c EXCEPT !.acquire = a], t))
      BY <1>3, <1>4, PushRequestSettles
<1>7. [c EXCEPT !.fault = "stale"].fault = "stale" BY DEF ResourceSetRec
<1>8. QueueInv([c EXCEPT !.fault = "stale"])
      BY <1>7, FaultSettles DEF QueueInv
<1>. QED BY <1>5, <1>6, <1>8 DEF resource_set_destroy, resource_set_acquire,
         resource_set_release, receive_release_message

LEMMA ConfigureResourcesSettles ==
    ASSUME NEW c \in ResourceSetRec, QueueInv(c), c.fault = "none",
           NEW mandatory \in SUBSET Resource, NEW optional \in SUBSET Resource
    PROVE  QueueInv(resource_set_configure_resources(c, mandatory, optional))
<1>. DEFINE flags == [all |-> mandatory \cup optional,
                      opt |-> optional \ mandatory]
            d == [c EXCEPT !.resources = flags]
<1>1. flags \in ResourceFlags BY DEF ResourceFlags
<1>. HIDE DEF flags
<1>2. d \in ResourceSetRec /\ d.fault = "none" BY <1>1 DEF ResourceSetRec
<1>3. QueueInv(d) BY SameQueue DEF ResourceSetRec
<1>4. "update" \in MsgType BY DEF MsgType
<1>. HIDE DEF d
<1>5. QueueInv(push_request(d, "update")) BY <1>2, <1>3, <1>4, PushRequestSettles
<1>. QED BY <1>5 DEF resource_set_configure_resources, d, flags

LEMMA ConfigureSettles ==
    ASSUME NEW c \in ResourceSetRec, QueueInv(c), c.fault = "none",
           NEW kind \in Kind, NEW given \in ConfigValue
    PROVE  QueueInv(configure(c, kind, given))
<1>1. ASSUME NEW configs \in Seq(Config)
      PROVE  QueueInv(push_request([c EXCEPT !.configs = configs], kind))
  <2>. DEFINE d == [c EXCEPT !.configs = configs]
  <2>1. d \in ResourceSetRec /\ d.fault = "none" BY DEF ResourceSetRec
  <2>2. QueueInv(d) BY SameQueue DEF ResourceSetRec
  <2>3. kind \in MsgType BY DEF MsgType, Kind
  <2>. HIDE DEF d
  <2>4. QueueInv(push_request(d, kind)) BY <2>1, <2>2, <2>3, PushRequestSettles
  <2>. QED BY <2>4 DEF d
<1>. DEFINE configs == configs_after(c, kind, given)
<1>2. configs \in Seq(Config) BY ConfigsAfterType
<1>. HIDE DEF configs
<1>3. QueueInv(push_request([c EXCEPT !.configs = configs], kind)) BY <1>1, <1>2
<1>. QED BY <1>3 DEF configure, configs
-----------------------------------------------------------------------------
(* Answers.  The reply record of the head of the queue is the only one, so *)
(* pop_request takes the head off.                                         *)
LEMMA PopHead ==
    ASSUME NEW c \in ResourceSetRec, c.reqlist # <<>>,
           Ascending(c.reqlist, c.reqno), HeadBusy(c.reqlist),
           c.fault = "none", c.resset, c.conn, Backed(c, 2), resset_find(c.rset),
           c.replies = {Pending(Head(c.reqlist))}
    PROVE  /\ queued(c, Head(c.reqlist).reqno)
           /\ Idle(pop_request(c, Head(c.reqlist).reqno), c.replies, 2)
           /\ \E rest \in Seq(Request) :
                 /\ pop_request(c, Head(c.reqlist).reqno)
                       = [c EXCEPT !.reqlist = rest]
                 /\ Len(rest) = Len(c.reqlist) - 1
                 /\ \A j \in 1..Len(rest) : rest[j] = c.reqlist[j + 1]
<1>. DEFINE list  == c.reqlist
            reqno == Head(list).reqno
            i     == CHOOSE i \in DOMAIN list : list[i].reqno = reqno
            rest  == RemoveAt(list, 1)
            d     == [c EXCEPT !.reqlist = rest]
<1>1. /\ list \in Seq(Request) /\ Len(list) \in Nat /\ 1 \in 1..Len(list)
      /\ Head(list) = list[1] /\ DOMAIN list = 1..Len(list)
      BY DEF ResourceSetRec
<1>2. \A j \in 1..Len(list) : list[j] \in Request /\ list[j].reqno \in Nat
  <2>. HIDE DEF list
  <2>1. \A j \in 1..Len(list) : list[j] \in Request BY <1>1
  <2>. QED BY <2>1 DEF Request
<1>3. \A j \in 2..Len(list) : reqno < list[j].reqno
  <2>. SUFFICES ASSUME NEW j \in 2..Len(list) PROVE reqno < list[j].reqno
       OBVIOUS
  <2>1. j \in 1..Len(list) /\ 1 \in 1..(j - 1) BY <1>1
  <2>. QED BY <1>1, <2>1 DEF Ascending
<1>4. i = 1
  <2>1. 1 \in DOMAIN list /\ list[1].reqno = reqno BY <1>1
  <2>2. \A j \in DOMAIN list : list[j].reqno = reqno => j = 1
    <3>. SUFFICES ASSUME NEW j \in DOMAIN list, list[j].reqno = reqno, j # 1
                  PROVE FALSE
         OBVIOUS
    <3>1. j \in 2..Len(list) BY <1>1
    <3>. QED BY <1>1, <1>2, <1>3, <3>1
  <2>. QED BY <2>1, <2>2
<1>5. pop_request(c, reqno) = d
  <2>1. pop_request(c, reqno) = [c EXCEPT !.reqlist = RemoveAt(@, i)]
        BY DEF pop_request
  <2>. HIDE DEF i
  <2>. QED BY <1>4, <2>1
<1>6. queued(c, reqno) BY <1>1 DEF queued
<1>7. /\ rest \in Seq(Request) /\ Len(rest) = Len(list) - 1
      /\ \A j \in 1..Len(rest) : j + 1 \in 2..Len(list) /\ rest[j] = list[j + 1]
  <2>. HIDE DEF list
  <2>1. SubSeq(list, 1, 0) = <<>> BY <1>1
  <2>2. rest = <<>> \o SubSeq(list, 2, Len(list)) BY <2>1 DEF RemoveAt
  <2>3. \A j \in 2..Len(list) : list[j] \in Request BY <1>2
  <2>. DEFINE tail == SubSeq(list, 2, Len(list))
  <2>4. /\ tail \in Seq(Request)
        /\ Len(tail) = IF 2 <= Len(list) THEN Len(list) - 2 + 1 ELSE 0
        /\ \A j \in 1..(Len(list) - 2 + 1) : tail[j] = list[2 + j - 1]
        BY <1>1, <2>3, SubSeqProperties
  <2>5. <<>> \o tail = tail BY <2>4, ConcatEmptySeq
  <2>. HIDE DEF tail
  <2>6. rest = tail BY <2>2, <2>5 DEF tail
  <2>. HIDE DEF rest
  <2>7. Len(rest) = Len(list) - 1
    <3>. DEFINE n == Len(list)
                m == Len(rest)
    <3>1. n \in Nat /\ n # 0 BY <1>1
    <3>2. m = IF 2 <= n THEN n - 2 + 1 ELSE 0 BY <2>4, <2>6
    <3>. HIDE DEF n, m
    <3>3. m = n - 1 BY <3>1, <3>2
    <3>. QED BY <3>3 DEF n, m
  <2>8. ASSUME NEW j \in 1..Len(rest)
        PROVE  j + 1 \in 2..Len(list) /\ rest[j] = list[j + 1]
    <3>1. j \in 1..(Len(list) - 2 + 1) /\ 2 + j - 1 = j + 1
          BY <1>1, <2>7
    <3>2. tail[j] = list[2 + j - 1] BY <2>4, <3>1
    <3>3. j + 1 \in 2..Len(list) BY <1>1, <3>1
    <3>. QED BY <2>6, <3>1, <3>2, <3>3
  <2>. QED BY <2>4, <2>6, <2>7, <2>8
<1>. HIDE DEF rest
<1>8. /\ d \in ResourceSetRec /\ d.reqlist = rest /\ d.fault = c.fault
      /\ d.reqno = c.reqno /\ d.replies = c.replies /\ d.path = c.path
      /\ d.rset = c.rset /\ d.resset = c.resset /\ d.conn = c.conn
      BY <1>7 DEF ResourceSetRec
<1>. HIDE DEF d
<1>9. NoneBusy(rest)
      BY <1>1, <1>7 DEF NoneBusy, HeadBusy
<1>10. Ascending(rest, c.reqno)
  <2>. SUFFICES ASSUME NEW m \in 1..Len(rest)
                PROVE  /\ rest[m].reqno <= c.reqno
                       /\ \A j \in 1..(m - 1) : rest[j].reqno < rest[m].reqno
       BY DEF Ascending
  <2>. DEFINE x == m + 1
  <2>1. x \in 1..Len(list) /\ rest[m] = list[x]
        BY <1>1, <1>7
  <2>2. ASSUME NEW j \in 1..(m - 1) PROVE rest[j].reqno < rest[m].reqno
    <3>. DEFINE y == j + 1
    <3>1. j \in 1..Len(rest) /\ y \in 1..(x - 1) BY <1>1, <1>7
    <3>2. rest[j] = list[y] BY <1>7, <3>1
    <3>. HIDE DEF x, y
    <3>. QED BY <2>1, <3>1, <3>2 DEF Ascending
  <2>. HIDE DEF x
  <2>. QED BY <2>1, <2>2 DEF Ascending
<1>11. \A j \in 1..Len(rest) : Pending(rest[j]) \notin c.replies
  <2>. SUFFICES ASSUME NEW j \in 1..Len(rest)
                PROVE  Pending(rest[j]).reqno # Pending(Head(list)).reqno
       OBVIOUS
  <2>1. j + 1 \in 2..Len(list) /\ rest[j] = list[j + 1] BY <1>7
  <2>2. reqno < rest[j].reqno BY <1>3, <2>1
  <2>3. reqno \in Nat /\ rest[j].reqno \in Nat BY <1>1, <1>2, <1>3, <2>1
  <2>. QED BY <2>2, <2>3 DEF Pending
<1>12. Backed(d, 2) BY <1>8 DEF Backed
<1>13. Idle(d, c.replies, 2)
       BY <1>8, <1>9, <1>10, <1>11, <1>12 DEF Idle
<1>14. /\ pop_request(c, reqno) = [c EXCEPT !.reqlist = rest]
       /\ Len(rest) = Len(c.reqlist) - 1
       /\ \A j \in 1..Len(rest) : rest[j] = c.reqlist[j + 1]
       BY <1>5, <1>7 DEF d
<1>. QED BY <1>5, <1>6, <1>7, <1>13, <1>14

LEMMA AnsweredKeeps ==
    ASSUME NEW c \in ResourceSetRec, NEW msgtyp, NEW err \in BOOLEAN,
           NEW k \in Nat, Backed(c, k), resset_find(c.rset)
    PROVE  LET d == answered(c, msgtyp, err)
           IN  /\ d.life = c.life /\ d.fault = c.fault /\ d.reqlist = c.reqlist
               /\ d.reqno = c.reqno /\ d.conn = c.conn /\ d.resset = c.resset
               /\ d.replies = c.replies
               /\ resset_find(d.rset) /\ Backed(d, k)
<1>. DEFINE d == answered(c, msgtyp, err)
<1>1. c.rset \in Rset BY DEF ResourceSetRec
<1>2. /\ d.life = c.life /\ d.fault = c.fault /\ d.reqlist = c.reqlist
      /\ d.reqno = c.reqno /\ d.conn = c.conn /\ d.resset = c.resset
      /\ d.replies = c.replies /\ d.path = c.path
      BY DEF answered, ResourceSetRec
<1>3. /\ d.rset.state \in {"killed", "connected", c.rset.state}
      /\ d.rset.refcnt \in {c.rset.refcnt, c.rset.refcnt + 1}
  <2>1. \/ d.rset = [c.rset EXCEPT !.state = IF err THEN "killed" ELSE "connected"]
        \/ d.rset = [resset_ref(c.rset) EXCEPT !.state = "connected"]
        \/ d.rset = c.rset
        BY DEF answered, ResourceSetRec
  <2>. HIDE DEF d
  <2>. QED BY <1>1, <2>1 DEF resset_ref, Rset
<1>. HIDE DEF d
<1>4. resset_find(d.rset) BY <1>3 DEF resset_find
<1>5. Backed(d, k)
  <2>1. c.rset.refcnt \in Nat BY <1>1 DEF Rset
  <2>. QED BY <1>2, <1>3, <1>4, <2>1 DEF Backed
<1>. QED BY <1>2, <1>4, <1>5 DEF d

LEMMA StatusCbSettles ==
    ASSUME NEW c \in ResourceSetRec, c.reqlist # <<>>,
           Ascending(c.reqlist, c.reqno), HeadBusy(c.reqlist),
           c.fault = "none", c.resset, c.conn, Backed(c, 2), resset_find(c.rset),
           NEW reply, reply = Pending(Head(c.reqlist)), c.replies = {reply},
           NEW err \in BOOLEAN
    PROVE  Settled(status_cb(c, reply, err), {reply}, 2)
<1>. DEFINE p == pop_request(c, reply.reqno)
<1>1. reply.reqno = Head(c.reqlist).reqno BY DEF Pending
<1>2. queued(c, reply.reqno) /\ Idle(p, {reply}, 2) BY <1>1, PopHead
<1>. HIDE DEF p
<1>3. Settled([c EXCEPT !.fault = "stale"], {reply}, 2)
      BY DEF Settled, ResourceSetRec
<1>4. Settled(send_request(p), {reply}, 2) BY <1>2, SendRequestSettles
<1>5. Settled(send_request(connect_complete_cb(p, err)), {reply}, 2)
  <2>. DEFINE d == connect_complete_cb(p, err)
  <2>1. d \in ResourceSetRec
        BY <1>2 DEF Idle, connect_complete_cb, ResourceSetRec
  <2>2. /\ d.reqlist = p.reqlist /\ d.fault = p.fault
        /\ d.reqno = p.reqno /\ d.replies = p.replies /\ d.path = p.path
        /\ d.rset = p.rset /\ d.resset = p.resset /\ d.conn = p.conn
        BY <1>2 DEF Idle, connect_complete_cb, ResourceSetRec
  <2>. HIDE DEF d
  <2>3. Idle(d, {reply}, 2) BY <1>2, <2>1, <2>2 DEF Idle, Backed
  <2>4. Settled(send_request(d), {reply}, 2) BY <2>3, SendRequestSettles
  <2>. QED BY <2>4 DEF d
<1>6. Settled(disconnect_complete_cb(p), {reply}, 2)
  <2>. DEFINE d == disconnect_complete_cb(p)
  <2>1. /\ d.reqlist = <<>> /\ d.replies = p.replies /\ d.path = p.path
        /\ d.rset = p.rset /\ d.resset = p.resset /\ d.conn = p.conn
        BY <1>2 DEF Idle, disconnect_complete_cb, ResourceSetRec
  <2>. HIDE DEF d
  <2>2. Len(d.reqlist) = 0 BY <2>1
  <2>3. Settled(d, {reply}, 2)
        BY <1>2, <2>1, <2>2 DEF Settled, Idle, Backed, Ascending
  <2>. QED BY <2>3 DEF d
<1>. QED BY <1>2, <1>3, <1>4, <1>5, <1>6 DEF status_cb, p

LEMMA ReplyDoneSettles ==
    ASSUME NEW c \in ResourceSetRec, NEW reply, Settled(c, {reply}, 2)
    PROVE  QueueInv(reply_done(c, reply))
<1>. DEFINE r == resset_unref(resset_unref(c.rset))
            d == reply_done(c, reply)
<1>1. /\ d.fault = "none" => c.fault = "none"
      /\ d.reqlist = c.reqlist /\ d.reqno = c.reqno /\ d.conn = c.conn
      /\ d.resset = c.resset /\ d.path = c.path /\ d.rset = r
      /\ d.replies = c.replies \ {reply}
      BY DEF reply_done, ResourceSetRec
<1>2. ASSUME NEW k \in Nat, Backed(c, k + 2) PROVE Backed(d, k)
  <2>. HIDE DEF d
  <2>1. ASSUME resset_find(c.rset), c.rset.refcnt >= k + 2 + 1
        PROVE  resset_find(r) /\ r.refcnt >= k + 1
    <3>1. c.rset \in Rset BY DEF ResourceSetRec
    <3>. QED BY <2>1, <3>1 DEF resset_unref, resset_find, Rset
  <2>. HIDE DEF r
  <2>. QED BY <1>1, <1>2, <2>1 DEF Backed
<1>. HIDE DEF d
<1>3. ASSUME d.fault = "none", c.reqlist = <<>>
      PROVE  d.replies = {} /\ Backed(d, 0)
  <2>1. c.replies = {reply} /\ Backed(c, 0 + 2) BY <1>1, <1>3 DEF Settled
  <2>. QED BY <1>1, <1>2, <2>1
<1>4. ASSUME d.fault = "none", c.reqlist # <<>>
      PROVE  /\ d.replies = {} \cup {Pending(Head(d.reqlist))}
             /\ Backed(d, 0 + 2)
             /\ HeadBusy(d.reqlist) /\ d.resset
  <2>1. /\ HeadBusy(c.reqlist) /\ c.resset /\ Backed(c, 2 + 2)
        /\ c.replies = {reply} \cup {Pending(Head(c.reqlist))}
        /\ Pending(Head(c.reqlist)) \notin {reply}
        BY <1>1, <1>4 DEF Settled
  <2>2. Backed(d, 2) BY <1>2, <2>1
  <2>. QED BY <1>1, <2>1, <2>2
<1>. QED BY <1>1, <1>3, <1>4 DEF QueueInv, Settled, d

LEMMA StatusMethodSettles ==
    ASSUME NEW c \in ResourceSetRec, QueueInv(c), c.fault = "none",
           NEW reply \in c.replies, NEW err \in BOOLEAN
    PROVE  QueueInv(status_method(c, reply, err))
<1>. DEFINE t == reply.msgtyp
            a == answered(c, t, err)
            b == status_cb(a, reply, err)
<1>1. c.reqlist # <<>> BY DEF QueueInv, Settled
<1>2. /\ Ascending(c.reqlist, c.reqno) /\ HeadBusy(c.reqlist)
      /\ c.resset /\ c.conn /\ Backed(c, 2)
      /\ c.replies = {Pending(Head(c.reqlist))}
      /\ reply = Pending(Head(c.reqlist)) /\ c.replies = {reply}
      BY <1>1 DEF QueueInv, Settled
<1>3. CASE ~resset_find(c.rset)
  <2>1. [c EXCEPT !.fault = "stale"].fault = "stale" BY DEF ResourceSetRec
  <2>. QED BY <1>3, <2>1, FaultSettles DEF status_method, QueueInv
<1>4. CASE resset_find(c.rset)
  <2>. HIDE DEF t
  <2>1. a \in ResourceSetRec BY AnsweredType
  <2>2. /\ a.fault = c.fault /\ a.reqlist = c.reqlist
        /\ a.reqno = c.reqno /\ a.conn = c.conn /\ a.resset = c.resset
        /\ a.replies = c.replies
        /\ resset_find(a.rset) /\ Backed(a, 2)
    <3>1. Backed(c, 2) BY <1>2
    <3>2. \A k \in Nat : Backed(c, k) =>
             /\ a.fault = c.fault /\ a.reqlist = c.reqlist
             /\ a.reqno = c.reqno /\ a.conn = c.conn /\ a.resset = c.resset
             /\ a.replies = c.replies
             /\ resset_find(a.rset) /\ Backed(a, k)
          BY <1>4, AnsweredKeeps
    <3>. HIDE DEF a
    <3>. QED BY <3>1, <3>2
  <2>3. b \in ResourceSetRec BY <2>1, StatusCbType
  <2>. HIDE DEF a
  <2>4. Settled(b, {reply}, 2)
        BY <1>1, <1>2, <2>1, <2>2, StatusCbSettles
  <2>. HIDE DEF b
  <2>5. QueueInv(reply_done(b, reply)) BY <2>3, <2>4, ReplyDoneSettles
  <2>. QED BY <1>4, <2>5 DEF status_method, a, b, t
<1>. QED BY <1>3, <1>4
-----------------------------------------------------------------------------
(* Notifications and the loss of the manager leave the queue alone.        *)
LEMMA HandlersSettle ==
    ASSUME NEW c \in ResourceSetRec, QueueInv(c), c.fault = "none"
    PROVE  /\ QueueInv(disconnect_from_manager(c))
           /\ \A granted, auto : QueueInv(receive_grant_message(c, granted, auto))
           /\ QueueInv(receive_advice_message(c))
           /\ QueueInv(link_down(c))
<1>1. QueueInv([c EXCEPT !.fault = "stale"])
      BY DEF QueueInv, Settled, ResourceSetRec
<1>2. QueueInv([c EXCEPT !.client = "created"])
      BY SameQueue DEF ResourceSetRec
<1>3. QueueInv([c EXCEPT !.acquire = FALSE])
      BY SameQueue DEF ResourceSetRec
<1>4. QueueInv(disconnect_from_manager(c))
      BY <1>1, <1>2 DEF disconnect_from_manager
<1>5. \A granted, auto : QueueInv(receive_grant_message(c, granted, auto))
      BY <1>1, <1>3 DEF receive_grant_message
<1>6. QueueInv(receive_advice_message(c))
      BY <1>1 DEF receive_advice_message
<1>7. ASSUME NEW d \in ResourceSetRec, QueueInv(d)
      PROVE  QueueInv(dbus_disconnect_from_manager(d))
  <2>. DEFINE e == dbus_disconnect_from_manager(d)
  <2>1. /\ e.reqlist = d.reqlist /\ e.fault = d.fault /\ e.reqno = d.reqno
        /\ e.replies = d.replies /\ e.resset = d.resset /\ e.conn = d.conn
        /\ ~e.path
        BY DEF dbus_disconnect_from_manager, ResourceSetRec
  <2>. HIDE DEF e
  <2>. QED BY <1>7, <2>1, SameQueue DEF e
<1>8. disconnect_from_manager(c) \in ResourceSetRec BY HandlersType
<1>9. QueueInv(link_down(c)) BY <1>4, <1>7, <1>8 DEF link_down
<1>. QED BY <1>4, <1>5, <1>6, <1>9-----------------------------------------------------------------------------
(* The process.                                                            *)
Queues == \A s \in Sets : QueueInv(cs[s])

LEMMA InitQueues == Init => Queues
<1>1. QueueInv(NoSet)
  <2>1. Len(<<>>) = 0 OBVIOUS
  <2>. QED BY <2>1 DEF NoSet, QueueInv, Settled, Ascending, Backed
<1>. QED BY <1>1 DEF Init, Queues

LEMMA AppQueues ==
    ASSUME TypeOK, Queues, NEW s \in Sets, App(s)
    PROVE  Queues'
<1>1. ASSUME NEW after, CallAPI(s, after), QueueInv(after)
      PROVE  Queues'
      BY <1>1 DEF CallAPI, Queues, TypeOK
<1>2. cs[s] \in ResourceSetRec /\ QueueInv(cs[s]) BY DEF TypeOK, Queues
<1>3. cs[s].fault = "none"
      BY DEF App, Create, Destroy, Acquire, Release, ConfigureResources,
             Configure, CallAPI, Running
<1>4. ASSUME NEW f \in FlagChoice
      PROVE  f.mandatory \in SUBSET Resource /\ f.optional \in SUBSET Resource
      BY ChoiceAssumption
<1>5. CASE Create(s)
      BY <1>1, <1>4, <1>5, CreateSettles, ChoiceAssumption DEF Create
<1>6. CASE Destroy(s)
      BY <1>1, <1>2, <1>3, <1>6, OperationsSettle DEF Destroy
<1>7. CASE Acquire(s)
      BY <1>1, <1>2, <1>3, <1>7, OperationsSettle DEF Acquire
<1>8. CASE Release(s)
      BY <1>1, <1>2, <1>3, <1>8, OperationsSettle DEF Release
<1>9. CASE ConfigureResources(s)
      BY <1>1, <1>2, <1>3, <1>4, <1>9, ConfigureResourcesSettles
         DEF ConfigureResources
<1>10. CASE Configure(s)
       BY <1>1, <1>2, <1>3, <1>10, ConfigureSettles, ChoiceAssumption
          DEF Configure
<1>. QED BY <1>5, <1>6, <1>7, <1>8, <1>9, <1>10 DEF App

LEMMA MainLoopQueues ==
    ASSUME TypeOK, Queues, MainLoop
    PROVE  Queues'
<1>1. ASSUME NEW s \in Sets
      PROVE  /\ cs[s] \in ResourceSetRec /\ QueueInv(cs[s])
             /\ cs[s].fault = "none"
      BY DEF TypeOK, Queues, MainLoop, DispatchAnswer, DispatchNotice,
             DispatchUp, DispatchDown, Dispatch, Running
<1>2. CASE DispatchAnswer
  <2>. DEFINE m == Head(inq)
  <2>1. m \in Answer BY <1>2, InqType DEF DispatchAnswer, Dispatch
  <2>2. m.set \in Sets /\ m.err \in BOOLEAN BY <2>1 DEF Answer
  <2>3. CASE m.reply \in cs[m.set].replies
    <3>1. QueueInv(status_method(cs[m.set], m.reply, m.err))
          BY <1>1, <2>2, <2>3, StatusMethodSettles
    <3>2. cs' = [cs EXCEPT ![m.set] = status_method(@, m.reply, m.err)]
          BY <1>2, <2>3 DEF DispatchAnswer
    <3>. HIDE DEF m
    <3>. QED BY <3>1, <3>2 DEF Queues, TypeOK
  <2>4. CASE m.reply \notin cs[m.set].replies
        BY <1>2, <2>4 DEF DispatchAnswer, Queues
  <2>. QED BY <2>3, <2>4
<1>3. CASE DispatchNotice
  <2>. DEFINE m == Head(inq)
              c == cs[m.set]
              after == CASE m.kind = "grant"   ->
                                receive_grant_message(c, TRUE, m.set \in AutoRelease)
                         [] m.kind = "revoke"  ->
                                receive_grant_message(c, FALSE, m.set \in AutoRelease)
                         [] m.kind = "release" -> receive_release_message(c)
                         [] m.kind = "unregister" -> disconnect_from_manager(c)
                         [] OTHER -> receive_advice_message(c)
  <2>1. m \in Notice BY <1>3, InqType DEF DispatchNotice, Dispatch
  <2>2. m.set \in Sets BY <2>1 DEF Notice
  <2>3. QueueInv(after) BY <1>1, <2>2, HandlersSettle, OperationsSettle
  <2>4. cs' = [cs EXCEPT ![m.set] = after] \/ cs' = cs
        BY <1>3 DEF DispatchNotice
  <2>. HIDE DEF after, m
  <2>. QED BY <2>3, <2>4 DEF Queues, TypeOK
<1>4. CASE DispatchUp
  <2>1. \A s \in Sets : QueueInv(manager_is_up(cs[s]))
        BY <1>1, ManagerIsUpSettles
  <2>. QED BY <1>4, <2>1 DEF DispatchUp, Queues
<1>5. CASE DispatchDown
  <2>1. \A s \in Sets : QueueInv(link_down(cs[s]))
        BY <1>1, HandlersSettle
  <2>. QED BY <1>5, <2>1 DEF DispatchDown, Queues
<1>. QED BY <1>2, <1>3, <1>4, <1>5 DEF MainLoop

LEMMA TimeoutQueues ==
    ASSUME TypeOK, Queues, NEW s \in Sets, Timeout(s)
    PROVE  Queues'
<1>1. cs[s] \in ResourceSetRec /\ QueueInv(cs[s]) /\ cs[s].fault = "none"
      BY DEF TypeOK, Queues, Timeout, Running
<1>2. PICK reply \in cs[s].replies :
         cs' = [cs EXCEPT ![s] = status_method(@, reply, TRUE)]
      BY DEF Timeout
<1>3. QueueInv(status_method(cs[s], reply, TRUE))
      BY <1>1, StatusMethodSettles
<1>. QED BY <1>2, <1>3 DEF Queues, TypeOK

(* The bus and the manager only touch what is on the wire.                 *)
LEMMA EnvironmentQueues ==
    ASSUME TypeOK, Queues,
           \/ \E s \in Sets : Bus(s) \/ ManagerNotifies(s)
           \/ ManagerStarts
           \/ ManagerDies
           \/ ManagerReplaced
    PROVE  Queues'
<1>1. ASSUME NEW c \in ResourceSetRec, QueueInv(c), NEW wire, NEW lost
      PROVE  QueueInv([c EXCEPT !.wire = wire, !.lost = lost])
      BY <1>1, SameQueue DEF ResourceSetRec
<1>2. ASSUME NEW c \in ResourceSetRec, QueueInv(c), NEW lost
      PROVE  QueueInv([c EXCEPT !.lost = lost])
      BY <1>2, SameQueue DEF ResourceSetRec
<1>3. \A s \in Sets : cs[s] \in ResourceSetRec /\ QueueInv(cs[s])
      BY DEF TypeOK, Queues
<1>4. ASSUME NEW s \in Sets, NEW answers, TakeCall(s, answers) PROVE Queues'
  <2>. DEFINE lost == IF answers = <<>>
                      THEN cs[s].lost \cup {Head(cs[s].wire).reqno}
                      ELSE cs[s].lost
              after == [cs[s] EXCEPT !.wire = Tail(cs[s].wire), !.lost = lost]
  <2>1. cs' = [cs EXCEPT ![s] = after]
        BY <1>4 DEF TakeCall, TypeOK, ResourceSetRec
  <2>2. QueueInv(after) BY <1>1, <1>3
  <2>. HIDE DEF after
  <2>. QED BY <1>3, <2>1, <2>2 DEF Queues, TypeOK
<1>5. ASSUME NEW s \in Sets, NoReply(s) PROVE Queues'
  <2>1. PICK reply : cs' = [cs EXCEPT ![s].lost = @ \ {reply.reqno}]
        BY <1>5 DEF NoReply
  <2>2. QueueInv([cs[s] EXCEPT !.lost = @ \ {reply.reqno}]) BY <1>2, <1>3
  <2>. QED BY <1>3, <2>1, <2>2 DEF Queues, TypeOK
<1>6. ASSUME NEW s \in Sets, Bus(s) PROVE Queues'
      BY <1>4, <1>5, <1>6 DEF Bus, ManagerHandles, Bounce
<1>7. ASSUME LostWithManager PROVE Queues'
  <2>1. PICK n \in [Sets -> 0..(MaxTimeouts + 1)] :
           cs' = [s \in Sets |->
                    [cs[s] EXCEPT !.wire = SubSeq(@, n[s] + 1, Len(@)),
                                  !.lost = @ \cup {cs[s].wire[i].reqno :
                                                      i \in 1..n[s]}]]
        BY <1>7 DEF LostWithManager
  <2>. QED BY <1>1, <1>3, <2>1 DEF Queues
<1>8. ASSUME UNCHANGED cs PROVE Queues' BY <1>8 DEF Queues
<1>. QED BY <1>6, <1>7, <1>8
         DEF ManagerNotifies, ManagerStarts, ManagerDies, ManagerReplaced

LEMMA NextQueues == TypeOK /\ Queues /\ [Next]_vars => Queues'
<1>. SUFFICES ASSUME TypeOK, Queues, [Next]_vars PROVE Queues'
     OBVIOUS
<1>1. CASE UNCHANGED vars BY <1>1 DEF Queues, vars
<1>. QED BY <1>1, AppQueues, MainLoopQueues, TimeoutQueues, EnvironmentQueues
         DEF Next

LEMMA QueuesDisciplined == TypeOK /\ Queues => OneOutstanding
<1>. SUFFICES ASSUME TypeOK, NEW c \in ResourceSetRec, c.fault = "none",
                     QueueInv(c)
              PROVE  QueueDiscipline(c)
     BY DEF OneOutstanding, Running, TypeOK, Queues
<1>1. c.reqlist \in Seq(Request) /\ Ascending(c.reqlist, c.reqno)
      BY DEF ResourceSetRec, QueueInv, Settled
<1>2. ASSUME NEW i \in DOMAIN c.reqlist
      PROVE  c.reqlist[i].busy = (i = 1)
  <2>1. c.reqlist # <<>> /\ i \in 1..Len(c.reqlist) BY <1>1
  <2>2. HeadBusy(c.reqlist) BY <2>1 DEF QueueInv, Settled
  <2>3. c.reqlist[i] \in Request BY <1>1
  <2>4. c.reqlist[i].busy \in BOOLEAN BY <2>3 DEF Request
  <2>5. i = 1 => c.reqlist[i].busy BY <2>2 DEF HeadBusy
  <2>6. i # 1 => i \in 2..Len(c.reqlist) BY <1>1, <2>1
  <2>7. i # 1 => ~c.reqlist[i].busy BY <2>2, <2>6 DEF HeadBusy
  <2>. QED BY <2>4, <2>5, <2>7
<1>3. c.replies = IF c.reqlist = <<>> THEN {}
                  ELSE {[msgtyp |-> Head(c.reqlist).msgtyp,
                         reqno  |-> Head(c.reqlist).reqno]}
      BY DEF QueueInv, Settled, Pending
<1>. QED BY <1>1, <1>2, <1>3 DEF QueueDiscipline, Ascending

(* However many sets there are, and however answers, timeouts, deaths of   *)
(* the manager and calls of the application interleave: in a process that  *)
(* is not at fault the head of a set's request queue (send_request), and   *)
(* nothing else, has been sent, and the only reply record (resconn_reply_t)*)
(* that refers to the set is that of the head.                             *)
THEOREM OneOutstandingAlways == Spec => []OneOutstanding
<1>1. Init => TypeOK /\ Queues BY InitType, InitQueues
<1>2. TypeOK /\ Queues /\ [Next]_vars => (TypeOK /\ Queues)'
      BY NextType, NextQueues
<1>3. TypeOK /\ Queues => OneOutstanding BY QueuesDisciplined
<1>. QED BY <1>1, <1>2, <1>3, PTL DEF Spec
=============================================================================
