----------------------------- MODULE ResourceSet -----------------------------
(***************************************************************************)
(* resource.c, one resource_set_t: the public operations, the queue of     *)
(* requests and the callbacks that the connection layer makes.  Every      *)
(* operator is a function of resource.c (or a message handler installed by *)
(* it) run to completion: it maps the record c of the set to the record    *)
(* after the call.  Besides the fields of module ResConn, c has            *)
(*   life       the resource_set_t: not allocated, in rslist, or freed     *)
(*   held       the application still owns the pointer                     *)
(*   conn       rs->resconn is not NULL                                    *)
(*   client     created / connecting / ready                               *)
(*   acquire    rs->acquire                                                *)
(*   resset     rs->resset is not NULL; it dangles when the resset_t is    *)
(*              freed, because nothing ever resets it                      *)
(*   resources  rs->resources                                              *)
(*   configs    rs->configs, newest first, at most one per kind            *)
(*   reqlist    rs->reqlist, oldest first                                  *)
(*   reqno      the last request number given to this set                  *)
(*   lost       request numbers no answer will come for (module            *)
(*              ResourceClient)                                            *)
(*   denied     history: the last REGISTER of the set failed               *)
(*   fault      "spin": send_request loops for ever;  "stale": freed       *)
(*              memory is read.  The process does nothing after either.    *)
(* Request numbers come from one counter for all sets; only their order    *)
(* within a set is ever used, so each set has its own.                     *)
(***************************************************************************)
EXTENDS ResConn, SequencesExt

CONSTANT StreamValue        \* groups, stream names and process ids

MsgType == {"register", "unregister", "update", "audio", "video",
            "acquire", "release"}

Kind == {"audio", "video"}  \* configurable resources

Resource == Kind \cup {"other"}

ResourceFlags == [all: SUBSET Resource, opt: SUBSET Resource]

NoFlags == [all |-> {}, opt |-> {}]

(* Settings of a stream; NoValue is a NULL or 0.  Of a video stream only   *)
(* pid is ever set.                                                        *)
Setting == {"group", "pid", "stream"}

NoValue == "none"

ConfigValue == [Setting -> StreamValue \cup {NoValue}]

NoSettings == <<>>          \* no configuration at all

Request == [msgtyp: MsgType, reqno: Nat, busy: BOOLEAN]

Config == [kind: Kind, value: ConfigValue]

Reply == [msgtyp: MsgType, reqno: Nat]

Call == [msgtyp: MsgType, reqno: Nat, resources: ResourceFlags,
         value: ConfigValue \cup {NoSettings}]

ResourceSetRec ==
    [life: {"none", "live", "freed"}, held: BOOLEAN, conn: BOOLEAN,
     client: {"created", "connecting", "ready"}, acquire: BOOLEAN,
     resset: BOOLEAN, resources: ResourceFlags, configs: Seq(Config),
     reqlist: Seq(Request), reqno: Nat, rset: Rset, path: BOOLEAN,
     replies: SUBSET Reply, wire: Seq(Call), lost: SUBSET Nat,
     fault: {"none", "spin", "stale"}, revived: BOOLEAN,
     denied: BOOLEAN]

NoSet ==
    [life |-> "none", held |-> FALSE, conn |-> FALSE, client |-> "created",
     acquire |-> FALSE, resset |-> FALSE, resources |-> NoFlags,
     configs |-> <<>>, reqlist |-> <<>>, reqno |-> 0, rset |-> Freed,
     path |-> FALSE, replies |-> {}, wire |-> <<>>, lost |-> {},
     fault |-> "none", revived |-> FALSE, denied |-> FALSE]
-----------------------------------------------------------------------------
(* The messages: what send_xxx_message puts into the call it makes.        *)

configured(c, kind) == \E i \in DOMAIN c.configs : c.configs[i].kind = kind

config_value(c, kind) ==
    LET i == CHOOSE i \in DOMAIN c.configs : c.configs[i].kind = kind
    IN  c.configs[i].value

message(c, rq) ==
    [msgtyp    |-> rq.msgtyp,
     reqno     |-> rq.reqno,
     resources |-> IF rq.msgtyp \in {"register", "update"} THEN c.resources
                                                           ELSE NoFlags,
     value     |-> IF rq.msgtyp \in Kind THEN config_value(c, rq.msgtyp)
                                         ELSE NoSettings]

(* REGISTER succeeds when rs->resset is not NULL afterwards.               *)
send_register_message(c, rq) ==
    IF c.conn
    THEN LET d == resconn_connect(c, message(c, rq))
         IN  [d EXCEPT !.resset = @ \/ resset_find(d.rset)]
    ELSE c

(* The other messages go out on a connected set; AUDIO and VIDEO only when *)
(* there is such a configuration.                                          *)
sendable(c, msgtyp) ==
    /\ c.resset /\ may_send(c)
    /\ msgtyp \in Kind => configured(c, msgtyp)

send_message(c, rq) ==
    CASE rq.msgtyp = "register"   -> send_register_message(c, rq)
      [] rq.msgtyp = "unregister" -> resconn_disconnect(c, message(c, rq))
      [] OTHER                    -> dbus_send_message(c, message(c, rq))

(* They look at resset->userdata first, whatever rs->resset points to.     *)
dangling(c) == c.resset /\ ~resset_find(c.rset)
-----------------------------------------------------------------------------
(* The request queue.                                                      *)

(* One turn of send_request's loop for a REGISTER, or for the first        *)
(* request that can be sent: after a REGISTER that fails the loop goes on  *)
(* with client_created.                                                    *)
transmit(c) ==
    LET rq   == Head(c.reqlist)
        sent == send_message(c, rq)
    IN  IF rq.msgtyp = "register" /\ ~sent.resset
        THEN [c EXCEPT !.client  = "created",
                       !.denied  = TRUE,
                       !.reqlist = Tail(@),
                       !.fault   = IF Tail(c.reqlist) = <<>> THEN @ ELSE "spin"]
        ELSE [sent EXCEPT !.reqlist = <<[rq EXCEPT !.busy = TRUE]>>
                                         \o Tail(c.reqlist)]

(* Requests that cannot be sent are dropped until one can, or the queue is *)
(* empty.                                                                  *)
first_sent(c) ==
    SelectInSeq(c.reqlist, LAMBDA rq : \/ rq.msgtyp = "register"
                                       \/ sendable(c, rq.msgtyp))

send_first(c) ==
    IF first_sent(c) = 0
    THEN [c EXCEPT !.reqlist = <<>>]
    ELSE transmit([c EXCEPT !.reqlist = SubSeq(@, first_sent(c), Len(@))])

(* Mutant of send_request: does not look whether the head is busy. *)
send_request_busy_too(c) ==
    IF c.reqlist = <<>> \/ c.client = "created" THEN c ELSE send_first(c)

(* With client_created and a request to send, `continue' repeats the loop  *)
(* with nothing changed.                                                   *)
send_request(c) ==
    CASE c.reqlist = <<>> \/ Head(c.reqlist).busy -> c
      [] OTHER ->
           CASE c.client = "created" -> [c EXCEPT !.fault = "spin"]
             [] c.client # "created" /\ Head(c.reqlist).msgtyp # "register"
                                     /\ dangling(c) ->
                    [c EXCEPT !.fault = "stale"]
             [] OTHER -> send_first(c)

(* Mutant of enqueue: a new request goes to the front of the list. *)
enqueue_first(c, msgtyps) ==
    [c EXCEPT !.reqno   = @ + Len(msgtyps),
              !.reqlist = [i \in 1..Len(msgtyps) |->
                             [msgtyp |-> msgtyps[i],
                              reqno  |-> c.reqno + i,
                              busy   |-> FALSE]] \o @]

(* Appends one request for each of the message types.                      *)
enqueue(c, msgtyps) ==
    [c EXCEPT !.reqno   = @ + Len(msgtyps),
              !.reqlist = @ \o [i \in 1..Len(msgtyps) |->
                                  [msgtyp |-> msgtyps[i],
                                   reqno  |-> c.reqno + i,
                                   busy   |-> FALSE]]]

push_request(c, msgtyp) ==
    IF c.client = "created" THEN c ELSE send_request(enqueue(c, <<msgtyp>>))
-----------------------------------------------------------------------------
(* Connecting.  An audio configuration falls through to the video case, so *)
(* it asks for both messages.                                              *)

config_messages(kind) ==
    IF kind = "audio" THEN <<"audio", "video">> ELSE <<"video">>

(* Mutant of connect_messages: an earlier acquisition is forgotten. *)
connect_messages_no_acquire(c) ==
       (IF Len(c.configs) > 0 THEN config_messages(c.configs[1].kind) ELSE <<>>)
    \o (IF Len(c.configs) > 1 THEN config_messages(c.configs[2].kind) ELSE <<>>)

connect_messages(c) ==
       (IF Len(c.configs) > 0 THEN config_messages(c.configs[1].kind) ELSE <<>>)
    \o (IF Len(c.configs) > 1 THEN config_messages(c.configs[2].kind) ELSE <<>>)
    \o (IF c.acquire THEN <<"acquire">> ELSE <<>>)

(* REGISTER either fails, and the later push_requests see client_created   *)
(* and do nothing, or leaves a busy request at the head, and they only     *)
(* append.                                                                 *)
connect_to_manager(c) ==
    LET registering == push_request([c EXCEPT !.client = "connecting",
                                               !.denied = FALSE], "register")
    IN  IF registering.client = "created" \/ registering.fault # "none"
        THEN registering
        ELSE enqueue(registering, connect_messages(registering))

(* Mutant of manager_is_up: skips sets that have had a resset_t. *)
manager_is_up_first_time(c) ==
    IF c.life = "live" /\ c.conn /\ c.client = "created" /\ ~c.resset
    THEN connect_to_manager(c)
    ELSE c

manager_is_up(c) ==
    IF c.life = "live" /\ c.conn /\ c.client = "created"
    THEN connect_to_manager(c)
    ELSE c
-----------------------------------------------------------------------------
(* The public operations, called with a set the application still holds.   *)

resource_set_create(conn, mandatory, optional) ==
    connect_to_manager(
        [NoSet EXCEPT !.life = "live", !.held = TRUE, !.conn = conn,
                      !.resources = [all |-> mandatory \cup optional,
                                     opt |-> optional \ mandatory]])

resource_set_destroy(c) == push_request([c EXCEPT !.held = FALSE], "unregister")

resource_set_acquire(c) ==
    IF c.acquire THEN c ELSE push_request([c EXCEPT !.acquire = TRUE], "acquire")

resource_set_release(c) ==
    IF c.acquire THEN push_request([c EXCEPT !.acquire = FALSE], "release") ELSE c

resource_set_configure_resources(c, mandatory, optional) ==
    LET flags == [all |-> mandatory \cup optional, opt |-> optional \ mandatory]
    IN  IF flags = c.resources THEN c
        ELSE push_request([c EXCEPT !.resources = flags], "update")

(* Whether a first call makes a configuration.  An audio stream of which   *)
(* only the process is named is forgotten.                                 *)
audio_config_create(given) ==
    \/ given["group"] # NoValue
    \/ given["pid"] = NoValue
    \/ given["stream"] # NoValue

video_config_create(given) == given["pid"] # NoValue

creates(kind, given) == IF kind = "audio" THEN audio_config_create(given)
                                          ELSE video_config_create(given)

(* What a later call changes; what it does not give stays.                 *)
audio_config_update(old, given) ==
    [f \in Setting |-> IF given[f] = NoValue THEN old[f] ELSE given[f]]

video_config_update(old, given) ==
    IF given["pid"] = NoValue THEN old ELSE [old EXCEPT !["pid"] = given["pid"]]

merged(kind, old, given) == IF kind = "audio" THEN audio_config_update(old, given)
                                              ELSE video_config_update(old, given)

(* An existing configuration is changed in place, a new one becomes the    *)
(* first of the list.                                                      *)
configs_after(c, kind, given) ==
    LET updated == [i \in DOMAIN c.configs |->
                      IF c.configs[i].kind = kind
                      THEN [kind |-> kind, value |-> merged(kind, c.configs[i].value, given)]
                      ELSE c.configs[i]]
        created == IF creates(kind, given)
                   THEN <<[kind |-> kind, value |-> given]>> \o c.configs
                   ELSE c.configs
    IN  IF configured(c, kind) THEN updated ELSE created

(* resource_set_configure_audio and resource_set_configure_video: a        *)
(* message is due when something changed.                                  *)
configure(c, kind, given) ==
    LET configs == configs_after(c, kind, given)
    IN  IF kind \in c.resources.all /\ configs # c.configs
        THEN push_request([c EXCEPT !.configs = configs], kind)
        ELSE c
-----------------------------------------------------------------------------
(* Callbacks from the connection layer.                                    *)

(* Mutant of connect_complete_cb: a refused client is ready, too. *)
connect_complete_cb_ready(c, err) ==
    [c EXCEPT !.client = "ready", !.denied = err]

connect_complete_cb(c, err) ==
    [c EXCEPT !.client = IF err THEN "created" ELSE "ready", !.denied = err]

disconnect_complete_cb(c) == [c EXCEPT !.life = "freed", !.reqlist = <<>>]

queued(c, reqno) == \E i \in DOMAIN c.reqlist : c.reqlist[i].reqno = reqno

pop_request(c, reqno) ==
    LET i == CHOOSE i \in DOMAIN c.reqlist : c.reqlist[i].reqno = reqno
    IN  [c EXCEPT !.reqlist = RemoveAt(@, i)]

(* Mutants of status_cb: the next request is not sent; a failed request    *)
(* stays in the queue.                                                     *)
status_cb_no_next(c, reply, err) ==
    LET popped == pop_request(c, reply.reqno)
    IN  CASE ~(c.resset /\ queued(c, reply.reqno)) -> c
          [] OTHER ->
               CASE reply.msgtyp = "register"   -> connect_complete_cb(popped, err)
                 [] reply.msgtyp = "unregister" -> disconnect_complete_cb(popped)
                 [] OTHER                       -> popped

status_cb_keeps_failed(c, reply, err) ==
    LET popped == IF err THEN c ELSE pop_request(c, reply.reqno)
    IN  CASE c.life = "freed" -> [c EXCEPT !.fault = "stale"]
          [] c.life # "freed" /\ ~(c.resset /\ queued(c, reply.reqno)) -> c
          [] OTHER ->
               CASE reply.msgtyp = "register" ->
                        send_request(connect_complete_cb(popped, err))
                 [] reply.msgtyp = "unregister" -> disconnect_complete_cb(popped)
                 [] OTHER -> send_request(popped)

(* rset->userdata may be a freed resource_set_t: nothing ever resets it.   *)
status_cb(c, reply, err) ==
    LET popped == pop_request(c, reply.reqno)
    IN  CASE c.life = "freed" -> [c EXCEPT !.fault = "stale"]
          [] c.life # "freed" /\ ~(c.resset /\ queued(c, reply.reqno)) -> c
          [] OTHER ->
               CASE reply.msgtyp = "register" ->
                        send_request(connect_complete_cb(popped, err))
                 [] reply.msgtyp = "unregister" -> disconnect_complete_cb(popped)
                 [] OTHER -> send_request(popped)

(* dbus-proto.c, status_method: an answer, or an error in place of one.    *)
status_method(c, reply, err) ==
    IF ~resset_find(c.rset) THEN [c EXCEPT !.fault = "stale"]
    ELSE reply_done(status_cb(answered(c, reply.msgtyp, err), reply, err), reply)

(* Mutant of disconnect_from_manager: the client stays ready. *)
disconnect_from_manager_ready(c) ==
    IF c.life = "freed" THEN [c EXCEPT !.fault = "stale"] ELSE c

disconnect_from_manager(c) ==
    CASE c.life = "freed" -> [c EXCEPT !.fault = "stale"]
      [] c.life # "freed" /\ c.resset -> [c EXCEPT !.client = "created"]
      [] OTHER -> c

(* An empty grant to an auto-release set ends the acquisition.             *)
receive_grant_message(c, granted, auto) ==
    CASE c.life = "freed" -> [c EXCEPT !.fault = "stale"]
      [] c.life # "freed" /\ c.resset /\ ~granted /\ auto ->
             [c EXCEPT !.acquire = FALSE]
      [] OTHER -> c

receive_advice_message(c) ==
    IF c.life = "freed" THEN [c EXCEPT !.fault = "stale"] ELSE c

receive_release_message(c) ==
    CASE c.life = "freed" -> [c EXCEPT !.fault = "stale"]
      [] c.life # "freed" /\ c.resset ->
             push_request([c EXCEPT !.acquire = FALSE], "release")
      [] OTHER -> c

(* res-conn.c, client_link_handler with RESPROTO_LINK_DOWN.                *)
link_down(c) ==
    LET told == IF c.rset.state = "connected" THEN disconnect_from_manager(c)
                                              ELSE c
    IN  IF resset_find(c.rset) THEN dbus_disconnect_from_manager(told) ELSE c
=============================================================================
