----------------------------- MODULE ResourceCli -----------------------------
(***************************************************************************)
(* client/client.c: the command line client, one resource set driven by    *)
(* commands and by what the manager sends.  It uses the connection layer   *)
(* directly (module ResConn), without the request queue of resource.c:     *)
(* any number of requests may be pending, and what a request was is looked *)
(* up in a table indexed by its number modulo the length of the table.     *)
(*                                                                         *)
(* A command is a line of input; the client takes one only while it        *)
(* accepts input.  Several lines read at once are as good as lines read    *)
(* one by one, since only "quit" changes accept in between, and behind a   *)
(* quit nothing is of interest.  Tracing (option -t) is on.  The bus and   *)
(* the manager are the environment, as in module ResourceClient.           *)
(***************************************************************************)
EXTENDS ResConn

CONSTANTS
    Resource,       \* resources a set may consist of
    Options,        \* resource flags the client is started with (-o, -s, -m)
    Sendable,       \* messages a user sends by a command without arguments
    Updates,        \* resource flags a user types behind "update"
    Floods,         \* counts a user types behind "flood", 0 for an invalid one
    HashDim,        \* REQHASH_DIM
    Refused,        \* messages the manager may answer with an error
    Outcomes,       \* what may follow an ACQUIRE: "full", "empty" or no grant
    Notices,        \* notifications the manager may send on its own
    MaxOps,         \* bound: commands
    MaxStarts,      \* bound: starts of the manager
    MaxDeaths,      \* bound: deaths of the manager, replaced at once or not
    MaxNotices,     \* bound: notifications, and empty grants or none for
                    \* an ACQUIRE or an UPDATE
    MaxTimeouts,    \* bound: calls that time out although an answer is due
    MaxReqno        \* bound: request number up to which the manager acts

Flags == [all: SUBSET Resource, opt: SUBSET Resource,
          share: SUBSET Resource, mask: SUBSET Resource]

MsgType == {"register", "unregister", "update", "acquire", "release",
            "audio", "video"}

ASSUME CliAssumption ==
    /\ Options \in Flags /\ Options.opt \subseteq Options.all
    /\ Options.share \subseteq Options.mask /\ Options.mask \subseteq Options.all
    /\ Sendable \subseteq {"acquire", "release", "audio", "video"}
    /\ Updates \subseteq Flags
    /\ Floods \subseteq Nat
    /\ HashDim \in Nat \ {0}
    /\ Refused \subseteq MsgType
    /\ Outcomes \subseteq {"full", "empty", "none"}
    /\ Notices \subseteq {"full", "empty", "advice", "release", "unregister"}

VARIABLES
    cl,     \* the record of the client, see Client
    inq,    \* messages the client has not dispatched, oldest first
    up,     \* the manager owns its name
    known,  \* the flags the manager has recorded, NoFlags without a set
    used    \* how much of each bound is used up

vars == <<cl, inq, up, known, used>>

NoFlags == [all |-> {}, opt |-> {}, share |-> {}, mask |-> {}]

ReqTyp == MsgType \cup {"invalid"}

Call == [msgtyp: MsgType, reqno: Nat, flags: Flags]

(* What the last step printed about resources that are gone: the word, the *)
(* request number of the grant and why the manager had sent it.            *)
Silent == [word |-> "none", reqno |-> 0, cause |-> "none"]
Label  == [word: {"none", "lost", "denied", "released", "granted"}, reqno: Nat,
           cause: {"none", "server", "update", "acquire", "release"}]

(* rset .. revived: see ResConn.  flags are those of the resset_t, the     *)
(* rest are client.c's variables.  lost, overdue and broken are history:   *)
(* calls that will never be answered, calls that timed out, and a request  *)
(* of a flood that failed; denied and dismissed: the last REGISTER failed, *)
(* the manager unregistered the set; asked and renewed: the flags the user *)
(* asked for last, and whether a REGISTER was sent since, which carries    *)
(* the flags the client was started with.                                  *)
Client ==
    [rset: Rset, path: BOOLEAN, replies: SUBSET [msgtyp: MsgType, reqno: Nat],
     wire: Seq(Call), fault: {"none", "stale"}, revived: BOOLEAN, flags: Flags,
     accept: BOOLEAN, flood: Nat, count: Nat, reqno: Nat,
     reqtyp: [0..(HashDim - 1) -> ReqTyp], quit: BOOLEAN, label: Label,
     lost: SUBSET Nat, overdue: SUBSET Nat, broken: BOOLEAN,
     denied: BOOLEAN, dismissed: BOOLEAN, asked: Flags, renewed: BOOLEAN]

Counter == {"ops", "starts", "deaths", "notices", "timeouts"}

Message ==
    [kind: {"answer"}, reply: [msgtyp: MsgType, reqno: Nat], err: BOOLEAN]
    \cup [kind: {"full", "empty"}, reqno: Nat,
          cause: {"server", "update", "acquire", "release"}]
    \cup [kind: {"advice", "release", "unregister", "up", "down"}]

TypeOK ==
    /\ cl \in Client
    /\ inq \in Seq(Message)
    /\ up \in BOOLEAN
    /\ known \in [reg: BOOLEAN, flags: Flags]
    /\ used \in [Counter -> Nat]
-----------------------------------------------------------------------------
(* The functions of client.c.                                              *)

REQHASH_INDEX(n) == n % HashDim

(* The entry of request number n. *)
type_of(c, n) == c.reqtyp[REQHASH_INDEX(n)]

with_type(c, n, type) == [c EXCEPT !.reqtyp[REQHASH_INDEX(n)] = type]

(* The next request: its number is taken and its type noted whether or not *)
(* it can be sent.                                                         *)
numbered(c, msgtyp) ==
    with_type([c EXCEPT !.reqno = @ + 1], c.reqno + 1, msgtyp)

call_of(c, msgtyp, flags) ==
    [msgtyp |-> msgtyp, reqno |-> c.reqno, flags |-> flags]

(* Mutant of connect_to_manager: the type of the request is not noted. *)
connect_to_manager_unnoted(c) ==
    LET n == [c EXCEPT !.reqno = @ + 1, !.renewed = TRUE,
                       !.flags = IF resset_find(c.rset) THEN @ ELSE Options]
    IN  resconn_connect(n, call_of(n, "register", Options))

(* Called at the start and whenever the manager's name gets an owner, also *)
(* when the set is registered: then it keeps the flags it has, while the   *)
(* REGISTER carries those of the start.  A set that is created takes these.*)
connect_to_manager(c) ==
    LET n == numbered(c, "register")
        o == [n EXCEPT !.renewed = TRUE,
                       !.flags = IF resset_find(c.rset) THEN @ ELSE Options]
    IN  resconn_connect(o, call_of(n, "register", Options))

(* The set is reached through a pointer that is never cleared. *)
disconnect_from_manager(c) ==
    LET n == numbered(c, "unregister")
    IN  IF ~resset_find(n.rset) THEN [n EXCEPT !.fault = "stale"]
        ELSE IF may_send(n)
             THEN resconn_disconnect(n, call_of(n, "unregister", NoFlags))
             ELSE n

(* Mutant of manager_send_message: the set keeps the flags it had. *)
manager_send_message_old_flags(c, msgtyp, flags) ==
    LET n == numbered(c, msgtyp)
        o == IF msgtyp # "update" THEN n
             ELSE [n EXCEPT !.asked = flags, !.renewed = FALSE]
    IN  IF ~resset_find(n.rset) THEN [n EXCEPT !.fault = "stale"]
        ELSE IF may_send(n) THEN dbus_send_message(o, call_of(n, msgtyp, flags))
             ELSE [n EXCEPT !.broken = TRUE]

(* resproto_send_message also keeps the flags of an UPDATE it has sent. *)
manager_send_message(c, msgtyp, flags) ==
    LET n == numbered(c, msgtyp)
        o == IF msgtyp # "update" THEN n
             ELSE [n EXCEPT !.flags = flags, !.asked = flags, !.renewed = FALSE]
    IN  IF ~resset_find(n.rset) THEN [n EXCEPT !.fault = "stale"]
        ELSE IF may_send(n) THEN dbus_send_message(o, call_of(n, msgtyp, flags))
             ELSE [n EXCEPT !.broken = TRUE]

(* What an answer does: the type is the table's, an error clears the entry.*)
manager_status(c, reply, err) ==
    LET type == type_of(c, reply.reqno)
        cleared == with_type(c, reply.reqno, "invalid")
    IN  CASE err -> [cleared EXCEPT
                        !.broken = @ \/ reply.msgtyp \in {"acquire", "release"},
                        !.denied = @ \/ reply.msgtyp = "register"]
          [] ~err /\ type = "register" ->
                 [cleared EXCEPT !.accept = TRUE, !.denied = FALSE,
                                 !.dismissed = FALSE]
          [] ~err /\ type = "unregister" ->
                 [c EXCEPT !.accept = FALSE, !.quit = TRUE]
          [] OTHER -> c

(* Mutant of word_for: only an entry that says INVALID is taken for the server's. *)
word_for_invalid_only(type) ==
    CASE type = "invalid" -> "lost"
      [] type = "acquire" -> "denied"
      [] type = "release" -> "released"
      [] OTHER -> "granted"

(* How the client words an empty grant outside a flood. *)
word_for(type) ==
    CASE type \in {"invalid", "update"} -> "lost"
      [] type = "acquire" -> "denied"
      [] type = "release" -> "released"
      [] OTHER -> "granted"

granted(c, msg) ==
    IF msg.kind = "full" THEN c
    ELSE [with_type(c, msg.reqno, "invalid") EXCEPT
             !.label = [word |-> word_for(type_of(c, msg.reqno)),
                        reqno |-> msg.reqno, cause |-> msg.cause]]

(* Mutant of granted_in_flood: the flood stops at the exact count only. *)
granted_in_flood_exact(c, msg) ==
    IF msg.kind = "empty" THEN manager_send_message(c, "acquire", NoFlags)
    ELSE IF c.count + 1 = c.flood THEN [c EXCEPT !.flood = 0, !.count = 0]
    ELSE manager_send_message([c EXCEPT !.count = @ + 1], "release", NoFlags)

(* A flood acquires and releases in turn, until enough grants have come.   *)
granted_in_flood(c, msg) ==
    IF msg.kind = "empty" THEN manager_send_message(c, "acquire", NoFlags)
    ELSE IF c.count + 1 >= c.flood THEN [c EXCEPT !.flood = 0, !.count = 0]
    ELSE manager_send_message([c EXCEPT !.count = @ + 1], "release", NoFlags)

manager_receive_message(c, msg) ==
    CASE msg.kind = "unregister" -> [c EXCEPT !.accept = FALSE, !.dismissed = TRUE]
      [] msg.kind = "release" -> manager_send_message(c, "release", NoFlags)
      [] msg.kind = "advice"  -> c
      [] OTHER -> IF c.flood = 0 THEN granted(c, msg) ELSE granted_in_flood(c, msg)

(* Mutant of link_down: the handler is not told of the sets that go. *)
link_down_untold(c) ==
    IF resset_find(c.rset) THEN dbus_disconnect_from_manager(c) ELSE c

(* client_link_handler: the UNREGISTER handler hears of a connected set,   *)
(* and any set is disconnected.                                            *)
link_down(c) ==
    LET told == IF may_send(c) THEN [c EXCEPT !.accept = FALSE] ELSE c
    IN  IF resset_find(c.rset) THEN dbus_disconnect_from_manager(told) ELSE c

(* status_method around manager_status, and resconn_reply_destroy. *)
status_method(c, reply, err) ==
    reply_done(manager_status(answered(c, reply.msgtyp, err), reply, err), reply)
-----------------------------------------------------------------------------
Started ==
    [rset |-> Freed, path |-> FALSE, replies |-> {}, wire |-> <<>>,
     fault |-> "none", revived |-> FALSE, flags |-> NoFlags, accept |-> FALSE,
     flood |-> 0, count |-> 0, reqno |-> 0,
     reqtyp |-> [i \in 0..(HashDim - 1) |-> "invalid"], quit |-> FALSE,
     label |-> Silent, lost |-> {}, overdue |-> {}, broken |-> FALSE,
     denied |-> FALSE, dismissed |-> FALSE, asked |-> Options, renewed |-> TRUE]

(* create_manager registers the set at once. *)
Init ==
    /\ cl = connect_to_manager(Started)
    /\ inq = <<>>
    /\ up \in BOOLEAN
    /\ known = [reg |-> FALSE, flags |-> NoFlags]
    /\ used = [k \in Counter |-> 0]

Running == cl.fault = "none" /\ ~cl.quit

Use(counter, bound) ==
    /\ used[counter] < bound
    /\ used' = [used EXCEPT ![counter] = @ + 1]

(* parse_input. *)
Command(after) ==
    /\ Running /\ cl.accept
    /\ Use("ops", MaxOps)
    /\ cl' = [after EXCEPT !.label = Silent]
    /\ UNCHANGED <<inq, up, known>>

Send == \E msgtyp \in Sendable : Command(manager_send_message(cl, msgtyp, NoFlags))

(* What the command checks before it sends; the mask is not looked at. *)
valid_update(f) == f.all # {} /\ f.opt \subseteq f.all /\ f.share \subseteq f.all

Update == \E f \in Updates :
            valid_update(f) /\ Command(manager_send_message(cl, "update", f))

Disconnect == Command(disconnect_from_manager(cl))

(* The count of grants so far stays when another flood begins. *)
Flood == \E n \in Floods :
            Command(IF n = 0 THEN [cl EXCEPT !.flood = 0, !.count = 0]
                    ELSE manager_send_message([cl EXCEPT !.flood = n], "acquire",
                                              NoFlags))

Stop == Command([cl EXCEPT !.flood = 0, !.count = 0])

Quit == Command([cl EXCEPT !.quit = TRUE, !.accept = FALSE])
-----------------------------------------------------------------------------
(* The main loop.                                                          *)

Dispatch(kinds) ==
    /\ Running
    /\ inq # <<>> /\ Head(inq).kind \in kinds
    /\ inq' = Tail(inq)
    /\ UNCHANGED <<up, known, used>>

quietly(c) == [c EXCEPT !.label = Silent]

DispatchAnswer ==
    /\ Dispatch({"answer"})
    /\ LET m == Head(inq)
       IN  cl' = IF m.reply \in cl.replies
                 THEN status_method(quietly(cl), m.reply, m.err) ELSE quietly(cl)

DispatchNotice ==
    /\ Dispatch({"full", "empty", "advice", "release", "unregister"})
    /\ cl' = IF cl.path /\ resset_find(cl.rset)
             THEN manager_receive_message(quietly(cl), Head(inq)) ELSE quietly(cl)

DispatchUp == Dispatch({"up"}) /\ cl' = connect_to_manager(quietly(cl))

DispatchDown == Dispatch({"down"}) /\ cl' = link_down(quietly(cl))

Timeout ==
    /\ Running
    /\ Use("timeouts", MaxTimeouts)
    /\ \E reply \in cl.replies :
          cl' = [status_method(quietly(cl), reply, TRUE) EXCEPT
                    !.overdue = @ \cup {reply.reqno}]
    /\ UNCHANGED <<inq, up, known>>
-----------------------------------------------------------------------------
(* The bus and the manager.                                                *)

answer(call, err) ==
    [kind |-> "answer", err |-> err,
     reply |-> [msgtyp |-> call.msgtyp, reqno |-> call.reqno]]

grant(kind, call) ==
    [kind |-> kind, reqno |-> call.reqno, cause |-> call.msgtyp]

TakeCall(messages) ==
    /\ cl' = [cl EXCEPT !.wire = Tail(@),
                        !.lost = IF messages = <<>>
                                 THEN @ \cup {Head(cl.wire).reqno} ELSE @]
    /\ inq' = inq \o messages

(* manager_method drops a REGISTER of a set it knows, and any other call   *)
(* of a set it does not know, without an answer.                           *)
Ignores ==
    /\ up /\ cl.wire # <<>>
    /\ (Head(cl.wire).msgtyp = "register") = known.reg
    /\ TakeCall(<<>>)
    /\ UNCHANGED <<up, known, used>>

(* A set whose REGISTER is refused stays in the manager's list, which      *)
(* would drop another REGISTER of it: the client hears of an error either  *)
(* way, so known does not keep it.                                         *)
Refuses ==
    /\ up /\ cl.wire # <<>>
    /\ LET call == Head(cl.wire)
       IN  /\ (call.msgtyp = "register") # known.reg
           /\ call.msgtyp \in Refused
           /\ TakeCall(<<answer(call, TRUE)>>)
           /\ known' = IF call.msgtyp = "unregister"
                       THEN [reg |-> FALSE, flags |-> NoFlags] ELSE known
    /\ UNCHANGED <<up, used>>

(* A RELEASE is followed by an empty grant, an ACQUIRE by one of Outcomes, *)
(* an UPDATE by an empty grant if it loses the resources.                  *)
Grants ==
    /\ up /\ cl.wire # <<>> /\ cl.reqno < MaxReqno
    /\ LET call == Head(cl.wire)
           known_after(flags) == known' = [reg |-> TRUE, flags |-> flags]
       IN  /\ (call.msgtyp = "register") # known.reg
           /\ \/ /\ call.msgtyp = "unregister"
                 /\ TakeCall(<<answer(call, FALSE)>>)
                 /\ known' = [reg |-> FALSE, flags |-> NoFlags]
                 /\ UNCHANGED used
              \/ /\ call.msgtyp = "register"
                 /\ TakeCall(<<answer(call, FALSE)>>)
                 /\ known_after(call.flags)
                 /\ UNCHANGED used
              \/ /\ call.msgtyp = "update"
                 /\ \/ TakeCall(<<answer(call, FALSE)>>) /\ UNCHANGED used
                    \/ /\ TakeCall(<<answer(call, FALSE), grant("empty", call)>>)
                       /\ Use("notices", MaxNotices)
                 /\ known_after(call.flags)
              \/ /\ call.msgtyp \in {"audio", "video"}
                 /\ TakeCall(<<answer(call, FALSE)>>)
                 /\ UNCHANGED <<known, used>>
              \/ /\ call.msgtyp = "release"
                 /\ TakeCall(<<answer(call, FALSE), grant("empty", call)>>)
                 /\ UNCHANGED <<known, used>>
              \/ /\ call.msgtyp = "acquire" /\ "full" \in Outcomes
                 /\ TakeCall(<<answer(call, FALSE), grant("full", call)>>)
                 /\ UNCHANGED <<known, used>>
              \/ /\ call.msgtyp = "acquire" /\ "empty" \in Outcomes
                 /\ TakeCall(<<answer(call, FALSE), grant("empty", call)>>)
                 /\ Use("notices", MaxNotices)
                 /\ UNCHANGED known
              \/ /\ call.msgtyp = "acquire" /\ "none" \in Outcomes
                 /\ TakeCall(<<answer(call, FALSE)>>)
                 /\ Use("notices", MaxNotices)
                 /\ UNCHANGED known
    /\ UNCHANGED up

Bounce ==
    /\ ~up /\ cl.wire # <<>>
    /\ TakeCall(<<answer(Head(cl.wire), TRUE)>>)
    /\ UNCHANGED <<up, known, used>>

NoReply ==
    /\ \E reply \in cl.replies :
          /\ reply.reqno \in cl.lost
          /\ inq' = Append(inq, [kind |-> "answer", reply |-> reply, err |-> TRUE])
          /\ cl' = [cl EXCEPT !.lost = @ \ {reply.reqno}]
    /\ UNCHANGED <<up, known, used>>

ManagerStarts ==
    /\ ~up
    /\ Use("starts", MaxStarts)
    /\ up' = TRUE
    /\ inq' = Append(inq, [kind |-> "up"])
    /\ UNCHANGED <<cl, known>>

(* The calls routed to a manager, a first part of the wire, are lost with  *)
(* it, and so is what it knew of the set.                                  *)
LostWithManager ==
    /\ known' = [reg |-> FALSE, flags |-> NoFlags]
    /\ \E n \in 0..Len(cl.wire) :
          cl' = [cl EXCEPT !.wire = SubSeq(@, n + 1, Len(@)),
                           !.lost = @ \cup {cl.wire[i].reqno : i \in 1..n}]

ManagerDies ==
    /\ up
    /\ Use("deaths", MaxDeaths)
    /\ up' = FALSE
    /\ inq' = Append(inq, [kind |-> "down"])
    /\ LostWithManager

(* The name passes to another manager without a gap: only the new owner is *)
(* announced.                                                              *)
ManagerReplaced ==
    /\ up
    /\ Use("deaths", MaxDeaths)
    /\ inq' = Append(inq, [kind |-> "up"])
    /\ LostWithManager
    /\ UNCHANGED up

ManagerNotifies ==
    /\ up /\ known.reg
    /\ Use("notices", MaxNotices)
    /\ \E kind \in Notices :
          /\ inq' = Append(inq, IF kind \in {"full", "empty"}
                                THEN [kind |-> kind, reqno |-> 0, cause |-> "server"]
                                ELSE [kind |-> kind])
          /\ known' = IF kind = "unregister"
                      THEN [reg |-> FALSE, flags |-> NoFlags] ELSE known
    /\ UNCHANGED <<cl, up>>
-----------------------------------------------------------------------------
User == Send \/ Update \/ Disconnect \/ Flood \/ Stop \/ Quit

MainLoop == DispatchAnswer \/ DispatchNotice \/ DispatchUp \/ DispatchDown

Bus == Ignores \/ Refuses \/ Grants \/ Bounce \/ NoReply

Manager == ManagerStarts \/ ManagerDies \/ ManagerReplaced \/ ManagerNotifies

Next == User \/ MainLoop \/ Timeout \/ Bus \/ Manager

Spec == Init /\ [][Next]_vars
-----------------------------------------------------------------------------
(* Two request numbers share an entry of the table; 0 stands for a grant   *)
(* nobody requested.                                                       *)
Shared(c, n) == \E r \in 0..c.reqno : r # n /\ REQHASH_INDEX(r) = REQHASH_INDEX(n)

(* The words printed for an empty grant are true: "lost" when the manager  *)
(* took the resources on its own, "denied" and "released" when it answered *)
(* an ACQUIRE or a RELEASE.  The table in which the client looks up what a *)
(* request was may be wrong only once numbers share an entry, or when the  *)
(* request had already failed with a timeout.                              *)
Word == [server |-> "lost", update |-> "lost",
         acquire |-> "denied", release |-> "released"]

LabelsTrue ==
    cl.label # Silent =>
        \/ cl.label.word = Word[cl.label.cause]
        \/ Shared(cl, cl.label.reqno)
        \/ cl.label.reqno \in cl.overdue

(* What the comment "server initiated message" in front of the word "lost" *)
(* says: a message of the manager's own making (reqno 0) is worded so.     *)
ServerMeansLost ==
    cl.label # Silent /\ cl.label.cause = "server" => cl.label.word = "lost"

(* The table has come round: numbers may share an entry. *)
Wrapped == cl.reqno >= HashDim

(* While the client accepts commands the manager can be reached: its set   *)
(* is connected and has its object path, or an UNREGISTER is pending.  The *)
(* exceptions are a set that came back to life, and a client that sent two *)
(* REGISTERs (the manager's name got an owner while one was pending, and   *)
(* the manager ignores the second): its set is killed by the NoReply error.*)
AcceptingIsConnected ==
    Running /\ cl.accept /\ ~cl.revived /\ ~cl.denied /\ ~Wrapped
    => \/ cl.rset.state = "connected" /\ cl.path
       \/ \E reply \in cl.replies : reply.msgtyp = "unregister"

(* The pointer rset is never cleared, yet a freed set is used only after a *)
(* killed one came back to life, or after the answer to an UNREGISTER was  *)
(* not recognised because its entry of the table had been used again.      *)
StaleNeedsRevival ==
    cl.fault = "stale" => cl.revived \/ Wrapped

(* Nothing is under way. *)
Quiet == cl.wire = <<>> /\ cl.replies = {} /\ inq = <<>>

(* No lost wake-up: with the manager there and nothing under way, a client *)
(* that does not accept commands is one whose last REGISTER failed, or one *)
(* that the manager unregistered.                                          *)
SilentOnlyIfDenied ==
    Running /\ up /\ Quiet /\ ~cl.accept /\ ~cl.revived => cl.denied \/ cl.dismissed

(* When nothing is under way the manager and the client's resset_t have    *)
(* the flags the user asked for last.  Only a REGISTER makes either of     *)
(* them forget: it carries the flags the client was started with, which    *)
(* the manager then has, and so has a set that was created for it; a set   *)
(* that was still registered, because the manager's name passed to another *)
(* without a gap, keeps what the user asked for, and the two differ.       *)
FlagsAgree ==
    Running /\ up /\ Quiet /\ cl.accept /\ ~cl.revived /\ ~cl.denied /\ ~Wrapped
    => /\ known.reg
       /\ \/ known.flags = cl.asked /\ cl.flags = cl.asked
          \/ /\ cl.renewed /\ known.flags = Options
             /\ cl.flags \in {Options, cl.asked}

(* A flood goes on to its end: as long as it has not ended and the set is  *)
(* there, something of it is under way, also when the user starts a        *)
(* shorter one in the middle of it, and it never counts more grants than   *)
(* the longest one asked for.  The exceptions: a request of it failed, the *)
(* set came back to life, a call timed out, or the table has come round:   *)
(* a manager that handles a REGISTER late may grant what a client asks     *)
(* that has just lost its set, and the grant is dropped; and a client that *)
(* does not recognise the answer to its UNREGISTER does not quit.          *)
FloodGoesOn ==
    Running =>
        /\ cl.flood # 0 /\ Quiet /\ cl.rset.state = "connected"
              => cl.broken \/ cl.revived \/ cl.overdue # {} \/ Wrapped
        /\ cl.count = 0 \/ \E n \in Floods : cl.count < n
=============================================================================
