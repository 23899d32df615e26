---------------------------- MODULE InternalProto ----------------------------
(***************************************************************************)
(* internal-proto.c: the transport between clients and a manager that live *)
(* in one process.  A message is a function call: send_message of the      *)
(* sender runs the receiver's handler before it returns, unless the        *)
(* receiver is itself sending (busy) or has messages waiting; then the     *)
(* message is copied to its queue and a timer delivers it later.  Answers  *)
(* always come by a timer, and a timer of ten seconds stands in for an     *)
(* answer that does not come.                                              *)
(*                                                                         *)
(* The steps are small: a handler that was entered and has not returned is *)
(* a frame of `stack'; timers fire when the stack is empty.  What handlers *)
(* and applications do is theirs: they send, answer, disconnect, on their  *)
(* own connection.  Memory exhaustion is not modelled.                     *)
(***************************************************************************)
EXTENDS ResSet, Sequences, FiniteSets

CONSTANTS
    Clients,    \* client connections, by name
    Ids,        \* ids of resource sets, chosen by each client
    Manager,    \* the manager's connection
    NoConn,     \* "sender" of a message that a timer delivers
    MaxMsgs     \* bound: messages sent

ASSUME ConnAssumption ==
    Manager \notin Clients /\ NoConn \notin Clients \cup {Manager} /\ MaxMsgs \in Nat

Conns == Clients \cup {Manager}
Keys  == Clients \X Ids

VARIABLES
    up,         \* resproto_manager is set
    notify,     \* the timer of notify_clients_about_manager_up runs
    inited,     \* clients whose connection exists
    told,       \* clients whose mgrup callback was called
    rset,       \* rset[x][k]: what connection x keeps for the set k
    busy,       \* connections inside send_message
    queue,      \* queue[x]: messages waiting for x, oldest first
    dequeues,   \* dequeues[x]: timers of receive_message_dequeue
    stack,      \* handlers that have not returned, innermost first
    replies,    \* reply records, of all connections
    timers,     \* serials of requests whose ten second timer runs
    owed,       \* requests a handler was given a serial for, not answered yet
    answers,    \* timers of send_error_complete that carry an answer
    msgs,       \* number of messages sent
    seen,       \* seen[x]: number of the last message handed to x
    dismissed,  \* history: sets the manager has disconnected
    revived     \* history: disconnected sets a REGISTER made connected again

vars == <<up, notify, inited, told, rset, busy, queue, dequeues, stack, replies,
          timers, owed, answers, msgs, seen, dismissed, revived>>

(* serial is 0 if the sender wants no answer, else the message's number.   *)
Message == [type: {"register", "unregister", "other"}, key: Keys,
            n: 1..MaxMsgs, serial: 0..MaxMsgs]
(* kill: the sender disconnects its set when the handler has returned.     *)
Frame   == [at: Conns, from: Conns \cup {NoConn}, key: Keys, kill: BOOLEAN]
Reply   == [serial: 1..MaxMsgs, type: {"register", "unregister", "other"},
            key: Keys, by: Conns]
Request == [serial: 1..MaxMsgs, key: Keys, by: Conns]
Answer  == [serial: 1..MaxMsgs, to: Conns, err: BOOLEAN]

TypeOK ==
    /\ up \in BOOLEAN /\ notify \in BOOLEAN
    /\ inited \subseteq Clients /\ told \subseteq Clients
    /\ rset \in [Conns -> [Keys -> Rset]]
    /\ busy \subseteq Conns
    /\ queue \in [Conns -> Seq(Message)] /\ dequeues \in [Conns -> Nat]
    /\ stack \in Seq(Frame)
    /\ replies \subseteq Reply /\ timers \subseteq 1..MaxMsgs
    /\ owed \subseteq Request /\ answers \subseteq Answer
    /\ msgs \in 0..MaxMsgs /\ seen \in [Conns -> 0..MaxMsgs]
    /\ dismissed \subseteq Keys /\ revived \subseteq Keys

NoTraffic ==
    /\ rset = [x \in Conns |-> [k \in Keys |-> Freed]]
    /\ busy = {} /\ stack = <<>>
    /\ queue = [x \in Conns |-> <<>>] /\ dequeues = [x \in Conns |-> 0]
    /\ replies = {} /\ timers = {} /\ owed = {} /\ answers = {}
    /\ msgs = 0 /\ seen = [x \in Conns |-> 0]
    /\ dismissed = {} /\ revived = {}

Init ==
    /\ up = FALSE /\ notify = FALSE /\ inited = {} /\ told = {}
    /\ NoTraffic
-----------------------------------------------------------------------------
(* Setting up.                                                             *)

connections == <<up, notify, inited, told>>
traffic     == <<rset, busy, queue, dequeues, stack, replies, timers, owed, answers,
                 msgs, seen, dismissed, revived>>

manager_init ==
    /\ ~up /\ up' = TRUE /\ notify' = TRUE
    /\ UNCHANGED <<inited, told, traffic>>

client_init(c) ==
    /\ c \notin inited /\ inited' = inited \cup {c}
    /\ UNCHANGED <<up, notify, told, traffic>>

(* The clients the manager's timer informs.  Mutant: the walk starts after *)
(* the head of the list.                                                   *)
to_be_told_but_one == IF inited = {} THEN {} ELSE inited \ {CHOOSE c \in inited : TRUE}

to_be_told == inited

notify_clients_about_manager_up ==
    /\ notify /\ stack = <<>>
    /\ notify' = FALSE /\ told' = told \cup to_be_told
    /\ UNCHANGED <<up, inited, traffic>>
-----------------------------------------------------------------------------
(* Sending and delivery.                                                   *)

(* Code of connection x can run: its handler, or the process is idle.      *)
Running(x) ==
    /\ x \in inited \/ (x = Manager /\ up)
    /\ stack # <<>> => Head(stack).at = x

(* Mutants of must_wait. *)
must_wait_if_busy(y)   == y \in busy
must_wait_if_queued(y) == queue[y] # <<>>

must_wait(y) == y \in busy \/ queue[y] # <<>>

(* What send_message and receive_message_init do to the two sides' records *)
(* of the set: a reference for the reply record, and a REGISTER makes the  *)
(* receiver's record if there is none.  Mutants: no reference is taken; a  *)
(* REGISTER that has to wait makes no record yet.                          *)
records_sent_unheld(x, y, type, k, need) ==
    [rset EXCEPT ![y][k] = IF type = "register" /\ ~resset_find(@)
                           THEN resset_create("connected") ELSE @,
                 ![x][k] = IF resset_find(@) THEN @ ELSE resset_create("created")]

records_sent_late(x, y, type, k, need) ==
    LET found == IF resset_find(rset[x][k]) THEN rset[x][k]
                                            ELSE resset_create("created")
    IN  [rset EXCEPT ![y][k] = IF type = "register" /\ ~resset_find(@) /\ ~must_wait(y)
                               THEN resset_create("connected") ELSE @,
                     ![x][k] = IF need THEN resset_ref(found) ELSE found]

records_sent(x, y, type, k, need) ==
    LET found == IF resset_find(rset[x][k]) THEN rset[x][k]
                                            ELSE resset_create("created")
    IN  [rset EXCEPT ![y][k] = IF type = "register" /\ ~resset_find(@)
                               THEN resset_create("connected") ELSE @,
                     ![x][k] = IF need THEN resset_ref(found) ELSE found]

(* Each message that has to wait gets a timer, which delivers one message. *)
(* Mutant: a timer only for the first one.                                 *)
dequeues_if_empty(y) ==
    IF queue[y] = <<>> THEN [dequeues EXCEPT ![y] = @ + 1] ELSE dequeues

dequeues_with(y) == [dequeues EXCEPT ![y] = @ + 1]

(* Mutant of timers_with: nothing stands in for an answer.                 *)
timers_unstarted(serial) == timers

timers_with(serial) == timers \cup {serial}

disconn(sets, x, k) == [sets EXCEPT ![x][k] = resset_destroy(@)]

(* receive_message_complete: the handler of y runs, if y has the set.      *)
handed_over(y, m, from, kill) ==
    /\ stack' = <<[at |-> y, from |-> from, key |-> m.key, kill |-> kill]>> \o stack
    /\ owed' = IF m.serial = 0 THEN owed
               ELSE owed \cup {[serial |-> m.serial, key |-> m.key, by |-> y]}

(* send_message from x to y about the set k.  If kill, the caller is       *)
(* resconn_disconnect, which destroys its set when send_message returns.   *)
send_message(x, y, type, k, need, kill) ==
    LET serial == IF need THEN msgs + 1 ELSE 0
        m      == [type |-> type, key |-> k, n |-> msgs + 1, serial |-> serial]
        sets   == records_sent(x, y, type, k, need)
        nested == ~must_wait(y) /\ resset_find(sets[y][k])
    IN  /\ msgs < MaxMsgs /\ msgs' = msgs + 1
        /\ IF need THEN /\ replies' = replies \cup {[serial |-> serial, type |-> type,
                                                     key |-> k, by |-> x]}
                        /\ timers' = timers_with(serial)
                   ELSE UNCHANGED <<replies, timers>>
        /\ IF must_wait(y)
           THEN /\ queue' = [queue EXCEPT ![y] = Append(@, m)]
                /\ dequeues' = dequeues_with(y)
                /\ UNCHANGED seen
           ELSE /\ seen' = [seen EXCEPT ![y] = m.n]
                /\ UNCHANGED <<queue, dequeues>>
        /\ IF nested THEN handed_over(y, m, x, kill) /\ busy' = busy \cup {x}
                     ELSE UNCHANGED <<stack, owed, busy>>
        /\ rset' = IF kill /\ ~nested THEN disconn(sets, x, k) ELSE sets
        /\ UNCHANGED <<connections, answers>>

(* resconn_connect with connect_to_manager.                                *)
resconn_connect(k) ==
    /\ Running(k[1]) /\ up
    /\ send_message(k[1], Manager, "register", k, TRUE, FALSE)
    /\ UNCHANGED <<dismissed, revived>>

(* resproto_send_message, of a client or of the manager.                   *)
resproto_send_message(x, y, k) ==
    /\ Running(x) /\ rset[x][k].state = "connected"
    /\ \E status \in BOOLEAN : send_message(x, y, "other", k, status, FALSE)
    /\ UNCHANGED <<dismissed, revived>>

(* resconn_disconnect.  A client always waits for the answer.              *)
resconn_disconnect(x, y, k) ==
    /\ Running(x) /\ rset[x][k].state = "connected"
    /\ \E status \in IF x = Manager THEN BOOLEAN ELSE {TRUE} :
          send_message(x, y, "unregister", k, status, TRUE)
    /\ dismissed' = IF x = Manager THEN dismissed \cup {k} ELSE dismissed
    /\ UNCHANGED revived

(* The handler returns, and with it send_message of the sender.            *)
handler_returns ==
    /\ stack # <<>>
    /\ LET f == Head(stack)
       IN  /\ busy' = busy \ {f.from}
           /\ rset' = IF f.kill THEN disconn(rset, f.from, f.key) ELSE rset
    /\ stack' = Tail(stack)
    /\ UNCHANGED <<connections, queue, dequeues, replies, timers, owed, answers,
                   msgs, seen, dismissed, revived>>

receive_message_dequeue(x) ==
    /\ stack = <<>> /\ dequeues[x] > 0
    /\ dequeues' = [dequeues EXCEPT ![x] = @ - 1]
    /\ IF queue[x] = <<>>
       THEN UNCHANGED <<queue, seen, stack, owed>>
       ELSE LET m == Head(queue[x])
            IN  /\ queue' = [queue EXCEPT ![x] = Tail(@)]
                /\ seen' = [seen EXCEPT ![x] = m.n]
                /\ IF resset_find(rset[x][m.key])
                   THEN handed_over(x, m, NoConn, FALSE)
                   ELSE UNCHANGED <<stack, owed>>
    /\ UNCHANGED <<connections, rset, busy, replies, timers, answers, msgs,
                   dismissed, revived>>
-----------------------------------------------------------------------------
(* Answers.                                                                *)

(* resproto_reply_message and send_error_init: in the handler or later, as *)
(* long as the answering side has the set.                                 *)
send_error_init(q, err) ==
    /\ Running(q.by) /\ resset_find(rset[q.by][q.key])
    /\ owed' = owed \ {q}
    /\ answers' = answers \cup {[serial |-> q.serial, err |-> err,
                     to |-> IF q.by = Manager THEN q.key[1] ELSE Manager]}
    /\ UNCHANGED <<connections, rset, busy, queue, dequeues, stack, replies, timers,
                   msgs, seen, dismissed, revived>>

(* What the answer does to the set of a client.  For an UNREGISTER the     *)
(* code looks at the error code of a status message it fills in later:     *)
(* garbage stands for what is there.                                       *)
answered(r, reply, err, garbage) ==
    CASE reply.by # Manager /\ reply.type = "register" ->
             [r EXCEPT !.state = IF err THEN "killed" ELSE "connected"]
      [] reply.by # Manager /\ reply.type = "unregister" /\ garbage ->
             [resset_ref(r) EXCEPT !.state = "connected"]
      [] OTHER -> r

held_by(x, k) == {r \in replies : r.by = x /\ r.key = k}

(* The reply record goes, and its reference.  After a set was revived the  *)
(* record may be freed already; what reading it does is not followed.      *)
reply_done(reply, err) ==
    /\ replies' = replies \ {reply}
    /\ LET x == reply.by
           k == reply.key
           r == rset[x][k]
       IN  IF resset_find(r)
           THEN /\ \E garbage \in BOOLEAN :
                      rset' = [rset EXCEPT ![x][k] =
                                  resset_unref(answered(@, reply, err, garbage))]
                /\ revived' = IF /\ x # Manager /\ reply.type = "register" /\ ~err
                                 /\ r.state = "killed"
                                 /\ r.refcnt <= Cardinality(held_by(x, k))
                              THEN revived \cup {k} ELSE revived
           ELSE UNCHANGED <<rset, revived>>

undisturbed == <<connections, busy, queue, dequeues, stack, owed, msgs, seen, dismissed>>

(* send_error_complete, called by the ten second timer: an error.          *)
reply_timeout(reply) ==
    /\ stack = <<>> /\ reply.serial \in timers
    /\ timers' = timers \ {reply.serial}
    /\ reply_done(reply, TRUE)
    /\ UNCHANGED <<answers, undisturbed>>

(* The timers left when the answer to a request is there.  Mutant: its     *)
(* ten second timer is forgotten.                                          *)
timers_kept(serial) == timers

timers_without(serial) == timers \ {serial}

(* send_error_complete, called for an answer, which may come too late.     *)
send_error_complete(a) ==
    /\ stack = <<>>
    /\ answers' = answers \ {a}
    /\ LET found == {r \in replies : r.serial = a.serial /\ r.by = a.to}
       IN  IF found = {}
           THEN UNCHANGED <<replies, rset, revived, timers>>
           ELSE /\ timers' = timers_without(a.serial)
                /\ \E reply \in found : reply_done(reply, a.err)
    /\ UNCHANGED undisturbed
-----------------------------------------------------------------------------
Calls ==
    \/ \E k \in Keys :
          \/ resconn_connect(k)
          \/ resproto_send_message(k[1], Manager, k)
          \/ resproto_send_message(Manager, k[1], k)
          \/ resconn_disconnect(k[1], Manager, k)
          \/ resconn_disconnect(Manager, k[1], k)
    \/ \E q \in owed, err \in BOOLEAN : send_error_init(q, err)

Next ==
    \/ manager_init
    \/ notify_clients_about_manager_up
    \/ \E c \in Clients : client_init(c)
    \/ Calls
    \/ handler_returns
    \/ \E x \in Conns : receive_message_dequeue(x)
    \/ \E reply \in replies : reply_timeout(reply)
    \/ \E a \in answers : send_error_complete(a)

Spec == Init /\ [][Next]_vars

(* Handlers return and the main loop's timers fire.                        *)
FairSpec ==
    /\ Spec
    /\ WF_vars(handler_returns)
    /\ WF_vars(notify_clients_about_manager_up)
    /\ \A x \in Conns : WF_vars(receive_message_dequeue(x))
    /\ \A n \in 1..MaxMsgs :
          /\ WF_vars(\E reply \in replies : reply.serial = n /\ reply_timeout(reply))
          /\ WF_vars(\E a \in answers : a.serial = n /\ send_error_complete(a))
-----------------------------------------------------------------------------
(* The busy flag and the queue keep a handler from being entered while it  *)
(* runs, however handlers call each other: each connection has one frame   *)
(* at most.  The flag is set exactly during a send that runs a handler.    *)
NotReentered ==
    /\ \A j, k \in DOMAIN stack : stack[j].at = stack[k].at => j = k
    /\ busy = {stack[k].from : k \in DOMAIN stack} \ {NoConn}

(* Nothing overtakes: what waits for a connection waits in the order it    *)
(* was sent in, and all of it is younger than what has been delivered.     *)
InOrder ==
    \A x \in Conns :
        /\ \A j \in DOMAIN queue[x] : seen[x] < queue[x][j].n
        /\ \A j, k \in DOMAIN queue[x] : j < k => queue[x][j].n < queue[x][k].n

(* A ten second timer runs for each answer that is awaited, and for no     *)
(* other: a timer that is not deleted would use what has been freed.       *)
TimerPerReply == timers = {r.serial : r \in replies}

(* Reference counts on both sides: one for each reply record, one for the  *)
(* creator until the set is disconnected (a REGISTER that failed kills a   *)
(* set without giving that reference up).  Not for a set that was          *)
(* connected again while its UNREGISTER was unanswered.                    *)
RefsAccounted ==
    \A x \in Conns, k \in Keys :
        (x = Manager \/ k \notin revived) =>
            LET r == rset[x][k]
                n == Cardinality(held_by(x, k))
            IN  CASE r.state \in {"created", "connected"} -> r.refcnt = n + 1
                  [] r.state = "killed" -> r.refcnt \in {n, n + 1} /\ r.refcnt > 0
                  [] OTHER -> r.refcnt = 0 /\ n = 0

(* The manager has a connected record of every set a client has in its     *)
(* list, also while the REGISTER waits in the manager's queue, unless it   *)
(* disconnected the set itself.                                            *)
KnownToManager ==
    \A k \in Keys \ dismissed :
        resset_find(rset[k[1]][k]) => rset[Manager][k].state = "connected"

(* Every message that had to wait is handed on: its timer is not lost when *)
(* messages pile up behind a handler.                                      *)
AllDelivered == \A x \in Conns : queue[x] # <<>> ~> queue[x] = <<>>

(* Every request is answered or times out, whatever its receiver does.     *)
AllAnswered  == \A n \in 1..MaxMsgs :
                    (\E r \in replies : r.serial = n) ~> (\A r \in replies : r.serial # n)

(* Clients whose connection was there before the manager's timer fired     *)
(* learn of the manager.                                                   *)
EarlyAreTold == \A c \in Clients : (notify /\ c \in inited) ~> c \in told
=============================================================================
