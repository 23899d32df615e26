------------------------- MODULE InternalProtoProofs -------------------------
(***************************************************************************)
(* The in-process transport, proved: handlers are not entered twice,       *)
(* nothing overtakes, timers and reply records match, the references to a  *)
(* resset_t add up on both sides, and the manager keeps its record of a    *)
(* set for as long as a client does.                                       *)
(*                                                                         *)
(* Five invariants, each proved with the help of those before it:          *)
(*   Chained   who called whom: the stack of handlers is a path that       *)
(*             visits no connection twice, and busy are those on it that   *)
(*             wait for a call to return;                                  *)
(*   Numbered  messages wait in the order of their numbers;                *)
(*   Timed     a reply record is told from others by its serial;           *)
(*   Accounted the references, with what they depend on: an UNREGISTER     *)
(*             that is awaited has killed its set, or will do so when the  *)
(*             handler it runs returns (Leaving, Killing);                 *)
(*   Known     what the manager has of a set it has not dismissed.         *)
(***************************************************************************)
EXTENDS InternalProto, FiniteSetTheorems, SequenceTheorems, TLAPS

Sets == [Conns -> [Keys -> Rset]]

MessageType == {"register", "unregister", "other"}
-----------------------------------------------------------------------------
(* Records of sets.                                                        *)
LEMMA RefRset ==
    ASSUME NEW r \in Rset
    PROVE  /\ resset_ref(r) \in Rset
           /\ resset_ref(r).state = r.state
           /\ resset_ref(r).refcnt = r.refcnt + 1
BY DEF resset_ref, Rset

LEMMA CreateRset ==
    ASSUME NEW state \in RsetState
    PROVE  /\ resset_create(state) \in Rset
           /\ resset_create(state).state = state
           /\ resset_create(state).refcnt = 1
BY DEF resset_create, Rset

LEMMA UnrefRset ==
    ASSUME NEW r \in Rset
    PROVE  /\ resset_unref(r) \in Rset
           /\ r.refcnt <= 1 => /\ resset_unref(r).state = "freed"
                               /\ resset_unref(r).refcnt = 0
           /\ r.refcnt > 1 => /\ resset_unref(r).state = r.state
                              /\ resset_unref(r).refcnt = r.refcnt - 1
<1>1. r.refcnt \in Nat /\ Freed \in Rset BY DEF Rset, Freed, RsetState
<1>2. CASE r.refcnt <= 1 BY <1>1, <1>2 DEF resset_unref, Freed
<1>3. CASE ~(r.refcnt <= 1)
  <2>1. resset_unref(r) = [r EXCEPT !.refcnt = @ - 1] BY <1>3 DEF resset_unref
  <2>. QED BY <1>1, <1>3, <2>1 DEF Rset
<1>. QED BY <1>2, <1>3

LEMMA SetState ==
    ASSUME NEW r \in Rset, NEW state \in RsetState
    PROVE  LET s == [r EXCEPT !.state = state]
           IN  s \in Rset /\ s.state = state /\ s.refcnt = r.refcnt
BY DEF Rset

LEMMA DestroyRset ==
    ASSUME NEW r \in Rset
    PROVE  /\ resset_destroy(r) \in Rset
           /\ r.state = "connected" /\ r.refcnt <= 1 =>
                 /\ resset_destroy(r).state = "freed"
                 /\ resset_destroy(r).refcnt = 0
           /\ r.state = "connected" /\ r.refcnt > 1 =>
                 /\ resset_destroy(r).state = "killed"
                 /\ resset_destroy(r).refcnt = r.refcnt - 1
<1>. DEFINE s == [r EXCEPT !.state = "killed"]
<1>1. s \in Rset /\ s.state = "killed" /\ s.refcnt = r.refcnt
      BY SetState DEF RsetState
<1>2. resset_destroy(r) = IF r.state = "killed" THEN r ELSE resset_unref(s)
      BY DEF resset_destroy
<1>. HIDE DEF s
<1>. QED BY <1>1, <1>2, UnrefRset

(* The sender's record of the set, and the receiver's.                     *)
Taken(r, need) ==
    LET found == IF resset_find(r) THEN r ELSE resset_create("created")
    IN  IF need THEN resset_ref(found) ELSE found

Found(r, type) ==
    IF type = "register" /\ ~resset_find(r) THEN resset_create("connected") ELSE r

LEMMA TakenRset ==
    ASSUME NEW r \in Rset, NEW need \in BOOLEAN
    PROVE  /\ Taken(r, need) \in Rset
           /\ Taken(r, need).state =
                 IF r.state = "freed" THEN "created" ELSE r.state
           /\ Taken(r, need).refcnt =
                 (IF r.state = "freed" THEN 1 ELSE r.refcnt) + (IF need THEN 1 ELSE 0)
<1>. DEFINE found == IF resset_find(r) THEN r ELSE resset_create("created")
<1>1. /\ found \in Rset
      /\ found.state = IF r.state = "freed" THEN "created" ELSE r.state
      /\ found.refcnt = IF r.state = "freed" THEN 1 ELSE r.refcnt
      BY CreateRset DEF resset_find, RsetState
<1>2. Taken(r, need) = IF need THEN resset_ref(found) ELSE found BY DEF Taken
<1>. HIDE DEF found
<1>3. found.refcnt \in Nat BY <1>1 DEF Rset
<1>. QED BY <1>1, <1>2, <1>3, RefRset

LEMMA FoundRset ==
    ASSUME NEW r \in Rset, NEW type
    PROVE  /\ Found(r, type) \in Rset
           /\ type # "register" \/ r.state # "freed" => Found(r, type) = r
           /\ type = "register" /\ r.state = "freed" =>
                 /\ Found(r, type).state = "connected"
                 /\ Found(r, type).refcnt = 1
BY CreateRset DEF Found, resset_find, RsetState

LEMMA RecordsSent ==
    ASSUME rset \in Sets, NEW x \in Conns, NEW y \in Conns, x # y,
           NEW type, NEW k \in Keys, NEW need \in BOOLEAN
    PROVE  LET g == records_sent(x, y, type, k, need)
           IN  /\ g \in Sets
               /\ g[x][k] = Taken(rset[x][k], need)
               /\ g[y][k] = Found(rset[y][k], type)
               /\ \A z \in Conns, l \in Keys :
                     l # k \/ z \notin {x, y} => g[z][l] = rset[z][l]
<1>. DEFINE u == Found(rset[y][k], type)
            v == Taken(rset[x][k], need)
            g == records_sent(x, y, type, k, need)
<1>1. rset[x][k] \in Rset /\ rset[y][k] \in Rset BY DEF Sets
<1>2. u \in Rset /\ v \in Rset BY <1>1, TakenRset, FoundRset
<1>3. g = [rset EXCEPT ![y][k] = u, ![x][k] = v]
      BY DEF records_sent, Found, Taken
<1>. HIDE DEF u, v, g
<1>4. /\ g \in Sets /\ g[x][k] = v /\ g[y][k] = u
      /\ \A z \in Conns, l \in Keys :
            l # k \/ z \notin {x, y} => g[z][l] = rset[z][l]
      BY <1>2, <1>3 DEF Sets
<1>. QED BY <1>4 DEF u, v, g
-----------------------------------------------------------------------------
(* The steps.                                                              *)

(* Code of connection x sends to y about the set k.                        *)
Sending(x, y, type, k, need, kill) ==
    /\ Running(x) /\ x # y
    /\ send_message(x, y, type, k, need, kill)
    /\ IF type = "register"
       THEN x = k[1] /\ y = Manager /\ need
       ELSE rset[x][k].state = "connected"
    /\ kill = (type = "unregister")
    /\ kill /\ x # Manager => need
    /\ dismissed' = IF kill /\ x = Manager THEN dismissed \cup {k} ELSE dismissed
    /\ revived' = revived

Sends ==
    \E x, y \in Conns, type \in MessageType, k \in Keys, need, kill \in BOOLEAN :
        Sending(x, y, type, k, need, kill)

(* A reply record has had its answer.                                      *)
Done(reply, err) ==
    /\ stack = <<>>
    /\ timers' = timers \ {reply.serial}
    /\ reply_done(reply, err)
    /\ UNCHANGED undisturbed

Dones == \E reply \in replies, err \in BOOLEAN : Done(reply, err)

(* Nothing that the invariants below are about happens.                    *)
Calm ==
    UNCHANGED <<rset, busy, queue, dequeues, stack, replies, timers, msgs, seen,
                dismissed, revived>>

LEMMA KeyEnds ==
    ASSUME NEW k \in Keys
    PROVE  k[1] \in Clients /\ k[1] \in Conns /\ Manager \in Conns /\ k[1] # Manager
BY ConnAssumption DEF Keys, Conns

LEMMA CallsSend ==
    ASSUME Calls
    PROVE  Sends \/ \E q \in owed, err \in BOOLEAN : send_error_init(q, err)
<1>1. ASSUME NEW k \in Keys, resconn_connect(k) PROVE Sends
  <2>1. Sending(k[1], Manager, "register", k, TRUE, FALSE)
        BY <1>1, KeyEnds DEF resconn_connect, Sending
  <2>. QED BY <2>1, KeyEnds DEF Sends, MessageType
<1>2. ASSUME NEW k \in Keys, NEW x \in Conns, NEW y \in Conns, x # y,
             resproto_send_message(x, y, k)
      PROVE  Sends
  <2>1. PICK status \in BOOLEAN : send_message(x, y, "other", k, status, FALSE)
        BY <1>2 DEF resproto_send_message
  <2>2. Sending(x, y, "other", k, status, FALSE)
        BY <1>2, <2>1 DEF resproto_send_message, Sending
  <2>. QED BY <2>2 DEF Sends, MessageType
<1>3. ASSUME NEW k \in Keys, NEW x \in Conns, NEW y \in Conns, x # y,
             resconn_disconnect(x, y, k)
      PROVE  Sends
  <2>1. PICK status \in IF x = Manager THEN BOOLEAN ELSE {TRUE} :
           send_message(x, y, "unregister", k, status, TRUE)
        BY <1>3 DEF resconn_disconnect
  <2>2. status \in BOOLEAN /\ (x # Manager => status = TRUE) OBVIOUS
  <2>3. Sending(x, y, "unregister", k, status, TRUE)
        BY <1>3, <2>1, <2>2 DEF resconn_disconnect, Sending
  <2>. QED BY <2>2, <2>3 DEF Sends, MessageType
<1>. QED BY <1>1, <1>2, <1>3, KeyEnds DEF Calls

LEMMA Completed ==
    ASSUME TypeOK, NEW a \in answers, send_error_complete(a)
    PROVE  Dones \/ Calm
<1>. DEFINE found == {r \in replies : r.serial = a.serial /\ r.by = a.to}
<1>1. CASE found = {}
      BY <1>1 DEF send_error_complete, Calm, undisturbed
<1>2. CASE found # {}
  <2>1. PICK reply \in found : reply_done(reply, a.err)
        BY <1>2 DEF send_error_complete
  <2>2. reply \in replies /\ reply.serial = a.serial OBVIOUS
  <2>3. a.err \in BOOLEAN BY DEF TypeOK, Answer
  <2>4. Done(reply, a.err)
        BY <1>2, <2>1, <2>2 DEF send_error_complete, timers_without, Done
  <2>. QED BY <2>2, <2>3, <2>4 DEF Dones
<1>. QED BY <1>1, <1>2

LEMMA Steps ==
    ASSUME TypeOK, [Next]_vars
    PROVE  \/ Sends
           \/ handler_returns
           \/ \E x \in Conns : receive_message_dequeue(x)
           \/ Dones
           \/ Calm
<1>1. ASSUME NEW q \in owed, NEW err \in BOOLEAN, send_error_init(q, err)
      PROVE  Calm
      BY <1>1 DEF send_error_init, Calm
<1>2. ASSUME NEW reply \in replies, reply_timeout(reply) PROVE Dones
  <2>1. Done(reply, TRUE) BY <1>2 DEF reply_timeout, Done
  <2>. QED BY <2>1 DEF Dones
<1>3. CASE UNCHANGED vars BY <1>3 DEF vars, Calm
<1>4. CASE \/ manager_init \/ notify_clients_about_manager_up
           \/ \E c \in Clients : client_init(c)
      BY <1>4 DEF manager_init, notify_clients_about_manager_up, client_init,
                  traffic, Calm
<1>. QED BY <1>1, <1>2, <1>3, <1>4, CallsSend, Completed DEF Next
-----------------------------------------------------------------------------
(* What the steps do to the records of sets.                               *)
LEMMA DisconnRset ==
    ASSUME NEW f \in Sets, NEW x \in Conns, NEW k \in Keys
    PROVE  /\ disconn(f, x, k) \in Sets
           /\ \A z \in Conns, l \in Keys :
                 disconn(f, x, k)[z][l] = IF z = x /\ l = k
                                          THEN resset_destroy(f[x][k]) ELSE f[z][l]
<1>1. f[x][k] \in Rset BY DEF Sets
<1>. DEFINE v == resset_destroy(f[x][k])
<1>2. v \in Rset BY <1>1, DestroyRset
<1>3. disconn(f, x, k) = [f EXCEPT ![x][k] = v] BY DEF disconn
<1>. HIDE DEF v
<1>4. /\ disconn(f, x, k) \in Sets
      /\ \A z \in Conns, l \in Keys :
            disconn(f, x, k)[z][l] = IF z = x /\ l = k THEN v ELSE f[z][l]
      BY <1>2, <1>3 DEF Sets
<1>. QED BY <1>4 DEF v

LEMMA AnsweredRset ==
    ASSUME NEW r \in Rset, NEW reply, NEW err \in BOOLEAN, NEW garbage \in BOOLEAN
    PROVE  answered(r, reply, err, garbage) \in Rset
<1>1. resset_ref(r) \in Rset BY RefRset
<1>2. "killed" \in RsetState /\ "connected" \in RsetState BY DEF RsetState
<1>3. /\ [r EXCEPT !.state = IF err THEN "killed" ELSE "connected"] \in Rset
      /\ [resset_ref(r) EXCEPT !.state = "connected"] \in Rset
      BY <1>1, <1>2, SetState
<1>. QED BY <1>3 DEF answered

(* The record of a set whose reply record goes.                            *)
LEMMA DoneRset ==
    ASSUME TypeOK, NEW reply \in replies, NEW err \in BOOLEAN, reply_done(reply, err)
    PROVE  LET x == reply.by
               k == reply.key
               r == rset[x][k]
           IN  /\ x \in Conns /\ k \in Keys /\ r \in Rset
               /\ rset' \in Sets
               /\ \A z \in Conns, l \in Keys :
                     z # x \/ l # k => rset'[z][l] = rset[z][l]
               /\ r.state = "freed" => rset'[x][k] = r
               /\ r.state # "freed" => \E garbage \in BOOLEAN :
                     rset'[x][k] = resset_unref(answered(r, reply, err, garbage))
<1>. DEFINE x == reply.by
            k == reply.key
            r == rset[x][k]
<1>1. x \in Conns /\ k \in Keys BY DEF TypeOK, Reply
<1>2. rset \in Sets /\ r \in Rset BY <1>1 DEF TypeOK, Sets
<1>3. CASE r.state = "freed"
  <2>1. rset' = rset BY <1>3 DEF reply_done, resset_find
  <2>. QED BY <1>1, <1>2, <1>3, <2>1
<1>4. CASE r.state # "freed"
  <2>1. PICK garbage \in BOOLEAN :
           rset' = [rset EXCEPT ![x][k] = resset_unref(answered(@, reply, err, garbage))]
        BY <1>4 DEF reply_done, resset_find
  <2>. DEFINE v == resset_unref(answered(r, reply, err, garbage))
  <2>2. v \in Rset BY <1>2, AnsweredRset, UnrefRset
  <2>3. rset' = [rset EXCEPT ![x][k] = v] BY <2>1
  <2>. HIDE DEF v
  <2>4. rset' \in Sets /\ \A z \in Conns, l \in Keys :
           rset'[z][l] = IF z = x /\ l = k THEN v ELSE rset[z][l]
        BY <1>1, <1>2, <2>2, <2>3 DEF Sets
  <2>5. rset'[x][k] = v BY <1>1, <2>4
  <2>6. \E g \in BOOLEAN : rset'[x][k] = resset_unref(answered(r, reply, err, g))
        BY <2>5 DEF v
  <2>. QED BY <1>1, <1>2, <1>4, <2>4, <2>6
<1>. QED BY <1>3, <1>4
-----------------------------------------------------------------------------
(* Types.                                                                  *)
LEMMA InitTyped == Init => TypeOK
<1>1. Freed \in Rset BY DEF Freed, Rset, RsetState
<1>2. <<>> \in Seq(Message) /\ <<>> \in Seq(Frame) OBVIOUS
<1>3. 0 \in 0..MaxMsgs BY ConnAssumption
<1>. HIDE DEF Freed
<1>4. [x \in Conns |-> [k \in Keys |-> Freed]] \in [Conns -> [Keys -> Rset]]
      BY <1>1
<1>5. /\ [x \in Conns |-> <<>>] \in [Conns -> Seq(Message)]
      /\ [x \in Conns |-> 0] \in [Conns -> Nat]
      /\ [x \in Conns |-> 0] \in [Conns -> 0..MaxMsgs]
      BY <1>2, <1>3
<1>. QED BY <1>2, <1>3, <1>4, <1>5 DEF Init, NoTraffic, TypeOK

LEMMA SendTyped ==
    ASSUME TypeOK, NEW x \in Conns, NEW y \in Conns, NEW type \in MessageType,
           NEW k \in Keys, NEW need \in BOOLEAN, NEW kill \in BOOLEAN,
           Sending(x, y, type, k, need, kill)
    PROVE  TypeOK'
<1>. DEFINE serial == IF need THEN msgs + 1 ELSE 0
            m      == [type |-> type, key |-> k, n |-> msgs + 1, serial |-> serial]
            sets   == records_sent(x, y, type, k, need)
            nested == ~must_wait(y) /\ resset_find(sets[y][k])
            record == [serial |-> serial, type |-> type, key |-> k, by |-> x]
            frame  == [at |-> y, from |-> x, key |-> k, kill |-> kill]
            owing  == [serial |-> serial, key |-> k, by |-> y]
<1>1. /\ x # y /\ msgs < MaxMsgs /\ msgs' = msgs + 1
      /\ dismissed' \in {dismissed, dismissed \cup {k}} /\ revived' = revived
      /\ UNCHANGED <<connections, answers>>
      BY DEF Sending, send_message
<1>2. /\ replies' \in {replies, replies \cup {record}} /\ timers' \in {timers, timers \cup {serial}}
      /\ ~need => replies' = replies /\ timers' = timers
      BY DEF Sending, send_message, timers_with
<1>3. /\ queue' \in {queue, [queue EXCEPT ![y] = Append(@, m)]}
      /\ dequeues' \in {dequeues, [dequeues EXCEPT ![y] = @ + 1]}
      /\ seen' \in {seen, [seen EXCEPT ![y] = m.n]}
      BY DEF Sending, send_message, dequeues_with
<1>4. /\ stack' \in {stack, <<frame>> \o stack}
      /\ owed' = owed \/ (serial # 0 /\ owed' = owed \cup {owing})
      /\ busy' \in {busy, busy \cup {x}}
      BY DEF Sending, send_message, handed_over
<1>5. rset' \in {sets, disconn(sets, x, k)}
      BY DEF Sending, send_message
<1>6. MaxMsgs \in Nat /\ msgs \in Nat /\ msgs + 1 \in 1..MaxMsgs
      BY <1>1, ConnAssumption DEF TypeOK
<1>7. /\ serial \in 0..MaxMsgs /\ (need => serial \in 1..MaxMsgs)
      /\ (serial # 0 => serial \in 1..MaxMsgs)
      BY <1>6
<1>. HIDE DEF serial
<1>8. /\ m \in Message /\ m.n \in 0..MaxMsgs
      /\ (need => record \in Reply) /\ frame \in Frame
      /\ serial # 0 => owing \in Request
      BY <1>6, <1>7 DEF Message, Reply, Frame, Request, MessageType
<1>. HIDE DEF m, record, frame, owing
<1>9. sets \in Sets
      BY <1>1, RecordsSent DEF TypeOK, Sets
<1>. HIDE DEF sets
<1>10. rset' \in Sets BY <1>5, <1>9, DisconnRset
<1>11. queue' \in [Conns -> Seq(Message)]
  <2>1. queue \in [Conns -> Seq(Message)] BY DEF TypeOK
  <2>2. Append(queue[y], m) \in Seq(Message) BY <1>8, <2>1
  <2>. QED BY <1>3, <2>1, <2>2
<1>12. stack' \in Seq(Frame)
  <2>1. stack \in Seq(Frame) /\ <<frame>> \in Seq(Frame) BY <1>8 DEF TypeOK
  <2>2. <<frame>> \o stack \in Seq(Frame) BY <2>1, ConcatProperties
  <2>. QED BY <1>4, <2>1, <2>2
<1>13. replies' \subseteq Reply /\ timers' \subseteq 1..MaxMsgs
  <2>1. replies \subseteq Reply /\ timers \subseteq 1..MaxMsgs BY DEF TypeOK
  <2>2. CASE ~need BY <1>2, <2>1, <2>2
  <2>3. CASE need BY <1>2, <1>7, <1>8, <2>1, <2>3
  <2>. QED BY <2>2, <2>3
<1>14. dequeues' \in [Conns -> Nat] /\ seen' \in [Conns -> 0..MaxMsgs]
  <2>1. dequeues \in [Conns -> Nat] /\ seen \in [Conns -> 0..MaxMsgs] BY DEF TypeOK
  <2>2. [dequeues EXCEPT ![y] = @ + 1] \in [Conns -> Nat] BY <2>1
  <2>3. [seen EXCEPT ![y] = m.n] \in [Conns -> 0..MaxMsgs] BY <1>8, <2>1
  <2>. QED BY <1>3, <2>1, <2>2, <2>3
<1>15. owed' \subseteq Request /\ busy' \subseteq Conns
       BY <1>4, <1>8 DEF TypeOK
<1>16. msgs' \in 0..MaxMsgs /\ dismissed' \subseteq Keys BY <1>1, <1>6 DEF TypeOK
<1>17. /\ up' \in BOOLEAN /\ notify' \in BOOLEAN
       /\ inited' \subseteq Clients /\ told' \subseteq Clients
       /\ answers' \subseteq Answer /\ revived' \subseteq Keys
       BY <1>1 DEF TypeOK, connections
<1>. QED BY <1>10, <1>11, <1>12, <1>13, <1>14, <1>15, <1>16, <1>17
         DEF TypeOK, Sets

LEMMA ReturnTyped ==
    ASSUME TypeOK, handler_returns PROVE TypeOK'
<1>. DEFINE f == Head(stack)
<1>1. stack # <<>> /\ stack' = Tail(stack) /\ busy' = busy \ {f.from}
      /\ rset' = (IF f.kill THEN disconn(rset, f.from, f.key) ELSE rset)
      BY DEF handler_returns
<1>2. stack \in Seq(Frame) /\ f \in Frame /\ Tail(stack) \in Seq(Frame)
      BY <1>1, HeadTailProperties DEF TypeOK
<1>. HIDE DEF f
<1>3. rset \in Sets BY DEF TypeOK, Sets
<1>4. rset' \in Sets
  <2>1. CASE f.from \in Conns
    <3>1. f.key \in Keys BY <1>2 DEF Frame
    <3>. QED BY <1>1, <1>3, <2>1, <3>1, DisconnRset
  <2>2. CASE f.from \notin Conns
    <3>1. disconn(rset, f.from, f.key) = rset BY <1>3, <2>2 DEF disconn, Sets
    <3>. QED BY <1>1, <1>3, <3>1
  <2>. QED BY <2>1, <2>2
<1>. QED BY <1>1, <1>2, <1>4 DEF TypeOK, handler_returns, connections, Sets

LEMMA DequeueTyped ==
    ASSUME TypeOK, NEW x \in Conns, receive_message_dequeue(x) PROVE TypeOK'
<1>. DEFINE m     == Head(queue[x])
            frame == [at |-> x, from |-> NoConn, key |-> m.key, kill |-> FALSE]
            owing == [serial |-> m.serial, key |-> m.key, by |-> x]
<1>1. /\ dequeues[x] > 0 /\ dequeues' = [dequeues EXCEPT ![x] = @ - 1]
      /\ UNCHANGED <<connections, rset, busy, replies, timers, answers, msgs,
                     dismissed, revived>>
      BY DEF receive_message_dequeue
<1>2. dequeues' \in [Conns -> Nat] BY <1>1 DEF TypeOK
<1>3. CASE queue[x] = <<>>
  <2>1. UNCHANGED <<queue, seen, stack, owed>> BY <1>3 DEF receive_message_dequeue
  <2>. QED BY <1>1, <1>2, <2>1 DEF TypeOK, connections
<1>4. CASE queue[x] # <<>>
  <2>1. /\ queue' = [queue EXCEPT ![x] = Tail(@)]
        /\ seen' = [seen EXCEPT ![x] = m.n]
        /\ stack' \in {stack, <<frame>> \o stack}
        /\ owed' = owed \/ (m.serial # 0 /\ owed' = owed \cup {owing})
        BY <1>4 DEF receive_message_dequeue, handed_over
  <2>2. queue \in [Conns -> Seq(Message)] /\ queue[x] \in Seq(Message)
        BY DEF TypeOK
  <2>3. m \in Message /\ Tail(queue[x]) \in Seq(Message)
        BY <1>4, <2>2, HeadTailProperties
  <2>. HIDE DEF m
  <2>4. m.n \in 0..MaxMsgs /\ frame \in Frame
        /\ (m.serial # 0 => owing \in Request)
        BY <2>3, ConnAssumption DEF Message, Frame, Request
  <2>. HIDE DEF frame, owing
  <2>5. queue' \in [Conns -> Seq(Message)] BY <2>1, <2>2, <2>3
  <2>6. stack' \in Seq(Frame)
    <3>1. stack \in Seq(Frame) /\ <<frame>> \in Seq(Frame) BY <2>4 DEF TypeOK
    <3>2. <<frame>> \o stack \in Seq(Frame) BY <3>1, ConcatProperties
    <3>. QED BY <2>1, <3>1, <3>2
  <2>7. seen' \in [Conns -> 0..MaxMsgs] /\ owed' \subseteq Request
        BY <2>1, <2>4 DEF TypeOK
  <2>. QED BY <1>1, <1>2, <2>5, <2>6, <2>7 DEF TypeOK, connections
<1>. QED BY <1>3, <1>4

LEMMA DoneTyped ==
    ASSUME TypeOK, NEW reply \in replies, NEW err \in BOOLEAN, Done(reply, err),
           answers' \subseteq answers
    PROVE  TypeOK'
<1>1. /\ reply_done(reply, err) /\ timers' = timers \ {reply.serial}
      /\ replies' = replies \ {reply}
      /\ revived' \in {revived, revived \cup {reply.key}}
      /\ UNCHANGED undisturbed
      BY DEF Done, reply_done
<1>2. rset' \in Sets BY <1>1, DoneRset
<1>3. reply.key \in Keys BY DEF TypeOK, Reply
<1>. QED BY <1>1, <1>2, <1>3 DEF TypeOK, undisturbed, connections, Sets

LEMMA NextTyped ==
    ASSUME TypeOK, [Next]_vars PROVE TypeOK'
<1>1. ASSUME Sends PROVE TypeOK' BY <1>1, SendTyped DEF Sends
<1>2. ASSUME NEW q \in owed, NEW err \in BOOLEAN, send_error_init(q, err)
      PROVE  TypeOK'
  <2>. DEFINE answer == [serial |-> q.serial, err |-> err,
                         to |-> IF q.by = Manager THEN q.key[1] ELSE Manager]
  <2>1. /\ owed' = owed \ {q} /\ answers' = answers \cup {answer}
        /\ UNCHANGED <<connections, rset, busy, queue, dequeues, stack, replies,
                       timers, msgs, seen, dismissed, revived>>
        BY <1>2 DEF send_error_init
  <2>2. q.serial \in 1..MaxMsgs /\ q.key \in Keys BY DEF TypeOK, Request
  <2>3. answer \in Answer BY <2>2, KeyEnds DEF Answer
  <2>. HIDE DEF answer
  <2>. QED BY <2>1, <2>3 DEF TypeOK, connections
<1>3. ASSUME NEW reply \in replies, reply_timeout(reply) PROVE TypeOK'
  <2>1. Done(reply, TRUE) /\ answers' = answers BY <1>3 DEF reply_timeout, Done
  <2>. QED BY <2>1, DoneTyped
<1>4. ASSUME NEW a \in answers, send_error_complete(a) PROVE TypeOK'
  <2>1. answers' \subseteq answers BY <1>4 DEF send_error_complete
  <2>2. CASE Dones BY <2>1, <2>2, DoneTyped DEF Dones
  <2>3. CASE Calm
    <3>1. UNCHANGED <<owed, connections>> BY <1>4 DEF send_error_complete, undisturbed
    <3>. QED BY <2>1, <2>3, <3>1 DEF Calm, TypeOK, connections
  <2>. QED BY <1>4, <2>2, <2>3, Completed
<1>5. CASE \/ manager_init \/ notify_clients_about_manager_up
           \/ \E c \in Clients : client_init(c) \/ UNCHANGED vars
      BY <1>5 DEF manager_init, notify_clients_about_manager_up, client_init,
                  traffic, vars, TypeOK, to_be_told
<1>6. CASE UNCHANGED vars BY <1>6 DEF vars, TypeOK
<1>. QED BY <1>1, <1>2, <1>3, <1>4, <1>5, <1>6, CallsSend, ReturnTyped, DequeueTyped
         DEF Next
-----------------------------------------------------------------------------
(* Who called whom.                                                        *)

(* The frames of s, innermost first: each was called by the one behind it, *)
(* and no connection has two.  b are the connections that wait.            *)
Path(s, b) ==
    /\ \A j \in 1..(Len(s) - 1) : s[j].from = s[j + 1].at
    /\ \A j, k \in 1..Len(s) : s[j].at = s[k].at => j = k
    /\ \A j \in 1..Len(s) : s[j].at # s[Len(s)].from
    /\ b = {s[k].from : k \in DOMAIN s} \ {NoConn}

Chained == Path(stack, busy)

LEMMA FrameEnds ==
    ASSUME NEW f \in Frame
    PROVE  f.at \in Conns /\ f.at # NoConn /\ f.key \in Keys
           /\ (f.from \in Conns \/ f.from = NoConn)
BY ConnAssumption DEF Frame, Conns

LEMMA Pushed ==
    ASSUME NEW S, NEW s \in Seq(S), NEW e \in S
    PROVE  LET t == <<e>> \o s
           IN  /\ t \in Seq(S) /\ t # <<>> /\ Len(t) = Len(s) + 1
               /\ t[1] = e
               /\ \A j \in 1..Len(s) : t[j + 1] = s[j]
<1>. DEFINE p == <<e>>
            t == p \o s
<1>1. p \in Seq(S) /\ Len(p) = 1 /\ p[1] = e /\ Len(s) \in Nat OBVIOUS
<1>. HIDE DEF p
<1>2. /\ t \in Seq(S) /\ Len(t) = Len(p) + Len(s)
      /\ \A i \in 1..(Len(p) + Len(s)) :
            t[i] = IF i <= Len(p) THEN p[i] ELSE s[i - Len(p)]
      BY <1>1, ConcatProperties
<1>. HIDE DEF t
<1>3. t[1] = e BY <1>1, <1>2
<1>4. ASSUME NEW j \in 1..Len(s) PROVE t[j + 1] = s[j]
  <2>. DEFINE i == j + 1
  <2>1. i \in 1..(Len(p) + Len(s)) /\ ~(i <= Len(p)) /\ i - Len(p) = j BY <1>1
  <2>. HIDE DEF i
  <2>2. t[i] = s[j] BY <1>2, <2>1
  <2>. QED BY <2>2 DEF i
<1>. QED BY <1>1, <1>2, <1>3, <1>4 DEF t, p

LEMMA PathApart ==
    ASSUME NEW s \in Seq(Frame), s # <<>>, NEW b, Path(s, b)
    PROVE  /\ \A j \in 1..Len(s) : s[1].at # s[j].from
           /\ \A i, j \in 1..Len(s) : s[i].from = s[j].from => i = j
<1>1. Len(s) \in Nat /\ Len(s) >= 1 OBVIOUS
<1>. DEFINE n == Len(s)
<1>2. /\ \A j \in 1..(n - 1) : s[j].from = s[j + 1].at
      /\ \A j, k \in 1..n : s[j].at = s[k].at => j = k
      /\ \A j \in 1..n : s[j].at # s[n].from
      BY DEF Path
<1>3. n \in Nat /\ n >= 1 BY <1>1
<1>. HIDE DEF n
<1>4. ASSUME NEW j \in 1..n PROVE s[1].at # s[j].from
  <2>1. CASE j = n BY <1>2, <1>3, <2>1
  <2>2. CASE j # n
    <3>1. j \in 1..(n - 1) /\ j + 1 \in 1..n /\ j + 1 # 1 /\ 1 \in 1..n
          BY <1>3, <2>2
    <3>. QED BY <1>2, <3>1
  <2>. QED BY <2>1, <2>2
<1>5. ASSUME NEW i \in 1..n, NEW j \in 1..n, s[i].from = s[j].from PROVE i = j
  <2>1. ASSUME NEW k \in 1..n, k # n
        PROVE  k \in 1..(n - 1) /\ k + 1 \in 1..n
        BY <1>3, <2>1
  <2>2. CASE i = n /\ j # n BY <1>2, <1>5, <2>1, <2>2
  <2>3. CASE i # n /\ j = n BY <1>2, <1>5, <2>1, <2>3
  <2>4. CASE i # n /\ j # n
    <3>1. s[i + 1].at = s[j + 1].at BY <1>2, <1>5, <2>1, <2>4
    <3>2. i + 1 = j + 1 BY <1>2, <2>1, <2>4, <3>1
    <3>. QED BY <3>2
  <2>. QED BY <2>2, <2>3, <2>4
<1>. QED BY <1>4, <1>5 DEF n

LEMMA PathPush ==
    ASSUME NEW s \in Seq(Frame), NEW b, Path(s, b), NEW f \in Frame,
           f.at # f.from, f.at \notin b, s # <<>> => s[1].at = f.from
    PROVE  Path(<<f>> \o s, b \cup ({f.from} \ {NoConn}))
<1>. DEFINE t == <<f>> \o s
            n == Len(s)
<1>1. /\ t \in Seq(Frame) /\ Len(t) = n + 1 /\ t[1] = f
      /\ \A j \in 1..n : t[j + 1] = s[j]
      BY Pushed
<1>2. n \in Nat /\ (s = <<>> <=> n = 0) /\ DOMAIN s = 1..n
      /\ \A j \in 1..n : s[j] \in Frame
      OBVIOUS
<1>3. /\ \A j \in 1..(n - 1) : s[j].from = s[j + 1].at
      /\ \A j, k \in 1..n : s[j].at = s[k].at => j = k
      /\ \A j \in 1..n : s[j].at # s[n].from
      /\ b = {s[k].from : k \in 1..n} \ {NoConn}
      BY <1>2 DEF Path
<1>4. DOMAIN t = 1..(n + 1) BY <1>1
<1>. HIDE DEF t, n
<1>5. ASSUME NEW j \in 2..(n + 1)
      PROVE  j - 1 \in 1..n /\ t[j] = s[j - 1]
  <2>. DEFINE i == j - 1
  <2>1. i \in 1..n /\ i + 1 = j BY <1>2
  <2>. HIDE DEF i
  <2>2. t[i + 1] = s[i] BY <1>1, <2>1
  <2>. QED BY <2>1, <2>2 DEF i
<1>6. \A j \in 1..(n + 1) : j = 1 \/ j \in 2..(n + 1) BY <1>2
<1>7. ASSUME NEW j \in 1..n PROVE s[j].at # f.at
  <2>1. CASE j = 1
    <3>1. n # 0 BY <1>2, <2>1
    <3>. QED BY <1>2, <2>1, <3>1
  <2>2. CASE j # 1
    <3>. DEFINE i == j - 1
    <3>1. i \in 1..(n - 1) /\ i \in 1..n /\ i + 1 = j BY <1>2, <2>2
    <3>. HIDE DEF i
    <3>2. s[i].from = s[j].at BY <1>3, <3>1
    <3>3. s[j].at # NoConn BY <1>2, FrameEnds
    <3>4. s[j].at \in b BY <1>3, <3>1, <3>2, <3>3
    <3>. QED BY <3>4
  <2>. QED BY <2>1, <2>2
<1>8. ASSUME NEW j \in 1..n PROVE s[j].from # f.at
  <2>1. f.at # NoConn BY FrameEnds
  <2>. QED BY <1>3, <2>1
<1>9. \A j \in 1..n : t[j].from = t[j + 1].at
  <2>1. ASSUME NEW j \in 1..n PROVE t[j].from = s[j].at
    <3>1. CASE j = 1
      <4>1. n # 0 BY <1>2, <3>1
      <4>. QED BY <1>1, <1>2, <3>1, <4>1
    <3>2. CASE j # 1
      <4>1. j \in 2..(n + 1) BY <1>2, <3>2
      <4>. DEFINE i == j - 1
      <4>2. i \in 1..(n - 1) /\ i + 1 = j /\ t[j] = s[i]
            BY <1>2, <1>5, <3>2, <4>1
      <4>. HIDE DEF i
      <4>. QED BY <1>3, <4>2
    <3>. QED BY <3>1, <3>2
  <2>. QED BY <1>1, <2>1
<1>10. ASSUME NEW j \in 1..(n + 1), NEW k \in 1..(n + 1), t[j].at = t[k].at
       PROVE  j = k
  <2>1. CASE j = 1 /\ k # 1
    <3>1. k \in 2..(n + 1) BY <1>6, <2>1
    <3>. QED BY <1>1, <1>5, <1>7, <1>10, <2>1, <3>1
  <2>2. CASE j # 1 /\ k = 1
    <3>1. j \in 2..(n + 1) BY <1>6, <2>2
    <3>. QED BY <1>1, <1>5, <1>7, <1>10, <2>2, <3>1
  <2>3. CASE j # 1 /\ k # 1
    <3>1. j \in 2..(n + 1) /\ k \in 2..(n + 1) BY <1>6, <2>3
    <3>2. j - 1 = k - 1 BY <1>3, <1>5, <1>10, <3>1
    <3>. QED BY <3>2
  <2>. QED BY <2>1, <2>2, <2>3
<1>11. ASSUME NEW j \in 1..(n + 1) PROVE t[j].at # t[n + 1].from
  <2>1. CASE n = 0
    <3>1. j = 1 /\ n + 1 = 1 BY <2>1
    <3>. QED BY <1>1, <3>1
  <2>2. CASE n # 0
    <3>1. n \in 1..n /\ t[n + 1] = s[n] BY <1>1, <1>2, <2>2
    <3>2. CASE j = 1 BY <1>1, <1>8, <3>1, <3>2
    <3>3. CASE j \in 2..(n + 1) BY <1>3, <1>5, <3>1, <3>3
    <3>. QED BY <1>6, <3>2, <3>3
  <2>. QED BY <2>1, <2>2
<1>12. {t[k].from : k \in 1..(n + 1)} = {f.from} \cup {s[k].from : k \in 1..n}
  <2>1. ASSUME NEW k \in 1..(n + 1)
        PROVE  t[k].from \in {f.from} \cup {s[l].from : l \in 1..n}
        BY <1>1, <1>5, <1>6
  <2>2. f.from \in {t[k].from : k \in 1..(n + 1)}
    <3>1. 1 \in 1..(n + 1) BY <1>2
    <3>. QED BY <1>1, <3>1
  <2>3. ASSUME NEW l \in 1..n PROVE s[l].from \in {t[k].from : k \in 1..(n + 1)}
    <3>1. l + 1 \in 1..(n + 1) /\ t[l + 1] = s[l] BY <1>1, <1>2
    <3>. QED BY <3>1
  <2>. QED BY <2>1, <2>2, <2>3
<1>13. b \cup ({f.from} \ {NoConn}) = {t[k].from : k \in DOMAIN t} \ {NoConn}
       BY <1>3, <1>4, <1>12
<1>14. (n + 1) - 1 = n BY <1>2
<1>. QED BY <1>1, <1>9, <1>10, <1>11, <1>13, <1>14 DEF Path, t

LEMMA PathPop ==
    ASSUME NEW s \in Seq(Frame), s # <<>>, NEW b, Path(s, b)
    PROVE  Path(Tail(s), b \ {Head(s).from})
<1>. DEFINE t == Tail(s)
            n == Len(s)
<1>1. /\ t \in Seq(Frame) /\ Len(t) = n - 1 /\ Head(s) = s[1]
      /\ \A j \in 1..(n - 1) : t[j] = s[j + 1]
      BY HeadTailProperties
<1>2. n \in Nat /\ n >= 1 /\ DOMAIN s = 1..n OBVIOUS
<1>3. /\ \A j \in 1..(n - 1) : s[j].from = s[j + 1].at
      /\ \A j, k \in 1..n : s[j].at = s[k].at => j = k
      /\ \A j \in 1..n : s[j].at # s[n].from
      /\ b = {s[k].from : k \in 1..n} \ {NoConn}
      BY <1>2 DEF Path
<1>4. \A i, j \in 1..n : s[i].from = s[j].from => i = j BY PathApart DEF n
<1>5. DOMAIN t = 1..(n - 1) BY <1>1
<1>. HIDE DEF t, n
<1>6. \A j \in 1..(n - 1) : j + 1 \in 1..n /\ j + 1 # 1 BY <1>2
<1>7. \A j \in 1..(n - 2) : t[j].from = t[j + 1].at
  <2>. SUFFICES ASSUME NEW j \in 1..(n - 2) PROVE t[j].from = t[j + 1].at
       OBVIOUS
  <2>. DEFINE i == j + 1
  <2>1. j \in 1..(n - 1) /\ i \in 1..(n - 1) BY <1>2
  <2>2. t[j] = s[i] BY <1>1, <2>1
  <2>. HIDE DEF i
  <2>3. t[i] = s[i + 1] BY <1>1, <2>1
  <2>4. s[i].from = s[i + 1].at BY <1>3, <2>1
  <2>5. t[j].from = t[i].at BY <2>2, <2>3, <2>4
  <2>. QED BY <2>5 DEF i
<1>8. ASSUME NEW j \in 1..(n - 1), NEW k \in 1..(n - 1), t[j].at = t[k].at
      PROVE  j = k
  <2>1. j + 1 = k + 1 BY <1>1, <1>3, <1>6, <1>8
  <2>. QED BY <2>1
<1>9. ASSUME NEW j \in 1..(n - 1) PROVE t[j].at # t[n - 1].from
  <2>1. n - 1 \in 1..(n - 1) BY <1>2
  <2>2. t[n - 1] = s[n - 1 + 1] /\ n - 1 + 1 = n BY <1>1, <1>2, <2>1
  <2>. QED BY <1>1, <1>3, <1>6, <2>2
<1>10. b \ {s[1].from} = {t[k].from : k \in 1..(n - 1)} \ {NoConn}
  <2>1. ASSUME NEW k \in 1..(n - 1)
        PROVE  t[k].from \in {s[l].from : l \in 1..n} /\ t[k].from # s[1].from
    <3>1. 1 \in 1..n BY <1>2
    <3>. QED BY <1>1, <1>4, <1>6, <3>1
  <2>2. ASSUME NEW k \in 1..n, s[k].from # s[1].from
        PROVE  s[k].from \in {t[l].from : l \in 1..(n - 1)}
    <3>. DEFINE i == k - 1
    <3>1. i \in 1..(n - 1) /\ i + 1 = k BY <1>2, <2>2
    <3>. HIDE DEF i
    <3>2. t[i] = s[k] BY <1>1, <3>1
    <3>. QED BY <3>1, <3>2
  <2>. QED BY <1>3, <2>1, <2>2
<1>11. (n - 1) - 1 = n - 2 BY <1>2
<1>. QED BY <1>1, <1>5, <1>7, <1>8, <1>9, <1>10, <1>11 DEF Path, t

LEMMA InitChained == Init => Chained
<1>1. Path(<<>>, {})
  <2>1. Len(<<>>) = 0 /\ DOMAIN <<>> = {} OBVIOUS
  <2>. QED BY <2>1 DEF Path
<1>. QED BY <1>1 DEF Init, NoTraffic, Chained

(* The frame that a message that is handed over puts on the stack.         *)
LEMMA SendFrame ==
    ASSUME TypeOK, NEW x \in Conns, NEW y \in Conns, NEW type \in MessageType,
           NEW k \in Keys, NEW need \in BOOLEAN, NEW kill \in BOOLEAN,
           Sending(x, y, type, k, need, kill)
    PROVE  LET f == [at |-> y, from |-> x, key |-> k, kill |-> kill]
           IN  /\ f \in Frame
               /\ \/ stack' = stack /\ busy' = busy
                  \/ /\ stack' = <<f>> \o stack /\ busy' = busy \cup {x}
                     /\ y \notin busy
               /\ stack # <<>> => stack[1].at = x
<1>1. [at |-> y, from |-> x, key |-> k, kill |-> kill] \in Frame BY DEF Frame
<1>2. stack # <<>> => stack[1].at = x BY DEF Sending, Running
<1>. QED BY <1>1, <1>2 DEF Sending, send_message, handed_over, must_wait

LEMMA DequeueFrame ==
    ASSUME TypeOK, NEW x \in Conns, receive_message_dequeue(x)
    PROVE  /\ stack = <<>> /\ busy' = busy
           /\ \/ stack' = stack
              \/ \E f \in Frame : /\ f.at = x /\ f.from = NoConn /\ f.kill = FALSE
                                  /\ stack' = <<f>> \o stack
<1>. DEFINE m == Head(queue[x])
            f == [at |-> x, from |-> NoConn, key |-> m.key, kill |-> FALSE]
<1>1. CASE stack' = stack BY <1>1 DEF receive_message_dequeue
<1>2. CASE queue[x] # <<>> /\ stack' = <<f>> \o stack
  <2>1. queue[x] \in Seq(Message) BY DEF TypeOK
  <2>2. m \in Message BY <1>2, <2>1, HeadTailProperties
  <2>3. f \in Frame BY <2>2 DEF Message, Frame
  <2>. HIDE DEF m
  <2>. QED BY <1>2, <2>3 DEF receive_message_dequeue
<1>. QED BY <1>1, <1>2 DEF receive_message_dequeue, handed_over

LEMMA NextChained ==
    ASSUME TypeOK, Chained, [Next]_vars PROVE Chained'
<1>0. stack \in Seq(Frame) BY DEF TypeOK
<1>1. ASSUME NEW x \in Conns, NEW y \in Conns, NEW type \in MessageType,
             NEW k \in Keys, NEW need \in BOOLEAN, NEW kill \in BOOLEAN,
             Sending(x, y, type, k, need, kill)
      PROVE  Chained'
  <2>. DEFINE f == [at |-> y, from |-> x, key |-> k, kill |-> kill]
  <2>1. /\ f \in Frame
        /\ \/ stack' = stack /\ busy' = busy
           \/ /\ stack' = <<f>> \o stack /\ busy' = busy \cup {x}
              /\ y \notin busy
        /\ stack # <<>> => stack[1].at = x
        BY <1>1, SendFrame
  <2>2. f.at = y /\ f.from = x /\ x # y BY <1>1 DEF Sending
  <2>. HIDE DEF f
  <2>3. CASE stack' = stack /\ busy' = busy BY <2>3 DEF Chained
  <2>4. CASE stack' = <<f>> \o stack /\ busy' = busy \cup {x} /\ y \notin busy
    <3>1. Path(<<f>> \o stack, busy \cup ({f.from} \ {NoConn}))
          BY <1>0, <2>1, <2>2, <2>4, PathPush DEF Chained
    <3>2. {f.from} \ {NoConn} = {x} BY <2>2, ConnAssumption DEF Conns
    <3>. QED BY <2>4, <3>1, <3>2 DEF Chained
  <2>. QED BY <2>1, <2>3, <2>4
<1>2. ASSUME handler_returns PROVE Chained'
  <2>1. stack # <<>> /\ stack' = Tail(stack) /\ busy' = busy \ {Head(stack).from}
        BY <1>2 DEF handler_returns
  <2>2. Path(Tail(stack), busy \ {Head(stack).from})
        BY <1>0, <2>1, PathPop DEF Chained
  <2>. QED BY <2>1, <2>2 DEF Chained
<1>3. ASSUME NEW x \in Conns, receive_message_dequeue(x) PROVE Chained'
  <2>1. /\ stack = <<>> /\ busy' = busy
        /\ \/ stack' = stack
           \/ \E f \in Frame : /\ f.at = x /\ f.from = NoConn /\ f.kill = FALSE
                               /\ stack' = <<f>> \o stack
        BY <1>3, DequeueFrame
  <2>2. CASE stack' = stack BY <2>1, <2>2 DEF Chained
  <2>3. ASSUME NEW f \in Frame, f.at = x, f.from = NoConn, stack' = <<f>> \o stack
        PROVE  Chained'
    <3>1. x \notin busy
      <4>1. DOMAIN stack = {} BY <2>1
      <4>. QED BY <4>1 DEF Chained, Path
    <3>2. f.at # f.from BY <2>3, ConnAssumption DEF Conns
    <3>3. Path(<<f>> \o stack, busy \cup ({f.from} \ {NoConn}))
          BY <1>0, <2>1, <2>3, <3>1, <3>2, PathPush DEF Chained
    <3>4. busy \cup ({f.from} \ {NoConn}) = busy BY <2>3
    <3>. QED BY <2>1, <2>3, <3>3, <3>4 DEF Chained
  <2>. QED BY <2>1, <2>2, <2>3
<1>4. ASSUME Dones PROVE Chained'
      BY <1>4 DEF Dones, Done, undisturbed, Chained
<1>5. ASSUME Calm PROVE Chained' BY <1>5 DEF Calm, Chained
<1>. QED BY <1>1, <1>2, <1>3, <1>4, <1>5, Steps DEF Sends
-----------------------------------------------------------------------------
(* Messages wait in the order of their numbers.                            *)
Lined(list, last, top) ==
    /\ last <= top
    /\ \A j \in 1..Len(list) : last < list[j].n /\ list[j].n <= top
    /\ \A j, k \in 1..Len(list) : j < k => list[j].n < list[k].n

Numbered == \A x \in Conns : Lined(queue[x], seen[x], msgs)

LEMMA InitNumbered == Init => Numbered
<1>1. Lined(<<>>, 0, 0) BY DEF Lined
<1>. QED BY <1>1 DEF Init, NoTraffic, Numbered

LEMMA NextNumbered ==
    ASSUME TypeOK, Numbered, [Next]_vars PROVE Numbered'
<1>0. /\ msgs \in Nat
      /\ \A x \in Conns : queue[x] \in Seq(Message) /\ seen[x] \in Nat
      BY ConnAssumption DEF TypeOK
<1>1. ASSUME NEW x \in Conns, NEW y \in Conns, NEW type \in MessageType,
             NEW k \in Keys, NEW need \in BOOLEAN, NEW kill \in BOOLEAN,
             Sending(x, y, type, k, need, kill)
      PROVE  Numbered'
  <2>. DEFINE m == [type |-> type, key |-> k, n |-> msgs + 1,
                    serial |-> IF need THEN msgs + 1 ELSE 0]
  <2>1. /\ msgs' = msgs + 1 /\ msgs + 1 \in 1..MaxMsgs
        /\ \/ queue' = [queue EXCEPT ![y] = Append(@, m)] /\ seen' = seen
           \/ queue[y] = <<>> /\ queue' = queue /\ seen' = [seen EXCEPT ![y] = m.n]
        BY <1>0, <1>1, ConnAssumption DEF Sending, send_message, must_wait
  <2>2. m \in Message /\ m.n = msgs + 1
    <3>1. 0 \in 0..MaxMsgs /\ msgs + 1 \in 0..MaxMsgs BY <1>0, <2>1, ConnAssumption
    <3>2. (IF need THEN msgs + 1 ELSE 0) \in 0..MaxMsgs BY <3>1
    <3>. QED BY <2>1, <3>2 DEF Message, MessageType
  <2>. HIDE DEF m
  <2>3. ASSUME NEW z \in Conns PROVE Lined(queue'[z], seen'[z], msgs + 1)
    <3>1. Lined(queue[z], seen[z], msgs) BY DEF Numbered
    <3>. DEFINE q == queue[z]
                p == Append(q, m)
    <3>2. /\ q \in Seq(Message) /\ Len(q) \in Nat
          /\ \A j \in 1..Len(q) : q[j].n \in Nat
      <4>1. q \in Seq(Message) BY <1>0
      <4>. HIDE DEF q
      <4>2. \A j \in 1..Len(q) : q[j] \in Message BY <4>1
      <4>. QED BY <4>1, <4>2, ConnAssumption DEF Message
    <3>3. CASE queue'[z] = q /\ seen'[z] = seen[z]
      <4>. HIDE DEF q
      <4>1. Lined(q, seen[z], msgs) BY <3>1 DEF q
      <4>2. Lined(q, seen[z], msgs + 1) BY <1>0, <3>2, <4>1 DEF Lined
      <4>. QED BY <3>3, <4>2
    <3>4. CASE queue'[z] = p /\ seen'[z] = seen[z]
      <4>1. Lined(q, seen[z], msgs) BY <3>1
      <4>. HIDE DEF q
      <4>2. /\ Len(p) = Len(q) + 1 /\ p[Len(q) + 1] = m
            /\ \A j \in 1..Len(q) : p[j] = q[j]
            BY <2>2, <3>2, AppendProperties
      <4>. HIDE DEF p
      <4>3. \A j \in 1..Len(p) : j \in 1..Len(q) \/ j = Len(q) + 1
            BY <3>2, <4>2
      <4>4. \A j \in 1..Len(p) : seen[z] < p[j].n /\ p[j].n <= msgs + 1
            BY <1>0, <2>2, <3>2, <4>1, <4>2, <4>3 DEF Lined
      <4>5. ASSUME NEW i \in 1..Len(p), NEW j \in 1..Len(p), i < j
            PROVE  p[i].n < p[j].n
        <5>1. i \in 1..Len(q) BY <3>2, <4>2, <4>5
        <5>2. CASE j \in 1..Len(q) BY <4>1, <4>2, <4>5, <5>1, <5>2 DEF Lined
        <5>3. CASE j = Len(q) + 1
              BY <1>0, <2>2, <3>2, <4>1, <4>2, <5>1, <5>3 DEF Lined
        <5>. QED BY <4>3, <5>2, <5>3
      <4>6. seen[z] <= msgs + 1 BY <1>0, <4>1 DEF Lined
      <4>7. Lined(p, seen[z], msgs + 1) BY <4>4, <4>5, <4>6 DEF Lined
      <4>. QED BY <3>4, <4>7
    <3>5. CASE queue'[z] = <<>> /\ seen'[z] = m.n
      <4>1. Lined(<<>>, m.n, msgs + 1) BY <1>0, <2>2 DEF Lined
      <4>. QED BY <3>5, <4>1
    <3>6. \/ queue'[z] = q /\ seen'[z] = seen[z]
          \/ queue'[z] = p /\ seen'[z] = seen[z]
          \/ queue'[z] = <<>> /\ seen'[z] = m.n
          BY <2>1 DEF TypeOK
    <3>. HIDE DEF p, q
    <3>. QED BY <3>3, <3>4, <3>5, <3>6
  <2>. QED BY <2>1, <2>3 DEF Numbered
<1>2. ASSUME NEW x \in Conns, receive_message_dequeue(x) PROVE Numbered'
  <2>1. msgs' = msgs BY <1>2 DEF receive_message_dequeue
  <2>2. CASE queue[x] = <<>>
        BY <1>2, <2>1, <2>2 DEF receive_message_dequeue, Numbered
  <2>3. CASE queue[x] # <<>>
    <3>1. /\ queue' = [queue EXCEPT ![x] = Tail(@)]
          /\ seen' = [seen EXCEPT ![x] = Head(queue[x]).n]
          BY <1>2, <2>3 DEF receive_message_dequeue
    <3>. DEFINE q == queue[x]
                t == Tail(q)
    <3>2. /\ q \in Seq(Message) /\ q # <<>> BY <1>0, <2>3
    <3>3. Lined(q, seen[x], msgs) BY DEF Numbered
    <3>. HIDE DEF q
    <3>4. /\ Head(q) = q[1] /\ Len(t) = Len(q) - 1 /\ Len(q) \in Nat /\ Len(q) >= 1
          /\ \A j \in 1..Len(t) : t[j] = q[j + 1]
          BY <3>2, HeadTailProperties
    <3>. HIDE DEF t
    <3>5. /\ 1 \in 1..Len(q)
          /\ \A j \in 1..Len(t) : j + 1 \in 1..Len(q) /\ 1 < j + 1
          BY <3>4
    <3>6. ASSUME NEW i \in 1..Len(t), NEW j \in 1..Len(t), i < j
          PROVE  t[i].n < t[j].n
      <4>1. i + 1 < j + 1 BY <3>6
      <4>. QED BY <3>3, <3>4, <3>5, <4>1 DEF Lined
    <3>7. Lined(t, q[1].n, msgs) BY <3>3, <3>4, <3>5, <3>6 DEF Lined
    <3>8. queue'[x] = t /\ seen'[x] = q[1].n
          BY <3>1, <3>4 DEF TypeOK, q, t
    <3>9. \A z \in Conns : z # x => queue'[z] = queue[z] /\ seen'[z] = seen[z]
          BY <3>1 DEF TypeOK
    <3>. QED BY <2>1, <3>7, <3>8, <3>9 DEF Numbered
  <2>. QED BY <2>2, <2>3
<1>3. ASSUME handler_returns PROVE Numbered'
      BY <1>3 DEF handler_returns, Numbered
<1>4. ASSUME Dones PROVE Numbered'
      BY <1>4 DEF Dones, Done, undisturbed, Numbered
<1>5. ASSUME Calm PROVE Numbered' BY <1>5 DEF Calm, Numbered
<1>. QED BY <1>1, <1>2, <1>3, <1>4, <1>5, Steps DEF Sends
-----------------------------------------------------------------------------
(* Reply records and their timers.                                         *)
Timed ==
    /\ TimerPerReply
    /\ IsFiniteSet(replies)
    /\ \A r \in replies : r.serial <= msgs
    /\ \A r, s \in replies : r.serial = s.serial => r = s

LEMMA InitTimed == Init => Timed
<1>1. IsFiniteSet({}) BY FS_EmptySet
<1>. QED BY <1>1 DEF Init, NoTraffic, Timed, TimerPerReply

(* The reply record of a request; it is not among those there are.         *)
Record(x, type, k, msg) == [serial |-> msg, type |-> type, key |-> k, by |-> x]

LEMMA SendReplies ==
    ASSUME TypeOK, NEW x \in Conns, NEW y \in Conns, NEW type \in MessageType,
           NEW k \in Keys, NEW need \in BOOLEAN, NEW kill \in BOOLEAN,
           Sending(x, y, type, k, need, kill)
    PROVE  /\ msgs' = msgs + 1
           /\ need => /\ replies' = replies \cup {Record(x, type, k, msgs + 1)}
                      /\ timers' = timers \cup {msgs + 1}
           /\ ~need => replies' = replies /\ timers' = timers
BY DEF Sending, send_message, timers_with, Record

LEMMA NextTimed ==
    ASSUME TypeOK, Timed, [Next]_vars PROVE Timed'
<1>0. /\ msgs \in Nat /\ \A r \in replies : r.serial \in Nat
      BY ConnAssumption DEF TypeOK, Reply
<1>1. ASSUME NEW x \in Conns, NEW y \in Conns, NEW type \in MessageType,
             NEW k \in Keys, NEW need \in BOOLEAN, NEW kill \in BOOLEAN,
             Sending(x, y, type, k, need, kill)
      PROVE  Timed'
  <2>. DEFINE r == Record(x, type, k, msgs + 1)
  <2>1. /\ msgs' = msgs + 1
        /\ need => replies' = replies \cup {r} /\ timers' = timers \cup {msgs + 1}
        /\ ~need => replies' = replies /\ timers' = timers
        BY <1>1, SendReplies
  <2>2. r.serial = msgs + 1 BY DEF Record
  <2>. HIDE DEF r
  <2>3. CASE ~need BY <1>0, <2>1, <2>3 DEF Timed, TimerPerReply
  <2>4. CASE need
    <3>1. IsFiniteSet(replies') BY <2>1, <2>4, FS_AddElement DEF Timed
    <3>2. TimerPerReply' BY <2>1, <2>2, <2>4 DEF Timed, TimerPerReply
    <3>3. \A s \in replies : s.serial # r.serial BY <1>0, <2>2 DEF Timed
    <3>. QED BY <1>0, <2>1, <2>2, <2>4, <3>1, <3>2, <3>3 DEF Timed
  <2>. QED BY <2>3, <2>4
<1>2. ASSUME NEW reply \in replies, NEW err \in BOOLEAN, Done(reply, err)
      PROVE  Timed'
  <2>1. /\ replies' = replies \ {reply} /\ timers' = timers \ {reply.serial}
        /\ msgs' = msgs
        BY <1>2 DEF Done, reply_done, undisturbed
  <2>2. IsFiniteSet(replies') BY <2>1, FS_RemoveElement DEF Timed
  <2>3. TimerPerReply' BY <2>1 DEF Timed, TimerPerReply
  <2>. QED BY <2>1, <2>2, <2>3 DEF Timed
<1>3. ASSUME handler_returns PROVE Timed'
      BY <1>3 DEF handler_returns, Timed, TimerPerReply
<1>4. ASSUME NEW x \in Conns, receive_message_dequeue(x) PROVE Timed'
      BY <1>4 DEF receive_message_dequeue, Timed, TimerPerReply
<1>5. ASSUME Calm PROVE Timed' BY <1>5 DEF Calm, Timed, TimerPerReply
<1>. QED BY <1>1, <1>2, <1>3, <1>4, <1>5, Steps DEF Sends, Dones
-----------------------------------------------------------------------------
(* The references.                                                         *)
Balanced(r, n) ==
    /\ r.state \in {"created", "connected"} => r.refcnt = n + 1
    /\ r.state = "killed" => r.refcnt \in {n, n + 1} /\ r.refcnt > 0
    /\ r.state = "freed" => r.refcnt = 0 /\ n = 0

Refs == \A x \in Conns, k \in Keys :
           x = Manager \/ k \notin revived
              => Balanced(rset[x][k], Cardinality(held_by(x, k)))

(* A frame whose return disconnects the set k of x.                        *)
LeavingBy(x, k) ==
    \E j \in 1..Len(stack) :
        stack[j].kill /\ stack[j].from = x /\ stack[j].key = k

(* At most one UNREGISTER of a client is awaited, and the client's own     *)
(* reference has been given up, or the sending has not returned.           *)
Leaving(x, k) ==
    /\ \A r, s \in held_by(x, k) :
          r.type = "unregister" /\ s.type = "unregister" => r = s
    /\ \A r \in held_by(x, k) :
          r.type = "unregister" =>
             \/ /\ rset[x][k].state = "killed"
                /\ rset[x][k].refcnt = Cardinality(held_by(x, k))
             \/ LeavingBy(x, k)

AllLeaving == \A x \in Clients, k \in Keys : k \notin revived => Leaving(x, k)

Killing ==
    \A j \in 1..Len(stack) : stack[j].kill =>
        /\ stack[j].from \in Conns
        /\ rset[stack[j].from][stack[j].key].state = "connected"
        /\ stack[j].from = Manager => stack[j].key \in dismissed

Accounted == Refs /\ AllLeaving /\ Killing

LEMMA Holding ==
    ASSUME Timed, NEW x, NEW k
    PROVE  /\ IsFiniteSet(held_by(x, k)) /\ Cardinality(held_by(x, k)) \in Nat
           /\ \A r \in held_by(x, k) : Cardinality(held_by(x, k)) >= 1
<1>1. IsFiniteSet(held_by(x, k)) BY FS_Subset DEF held_by, Timed
<1>2. Cardinality(held_by(x, k)) \in Nat BY <1>1, FS_CardinalityType
<1>3. Cardinality(held_by(x, k)) = 0 <=> held_by(x, k) = {} BY <1>1, FS_EmptySet
<1>. QED BY <1>1, <1>2, <1>3

LEMMA HoldingMore ==
    ASSUME Timed, NEW r, r \notin replies, replies' = replies \cup {r}
    PROVE  /\ held_by(r.by, r.key)' = held_by(r.by, r.key) \cup {r}
           /\ Cardinality(held_by(r.by, r.key)') =
                 Cardinality(held_by(r.by, r.key)) + 1
           /\ \A x, k : x # r.by \/ k # r.key => held_by(x, k)' = held_by(x, k)
<1>1. held_by(r.by, r.key)' = held_by(r.by, r.key) \cup {r} BY DEF held_by
<1>2. r \notin held_by(r.by, r.key) BY DEF held_by
<1>3. IsFiniteSet(held_by(r.by, r.key)) BY Holding
<1>4. \A x, k : x # r.by \/ k # r.key => held_by(x, k)' = held_by(x, k)
      BY DEF held_by
<1>. QED BY <1>1, <1>2, <1>3, <1>4, FS_AddElement

LEMMA HoldingLess ==
    ASSUME Timed, NEW r \in replies, replies' = replies \ {r}
    PROVE  /\ held_by(r.by, r.key)' = held_by(r.by, r.key) \ {r}
           /\ r \in held_by(r.by, r.key)
           /\ Cardinality(held_by(r.by, r.key)') =
                 Cardinality(held_by(r.by, r.key)) - 1
           /\ \A x, k : x # r.by \/ k # r.key => held_by(x, k)' = held_by(x, k)
<1>1. held_by(r.by, r.key)' = held_by(r.by, r.key) \ {r} BY DEF held_by
<1>2. r \in held_by(r.by, r.key) BY DEF held_by
<1>3. IsFiniteSet(held_by(r.by, r.key)) BY Holding
<1>4. \A x, k : x # r.by \/ k # r.key => held_by(x, k)' = held_by(x, k)
      BY DEF held_by
<1>. QED BY <1>1, <1>2, <1>3, <1>4, FS_RemoveElement

LEMMA TakenBalanced ==
    ASSUME NEW r \in Rset, NEW n \in Nat, Balanced(r, n), NEW need \in BOOLEAN
    PROVE  Balanced(Taken(r, need), n + (IF need THEN 1 ELSE 0))
<1>. DEFINE d == Taken(r, need)
            i == IF need THEN 1 ELSE 0
<1>1. /\ d.state = IF r.state = "freed" THEN "created" ELSE r.state
      /\ d.refcnt = (IF r.state = "freed" THEN 1 ELSE r.refcnt) + i
      BY TakenRset
<1>2. i \in {0, 1} /\ r.refcnt \in Nat BY DEF Rset
<1>. HIDE DEF d, i
<1>3. Balanced(d, n + i) BY <1>1, <1>2 DEF Balanced
<1>. QED BY <1>3 DEF d, i

LEMMA DestroyBalanced ==
    ASSUME NEW r \in Rset, NEW n \in Nat, Balanced(r, n), r.state = "connected"
    PROVE  /\ Balanced(resset_destroy(r), n)
           /\ n >= 1 => /\ resset_destroy(r).state = "killed"
                        /\ resset_destroy(r).refcnt = n
<1>1. r.refcnt = n + 1 BY DEF Balanced
<1>2. CASE n = 0 BY <1>1, <1>2, DestroyRset DEF Balanced
<1>3. CASE n # 0
  <2>1. /\ resset_destroy(r).state = "killed"
        /\ resset_destroy(r).refcnt = n
        BY <1>1, <1>3, DestroyRset
  <2>. QED BY <1>3, <2>1 DEF Balanced
<1>. QED BY <1>2, <1>3

LEMMA UnrefBalanced ==
    ASSUME NEW r \in Rset, NEW n \in Nat, n >= 1, Balanced(r, n)
    PROVE  /\ Balanced(resset_unref(r), n - 1)
           /\ r.refcnt > 1 => /\ resset_unref(r).state = r.state
                              /\ resset_unref(r).refcnt = r.refcnt - 1
<1>1. r.refcnt \in Nat /\ r.state \in RsetState BY DEF Rset
<1>2. CASE r.refcnt <= 1
  <2>1. n = 1 BY <1>1, <1>2 DEF Balanced, RsetState
  <2>. QED BY <1>2, <2>1, UnrefRset DEF Balanced
<1>3. CASE r.refcnt > 1
  <2>1. /\ resset_unref(r).state = r.state
        /\ resset_unref(r).refcnt = r.refcnt - 1
        BY <1>3, UnrefRset
  <2>. QED BY <1>1, <1>3, <2>1 DEF Balanced
<1>. QED BY <1>1, <1>2, <1>3

(* What an answer does to the record of a set that was not revived.        *)
LEMMA AnsweredBalanced ==
    ASSUME NEW r \in Rset, NEW n \in Nat, n >= 1, Balanced(r, n), NEW reply,
           NEW err \in BOOLEAN, NEW garbage \in BOOLEAN,
           reply.by # Manager /\ reply.type = "unregister"
              => r.state = "killed" /\ r.refcnt = n,
           ~(/\ reply.by # Manager /\ reply.type = "register" /\ ~err
             /\ r.state = "killed" /\ r.refcnt <= n)
    PROVE  LET d == resset_unref(answered(r, reply, err, garbage))
           IN  /\ Balanced(d, n - 1)
               /\ (n > 1 /\ r.state = "killed" /\ r.refcnt = n
                      /\ reply.type # "unregister")
                     => d.state = "killed" /\ d.refcnt = n - 1
<1>. DEFINE a == answered(r, reply, err, garbage)
            d == resset_unref(a)
<1>0. r.refcnt \in Nat /\ r.state \in RsetState BY DEF Rset
<1>1. CASE reply.by # Manager /\ reply.type = "register"
  <2>. DEFINE state == IF err THEN "killed" ELSE "connected"
  <2>1. a = [r EXCEPT !.state = state] BY <1>1 DEF answered
  <2>2. state \in RsetState BY DEF RsetState
  <2>. HIDE DEF a, state
  <2>3. a \in Rset /\ a.state = state /\ a.refcnt = r.refcnt
        BY <2>1, <2>2, SetState
  <2>4. r.state # "freed" BY DEF Balanced
  <2>5. Balanced(a, n)
    <3>1. CASE err
      <4>1. r.refcnt \in {n, n + 1} BY <1>0, <2>4 DEF Balanced, RsetState
      <4>2. a.state = "killed" BY <2>3, <3>1 DEF state
      <4>. QED BY <2>3, <4>1, <4>2 DEF Balanced
    <3>2. CASE ~err
      <4>1. r.refcnt = n + 1
            BY <1>0, <1>1, <2>4, <3>2 DEF Balanced, RsetState
      <4>2. a.state = "connected" BY <2>3, <3>2 DEF state
      <4>. QED BY <2>3, <4>1, <4>2 DEF Balanced
    <3>. QED BY <3>1, <3>2
  <2>6. ASSUME n > 1, r.state = "killed", r.refcnt = n
        PROVE  a.state = "killed" /\ a.refcnt > 1
    <3>1. err BY <1>1, <2>6
    <3>. QED BY <2>3, <2>6, <3>1 DEF state
  <2>. QED BY <2>3, <2>5, <2>6, UnrefBalanced DEF a
<1>2. CASE reply.by # Manager /\ reply.type = "unregister" /\ garbage
  <2>. DEFINE s == resset_ref(r)
  <2>1. a = [s EXCEPT !.state = "connected"] BY <1>2 DEF answered
  <2>2. s \in Rset /\ s.refcnt = n + 1 BY <1>2, RefRset
  <2>. HIDE DEF a, s
  <2>3. a \in Rset /\ a.state = "connected" /\ a.refcnt = n + 1
        BY <2>1, <2>2, SetState DEF RsetState
  <2>4. Balanced(a, n) BY <2>3 DEF Balanced
  <2>5. Balanced(resset_unref(a), n - 1) BY <2>3, <2>4, UnrefBalanced
  <2>. QED BY <1>2, <2>5 DEF a
<1>3. CASE /\ ~(reply.by # Manager /\ reply.type = "register")
           /\ ~(reply.by # Manager /\ reply.type = "unregister" /\ garbage)
  <2>1. a = r BY <1>3 DEF answered
  <2>. HIDE DEF a
  <2>. QED BY <2>1, UnrefBalanced DEF a
<1>. QED BY <1>1, <1>2, <1>3
-----------------------------------------------------------------------------
(* The references, step by step.                                           *)
LEMMA InitAccounted == Init => Accounted
<1>. SUFFICES ASSUME Init PROVE Accounted OBVIOUS
<1>1. /\ stack = <<>> /\ replies = {} /\ Len(stack) = 0
      /\ rset = [x \in Conns |-> [k \in Keys |-> Freed]]
      BY DEF Init, NoTraffic
<1>2. \A x, k : held_by(x, k) = {} BY <1>1 DEF held_by
<1>3. Cardinality({}) = 0 BY FS_EmptySet
<1>4. Balanced(Freed, 0) BY DEF Freed, Balanced
<1>5. \A x \in Conns, k \in Keys : Balanced(rset[x][k], Cardinality(held_by(x, k)))
      BY <1>1, <1>2, <1>3, <1>4
<1>6. AllLeaving BY <1>2 DEF AllLeaving, Leaving
<1>7. Killing BY <1>1 DEF Killing
<1>. QED BY <1>5, <1>6, <1>7 DEF Refs, Accounted

(* Frames that a new one is put upon stay.                                 *)
LEMMA FramesStay ==
    ASSUME stack \in Seq(Frame), NEW f \in Frame,
           stack' = stack \/ stack' = <<f>> \o stack
    PROVE  /\ \A j \in 1..Len(stack') :
                 \/ j = 1 /\ stack'[j] = f /\ stack' # stack
                 \/ \E i \in 1..Len(stack) : stack'[j] = stack[i]
           /\ \A i \in 1..Len(stack) :
                 \E j \in 1..Len(stack') : stack'[j] = stack[i]
<1>1. CASE stack' = stack BY <1>1
<1>2. CASE stack' = <<f>> \o stack
  <2>. DEFINE t == <<f>> \o stack
  <2>1. /\ t \in Seq(Frame) /\ Len(t) = Len(stack) + 1 /\ t[1] = f
        /\ \A j \in 1..Len(stack) : t[j + 1] = stack[j]
        BY Pushed
  <2>2. Len(stack) \in Nat OBVIOUS
  <2>3. stack' = t BY <1>2
  <2>. HIDE DEF t
  <2>4. t # stack BY <2>1, <2>2
  <2>5. ASSUME NEW j \in 1..Len(t), j # 1
        PROVE  \E i \in 1..Len(stack) : t[j] = stack[i]
    <3>. DEFINE i == j - 1
    <3>1. i \in 1..Len(stack) /\ i + 1 = j BY <2>1, <2>2, <2>5
    <3>. HIDE DEF i
    <3>. QED BY <2>1, <3>1
  <2>6. \A i \in 1..Len(stack) : i + 1 \in 1..Len(t) BY <2>1, <2>2
  <2>. QED BY <2>1, <2>3, <2>4, <2>5, <2>6
<1>. QED BY <1>1, <1>2

(* The sender is not on its way out of another call.                       *)
LEMMA SenderFree ==
    ASSUME TypeOK, Chained, NEW x, Running(x)
    PROVE  \A j \in 1..Len(stack) : stack[j].from # x
<1>1. CASE stack = <<>> BY <1>1
<1>2. CASE stack # <<>>
  <2>1. stack \in Seq(Frame) /\ stack[1].at = x BY <1>2 DEF TypeOK, Running
  <2>. QED BY <1>2, <2>1, PathApart DEF Chained
<1>. QED BY <1>1, <1>2

(* What a call of send_message does to the records and the frames.         *)
LEMMA SendRecords ==
    ASSUME TypeOK, Chained, Timed,
           NEW x \in Conns, NEW y \in Conns, NEW type \in MessageType,
           NEW k \in Keys, NEW need \in BOOLEAN, NEW kill \in BOOLEAN,
           Sending(x, y, type, k, need, kill)
    PROVE  /\ \A z \in Conns, l \in Keys :
                 l # k \/ z \notin {x, y} =>
                    rset'[z][l] = rset[z][l] /\ held_by(z, l)' = held_by(z, l)
           /\ rset'[y][k] = Found(rset[y][k], type)
           /\ held_by(y, k)' = held_by(y, k)
           /\ held_by(x, k)' = held_by(x, k) \cup
                 (IF need THEN {Record(x, type, k, msgs + 1)} ELSE {})
           /\ Cardinality(held_by(x, k)') =
                 Cardinality(held_by(x, k)) + (IF need THEN 1 ELSE 0)
           /\ \/ /\ rset'[x][k] = Taken(rset[x][k], need)
                 /\ kill => LeavingBy(x, k)'
              \/ kill /\ rset'[x][k] = resset_destroy(Taken(rset[x][k], need))
           /\ \A z \in Conns, l \in Keys : LeavingBy(z, l) => LeavingBy(z, l)'
           /\ \A j \in 1..Len(stack') : stack'[j].kill =>
                 \/ /\ stack'[j].from = x /\ stack'[j].key = k /\ kill
                    /\ rset'[x][k] = Taken(rset[x][k], need)
                 \/ /\ stack'[j].from # x
                    /\ \E i \in 1..Len(stack) : stack'[j] = stack[i]
<1>. DEFINE sets   == records_sent(x, y, type, k, need)
            r      == Record(x, type, k, msgs + 1)
            nested == ~must_wait(y) /\ resset_find(sets[y][k])
            f      == [at |-> y, from |-> x, key |-> k, kill |-> kill]
            n      == Cardinality(held_by(x, k))
<1>1. x # y /\ Running(x) BY DEF Sending
<1>2. rset' = (IF kill /\ ~nested THEN disconn(sets, x, k) ELSE sets)
      BY DEF Sending, send_message
<1>3. IF nested THEN stack' = <<f>> \o stack ELSE stack' = stack
      BY DEF Sending, send_message, handed_over
<1>4. f \in Frame BY DEF Frame
<1>5. f.from = x /\ f.key = k /\ f.kill = kill OBVIOUS
<1>6. stack \in Seq(Frame) BY DEF TypeOK
<1>. HIDE DEF f, nested
<1>7. /\ \A j \in 1..Len(stack') :
            \/ j = 1 /\ stack'[j] = f /\ stack' # stack
            \/ \E i \in 1..Len(stack) : stack'[j] = stack[i]
      /\ \A i \in 1..Len(stack) :
            \E j \in 1..Len(stack') : stack'[j] = stack[i]
      BY <1>3, <1>4, <1>6, FramesStay
<1>8. /\ sets \in Sets
      /\ sets[x][k] = Taken(rset[x][k], need)
      /\ sets[y][k] = Found(rset[y][k], type)
      /\ \A z \in Conns, l \in Keys :
            l # k \/ z \notin {x, y} => sets[z][l] = rset[z][l]
  <2>1. rset \in Sets BY DEF TypeOK, Sets
  <2>. QED BY <1>1, <2>1, RecordsSent
<1>. HIDE DEF sets
<1>9. /\ \A z \in Conns, l \in Keys :
            z # x \/ l # k => rset'[z][l] = sets[z][l]
      /\ IF kill /\ ~nested THEN rset'[x][k] = resset_destroy(sets[x][k])
                            ELSE rset'[x][k] = sets[x][k]
      BY <1>2, <1>8, DisconnRset
<1>10. /\ held_by(x, k)' = held_by(x, k) \cup (IF need THEN {r} ELSE {})
       /\ Cardinality(held_by(x, k)') = n + (IF need THEN 1 ELSE 0)
       /\ \A z, l : z # x \/ l # k => held_by(z, l)' = held_by(z, l)
  <2>1. /\ need => replies' = replies \cup {r}
        /\ ~need => replies' = replies
        BY SendReplies
  <2>2. r.serial = msgs + 1 /\ r.by = x /\ r.key = k BY DEF Record
  <2>. HIDE DEF r
  <2>3. r \notin replies
    <3>1. msgs \in Nat BY ConnAssumption DEF TypeOK
    <3>. QED BY <2>2, <3>1 DEF Timed
  <2>4. CASE need BY <2>1, <2>2, <2>3, <2>4, HoldingMore
  <2>5. CASE ~need
    <3>1. \A z, l : held_by(z, l)' = held_by(z, l) BY <2>1, <2>5 DEF held_by
    <3>2. n \in Nat BY Holding
    <3>. QED BY <2>5, <3>1, <3>2
  <2>. QED BY <2>4, <2>5
<1>11. \A j \in 1..Len(stack) : stack[j].from # x BY <1>1, SenderFree
<1>. HIDE DEF n, r
<1>12. kill /\ nested => LeavingBy(x, k)'
  <2>. SUFFICES ASSUME kill, nested PROVE LeavingBy(x, k)' OBVIOUS
  <2>. DEFINE t == <<f>> \o stack
  <2>1. stack' = t BY <1>3
  <2>2. t \in Seq(Frame) /\ Len(t) = Len(stack) + 1 /\ t[1] = f BY <1>4, <1>6, Pushed
  <2>3. Len(stack) \in Nat BY <1>6
  <2>. HIDE DEF t
  <2>4. 1 \in 1..Len(t) BY <2>2, <2>3
  <2>. QED BY <1>5, <2>1, <2>2, <2>4 DEF LeavingBy
<1>13. \A z \in Conns, l \in Keys : LeavingBy(z, l) => LeavingBy(z, l)'
       BY <1>7 DEF LeavingBy
<1>14. ASSUME NEW j \in 1..Len(stack'), stack'[j].kill
       PROVE  \/ /\ stack'[j].from = x /\ stack'[j].key = k /\ kill
                 /\ rset'[x][k] = Taken(rset[x][k], need)
              \/ /\ stack'[j].from # x
                 /\ \E i \in 1..Len(stack) : stack'[j] = stack[i]
  <2>1. CASE stack'[j] = f /\ stack' # stack
    <3>1. nested BY <1>3, <2>1
    <3>. QED BY <1>5, <1>8, <1>9, <1>14, <2>1, <3>1
  <2>2. CASE \E i \in 1..Len(stack) : stack'[j] = stack[i]
        BY <1>11, <2>2
  <2>. QED BY <1>7, <2>1, <2>2
<1>15. /\ \A z \in Conns, l \in Keys :
             l # k \/ z \notin {x, y} =>
                rset'[z][l] = rset[z][l] /\ held_by(z, l)' = held_by(z, l)
       /\ rset'[y][k] = Found(rset[y][k], type)
       /\ held_by(y, k)' = held_by(y, k)
       BY <1>1, <1>8, <1>9, <1>10
<1>16. \/ /\ rset'[x][k] = Taken(rset[x][k], need)
          /\ kill => LeavingBy(x, k)'
       \/ kill /\ rset'[x][k] = resset_destroy(Taken(rset[x][k], need))
       BY <1>8, <1>9, <1>12
<1>. QED BY <1>10, <1>13, <1>14, <1>15, <1>16 DEF n, r

LEMMA SendAccounted ==
    ASSUME TypeOK, Chained, Timed, Accounted,
           NEW x \in Conns, NEW y \in Conns, NEW type \in MessageType,
           NEW k \in Keys, NEW need \in BOOLEAN, NEW kill \in BOOLEAN,
           Sending(x, y, type, k, need, kill)
    PROVE  Accounted'
<1>. DEFINE r == rset[x][k]
            q == rset[y][k]
            n == Cardinality(held_by(x, k))
            m == n + (IF need THEN 1 ELSE 0)
<1>1. /\ x # y /\ revived' = revived /\ dismissed \subseteq dismissed'
      /\ kill = (type = "unregister")
      /\ type # "register" => r.state = "connected"
      /\ type = "register" => y = Manager /\ need
      /\ kill /\ x # Manager => need
      /\ kill /\ x = Manager => k \in dismissed'
      BY DEF Sending
<1>2. /\ \A z \in Conns, l \in Keys :
            l # k \/ z \notin {x, y} =>
               rset'[z][l] = rset[z][l] /\ held_by(z, l)' = held_by(z, l)
      /\ rset'[y][k] = Found(q, type)
      /\ held_by(y, k)' = held_by(y, k)
      BY SendRecords
<1>3. /\ held_by(x, k)' = held_by(x, k) \cup
            (IF need THEN {Record(x, type, k, msgs + 1)} ELSE {})
      /\ Cardinality(held_by(x, k)') = m
      BY SendRecords
<1>4. \/ /\ rset'[x][k] = Taken(r, need)
         /\ kill => LeavingBy(x, k)'
      \/ kill /\ rset'[x][k] = resset_destroy(Taken(r, need))
      BY SendRecords
<1>5. \A z \in Conns, l \in Keys : LeavingBy(z, l) => LeavingBy(z, l)'
      BY SendRecords
<1>6. \A j \in 1..Len(stack') : stack'[j].kill =>
         \/ /\ stack'[j].from = x /\ stack'[j].key = k /\ kill
            /\ rset'[x][k] = Taken(r, need)
         \/ /\ stack'[j].from # x
            /\ \E i \in 1..Len(stack) : stack'[j] = stack[i]
      BY SendRecords
<1>7. r \in Rset /\ q \in Rset /\ n \in Nat /\ m \in Nat
      BY Holding DEF TypeOK
<1>8. \A z \in Conns, l \in Keys : z = Manager \/ l \notin revived
         => Balanced(rset[z][l], Cardinality(held_by(z, l)))
      BY DEF Accounted, Refs
<1>9. ~LeavingBy(x, k) BY SenderFree DEF Sending, LeavingBy
<1>10. Record(x, type, k, msgs + 1).type = type BY DEF Record
<1>. DEFINE t == Taken(r, need)
<1>11. /\ t \in Rset
       /\ t.state = IF r.state = "freed" THEN "created" ELSE r.state
       /\ t.refcnt = (IF r.state = "freed" THEN 1 ELSE r.refcnt)
                        + (IF need THEN 1 ELSE 0)
       BY <1>7, TakenRset
<1>12. x = Manager \/ k \notin revived => Balanced(t, m)
       BY <1>7, <1>8, TakenBalanced
<1>13. n + 1 \in Nat /\ (need => m = n + 1) BY <1>7
<1>. HIDE DEF r, q, n, m, t
<1>14. Refs'
  <2>. SUFFICES ASSUME NEW z \in Conns, NEW l \in Keys, z = Manager \/ l \notin revived
                PROVE  Balanced(rset'[z][l], Cardinality(held_by(z, l)'))
       BY <1>1 DEF Refs
  <2>1. Balanced(rset[z][l], Cardinality(held_by(z, l))) BY <1>8
  <2>2. CASE l # k \/ z \notin {x, y} BY <1>2, <2>1, <2>2
  <2>3. CASE l = k /\ z = y
    <3>1. Balanced(q, Cardinality(held_by(y, k))) BY <2>1, <2>3 DEF q
    <3>2. Balanced(Found(q, type), Cardinality(held_by(y, k)))
          BY <1>7, <3>1, FoundRset DEF Balanced
    <3>. QED BY <1>2, <2>3, <3>2
  <2>4. CASE l = k /\ z = x
    <3>1. Balanced(t, m) BY <1>12, <2>4
    <3>2. CASE rset'[x][k] = t BY <1>3, <2>4, <3>1, <3>2
    <3>3. CASE kill /\ rset'[x][k] = resset_destroy(t)
      <4>1. t.state = "connected" BY <1>1, <1>11, <3>3
      <4>2. Balanced(resset_destroy(t), m)
            BY <1>7, <1>11, <3>1, <4>1, DestroyBalanced
      <4>. QED BY <1>3, <2>4, <3>3, <4>2
    <3>. QED BY <1>4, <3>2, <3>3 DEF t
  <2>. QED BY <2>2, <2>3, <2>4
<1>15. AllLeaving'
  <2>. SUFFICES ASSUME NEW z \in Clients, NEW l \in Keys, l \notin revived
                PROVE  Leaving(z, l)'
       BY <1>1 DEF AllLeaving
  <2>1. z \in Conns /\ z # Manager BY ConnAssumption DEF Conns
  <2>2. Leaving(z, l) BY DEF Accounted, AllLeaving
  <2>3. CASE z # x \/ l # k
    <3>1. rset'[z][l] = rset[z][l] /\ held_by(z, l)' = held_by(z, l)
      <4>1. CASE l # k \/ z \notin {x, y} BY <1>2, <2>1, <4>1
      <4>2. CASE l = k /\ z = y
        <5>1. type # "register" BY <1>1, <2>1, <4>2
        <5>. QED BY <1>2, <1>7, <4>2, <5>1, FoundRset DEF q
      <4>. QED BY <2>3, <4>1, <4>2
    <3>. QED BY <1>5, <2>1, <2>2, <3>1 DEF Leaving
  <2>4. CASE z = x /\ l = k
    <3>1. /\ \A u, v \in held_by(x, k) :
                u.type = "unregister" /\ v.type = "unregister" => u = v
          /\ \A u \in held_by(x, k) : u.type = "unregister"
                => r.state = "killed" /\ r.refcnt = n
          BY <1>9, <2>2, <2>4 DEF Leaving, r, n
    <3>2. CASE kill
      <4>1. \A u \in held_by(x, k) : u.type # "unregister"
            BY <1>1, <3>1, <3>2
      <4>2. need BY <1>1, <2>1, <2>4, <3>2
      <4>3. \/ LeavingBy(x, k)'
            \/ rset'[x][k].state = "killed" /\ rset'[x][k].refcnt = m
        <5>1. CASE LeavingBy(x, k)' BY <5>1
        <5>2. CASE rset'[x][k] = resset_destroy(t)
          <6>1. t.state = "connected" BY <1>1, <1>11, <3>2
          <6>2. Balanced(t, m) /\ m >= 1 BY <1>7, <1>12, <1>13, <2>4, <4>2
          <6>. QED BY <1>7, <1>11, <5>2, <6>1, <6>2, DestroyBalanced
        <5>. QED BY <1>4, <3>2, <5>1, <5>2 DEF t
      <4>. QED BY <1>3, <2>4, <4>1, <4>3 DEF Leaving
    <3>3. CASE ~kill
      <4>1. type # "unregister" BY <1>1, <3>3
      <4>2. rset'[x][k] = t BY <1>4, <3>3 DEF t
      <4>3. ASSUME NEW u \in held_by(x, k)', u.type = "unregister"
            PROVE  u \in held_by(x, k)
            BY <1>3, <1>10, <4>1, <4>3
      <4>4. ASSUME NEW u \in held_by(x, k), u.type = "unregister"
            PROVE  t.state = "killed" /\ t.refcnt = m
        <5>1. r.state = "killed" /\ r.refcnt = n BY <3>1, <4>4
        <5>2. need BY <1>1, <5>1
        <5>. QED BY <1>11, <1>13, <5>1, <5>2
      <4>. QED BY <1>3, <2>4, <3>1, <4>2, <4>3, <4>4 DEF Leaving
    <3>. QED BY <3>2, <3>3
  <2>. QED BY <2>3, <2>4
<1>16. Killing'
  <2>. SUFFICES ASSUME NEW j \in 1..Len(stack'), stack'[j].kill
                PROVE  LET f == stack'[j]
                       IN  /\ f.from \in Conns
                           /\ rset'[f.from][f.key].state = "connected"
                           /\ f.from = Manager => f.key \in dismissed'
       BY DEF Killing
  <2>. DEFINE f == stack'[j]
  <2>1. CASE f.from = x /\ f.key = k /\ kill /\ rset'[x][k] = t
    <3>1. t.state = "connected" BY <1>1, <1>11, <2>1
    <3>. QED BY <1>1, <2>1, <3>1
  <2>2. ASSUME f.from # x, NEW i \in 1..Len(stack), f = stack[i]
        PROVE  /\ f.from \in Conns
               /\ rset'[f.from][f.key].state = "connected"
               /\ f.from = Manager => f.key \in dismissed'
    <3>1. /\ f.from \in Conns /\ rset[f.from][f.key].state = "connected"
          /\ f.from = Manager => f.key \in dismissed
          BY <2>2 DEF Accounted, Killing
    <3>2. f.key \in Keys
      <4>1. stack[i] \in Frame BY DEF TypeOK
      <4>. QED BY <2>2, <4>1 DEF Frame
    <3>. HIDE DEF f
    <3>3. rset'[f.from][f.key] = rset[f.from][f.key]
      <4>1. CASE f.from = y /\ f.key = k
            BY <1>2, <1>7, <3>1, <4>1, FoundRset DEF q
      <4>2. CASE f.key # k \/ f.from \notin {x, y} BY <1>2, <3>1, <3>2, <4>2
      <4>. QED BY <2>2, <4>1, <4>2
    <3>. QED BY <1>1, <3>1, <3>3
  <2>. QED BY <1>6, <2>1, <2>2 DEF t
<1>. QED BY <1>14, <1>15, <1>16 DEF Accounted

(* A handler returns; its frame goes, and perhaps a set of the caller.     *)
LEMMA ReturnRecords ==
    ASSUME TypeOK, Chained, Accounted, handler_returns
    PROVE  \E f \in Frame :
              /\ f.kill => /\ f.from \in Conns
                           /\ rset[f.from][f.key].state = "connected"
                           /\ f.from = Manager => f.key \in dismissed
                           /\ rset'[f.from][f.key] = resset_destroy(rset[f.from][f.key])
              /\ \A z \in Conns, l \in Keys :
                    ~(f.kill /\ z = f.from /\ l = f.key) =>
                       /\ rset'[z][l] = rset[z][l]
                       /\ LeavingBy(z, l) => LeavingBy(z, l)'
              /\ \A j \in 1..Len(stack') :
                    /\ stack'[j].from # f.from
                    /\ \E i \in 1..Len(stack) : stack'[j] = stack[i]
<1>. DEFINE f == stack[1]
            n == Len(stack)
<1>1. stack \in Seq(Frame) /\ stack # <<>> BY DEF TypeOK, handler_returns
<1>2. /\ Head(stack) = f /\ stack' = Tail(stack) /\ f \in Frame
      /\ n \in Nat /\ n >= 1 /\ 1 \in 1..n
      BY <1>1, HeadTailProperties DEF handler_returns
<1>3. Len(stack') = n - 1 /\ \A j \in 1..(n - 1) : stack'[j] = stack[j + 1]
      BY <1>1, <1>2, HeadTailProperties
<1>4. \A i, j \in 1..n : stack[i].from = stack[j].from => i = j
      BY <1>1, PathApart DEF Chained
<1>5. f.kill => /\ f.from \in Conns
                /\ rset[f.from][f.key].state = "connected"
                /\ f.from = Manager => f.key \in dismissed
      BY <1>2 DEF Accounted, Killing
<1>6. rset' = IF f.kill THEN disconn(rset, f.from, f.key) ELSE rset
      BY <1>2 DEF handler_returns
<1>7. rset \in Sets /\ f.key \in Keys BY <1>2 DEF TypeOK, Sets, Frame
<1>. HIDE DEF n
<1>8. ASSUME NEW z \in Conns, NEW l \in Keys, LeavingBy(z, l),
             ~(f.kill /\ z = f.from /\ l = f.key)
      PROVE  LeavingBy(z, l)'
  <2>1. PICK j \in 1..n : stack[j].kill /\ stack[j].from = z /\ stack[j].key = l
        BY <1>8 DEF LeavingBy, n
  <2>2. j # 1 BY <1>8, <2>1
  <2>. DEFINE i == j - 1
  <2>3. i \in 1..(n - 1) /\ i + 1 = j BY <1>2, <2>2
  <2>. HIDE DEF i, f
  <2>4. stack'[i] = stack[j] BY <1>3, <2>3
  <2>. QED BY <1>3, <2>1, <2>3, <2>4 DEF LeavingBy
<1>9. ASSUME NEW j \in 1..(n - 1)
      PROVE  /\ stack'[j].from # f.from
             /\ \E i \in 1..n : stack'[j] = stack[i]
  <2>1. j + 1 \in 1..n /\ j + 1 # 1 BY <1>2
  <2>. QED BY <1>2, <1>3, <1>4, <2>1
<1>. HIDE DEF f
<1>10. /\ f.kill => rset'[f.from][f.key] = resset_destroy(rset[f.from][f.key])
       /\ \A z \in Conns, l \in Keys :
             ~(f.kill /\ z = f.from /\ l = f.key) => rset'[z][l] = rset[z][l]
  <2>1. CASE ~f.kill BY <1>6, <2>1
  <2>2. CASE f.kill BY <1>5, <1>6, <1>7, <2>2, DisconnRset
  <2>. QED BY <2>1, <2>2
<1>. QED BY <1>2, <1>3, <1>5, <1>8, <1>9, <1>10 DEF n

LEMMA ReturnAccounted ==
    ASSUME TypeOK, Chained, Timed, Accounted, handler_returns PROVE Accounted'
<1>1. replies' = replies /\ revived' = revived /\ dismissed' = dismissed
      BY DEF handler_returns
<1>2. \A x, k : held_by(x, k)' = held_by(x, k) BY <1>1 DEF held_by
<1>3. PICK f \in Frame :
         /\ f.kill => /\ f.from \in Conns
                      /\ rset[f.from][f.key].state = "connected"
                      /\ f.from = Manager => f.key \in dismissed
                      /\ rset'[f.from][f.key] = resset_destroy(rset[f.from][f.key])
         /\ \A z \in Conns, l \in Keys :
               ~(f.kill /\ z = f.from /\ l = f.key) =>
                  /\ rset'[z][l] = rset[z][l]
                  /\ LeavingBy(z, l) => LeavingBy(z, l)'
         /\ \A j \in 1..Len(stack') :
               /\ stack'[j].from # f.from
               /\ \E i \in 1..Len(stack) : stack'[j] = stack[i]
      BY ReturnRecords
<1>4. ASSUME NEW x \in Conns, NEW k \in Keys, x = Manager \/ k \notin revived
      PROVE  /\ rset[x][k] \in Rset
             /\ Cardinality(held_by(x, k)) \in Nat
             /\ Balanced(rset[x][k], Cardinality(held_by(x, k)))
      BY <1>4, Holding DEF TypeOK, Accounted, Refs
<1>5. Refs'
  <2>. SUFFICES ASSUME NEW x \in Conns, NEW k \in Keys, x = Manager \/ k \notin revived
                PROVE  Balanced(rset'[x][k], Cardinality(held_by(x, k)))
       BY <1>1, <1>2 DEF Refs
  <2>1. CASE f.kill /\ x = f.from /\ k = f.key
        BY <1>3, <1>4, <2>1, DestroyBalanced
  <2>2. CASE ~(f.kill /\ x = f.from /\ k = f.key) BY <1>3, <1>4, <2>2
  <2>. QED BY <2>1, <2>2
<1>6. AllLeaving'
  <2>. SUFFICES ASSUME NEW x \in Clients, NEW k \in Keys, k \notin revived
                PROVE  Leaving(x, k)'
       BY <1>1 DEF AllLeaving
  <2>1. x \in Conns BY DEF Conns
  <2>2. Leaving(x, k) BY DEF Accounted, AllLeaving
  <2>3. CASE f.kill /\ x = f.from /\ k = f.key
    <3>. DEFINE n == Cardinality(held_by(x, k))
    <3>1. \A u \in held_by(x, k) : n >= 1 BY Holding
    <3>2. n >= 1 => rset'[x][k].state = "killed" /\ rset'[x][k].refcnt = n
          BY <1>3, <1>4, <2>1, <2>3, DestroyBalanced
    <3>. QED BY <1>2, <2>2, <3>1, <3>2 DEF Leaving
  <2>4. CASE ~(f.kill /\ x = f.from /\ k = f.key)
        BY <1>2, <1>3, <2>1, <2>2, <2>4 DEF Leaving
  <2>. QED BY <2>3, <2>4
<1>7. Killing'
  <2>. SUFFICES ASSUME NEW j \in 1..Len(stack'), stack'[j].kill
                PROVE  /\ stack'[j].from \in Conns
                       /\ rset'[stack'[j].from][stack'[j].key].state = "connected"
                       /\ stack'[j].from = Manager => stack'[j].key \in dismissed'
       BY DEF Killing
  <2>1. PICK i \in 1..Len(stack) : stack'[j] = stack[i] BY <1>3
  <2>2. stack[i] \in Frame BY DEF TypeOK
  <2>. DEFINE g == stack[i]
  <2>3. /\ g.from \in Conns /\ rset[g.from][g.key].state = "connected"
        /\ g.from = Manager => g.key \in dismissed
        BY <2>1 DEF Accounted, Killing
  <2>4. g.key \in Keys /\ g.from # f.from BY <1>3, <2>1, <2>2 DEF Frame
  <2>. HIDE DEF g
  <2>5. rset'[g.from][g.key] = rset[g.from][g.key] BY <1>3, <2>3, <2>4
  <2>. QED BY <1>1, <2>1, <2>3, <2>5 DEF g
<1>. QED BY <1>5, <1>6, <1>7 DEF Accounted

LEMMA DequeueAccounted ==
    ASSUME TypeOK, Accounted, NEW x \in Conns, receive_message_dequeue(x)
    PROVE  Accounted'
<1>1. /\ rset' = rset /\ replies' = replies
      /\ revived' = revived /\ dismissed' = dismissed
      BY DEF receive_message_dequeue
<1>2. \A z, k : held_by(z, k)' = held_by(z, k) BY <1>1 DEF held_by
<1>3. /\ stack = <<>>
      /\ \/ stack' = stack
         \/ \E f \in Frame : /\ f.at = x /\ f.from = NoConn /\ f.kill = FALSE
                             /\ stack' = <<f>> \o stack
      BY DequeueFrame
<1>4. \A z, k : ~LeavingBy(z, k)
  <2>1. Len(stack) = 0 BY <1>3
  <2>. QED BY <2>1 DEF LeavingBy
<1>5. Refs' /\ AllLeaving'
      BY <1>1, <1>2, <1>4 DEF Accounted, Refs, AllLeaving, Leaving
<1>6. Killing'
  <2>1. CASE stack' = stack BY <1>1, <2>1 DEF Accounted, Killing
  <2>2. ASSUME NEW f \in Frame, f.kill = FALSE, stack' = <<f>> \o stack
        PROVE  \A j \in 1..Len(stack') : stack'[j].kill = FALSE
    <3>1. stack \in Seq(Frame) BY DEF TypeOK
    <3>2. \A j \in 1..Len(stack') :
             \/ j = 1 /\ stack'[j] = f /\ stack' # stack
             \/ \E i \in 1..Len(stack) : stack'[j] = stack[i]
          BY <2>2, <3>1, FramesStay
    <3>3. 1..Len(stack) = {} BY <1>3
    <3>. QED BY <2>2, <3>2, <3>3
  <2>. QED BY <1>3, <2>1, <2>2 DEF Killing
<1>. QED BY <1>5, <1>6 DEF Accounted

LEMMA DoneAccounted ==
    ASSUME TypeOK, Timed, Accounted,
           NEW reply \in replies, NEW err \in BOOLEAN, Done(reply, err)
    PROVE  Accounted'
<1>. DEFINE x == reply.by
            k == reply.key
            r == rset[x][k]
            n == Cardinality(held_by(x, k))
<1>1. /\ stack = <<>> /\ stack' = stack /\ reply_done(reply, err)
      /\ replies' = replies \ {reply}
      BY DEF Done, undisturbed, reply_done
<1>2. /\ x \in Conns /\ k \in Keys /\ r \in Rset
      /\ \A z \in Conns, l \in Keys : z # x \/ l # k => rset'[z][l] = rset[z][l]
      /\ r.state # "freed" => \E garbage \in BOOLEAN :
            rset'[x][k] = resset_unref(answered(r, reply, err, garbage))
      BY <1>1, DoneRset
<1>3. /\ held_by(x, k)' = held_by(x, k) \ {reply}
      /\ reply \in held_by(x, k)
      /\ Cardinality(held_by(x, k)') = n - 1
      /\ \A z, l : z # x \/ l # k => held_by(z, l)' = held_by(z, l)
      BY <1>1, HoldingLess
<1>4. n \in Nat /\ n >= 1 /\ IsFiniteSet(held_by(x, k)) BY <1>3, Holding
<1>5. /\ revived \subseteq revived'
      /\ r.state # "freed" /\ k \notin revived' =>
            ~(/\ x # Manager /\ reply.type = "register" /\ ~err
              /\ r.state = "killed" /\ r.refcnt <= n)
      BY <1>1 DEF reply_done, resset_find
<1>6. \A z, l : ~LeavingBy(z, l)
  <2>1. Len(stack) = 0 BY <1>1
  <2>. QED BY <2>1 DEF LeavingBy
<1>7. ASSUME x = Manager \/ k \notin revived
      PROVE  Balanced(r, n) /\ r.state # "freed"
  <2>1. Balanced(r, n) BY <1>2, <1>7 DEF Accounted, Refs
  <2>. QED BY <1>4, <2>1 DEF Balanced
<1>8. ASSUME x # Manager, k \notin revived
      PROVE  /\ \A u, v \in held_by(x, k) :
                   u.type = "unregister" /\ v.type = "unregister" => u = v
             /\ \A u \in held_by(x, k) :
                   u.type = "unregister" => r.state = "killed" /\ r.refcnt = n
  <2>1. x \in Clients BY <1>2, <1>8 DEF Conns
  <2>2. Leaving(x, k) BY <1>2, <1>8, <2>1 DEF Accounted, AllLeaving
  <2>. QED BY <1>6, <2>2 DEF Leaving
<1>9. ASSUME x = Manager \/ k \notin revived'
      PROVE  /\ Balanced(rset'[x][k], n - 1)
             /\ (n > 1 /\ r.state = "killed" /\ r.refcnt = n
                    /\ reply.type # "unregister")
                   => rset'[x][k].state = "killed" /\ rset'[x][k].refcnt = n - 1
  <2>1. Balanced(r, n) /\ r.state # "freed" BY <1>5, <1>7, <1>9
  <2>2. PICK garbage \in BOOLEAN :
           rset'[x][k] = resset_unref(answered(r, reply, err, garbage))
        BY <1>2, <2>1
  <2>3. reply.by # Manager /\ reply.type = "unregister"
           => r.state = "killed" /\ r.refcnt = n
        BY <1>3, <1>5, <1>8, <1>9
  <2>4. ~(/\ reply.by # Manager /\ reply.type = "register" /\ ~err
          /\ r.state = "killed" /\ r.refcnt <= n)
        BY <1>5, <1>9, <2>1
  <2>5. r \in Rset BY <1>2
  <2>. HIDE DEF r, n
  <2>. QED BY <1>4, <2>1, <2>2, <2>3, <2>4, <2>5, AnsweredBalanced
<1>. HIDE DEF r, n
<1>10. Refs'
  <2>. SUFFICES ASSUME NEW z \in Conns, NEW l \in Keys, z = Manager \/ l \notin revived'
                PROVE  Balanced(rset'[z][l], Cardinality(held_by(z, l)'))
       BY DEF Refs
  <2>1. CASE z = x /\ l = k BY <1>3, <1>9, <2>1
  <2>2. CASE z # x \/ l # k
    <3>1. Balanced(rset[z][l], Cardinality(held_by(z, l)))
          BY <1>5 DEF Accounted, Refs
    <3>. HIDE DEF x, k
    <3>. QED BY <1>2, <1>3, <2>2, <3>1
  <2>. QED BY <2>1, <2>2
<1>11. AllLeaving'
  <2>. SUFFICES ASSUME NEW z \in Clients, NEW l \in Keys, l \notin revived'
                PROVE  Leaving(z, l)'
       BY DEF AllLeaving
  <2>1. z \in Conns /\ z # Manager BY ConnAssumption DEF Conns
  <2>2. Leaving(z, l) BY <1>5 DEF Accounted, AllLeaving
  <2>3. CASE z # x \/ l # k
    <3>1. rset'[z][l] = rset[z][l] /\ held_by(z, l)' = held_by(z, l)
          BY <1>2, <1>3, <2>1, <2>3
    <3>. QED BY <1>6, <2>2, <3>1 DEF Leaving
  <2>4. CASE z = x /\ l = k
    <3>1. /\ \A u, v \in held_by(x, k) :
                u.type = "unregister" /\ v.type = "unregister" => u = v
          /\ \A u \in held_by(x, k) :
                u.type = "unregister" => r.state = "killed" /\ r.refcnt = n
          BY <1>5, <1>8, <2>1, <2>4
    <3>2. ASSUME NEW u \in held_by(x, k)', u.type = "unregister"
          PROVE  rset'[x][k].state = "killed" /\ rset'[x][k].refcnt = n - 1
      <4>1. u \in held_by(x, k) /\ u # reply BY <1>3, <3>2
      <4>2. r.state = "killed" /\ r.refcnt = n /\ reply.type # "unregister"
            BY <1>3, <3>1, <3>2, <4>1
      <4>3. IsFiniteSet(held_by(x, k)') BY <1>3, <1>4, FS_RemoveElement
      <4>4. n - 1 # 0 BY <1>3, <3>2, <4>3, FS_EmptySet
      <4>5. n > 1 BY <1>4, <4>4
      <4>. QED BY <1>9, <2>4, <4>2, <4>5
    <3>3. \A u, v \in held_by(x, k)' :
             u.type = "unregister" /\ v.type = "unregister" => u = v
          BY <1>3, <3>1
    <3>. QED BY <1>3, <2>4, <3>2, <3>3 DEF Leaving
  <2>. QED BY <2>3, <2>4
<1>12. Killing'
  <2>1. Len(stack') = 0 BY <1>1
  <2>. QED BY <2>1 DEF Killing
<1>. QED BY <1>10, <1>11, <1>12 DEF Accounted

LEMMA NextAccounted ==
    ASSUME TypeOK, Chained, Timed, Accounted, [Next]_vars PROVE Accounted'
<1>1. ASSUME Calm PROVE Accounted'
  <2>1. \A x, k : /\ held_by(x, k)' = held_by(x, k)
                  /\ LeavingBy(x, k)' = LeavingBy(x, k)
        BY <1>1 DEF Calm, held_by, LeavingBy
  <2>2. Refs' /\ AllLeaving' /\ Killing'
        BY <1>1, <2>1 DEF Calm, Accounted, Refs, AllLeaving, Leaving, Killing
  <2>. QED BY <2>2 DEF Accounted
<1>. QED BY <1>1, Steps, SendAccounted, ReturnAccounted, DequeueAccounted,
            DoneAccounted DEF Sends, Dones
-----------------------------------------------------------------------------
(* What the manager has.                                                   *)
Known ==
    \A k \in Keys \ dismissed :
        /\ rset[Manager][k].state \in {"connected", "freed"}
        /\ resset_find(rset[k[1]][k]) => rset[Manager][k].state = "connected"

LEMMA InitKnown == Init => Known
<1>. SUFFICES ASSUME Init PROVE Known OBVIOUS
<1>1. rset = [x \in Conns |-> [k \in Keys |-> Freed]] BY DEF Init, NoTraffic
<1>. QED BY <1>1, KeyEnds DEF Known, Freed, resset_find

LEMMA SendKnown ==
    ASSUME TypeOK, Chained, Timed, Known,
           NEW x \in Conns, NEW y \in Conns, NEW type \in MessageType,
           NEW k \in Keys, NEW need \in BOOLEAN, NEW kill \in BOOLEAN,
           Sending(x, y, type, k, need, kill)
    PROVE  Known'
<1>. DEFINE t == Taken(rset[x][k], need)
            q == rset[y][k]
<1>1. /\ dismissed \subseteq dismissed' /\ x # y
      /\ type # "register" => rset[x][k].state = "connected"
      /\ type = "register" => x = k[1] /\ y = Manager /\ kill = FALSE
      /\ kill /\ x = Manager => k \in dismissed'
      BY DEF Sending
<1>2. /\ \A z \in Conns, l \in Keys :
            l # k \/ z \notin {x, y} => rset'[z][l] = rset[z][l]
      /\ rset'[y][k] = Found(q, type)
      /\ ~kill => rset'[x][k] = t
      BY SendRecords
<1>3. rset[x][k] \in Rset /\ q \in Rset BY DEF TypeOK
<1>4. /\ type # "register" \/ q.state # "freed" => Found(q, type) = q
      /\ type = "register" /\ q.state = "freed" => Found(q, type).state = "connected"
      BY <1>3, FoundRset
<1>5. t.state = IF rset[x][k].state = "freed" THEN "created" ELSE rset[x][k].state
      BY <1>3, TakenRset
<1>. HIDE DEF t, q
<1>. SUFFICES ASSUME NEW l \in Keys, l \notin dismissed'
              PROVE  /\ rset'[Manager][l].state \in {"connected", "freed"}
                     /\ resset_find(rset'[l[1]][l]) => rset'[Manager][l].state = "connected"
     BY DEF Known, resset_find
<1>6. /\ rset[Manager][l].state \in {"connected", "freed"}
      /\ resset_find(rset[l[1]][l]) => rset[Manager][l].state = "connected"
      BY <1>1 DEF Known
<1>7. l[1] \in Conns /\ Manager \in Conns /\ l[1] # Manager BY KeyEnds
<1>8. CASE l # k BY <1>2, <1>6, <1>7, <1>8
<1>9. CASE l = k /\ type = "register"
      BY <1>1, <1>2, <1>4, <1>6, <1>9 DEF q
<1>10. CASE l = k /\ type # "register" /\ x = Manager
  <2>1. rset'[x][k] = t /\ t.state = "connected" BY <1>1, <1>2, <1>5, <1>10
  <2>. QED BY <1>10, <2>1
<1>11. CASE l = k /\ type # "register" /\ x # Manager
  <2>1. \A z \in Conns : z # x => rset'[z][k] = rset[z][k]
        BY <1>2, <1>4, <1>11 DEF q
  <2>2. CASE x = k[1]
    <3>1. resset_find(rset[l[1]][l]) BY <1>1, <1>11, <2>2 DEF resset_find
    <3>. QED BY <1>6, <1>7, <1>11, <2>1, <3>1
  <2>3. CASE x # k[1] BY <1>6, <1>7, <1>11, <2>1, <2>3
  <2>. QED BY <2>2, <2>3
<1>. QED BY <1>8, <1>9, <1>10, <1>11

LEMMA ReturnKnown ==
    ASSUME TypeOK, Chained, Accounted, Known, handler_returns PROVE Known'
<1>1. dismissed' = dismissed BY DEF handler_returns
<1>2. PICK f \in Frame :
         /\ f.kill => /\ rset[f.from][f.key].state = "connected"
                      /\ f.from = Manager => f.key \in dismissed
         /\ \A z \in Conns, l \in Keys :
               ~(f.kill /\ z = f.from /\ l = f.key) => rset'[z][l] = rset[z][l]
      BY ReturnRecords
<1>. SUFFICES ASSUME NEW l \in Keys, l \notin dismissed
              PROVE  /\ rset'[Manager][l].state \in {"connected", "freed"}
                     /\ resset_find(rset'[l[1]][l]) => rset'[Manager][l].state = "connected"
     BY <1>1 DEF Known, resset_find
<1>3. /\ rset[Manager][l].state \in {"connected", "freed"}
      /\ rset[l[1]][l].state # "freed" => rset[Manager][l].state = "connected"
      BY DEF Known, resset_find
<1>4. l[1] \in Conns /\ Manager \in Conns /\ l[1] # Manager BY KeyEnds
<1>5. rset'[Manager][l] = rset[Manager][l] BY <1>2, <1>4
<1>6. \/ rset'[l[1]][l] = rset[l[1]][l]
      \/ rset[l[1]][l].state = "connected"
      BY <1>2, <1>4
<1>. QED BY <1>3, <1>5, <1>6 DEF resset_find

LEMMA DoneKnown ==
    ASSUME TypeOK, Timed, Accounted, Known,
           NEW reply \in replies, NEW err \in BOOLEAN, Done(reply, err)
    PROVE  Known'
<1>. DEFINE x == reply.by
            k == reply.key
            r == rset[x][k]
            n == Cardinality(held_by(x, k))
<1>1. dismissed' = dismissed /\ reply_done(reply, err) BY DEF Done, undisturbed
<1>2. /\ x \in Conns /\ k \in Keys /\ r \in Rset
      /\ \A z \in Conns, l \in Keys : z # x \/ l # k => rset'[z][l] = rset[z][l]
      /\ r.state = "freed" => rset'[x][k] = r
      /\ r.state # "freed" => \E garbage \in BOOLEAN :
            rset'[x][k] = resset_unref(answered(r, reply, err, garbage))
      BY <1>1, DoneRset
<1>3. n \in Nat /\ n >= 1
  <2>1. reply \in held_by(x, k) BY DEF held_by
  <2>. QED BY <2>1, Holding
<1>4. ASSUME x = Manager, r.state = "connected"
      PROVE  rset'[x][k].state = "connected"
  <2>1. Balanced(r, n) BY <1>2, <1>4 DEF Accounted, Refs
  <2>2. r.refcnt > 1 BY <1>3, <1>4, <2>1 DEF Balanced
  <2>3. \A garbage \in BOOLEAN : answered(r, reply, err, garbage) = r
        BY <1>4 DEF answered
  <2>4. rset'[x][k] = resset_unref(r) BY <1>2, <1>4, <2>3
  <2>. QED BY <1>2, <1>4, <2>2, <2>4, UnrefRset
<1>. SUFFICES ASSUME NEW l \in Keys, l \notin dismissed
              PROVE  /\ rset'[Manager][l].state \in {"connected", "freed"}
                     /\ resset_find(rset'[l[1]][l]) => rset'[Manager][l].state = "connected"
     BY <1>1 DEF Known, resset_find
<1>5. /\ rset[Manager][l].state \in {"connected", "freed"}
      /\ rset[l[1]][l].state # "freed" => rset[Manager][l].state = "connected"
      BY DEF Known, resset_find
<1>6. l[1] \in Conns /\ Manager \in Conns /\ l[1] # Manager BY KeyEnds
<1>. HIDE DEF n
<1>7. CASE l = k /\ x = Manager
      BY <1>2, <1>4, <1>5, <1>6, <1>7 DEF resset_find
<1>8. CASE l = k /\ x = l[1]
      BY <1>2, <1>5, <1>6, <1>8 DEF resset_find
<1>9. CASE l # k \/ x \notin {Manager, l[1]}
  <2>. HIDE DEF x, k
  <2>. QED BY <1>2, <1>5, <1>6, <1>9 DEF resset_find
<1>. QED BY <1>7, <1>8, <1>9

LEMMA NextKnown ==
    ASSUME TypeOK, Chained, Timed, Accounted, Known, [Next]_vars PROVE Known'
<1>1. ASSUME Calm \/ \E x \in Conns : receive_message_dequeue(x) PROVE Known'
  <2>1. rset' = rset /\ dismissed' = dismissed
        BY <1>1 DEF Calm, receive_message_dequeue
  <2>. QED BY <2>1 DEF Known, resset_find
<1>. QED BY <1>1, Steps, SendKnown, ReturnKnown, DoneKnown DEF Sends, Dones
-----------------------------------------------------------------------------
(* All of it, always.                                                      *)
Inv == TypeOK /\ Chained /\ Numbered /\ Timed /\ Accounted /\ Known

LEMMA InvAlways == Spec => []Inv
<1>1. Init => Inv
      BY InitTyped, InitChained, InitNumbered, InitTimed, InitAccounted, InitKnown
         DEF Inv
<1>2. Inv /\ [Next]_vars => Inv'
      BY NextTyped, NextChained, NextNumbered, NextTimed, NextAccounted, NextKnown
         DEF Inv
<1>. QED BY <1>1, <1>2, PTL DEF Spec

(* Type correctness of the in-process transport: whatever the handlers     *)
(* call, the records, queues, frames and timers stay what they are         *)
(* declared as, for every set of clients and ids and every bound.          *)
THEOREM TypeCorrect == Spec => []TypeOK
<1>1. Inv => TypeOK BY DEF Inv
<1>. QED BY <1>1, InvAlways, PTL

(* No handler of internal-proto.c is entered while it runs, and busy is    *)
(* set exactly during a send_message that runs the receiver's handler.     *)
THEOREM NotReenteredAlways == Spec => []NotReentered
<1>1. Inv => NotReentered
  <2>. SUFFICES ASSUME Inv PROVE NotReentered OBVIOUS
  <2>1. DOMAIN stack = 1..Len(stack) BY DEF Inv, TypeOK
  <2>. QED BY <2>1 DEF Inv, Chained, Path, NotReentered
<1>. QED BY <1>1, InvAlways, PTL

(* No message overtakes another on the way to the same receiver, though    *)
(* some wait for a timer and others are handed over at once.               *)
THEOREM InOrderAlways == Spec => []InOrder
<1>1. Inv => InOrder
  <2>. SUFFICES ASSUME Inv PROVE InOrder OBVIOUS
  <2>1. \A x \in Conns : DOMAIN queue[x] = 1..Len(queue[x]) BY DEF Inv, TypeOK
  <2>. QED BY <2>1 DEF Inv, Numbered, Lined, InOrder
<1>. QED BY <1>1, InvAlways, PTL

(* Ten second timers and reply records correspond, so that no timer uses   *)
(* a reply record that was freed and no request waits without a timer.     *)
THEOREM TimerPerReplyAlways == Spec => []TimerPerReply
<1>1. Inv => TimerPerReply BY DEF Inv, Timed
<1>. QED BY <1>1, InvAlways, PTL

(* The references to a resset_t, of a client or of the manager, are those  *)
(* of its reply records and of its creator.                                *)
THEOREM RefsAccountedAlways == Spec => []RefsAccounted
<1>1. Inv => RefsAccounted
  <2>. SUFFICES ASSUME Inv, NEW x \in Conns, NEW k \in Keys,
                       x = Manager \/ k \notin revived
                PROVE  LET r == rset[x][k]
                           n == Cardinality(held_by(x, k))
                       IN  CASE r.state \in {"created", "connected"} -> r.refcnt = n + 1
                             [] r.state = "killed" -> r.refcnt \in {n, n + 1} /\ r.refcnt > 0
                             [] OTHER -> r.refcnt = 0 /\ n = 0
       BY DEF RefsAccounted
  <2>. DEFINE r == rset[x][k]
              n == Cardinality(held_by(x, k))
  <2>1. Balanced(r, n) BY DEF Inv, Accounted, Refs
  <2>2. r.state \in RsetState BY DEF Inv, TypeOK, Rset
  <2>. HIDE DEF r, n
  <2>3. CASE r.state \in {"created", "connected"} BY <2>1, <2>3 DEF Balanced, r, n
  <2>4. CASE r.state = "killed" BY <2>1, <2>4 DEF Balanced, r, n
  <2>5. CASE r.state = "freed" BY <2>1, <2>5 DEF Balanced, r, n
  <2>. QED BY <2>2, <2>3, <2>4, <2>5 DEF RsetState
<1>. QED BY <1>1, InvAlways, PTL

(* The manager keeps a connected record of every set in a client's list,   *)
(* from the moment the REGISTER is sent, unless it dismissed the set.      *)
THEOREM KnownToManagerAlways == Spec => []KnownToManager
<1>1. Inv => KnownToManager BY DEF Inv, Known, KnownToManager
<1>. QED BY <1>1, InvAlways, PTL
=============================================================================
