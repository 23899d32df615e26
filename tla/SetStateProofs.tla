---------------------------- MODULE SetStateProofs ----------------------------
(***************************************************************************)
(* The references to a resset_t and the state of its set, proved: when a   *)
(* resset_t may be freed, when freed memory is read, and what "ready" is   *)
(* worth; that requests stay in order; and, at the end, which sets sleep   *)
(* while the manager is there and what makes send_request hang.            *)
(*                                                                         *)
(* The three properties lean on one another, and on the request queue: an  *)
(* answer gives back references its request took, a request is only sent   *)
(* on a set that is connected, and a set is given up by the answer to its  *)
(* last request.  Sound(c, k) is the invariant: c between two calls into   *)
(* resource.c, with k references of the resset_t in the hands of a handler *)
(* that is under way.  Moves(c, d) is what a call does to the queue: every *)
(* step moves the queue of a set in one of three ways (Carries).  With the *)
(* reply records, which say what request is out (QueueInv), these are the  *)
(* steps of the pipe of RequestPipe, and no request overtakes another.     *)
(***************************************************************************)
EXTENDS ResourceClientProofs

HasRegister(c) == \E i \in 1..Len(c.reqlist) : c.reqlist[i].msgtyp = "register"

UnregisterOut(c) == c.reqlist # <<>> /\ Head(c.reqlist).msgtyp = "unregister"

(* k references belong to calls that are awaited, and the creator's is     *)
(* there at least as long as the object path.                              *)
Counted(c, k) ==
    /\ c.rset.refcnt \in {k, k + 1}
    /\ (c.rset.state = "freed") = (c.rset.refcnt = 0)
    /\ c.rset.state \in {"created", "connected"} => c.path
    /\ c.path => c.rset.refcnt = k + 1

(* The application gives its pointer up before UNREGISTER is queued.       *)
Kept(c) ==
    c.held => /\ c.life = "live"
              /\ \A i \in 1..Len(c.reqlist) : c.reqlist[i].msgtyp # "unregister"

(* A client that is connecting has a REGISTER to wait for; one that is     *)
(* ready can send, unless the set is about to go.                          *)
Alive(c) ==
    /\ c.client = "connecting" => HasRegister(c)
    /\ c.client = "ready" =>
          c.resset /\ (c.rset.state \in {"connected", "freed"} \/ UnregisterOut(c))

(* A set that never came back to life.                                     *)
Orderly(c, k) ==
    /\ Counted(c, IF c.reqlist = <<>> THEN k ELSE k + 2)
    /\ UnregisterOut(c) => c.rset.state = "killed" /\ ~c.path
    /\ c.life = "freed" => ~c.path
    /\ c.life = "live" /\ c.client = "ready" =>
          c.rset.state = "connected" \/ UnregisterOut(c)

Sound(c, k) ==
    /\ c.fault = "stale" => c.revived
    /\ c.fault = "none" =>
          /\ Kept(c)
          /\ c.life # "live" => c.reqlist = <<>>
          /\ c.life = "none" => c.reqno = 0 /\ ~c.path
          /\ c.life = "live" => Alive(c)
          /\ ~c.revived => Orderly(c, k)

(* What send_request is called with, when a request can be sent or a       *)
(* REGISTER is first in the queue.                                         *)
Able(c, k) ==
    /\ Kept(c) /\ c.life = "live"
    /\ c.client = "connecting" => HasRegister(c)
    /\ c.client = "ready" => c.resset /\ c.rset.state = "connected"
    /\ ~c.revived => Counted(c, k)
-----------------------------------------------------------------------------
(* What happens to the queue.  new is old without its first n requests.    *)
Drops(new, old, n) ==
    /\ n \in 0..Len(old)
    /\ Len(new) = Len(old) - n
    /\ \A i \in 1..Len(new) : Pending(new[i]) = Pending(old[n + i])

(* new is old with requests of these types behind it.                      *)
Grows(new, old, types, reqno) ==
    /\ Len(new) = Len(old) + Len(types)
    /\ \A i \in 1..Len(old) : Pending(new[i]) = Pending(old[i])
    /\ \A i \in 1..Len(types) :
          Pending(new[Len(old) + i]) = [msgtyp |-> types[i], reqno |-> reqno + i]

(* d has the requests of list, without some that could not be sent.        *)
Serves(d, list) ==
    \E n \in 0..Len(list) :
       /\ Drops(d.reqlist, list, n)
       /\ d.fault = "none" /\ d.client = "ready" =>
             \A i \in 1..n : list[i].msgtyp \in Kind

Rests(c, d) == d.reqlist = c.reqlist /\ d.reqno = c.reqno

Pushed(c, d, types) ==
    /\ d.reqno = c.reqno + Len(types)
    /\ \E list \in Seq(Request) :
          /\ Grows(list, c.reqlist, types, c.reqno)
          /\ IF c.reqlist = <<>> THEN Serves(d, list) ELSE Drops(d.reqlist, list, 0)

Submits(c, d) ==
    \E types \in Seq(MsgType) :
       /\ Len(types) > 0
       /\ Len(types) > 1 => types[1] = "register"
       /\ Pushed(c, d, types)

Finishes(c, d) ==
    /\ c.reqlist # <<>>
    /\ d.reqno = c.reqno
    /\ \/ \E list \in Seq(Request) : Drops(list, c.reqlist, 1) /\ Serves(d, list)
       \/ UnregisterOut(c) /\ d.reqlist = <<>>

Moves(c, d) == Rests(c, d) \/ Submits(c, d) \/ Finishes(c, d)

LEMMA SoundFault ==
    ASSUME NEW c, NEW k, c.fault # "none", c.fault = "stale" => c.revived
    PROVE  Sound(c, k)
BY DEF Sound
-----------------------------------------------------------------------------
(* What sending leaves behind.                                             *)
LEMMA SentRegister ==
    ASSUME NEW c, NEW R, NEW k \in Nat, Idle(c, R, k), Able(c, k),
           NEW rq \in Request
    PROVE  LET d == send_register_message(c, rq)
           IN  /\ d.life = c.life /\ d.client = c.client /\ d.held = c.held
               /\ d.revived = c.revived /\ d.fault = c.fault
               /\ d.reqno = c.reqno /\ d.reqlist = c.reqlist
               /\ c.client = "ready" => d.rset.state = "connected"
               /\ d.resset /\ ~c.revived => Counted(d, k + 2)
<1>1. c \in ResourceSetRec /\ c.rset \in Rset BY DEF Idle, ResourceSetRec
<1>. DEFINE found == dbus_connect_to_manager(c)
            d     == send_register_message(c, rq)
<1>2. CASE ~c.conn
  <2>1. d = c BY <1>2 DEF send_register_message
  <2>2. ~c.resset BY <1>2 DEF Idle
  <2>. HIDE DEF d
  <2>. QED BY <2>1, <2>2 DEF d, Able
<1>3. CASE c.conn
  <2>1. /\ found \in ResourceSetRec /\ found.life = c.life
        /\ found.client = c.client /\ found.held = c.held
        /\ found.revived = c.revived /\ found.reqlist = c.reqlist
        /\ found.fault = c.fault /\ found.reqno = c.reqno
        BY <1>1, ConnectType DEF dbus_connect_to_manager, ResourceSetRec
  <2>2. /\ resset_find(found.rset)
        /\ c.client = "ready" => found.rset.state = "connected"
        /\ ~c.revived => Counted(found, k)
    <3>1. CASE resset_find(c.rset)
          BY <3>1 DEF dbus_connect_to_manager, Able
    <3>2. CASE ~resset_find(c.rset)
      <4>1. ~c.path BY <3>2 DEF Idle, Backed
      <4>2. found.path /\ found.rset = resset_create("created")
            BY <1>1, <3>2, <4>1 DEF dbus_connect_to_manager, ResourceSetRec
      <4>3. found.rset.state = "created" /\ found.rset.refcnt = 1
            BY <4>2 DEF resset_create
      <4>4. c.client # "ready" BY <3>2 DEF Able, resset_find
      <4>5. ~c.revived => k = 0
            BY <3>2 DEF Able, Counted, resset_find
      <4>. QED BY <4>2, <4>3, <4>4, <4>5 DEF resset_find, Counted
    <3>. QED BY <3>1, <3>2
  <2>. DEFINE call == message(c, rq)
              e    == dbus_send_message(found, call)
  <2>3. resconn_connect(c, call) = e BY <2>2 DEF resconn_connect
  <2>4. d = [e EXCEPT !.resset = @ \/ resset_find(e.rset)]
        BY <1>3, <2>3 DEF send_register_message
  <2>. DEFINE r == resset_ref(resset_ref(found.rset))
  <2>. HIDE DEF found, call, d
  <2>5. /\ e.life = found.life /\ e.client = found.client /\ e.held = found.held
        /\ e.revived = found.revived /\ e.reqlist = found.reqlist
        /\ e.fault = found.fault /\ e.reqno = found.reqno
        /\ e.path = found.path /\ e.rset = r
        BY <2>1 DEF dbus_send_message, ResourceSetRec
  <2>6. found.rset \in Rset BY <2>1 DEF ResourceSetRec
  <2>7. r.state = found.rset.state /\ r.refcnt = found.rset.refcnt + 2
        BY <2>6 DEF resset_ref, Rset
  <2>. HIDE DEF r
  <2>8. /\ d.life = e.life /\ d.client = e.client /\ d.held = e.held
        /\ d.revived = e.revived /\ d.reqlist = e.reqlist
        /\ d.fault = e.fault /\ d.reqno = e.reqno
        /\ d.path = e.path /\ d.rset = e.rset
    <3>. HIDE DEF e
    <3>. QED BY <2>4
  <2>. HIDE DEF e
  <2>9. ~c.revived => Counted(d, k + 2)
    <3>1. found.rset.refcnt \in Nat BY <2>6 DEF Rset
    <3>. QED BY <2>2, <2>5, <2>7, <2>8, <3>1 DEF Counted, resset_find
  <2>. QED BY <2>1, <2>2, <2>5, <2>7, <2>8, <2>9 DEF d
<1>. QED BY <1>2, <1>3

LEMMA SentOther ==
    ASSUME NEW c, NEW R, NEW k \in Nat, Idle(c, R, k), Able(c, k),
           NEW rq \in Request, rq.msgtyp # "register", sendable(c, rq.msgtyp)
    PROVE  LET d == send_message(c, rq)
           IN  /\ d.life = c.life /\ d.client = c.client /\ d.held = c.held
               /\ d.revived = c.revived /\ d.fault = c.fault
               /\ d.reqno = c.reqno /\ d.reqlist = c.reqlist
               /\ rq.msgtyp # "unregister" => d.rset.state = "connected"
               /\ ~c.revived => Counted(d, k + 2)
               /\ rq.msgtyp = "unregister" /\ ~c.revived =>
                     d.rset.state = "killed" /\ ~d.path
<1>1. c \in ResourceSetRec /\ c.rset \in Rset BY DEF Idle, ResourceSetRec
<1>. DEFINE call == message(c, rq)
            e == dbus_send_message(c, call)
            d == send_message(c, rq)
            r == resset_ref(resset_ref(c.rset))
<1>2. c.rset.state = "connected" BY DEF sendable, may_send
<1>3. r.state = "connected" /\ r.refcnt = c.rset.refcnt + 2 /\ r \in Rset
  <2>1. r \in Rset BY <1>1, RefType
  <2>. QED BY <1>1, <1>2, <2>1 DEF resset_ref, Rset
<1>. HIDE DEF call
<1>4. /\ e.life = c.life /\ e.client = c.client /\ e.held = c.held
      /\ e.revived = c.revived /\ e.fault = c.fault
      /\ e.reqno = c.reqno /\ e.reqlist = c.reqlist
      /\ e.path = c.path /\ e.rset = r
      BY <1>1 DEF dbus_send_message, ResourceSetRec
<1>. HIDE DEF r
<1>5. c.rset.refcnt \in Nat BY <1>1 DEF Rset
<1>. DEFINE f == dbus_disconnect_from_manager(e)
<1>6. f = [e EXCEPT !.path = FALSE, !.rset = resset_destroy(@)]
      BY DEF dbus_disconnect_from_manager
<1>7. DOMAIN e = DOMAIN c BY <1>1 DEF dbus_send_message, ResourceSetRec
<1>8. d = IF rq.msgtyp = "unregister" THEN f ELSE e
      BY DEF send_message, resconn_disconnect, call
<1>. HIDE DEF e
<1>9. CASE rq.msgtyp # "unregister"
  <2>1. ~c.revived => Counted(e, k + 2)
        BY <1>2, <1>3, <1>4, <1>5 DEF Able, Counted
  <2>. QED BY <1>3, <1>4, <1>8, <1>9, <2>1
<1>10. CASE rq.msgtyp = "unregister"
  <2>1. /\ f.life = e.life /\ f.client = e.client /\ f.held = e.held
        /\ f.revived = e.revived /\ f.fault = e.fault
        /\ f.reqno = e.reqno /\ f.reqlist = e.reqlist
        /\ ~f.path /\ f.rset = resset_destroy(r)
        BY <1>1, <1>4, <1>6, <1>7 DEF ResourceSetRec
  <2>2. r.refcnt = c.rset.refcnt + 2 /\ r.state # "killed" BY <1>3
  <2>. DEFINE q == [r EXCEPT !.state = "killed"]
  <2>3. q.state = "killed" /\ q.refcnt = r.refcnt /\ q \in Rset
        BY <1>3 DEF Rset, RsetState
  <2>4. /\ resset_destroy(r).state = "killed"
        /\ resset_destroy(r).refcnt = c.rset.refcnt + 1
    <3>1. resset_destroy(r) = resset_unref(q)
          BY <2>2 DEF resset_destroy
    <3>. HIDE DEF q
    <3>2. resset_unref(q) = [q EXCEPT !.refcnt = @ - 1]
          BY <1>5, <2>2, <2>3 DEF resset_unref
    <3>. QED BY <1>5, <2>2, <2>3, <3>1, <3>2 DEF Rset
  <2>. HIDE DEF f
  <2>5. ~c.revived => Counted(f, k + 2)
    <3>1. ~c.revived => c.rset.refcnt = k + 1
          BY <1>2 DEF Able, Counted
    <3>. QED BY <1>5, <2>1, <2>4, <3>1 DEF Counted
  <2>. QED BY <1>4, <1>8, <1>10, <2>1, <2>4, <2>5
<1>. QED BY <1>9, <1>10
-----------------------------------------------------------------------------
(* The queue.                                                              *)
LEMMA SamePending ==
    ASSUME NEW a, NEW b, Pending(a) = Pending(b)
    PROVE  a.msgtyp = b.msgtyp /\ a.reqno = b.reqno
BY DEF Pending

LEMMA FirstOf ==
    ASSUME NEW list \in Seq(Request), Len(list) > 0
    PROVE  list # <<>> /\ Head(list) = list[1] /\ 1 \in 1..Len(list)
OBVIOUS

LEMMA DropsNothing ==
    ASSUME NEW list \in Seq(Request) PROVE Drops(list, list, 0)
BY DEF Drops

LEMMA ServesAll ==
    ASSUME NEW list \in Seq(Request), NEW d, d.reqlist = list
    PROVE  Serves(d, list)
<1>1. Drops(d.reqlist, list, 0) BY DropsNothing
<1>2. 0 \in 0..Len(list) /\ \A i \in 1..0 : FALSE OBVIOUS
<1>. QED BY <1>1, <1>2 DEF Serves

LEMMA DropsHead ==
    ASSUME NEW list \in Seq(Request), list # <<>>
    PROVE  Drops(Tail(list), list, 1)
<1>1. /\ Len(list) \in Nat /\ Len(list) # 0
      /\ Len(Tail(list)) = Len(list) - 1
      /\ \A i \in 1..Len(Tail(list)) : Tail(list)[i] = list[i + 1]
      OBVIOUS
<1>. DEFINE t == Tail(list)
<1>. HIDE DEF t
<1>2. \A i \in 1..Len(t) : 1 + i = i + 1 BY <1>1 DEF t
<1>3. \A i \in 1..Len(t) : Pending(t[i]) = Pending(list[1 + i])
      BY <1>1, <1>2 DEF t
<1>. QED BY <1>1, <1>3 DEF Drops, t

LEMMA DropsMore ==
    ASSUME NEW a \in Seq(Request), NEW b \in Seq(Request), NEW c \in Seq(Request),
           NEW m \in Nat, NEW n \in Nat, Drops(b, a, m), Drops(c, b, n)
    PROVE  Drops(c, a, m + n)
<1>1. /\ Len(a) \in Nat /\ Len(b) = Len(a) - m /\ Len(c) = Len(b) - n
      /\ Len(b) \in Nat /\ Len(c) \in Nat
      BY DEF Drops
<1>2. ASSUME NEW i \in 1..Len(c)
      PROVE  Pending(c[i]) = Pending(a[m + n + i])
  <2>1. Pending(c[i]) = Pending(b[n + i]) BY DEF Drops
  <2>. DEFINE x == n + i
  <2>2. x \in 1..Len(b) /\ m + x = m + n + i BY <1>1
  <2>. HIDE DEF x
  <2>3. Pending(b[x]) = Pending(a[m + x]) BY <2>2 DEF Drops
  <2>. QED BY <2>1, <2>2, <2>3 DEF x
<1>3. m + n \in 0..Len(a) /\ Len(c) = Len(a) - (m + n) BY <1>1
<1>. QED BY <1>2, <1>3 DEF Drops

(* A request that is left was there before.                                *)
LEMMA DropsFrom ==
    ASSUME NEW old \in Seq(Request), NEW new \in Seq(Request), NEW n,
           Drops(new, old, n), NEW i \in 1..Len(new)
    PROVE  /\ n + i \in 1..Len(old)
           /\ new[i].msgtyp = old[n + i].msgtyp
           /\ new[i].reqno = old[n + i].reqno
<1>1. n \in 0..Len(old) /\ Len(new) = Len(old) - n /\ Len(old) \in Nat
      BY DEF Drops
<1>2. n + i \in 1..Len(old) BY <1>1
<1>3. Pending(new[i]) = Pending(old[n + i]) BY DEF Drops
<1>. QED BY <1>2, <1>3, SamePending

LEMMA BusyHead ==
    ASSUME NEW old \in Seq(Request), old # <<>>
    PROVE  LET new == <<[Head(old) EXCEPT !.busy = TRUE]>> \o Tail(old)
           IN  /\ new \in Seq(Request) /\ new # <<>>
               /\ Drops(new, old, 0)
               /\ Head(new).msgtyp = Head(old).msgtyp
<1>. DEFINE busy == [Head(old) EXCEPT !.busy = TRUE]
            t    == Tail(old)
            new  == <<busy>> \o t
<1>1. /\ Head(old) \in Request /\ Head(old) = old[1] /\ t \in Seq(Request)
      /\ Len(old) \in Nat /\ Len(old) # 0 /\ Len(t) = Len(old) - 1
      /\ \A i \in 1..Len(t) : t[i] = old[i + 1]
      BY HeadTailProperties
<1>2. /\ busy \in Request /\ Pending(busy) = Pending(old[1])
      /\ busy.msgtyp = Head(old).msgtyp
      BY <1>1 DEF Request, Pending
<1>. HIDE DEF busy, t
<1>3. /\ new \in Seq(Request) /\ Len(new) = 1 + Len(t) /\ new # <<>>
      /\ Head(new) = busy /\ new[1] = busy
      /\ \A i \in 2..(1 + Len(t)) : new[i] = t[i - 1]
      BY <1>1, <1>2
<1>. HIDE DEF new
<1>4. ASSUME NEW i \in 1..Len(new) PROVE Pending(new[i]) = Pending(old[0 + i])
  <2>1. CASE i = 1 BY <1>2, <1>3, <2>1
  <2>2. CASE i # 1
    <3>. DEFINE j == i - 1
    <3>1. i \in 2..(1 + Len(t)) /\ j \in 1..Len(t) /\ j + 1 = i /\ 0 + i = i
          BY <1>1, <1>3, <2>2
    <3>2. new[i] = t[j] BY <1>3, <3>1
    <3>. HIDE DEF j
    <3>3. t[j] = old[j + 1] BY <1>1, <3>1
    <3>. QED BY <3>1, <3>2, <3>3
  <2>. QED BY <2>1, <2>2
<1>5. Drops(new, old, 0) BY <1>1, <1>3, <1>4 DEF Drops
<1>. QED BY <1>2, <1>3, <1>5 DEF new, busy, t

LEMMA TransmitSound ==
    ASSUME NEW c, NEW R, NEW k \in Nat, Idle(c, R, k), Able(c, k),
           c.reqlist # <<>>,
           \/ Head(c.reqlist).msgtyp = "register"
           \/ sendable(c, Head(c.reqlist).msgtyp)
    PROVE  LET d == transmit(c)
           IN  /\ Sound(d, k) /\ d.reqno = c.reqno
               /\ \/ Drops(d.reqlist, c.reqlist, 0)
                  \/ Drops(d.reqlist, c.reqlist, 1) /\ d.client = "created"
               /\ d.client = "ready" => c.client = "ready"
<1>1. c \in ResourceSetRec /\ c.reqlist \in Seq(Request)
      BY DEF Idle, ResourceSetRec
<1>. DEFINE d    == transmit(c)
            rq   == Head(c.reqlist)
            sent == send_message(c, rq)
            list == <<[rq EXCEPT !.busy = TRUE]>> \o Tail(c.reqlist)
<1>2. rq \in Request BY <1>1
<1>3. CASE rq.msgtyp = "register" /\ ~sent.resset
  <2>1. d = [c EXCEPT !.client  = "created",
                      !.denied  = TRUE,
                      !.reqlist = Tail(@),
                      !.fault   = IF Tail(c.reqlist) = <<>> THEN @ ELSE "spin"]
        BY <1>3 DEF transmit
  <2>2. /\ d.fault = "none" => d.reqlist = <<>>
        /\ d.fault # "stale" /\ d.client = "created"
        /\ d.reqlist = Tail(c.reqlist) /\ d.life = c.life /\ d.held = c.held
        /\ d.revived = c.revived /\ d.reqno = c.reqno
        /\ d.path = c.path /\ d.rset = c.rset
        BY <1>1, <2>1 DEF ResourceSetRec, Idle
  <2>3. Drops(d.reqlist, c.reqlist, 1) BY <1>1, <2>2, DropsHead
  <2>. HIDE DEF d
  <2>4. ASSUME d.fault = "none" PROVE Len(d.reqlist) = 0
    <3>1. d.reqlist = <<>> BY <2>2, <2>4
    <3>. QED BY <3>1
  <2>5. d.fault = "none" => Kept(d) BY <2>2, <2>4 DEF Kept, Able
  <2>6. d.fault = "none" /\ ~d.revived => Orderly(d, k)
        BY <2>2 DEF Orderly, Able, Counted, UnregisterOut
  <2>7. Sound(d, k) BY <2>2, <2>5, <2>6 DEF Sound, Alive, Able
  <2>. QED BY <2>2, <2>3, <2>7 DEF d
<1>4. CASE ~(rq.msgtyp = "register" /\ ~sent.resset)
  <2>1. d = [sent EXCEPT !.reqlist = list] BY <1>4 DEF transmit
  <2>2. sent \in ResourceSetRec
        BY <1>1, <1>2, SendMessageType DEF sendable, Kind
  <2>3. /\ sent.life = c.life /\ sent.client = c.client /\ sent.held = c.held
        /\ sent.revived = c.revived /\ sent.fault = c.fault
        /\ sent.reqno = c.reqno
        /\ c.client = "ready" => sent.rset.state = "connected"
                                 \/ rq.msgtyp = "unregister"
        /\ ~c.revived => Counted(sent, k + 2)
        /\ rq.msgtyp = "unregister" /\ ~c.revived =>
                     sent.rset.state = "killed" /\ ~sent.path
    <3>1. CASE rq.msgtyp = "register"
      <4>1. sent = send_register_message(c, rq) BY <3>1 DEF send_message
      <4>. HIDE DEF rq
      <4>. QED BY <1>2, <1>4, <3>1, <4>1, SentRegister DEF Able
    <3>2. CASE rq.msgtyp # "register"
      <4>. HIDE DEF rq
      <4>. QED BY <1>2, <3>2, SentOther DEF Able, rq
    <3>. QED BY <3>1, <3>2
  <2>4. sent.resset
    <3>1. CASE rq.msgtyp = "register" BY <1>4, <3>1
    <3>2. CASE rq.msgtyp # "register"
      <4>. HIDE DEF rq
      <4>. QED BY <1>2, <3>2, SendOther DEF rq
    <3>. QED BY <3>1, <3>2
  <2>5. /\ list \in Seq(Request) /\ list # <<>> /\ Drops(list, c.reqlist, 0)
        /\ Head(list).msgtyp = rq.msgtyp
        BY <1>1, BusyHead
  <2>. HIDE DEF list, sent, rq
  <2>6. /\ d.fault = "none" /\ d.reqlist = list /\ d.client = c.client
        /\ d.life = c.life /\ d.held = c.held /\ d.revived = c.revived
        /\ d.reqno = c.reqno /\ d.path = sent.path /\ d.rset = sent.rset
        /\ d.resset = sent.resset
        BY <2>1, <2>2, <2>3 DEF ResourceSetRec, Idle
  <2>. HIDE DEF d
  <2>7. Kept(d)
    <3>1. ASSUME NEW i \in 1..Len(list)
          PROVE  /\ i \in 1..Len(c.reqlist)
                 /\ list[i].msgtyp = c.reqlist[i].msgtyp
      <4>1. 0 + i = i BY <2>5
      <4>. QED BY <1>1, <2>5, <4>1, DropsFrom
    <3>. QED BY <2>6, <3>1 DEF Kept, Able
  <2>8. Alive(d)
    <3>1. ASSUME NEW i \in 1..Len(c.reqlist), c.reqlist[i].msgtyp = "register"
          PROVE  i \in 1..Len(list) /\ list[i].msgtyp = "register"
      <4>1. 0 + i = i /\ Len(list) = Len(c.reqlist) /\ i \in 1..Len(list)
            BY <1>1, <2>5 DEF Drops
      <4>. QED BY <1>1, <2>5, <3>1, <4>1, DropsFrom
    <3>2. c.client = "connecting" => HasRegister(d)
          BY <2>6, <3>1 DEF HasRegister, Able
    <3>. QED BY <2>3, <2>4, <2>5, <2>6, <3>2 DEF Alive, UnregisterOut
  <2>9. ~d.revived => Orderly(d, k)
        BY <2>3, <2>5, <2>6 DEF Orderly, Counted, UnregisterOut, Able
  <2>10. Sound(d, k) BY <2>6, <2>7, <2>8, <2>9 DEF Sound, Able
  <2>. QED BY <2>5, <2>6, <2>10 DEF d
<1>. QED BY <1>3, <1>4
-----------------------------------------------------------------------------
(* Requests in front of the first that is sent cannot be sent.             *)
LEMMA NotSent ==
    ASSUME NEW c \in ResourceSetRec, NEW i \in 1..Len(c.reqlist),
           first_sent(c) = 0 \/ i < first_sent(c)
    PROVE  c.reqlist[i].msgtyp # "register" /\ ~sendable(c, c.reqlist[i].msgtyp)
<1>. DEFINE Test(j) == \/ c.reqlist[j].msgtyp = "register"
                       \/ sendable(c, c.reqlist[j].msgtyp)
            I == {j \in 1..Len(c.reqlist) : Test(j)}
<1>1. Len(c.reqlist) \in Nat BY DEF ResourceSetRec
<1>2. first_sent(c) = IF I # {} THEN Min(I) ELSE 0
      BY DEF first_sent, SelectInSeq
<1>3. I \in SUBSET Nat /\ \A j \in I : j # 0 BY <1>1
<1>4. i \in Nat BY <1>1
<1>5. ASSUME i \in I PROVE FALSE
  <2>. HIDE DEF I
  <2>1. Min(I) \in I /\ Min(I) <= i /\ Min(I) \in Nat
        BY <1>3, <1>5, MinExists
  <2>. QED BY <1>2, <1>3, <1>4, <1>5, <2>1
<1>. QED BY <1>5

LEMMA SendFirstSound ==
    ASSUME NEW c, NEW R, NEW k \in Nat, Idle(c, R, k), Able(c, k),
           c.reqlist # <<>>
    PROVE  LET d == send_first(c)
           IN  Sound(d, k) /\ d.reqno = c.reqno /\ Serves(d, c.reqlist)
<1>1. c \in ResourceSetRec /\ c.reqlist \in Seq(Request) /\ Len(c.reqlist) \in Nat
      BY DEF Idle, ResourceSetRec
<1>. DEFINE n == first_sent(c)
            d == send_first(c)
<1>2. \A i \in 1..Len(c.reqlist) : n = 0 \/ i < n =>
         c.reqlist[i].msgtyp # "register" /\ ~sendable(c, c.reqlist[i].msgtyp)
      BY <1>1, NotSent
<1>3. ASSUME c.client = "ready", NEW i \in 1..Len(c.reqlist), n = 0 \/ i < n
      PROVE  c.reqlist[i].msgtyp \in Kind
  <2>1. ~sendable(c, c.reqlist[i].msgtyp) BY <1>2, <1>3
  <2>. QED BY <1>3, <2>1 DEF sendable, may_send, Able
<1>4. CASE n = 0
  <2>1. d = [c EXCEPT !.reqlist = <<>>] BY <1>4 DEF send_first
  <2>2. /\ d.reqlist = <<>> /\ d.client = c.client /\ d.life = c.life
        /\ d.held = c.held /\ d.revived = c.revived /\ d.fault = "none"
        /\ d.resset = c.resset /\ d.reqno = c.reqno
        /\ d.path = c.path /\ d.rset = c.rset
        BY <1>1, <2>1 DEF ResourceSetRec, Idle
  <2>. HIDE DEF d, n
  <2>3. Len(d.reqlist) = 0 BY <2>2
  <2>4. c.client # "connecting" BY <1>2, <1>4 DEF HasRegister, Able
  <2>5. Kept(d) BY <2>2, <2>3 DEF Kept, Able
  <2>6. Alive(d) BY <2>2, <2>4 DEF Alive, Able
  <2>7. ~d.revived => Orderly(d, k)
        BY <2>2 DEF Orderly, Counted, UnregisterOut, Able
  <2>8. Sound(d, k) BY <2>2, <2>5, <2>6, <2>7 DEF Sound, Able
  <2>9. Drops(d.reqlist, c.reqlist, Len(c.reqlist))
        BY <1>1, <2>3 DEF Drops
  <2>10. Serves(d, c.reqlist)
         BY <1>1, <1>3, <1>4, <2>2, <2>9 DEF Serves
  <2>. QED BY <2>2, <2>8, <2>10 DEF d
<1>5. CASE n # 0
  <2>. DEFINE e == [c EXCEPT !.reqlist = SubSeq(@, n, Len(@))]
  <2>1. /\ n \in 1..Len(c.reqlist)
        /\ \/ c.reqlist[n].msgtyp = "register"
           \/ sendable(c, c.reqlist[n].msgtyp)
        BY <1>1, <1>5, FirstSent
  <2>. HIDE DEF n
  <2>2. Idle(e, R, k) /\ e.reqlist # <<>> /\ Head(e.reqlist) = c.reqlist[n]
        BY <2>1, DropFront
  <2>3. d = transmit(e) BY <1>5 DEF send_first, n
  <2>4. /\ e.client = c.client /\ e.life = c.life /\ e.held = c.held
        /\ e.revived = c.revived /\ e.resset = c.resset /\ e.reqno = c.reqno
        /\ e.path = c.path /\ e.rset = c.rset /\ e.configs = c.configs
        /\ e.reqlist = SubSeq(c.reqlist, n, Len(c.reqlist))
        BY <1>1 DEF ResourceSetRec
  <2>. DEFINE m == n - 1
  <2>5. /\ Len(e.reqlist) = Len(c.reqlist) - m /\ m \in 0..Len(c.reqlist)
        /\ e.reqlist \in Seq(Request)
        /\ \A i \in 1..Len(e.reqlist) : e.reqlist[i] = c.reqlist[m + i]
    <3>1. \A i \in n..Len(c.reqlist) : c.reqlist[i] \in Request BY <1>1, <2>1
    <3>. DEFINE s == SubSeq(c.reqlist, n, Len(c.reqlist))
    <3>2. /\ s \in Seq(Request) /\ Len(s) = Len(c.reqlist) - n + 1
          /\ \A i \in 1..(Len(c.reqlist) - n + 1) : s[i] = c.reqlist[n + i - 1]
          BY <1>1, <2>1, <3>1, SubSeqProperties
    <3>. HIDE DEF s
    <3>3. \A i \in Nat : n + i - 1 = m + i BY <1>1, <2>1
    <3>4. ASSUME NEW i \in 1..Len(s) PROVE s[i] = c.reqlist[m + i]
      <4>1. i \in 1..(Len(c.reqlist) - n + 1) /\ i \in Nat
            BY <1>1, <2>1, <3>2
      <4>2. s[i] = c.reqlist[n + i - 1] BY <3>2, <4>1
      <4>3. n + i - 1 = m + i BY <3>3, <4>1
      <4>. QED BY <4>2, <4>3
    <3>5. Len(s) = Len(c.reqlist) - m /\ m \in 0..Len(c.reqlist)
          BY <1>1, <2>1, <3>2
    <3>6. e.reqlist = s BY <2>4 DEF s
    <3>. HIDE DEF e, m
    <3>. QED BY <3>2, <3>4, <3>5, <3>6
  <2>. HIDE DEF e
  <2>6. Drops(e.reqlist, c.reqlist, m) BY <2>5 DEF Drops
  <2>7. HasRegister(c) => HasRegister(e)
    <3>. SUFFICES ASSUME NEW i \in 1..Len(c.reqlist),
                         c.reqlist[i].msgtyp = "register"
                  PROVE  HasRegister(e)
         BY DEF HasRegister
    <3>. DEFINE j == i - m
    <3>1. ~(i < n) BY <1>2
    <3>2. j \in 1..Len(e.reqlist) /\ m + j = i BY <1>1, <2>1, <2>5, <3>1
    <3>. HIDE DEF j, m
    <3>3. e.reqlist[j] = c.reqlist[i] BY <2>5, <3>2
    <3>. QED BY <3>2, <3>3 DEF HasRegister
  <2>8. Kept(e)
    <3>1. \A i \in 1..Len(e.reqlist) : m + i \in 1..Len(c.reqlist)
          BY <1>1, <2>5
    <3>. HIDE DEF m
    <3>. QED BY <2>4, <2>5, <3>1 DEF Kept, Able
  <2>9. Able(e, k) BY <2>4, <2>7, <2>8 DEF Able, Counted
  <2>10. \A t : sendable(c, t) => sendable(e, t)
         BY <2>4 DEF sendable, may_send, configured
  <2>11. /\ Sound(d, k) /\ d.reqno = e.reqno
         /\ \/ Drops(d.reqlist, e.reqlist, 0)
            \/ Drops(d.reqlist, e.reqlist, 1) /\ d.client = "created"
         /\ d.client = "ready" => e.client = "ready"
         BY <2>1, <2>2, <2>3, <2>9, <2>10, TransmitSound
  <2>12. d.reqlist \in Seq(Request)
    <3>1. d \in ResourceSetRec BY <1>1, SendFirstType
    <3>. QED BY <3>1 DEF ResourceSetRec
  <2>. HIDE DEF d
  <2>13. m \in Nat /\ m + 0 = m /\ m + 1 = n BY <1>1, <2>1
  <2>14. Serves(d, c.reqlist)
    <3>. HIDE DEF m
    <3>1. CASE Drops(d.reqlist, e.reqlist, 0)
      <4>1. Drops(d.reqlist, c.reqlist, m)
            BY <1>1, <2>5, <2>6, <2>12, <2>13, <3>1, DropsMore
      <4>2. \A i \in 1..m : i \in 1..Len(c.reqlist) /\ i < n
            BY <1>1, <2>1, <2>13
      <4>. QED BY <1>3, <2>4, <2>5, <2>11, <4>1, <4>2 DEF Serves
    <3>2. CASE Drops(d.reqlist, e.reqlist, 1) /\ d.client = "created"
      <4>1. Drops(d.reqlist, c.reqlist, n)
            BY <1>1, <2>5, <2>6, <2>12, <2>13, <3>2, DropsMore
      <4>2. n \in 0..Len(c.reqlist) BY <1>1, <2>1
      <4>. QED BY <3>2, <4>1, <4>2 DEF Serves
    <3>. QED BY <2>11, <3>1, <3>2
  <2>. QED BY <2>4, <2>11, <2>14 DEF d
<1>. QED BY <1>4, <1>5

(* What send_request may be called with.                                   *)
Poised(c, k) ==
    /\ Kept(c) /\ c.life = "live"
    /\ c.client = "connecting" => HasRegister(c)
    /\ c.client = "ready" => c.resset /\ c.rset.state \in {"connected", "freed"}
    /\ ~c.revived => /\ Counted(c, k)
                     /\ c.client = "ready" => c.rset.state = "connected"
    /\ c.reqlist # <<>> /\ Head(c.reqlist).msgtyp = "register"
          /\ c.client = "ready" => c.rset.state = "connected"
    /\ c.reqlist # <<>> /\ Head(c.reqlist).msgtyp # "register"
          /\ c.client # "created" /\ dangling(c) => c.revived

LEMMA SendRequestSound ==
    ASSUME NEW c, NEW R, NEW k \in Nat, Idle(c, R, k), Poised(c, k)
    PROVE  LET d == send_request(c)
           IN  Sound(d, k) /\ d.reqno = c.reqno /\ Serves(d, c.reqlist)
<1>1. c \in ResourceSetRec /\ c.reqlist \in Seq(Request) /\ Len(c.reqlist) \in Nat
      BY DEF Idle, ResourceSetRec
<1>. DEFINE d == send_request(c)
<1>2. \A e : e.reqlist = c.reqlist => Serves(e, c.reqlist)
      BY <1>1, ServesAll
<1>3. CASE c.reqlist = <<>>
  <2>1. d = c BY <1>3 DEF send_request
  <2>2. Len(c.reqlist) = 0 BY <1>3
  <2>3. Alive(c) BY <2>2 DEF Alive, HasRegister, Poised
  <2>4. ~c.revived => Orderly(c, k)
        BY <1>3 DEF Orderly, UnregisterOut, Poised
  <2>5. Sound(c, k) BY <2>3, <2>4 DEF Sound, Poised, Idle
  <2>. QED BY <1>2, <2>1, <2>5
<1>4. CASE c.reqlist # <<>>
  <2>1. ~Head(c.reqlist).busy
    <3>1. Head(c.reqlist) = c.reqlist[1] /\ 1 \in 1..Len(c.reqlist)
          BY <1>1, <1>4
    <3>. QED BY <3>1 DEF Idle, NoneBusy
  <2>2. CASE c.client = "created"
    <3>1. d = [c EXCEPT !.fault = "spin"]
          BY <1>4, <2>1, <2>2 DEF send_request
    <3>2. d.fault = "spin" /\ d.reqno = c.reqno /\ d.reqlist = c.reqlist
          BY <1>1, <3>1 DEF ResourceSetRec
    <3>. HIDE DEF d
    <3>3. Sound(d, k) BY <3>2, SoundFault
    <3>. QED BY <1>2, <3>2, <3>3 DEF d
  <2>3. CASE /\ c.client # "created"
             /\ Head(c.reqlist).msgtyp # "register" /\ dangling(c)
    <3>1. d = [c EXCEPT !.fault = "stale"]
          BY <1>4, <2>1, <2>3 DEF send_request
    <3>2. /\ d.fault = "stale" /\ d.reqno = c.reqno
          /\ d.reqlist = c.reqlist /\ d.revived = c.revived
          BY <1>1, <3>1 DEF ResourceSetRec
    <3>3. c.revived BY <1>4, <2>3 DEF Poised
    <3>. HIDE DEF d
    <3>4. Sound(d, k) BY <3>2, <3>3, SoundFault
    <3>. QED BY <1>2, <3>2, <3>4 DEF d
  <2>4. CASE /\ c.client # "created"
             /\ ~(Head(c.reqlist).msgtyp # "register" /\ dangling(c))
    <3>1. d = send_first(c) BY <1>4, <2>1, <2>4 DEF send_request
    <3>2. c.client = "ready" => c.rset.state = "connected"
          BY <1>4, <2>4 DEF Poised, dangling, resset_find
    <3>3. Able(c, k) BY <3>2 DEF Able, Poised
    <3>. QED BY <1>4, <3>1, <3>3, SendFirstSound
  <2>. QED BY <2>2, <2>3, <2>4
<1>. QED BY <1>3, <1>4
-----------------------------------------------------------------------------
(* New requests.                                                           *)
LEMMA EnqueueGrows ==
    ASSUME NEW c \in ResourceSetRec, NEW types \in Seq(MsgType)
    PROVE  LET d == enqueue(c, types)
           IN  /\ d \in ResourceSetRec
               /\ Grows(d.reqlist, c.reqlist, types, c.reqno)
               /\ d.reqno = c.reqno + Len(types) /\ d.fault = c.fault
               /\ d.life = c.life /\ d.client = c.client /\ d.held = c.held
               /\ d.revived = c.revived /\ d.resset = c.resset
               /\ d.path = c.path /\ d.rset = c.rset
<1>. DEFINE new  == [i \in 1..Len(types) |-> [msgtyp |-> types[i],
                                              reqno  |-> c.reqno + i,
                                              busy   |-> FALSE]]
            d == enqueue(c, types)
<1>1. /\ c.reqno \in Nat /\ c.reqlist \in Seq(Request)
      /\ Len(types) \in Nat /\ Len(c.reqlist) \in Nat
      BY DEF ResourceSetRec
<1>2. new \in Seq(Request) /\ Len(new) = Len(types)
  <2>1. ASSUME NEW i \in 1..Len(types)
        PROVE  [msgtyp |-> types[i], reqno |-> c.reqno + i, busy |-> FALSE]
                  \in Request
        BY <1>1 DEF Request
  <2>. QED BY <1>1, <2>1
<1>3. \A i \in 1..Len(types) :
         Pending(new[i]) = [msgtyp |-> types[i], reqno |-> c.reqno + i]
      BY DEF Pending
<1>4. d = [c EXCEPT !.reqno = @ + Len(types), !.reqlist = @ \o new]
      BY DEF enqueue
<1>5. d \in ResourceSetRec BY EnqueueType
<1>. HIDE DEF new, d
<1>6. /\ d.reqlist = c.reqlist \o new
      /\ d.reqno = c.reqno + Len(types) /\ d.fault = c.fault
      /\ d.life = c.life /\ d.client = c.client /\ d.held = c.held
      /\ d.revived = c.revived /\ d.resset = c.resset
      /\ d.path = c.path /\ d.rset = c.rset
      BY <1>4 DEF ResourceSetRec
<1>7. Grows(d.reqlist, c.reqlist, types, c.reqno)
  <2>. DEFINE old == c.reqlist
              list == old \o new
  <2>. HIDE DEF old
  <2>1. /\ Len(list) = Len(old) + Len(new)
        /\ \A i \in 1..(Len(old) + Len(new)) :
              list[i] = IF i <= Len(old) THEN old[i] ELSE new[i - Len(old)]
        BY <1>1, <1>2, ConcatProperties DEF old
  <2>. HIDE DEF list
  <2>2. ASSUME NEW i \in 1..Len(old) PROVE list[i] = old[i]
    <3>1. i \in 1..(Len(old) + Len(new)) /\ i <= Len(old)
          BY <1>1, <1>2 DEF old
    <3>. QED BY <2>1, <3>1
  <2>3. ASSUME NEW i \in 1..Len(types) PROVE list[Len(old) + i] = new[i]
    <3>. DEFINE j == Len(old) + i
    <3>1. j \in 1..(Len(old) + Len(new)) /\ ~(j <= Len(old)) /\ j - Len(old) = i
          BY <1>1, <1>2 DEF old
    <3>. HIDE DEF j
    <3>. QED BY <2>1, <3>1 DEF j
  <2>4. Grows(list, old, types, c.reqno)
        BY <1>2, <1>3, <2>1, <2>2, <2>3 DEF Grows
  <2>. QED BY <1>6, <2>4 DEF old, list
<1>. QED BY <1>5, <1>6, <1>7 DEF d

LEMMA GrowsElements ==
    ASSUME NEW old \in Seq(Request), NEW new \in Seq(Request),
           NEW types \in Seq(MsgType), NEW reqno, Grows(new, old, types, reqno)
    PROVE  /\ \A i \in 1..Len(old) : /\ i \in 1..Len(new)
                                     /\ new[i].msgtyp = old[i].msgtyp
           /\ \A i \in 1..Len(types) : /\ Len(old) + i \in 1..Len(new)
                                       /\ new[Len(old) + i].msgtyp = types[i]
           /\ \A i \in 1..Len(new) : \/ i \in 1..Len(old)
                                     \/ i - Len(old) \in 1..Len(types)
<1>1. Len(new) = Len(old) + Len(types) /\ Len(old) \in Nat /\ Len(types) \in Nat
      BY DEF Grows
<1>2. ASSUME NEW i \in 1..Len(old)
      PROVE  i \in 1..Len(new) /\ new[i].msgtyp = old[i].msgtyp
  <2>1. i \in 1..Len(new) BY <1>1
  <2>2. Pending(new[i]) = Pending(old[i]) BY DEF Grows
  <2>. QED BY <2>1, <2>2, SamePending
<1>3. ASSUME NEW i \in 1..Len(types)
      PROVE  /\ Len(old) + i \in 1..Len(new)
             /\ new[Len(old) + i].msgtyp = types[i]
  <2>1. Len(old) + i \in 1..Len(new) BY <1>1
  <2>. DEFINE x == new[Len(old) + i]
  <2>2. Pending(x) = [msgtyp |-> types[i], reqno |-> reqno + i] BY DEF Grows
  <2>. HIDE DEF x
  <2>3. x.msgtyp = types[i] BY <2>2 DEF Pending
  <2>. QED BY <2>1, <2>3 DEF x
<1>4. \A i \in 1..Len(new) : i \in 1..Len(old) \/ i - Len(old) \in 1..Len(types)
      BY <1>1
<1>. QED BY <1>2, <1>3, <1>4

(* The part of Sound that enqueue needs and keeps, for a set in use.       *)
LEMMA EnqueueSound ==
    ASSUME NEW c \in ResourceSetRec, NEW types \in Seq(MsgType),
           c.reqlist # <<>>, c.fault = "none", c.life = "live",
           Kept(c), ~c.revived => Orderly(c, 0),
           c.held => \A i \in 1..Len(types) : types[i] # "unregister",
           c.client = "connecting" =>
              HasRegister(c) \/ \E i \in 1..Len(types) : types[i] = "register",
           c.client = "ready" =>
              /\ c.resset
              /\ c.rset.state \in {"connected", "freed"} \/ UnregisterOut(c)
    PROVE  Sound(enqueue(c, types), 0)
<1>. DEFINE d == enqueue(c, types)
<1>1. /\ d \in ResourceSetRec
      /\ Grows(d.reqlist, c.reqlist, types, c.reqno)
      /\ d.fault = c.fault
      /\ d.life = c.life /\ d.client = c.client /\ d.held = c.held
      /\ d.revived = c.revived /\ d.resset = c.resset
      /\ d.path = c.path /\ d.rset = c.rset
      BY EnqueueGrows
<1>. HIDE DEF d
<1>2. d.reqlist \in Seq(Request) /\ c.reqlist \in Seq(Request)
      BY <1>1 DEF ResourceSetRec
<1>3. /\ \A i \in 1..Len(c.reqlist) :
            i \in 1..Len(d.reqlist) /\ d.reqlist[i].msgtyp = c.reqlist[i].msgtyp
      /\ \A i \in 1..Len(types) :
            /\ Len(c.reqlist) + i \in 1..Len(d.reqlist)
            /\ d.reqlist[Len(c.reqlist) + i].msgtyp = types[i]
      /\ \A i \in 1..Len(d.reqlist) : \/ i \in 1..Len(c.reqlist)
                                      \/ i - Len(c.reqlist) \in 1..Len(types)
  <2>. DEFINE old == c.reqlist
              new == d.reqlist
              reqno == c.reqno
  <2>1. old \in Seq(Request) /\ new \in Seq(Request)
        /\ Grows(new, old, types, reqno)
        BY <1>1, <1>2
  <2>. HIDE DEF old, new, reqno
  <2>2. /\ \A i \in 1..Len(old) : /\ i \in 1..Len(new)
                                   /\ new[i].msgtyp = old[i].msgtyp
        /\ \A i \in 1..Len(types) : /\ Len(old) + i \in 1..Len(new)
                                     /\ new[Len(old) + i].msgtyp = types[i]
        /\ \A i \in 1..Len(new) : \/ i \in 1..Len(old)
                                   \/ i - Len(old) \in 1..Len(types)
        BY <2>1, GrowsElements
  <2>. QED BY <2>2 DEF old, new
<1>4. d.reqlist # <<>> /\ UnregisterOut(d) = UnregisterOut(c)
  <2>1. 1 \in 1..Len(c.reqlist) /\ Head(c.reqlist) = c.reqlist[1] BY <1>2
  <2>2. 1 \in 1..Len(d.reqlist) /\ d.reqlist[1].msgtyp = c.reqlist[1].msgtyp
        BY <1>3, <2>1
  <2>3. d.reqlist # <<>> /\ Head(d.reqlist) = d.reqlist[1] BY <1>2, <2>2
  <2>. QED BY <2>1, <2>2, <2>3 DEF UnregisterOut
<1>5. Kept(d)
  <2>. SUFFICES ASSUME d.held, NEW i \in 1..Len(d.reqlist)
                PROVE  d.reqlist[i].msgtyp # "unregister"
       BY <1>1 DEF Kept
  <2>1. CASE i \in 1..Len(c.reqlist) BY <1>1, <1>3, <2>1 DEF Kept
  <2>2. CASE i - Len(c.reqlist) \in 1..Len(types)
    <3>. DEFINE j == i - Len(c.reqlist)
    <3>1. Len(c.reqlist) + j = i /\ j \in 1..Len(types) BY <1>2, <2>2
    <3>. HIDE DEF j
    <3>2. d.reqlist[i].msgtyp = types[j] BY <1>3, <3>1
    <3>. QED BY <1>1, <3>1, <3>2
  <2>. QED BY <1>3, <2>1, <2>2
<1>6. d.client = "connecting" => HasRegister(d)
      BY <1>1, <1>3 DEF HasRegister
<1>7. Alive(d) BY <1>1, <1>4, <1>6 DEF Alive
<1>8. ~d.revived => Orderly(d, 0) BY <1>1, <1>4 DEF Orderly, Counted
<1>9. Sound(d, 0) BY <1>1, <1>5, <1>7, <1>8 DEF Sound
<1>. QED BY <1>9 DEF d

(* push_request with a set whose client may just have been told to connect *)
(* by the caller.                                                          *)
LEMMA PushSound ==
    ASSUME NEW c \in ResourceSetRec, NEW t \in MsgType, QueueInv(c),
           c.fault = "none", c.life = "live",
           Kept(c), ~c.revived => Orderly(c, 0),
           t = "unregister" => ~c.held,
           c.client = "connecting" => HasRegister(c) \/ t = "register",
           t = "register" => c.client = "connecting",
           c.client = "ready" =>
              /\ c.resset
              /\ c.rset.state \in {"connected", "freed"} \/ UnregisterOut(c)
    PROVE  LET d == push_request(c, t)
           IN  /\ Sound(d, 0)
               /\ IF c.client = "created" THEN d = c ELSE Pushed(c, d, <<t>>)
<1>. DEFINE d == push_request(c, t)
            types == <<t>>
            e == enqueue(c, types)
<1>1. types \in Seq(MsgType) /\ Len(types) = 1 /\ types[1] = t
      /\ 1 \in 1..Len(types) /\ \A i \in 1..Len(types) : types[i] = t
      OBVIOUS
<1>2. c.reqlist \in Seq(Request) BY DEF ResourceSetRec
<1>3. CASE c.client = "created"
  <2>1. d = c BY <1>3 DEF push_request
  <2>2. Alive(c) BY <1>3 DEF Alive
  <2>3. Sound(c, 0) BY <2>2 DEF Sound
  <2>. QED BY <1>3, <2>1, <2>3
<1>4. CASE c.client # "created"
  <2>1. d = send_request(e) BY <1>4 DEF push_request
  <2>. HIDE DEF types
  <2>2. /\ e \in ResourceSetRec
        /\ Grows(e.reqlist, c.reqlist, types, c.reqno)
        /\ e.reqno = c.reqno + Len(types) /\ e.fault = c.fault
        /\ e.life = c.life /\ e.client = c.client /\ e.held = c.held
        /\ e.revived = c.revived /\ e.resset = c.resset
        /\ e.path = c.path /\ e.rset = c.rset
        BY <1>1, EnqueueGrows
  <2>3. c.reqlist = <<>> => Idle(e, {}, 0) BY <1>1, EnqueueFirst
  <2>4. c.reqlist # <<>> => QueueInv(e) /\ Sound(e, 0)
    <3>. SUFFICES ASSUME c.reqlist # <<>> PROVE QueueInv(e) /\ Sound(e, 0)
         OBVIOUS
    <3>1. QueueInv(e) BY <1>1, EnqueueBehind
    <3>2. c.held => \A i \in 1..Len(types) : types[i] # "unregister" BY <1>1
    <3>3. c.client = "connecting" =>
             HasRegister(c) \/ \E i \in 1..Len(types) : types[i] = "register"
          BY <1>1
    <3>4. Sound(e, 0) BY <1>1, <3>2, <3>3, EnqueueSound
    <3>. QED BY <3>1, <3>4
  <2>5. e.reqlist \in Seq(Request) BY <2>2 DEF ResourceSetRec
  <2>. HIDE DEF e, d
  <2>6. CASE c.reqlist = <<>>
    <3>1. Len(c.reqlist) = 0 BY <2>6
    <3>2. Len(e.reqlist) = 1 BY <1>1, <2>2, <3>1 DEF Grows
    <3>3. e.reqlist[1].msgtyp = t
      <4>. DEFINE x == e.reqlist[Len(c.reqlist) + 1]
      <4>1. Pending(x) = [msgtyp |-> types[1], reqno |-> c.reqno + 1]
            BY <1>1, <2>2 DEF Grows
      <4>2. Len(c.reqlist) + 1 = 1 BY <3>1
      <4>. HIDE DEF x
      <4>3. x.msgtyp = t BY <1>1, <4>1 DEF Pending
      <4>. QED BY <4>2, <4>3 DEF x
    <3>4. e.reqlist # <<>> /\ Head(e.reqlist) = e.reqlist[1]
      <4>1. Len(e.reqlist) > 0 BY <3>2
      <4>. QED BY <2>5, <4>1, FirstOf
    <3>5. ~HasRegister(c) /\ ~UnregisterOut(c)
          BY <2>6, <3>1 DEF HasRegister, UnregisterOut
    <3>6. Kept(e)
      <4>1. \A i \in 1..Len(e.reqlist) : i = 1 BY <3>2
      <4>. QED BY <2>2, <3>3, <4>1 DEF Kept
    <3>7. e.client = "connecting" => HasRegister(e)
      <4>1. 1 \in 1..Len(e.reqlist) BY <3>2
      <4>. QED BY <2>2, <3>3, <3>5, <4>1 DEF HasRegister
    <3>8. ~e.revived => /\ Counted(e, 0)
                        /\ e.client = "ready" => e.rset.state = "connected"
          BY <2>2, <2>6, <3>5 DEF Orderly, Counted
    <3>9. c.client \in {"created", "connecting", "ready"} BY DEF ResourceSetRec
    <3>10. Poised(e, 0)
      <4>1. e.client = "ready" => e.resset /\ e.rset.state \in {"connected", "freed"}
            BY <2>2, <3>5
      <4>2. Head(e.reqlist).msgtyp = "register" /\ e.client = "ready"
               => e.rset.state = "connected"
            BY <2>2, <3>3, <3>4
      <4>3. Head(e.reqlist).msgtyp # "register" /\ e.client # "created"
               /\ dangling(e) => e.revived
            BY <2>2, <3>3, <3>4, <3>5, <3>8, <3>9 DEF dangling, resset_find
      <4>. QED BY <2>2, <3>6, <3>7, <3>8, <4>1, <4>2, <4>3 DEF Poised
    <3>11. Sound(d, 0) /\ d.reqno = e.reqno /\ Serves(d, e.reqlist)
           BY <2>1, <2>3, <2>6, <3>10, SendRequestSound
    <3>12. Pushed(c, d, types)
           BY <2>2, <2>5, <2>6, <3>11 DEF Pushed
    <3>. QED BY <1>4, <3>11, <3>12 DEF d, types
  <2>7. CASE c.reqlist # <<>>
    <3>1. e.reqlist # <<>>
      <4>1. Len(c.reqlist) \in Nat /\ Len(e.reqlist) = Len(c.reqlist) + 1
            BY <1>1, <1>2, <2>2 DEF Grows
      <4>. QED BY <2>5, <4>1
    <3>2. Head(e.reqlist).busy
          BY <2>2, <2>4, <2>5, <2>7, <3>1 DEF QueueInv, Settled, HeadBusy
    <3>3. d = e BY <2>1, <3>2 DEF send_request
    <3>4. Drops(e.reqlist, e.reqlist, 0) BY <2>5, DropsNothing
    <3>5. Pushed(c, d, types) BY <2>2, <2>5, <2>7, <3>3, <3>4 DEF Pushed
    <3>. QED BY <1>4, <2>4, <2>7, <3>3, <3>5 DEF d, types
  <2>. QED BY <2>6, <2>7
<1>. QED BY <1>3, <1>4
-----------------------------------------------------------------------------
(* Connecting.                                                             *)
LEMMA ConnectMessagesKinds ==
    ASSUME NEW c \in ResourceSetRec
    PROVE  connect_messages(c) \in Seq({"audio", "video", "acquire"})
<1>. DEFINE M == {"audio", "video", "acquire"}
<1>1. ASSUME NEW kind PROVE config_messages(kind) \in Seq(M)
  <2>1. <<"audio", "video">> \in Seq(M) /\ <<"video">> \in Seq(M) OBVIOUS
  <2>. QED BY <2>1 DEF config_messages
<1>2. <<>> \in Seq(M) /\ <<"acquire">> \in Seq(M) OBVIOUS
<1>3. ASSUME NEW x \in Seq(M), NEW y \in Seq(M), NEW z \in Seq(M)
      PROVE  x \o y \o z \in Seq(M)
      OBVIOUS
<1>. HIDE DEF M
<1>4. connect_messages(c) \in Seq(M)
      BY <1>1, <1>2, <1>3 DEF connect_messages
<1>. QED BY <1>4 DEF M

LEMMA GrowsTwice ==
    ASSUME NEW a \in Seq(Request), NEW b \in Seq(Request),
           NEW b1 \in Seq(Request), NEW c \in Seq(Request),
           NEW t \in Seq(MsgType), NEW u \in Seq(MsgType), NEW reqno \in Nat,
           Grows(b, a, t, reqno), Drops(b1, b, 0),
           Grows(c, b1, u, reqno + Len(t))
    PROVE  Grows(c, a, t \o u, reqno)
<1>. DEFINE v == t \o u
<1>1. /\ v \in Seq(MsgType) /\ Len(v) = Len(t) + Len(u)
      /\ \A i \in 1..(Len(t) + Len(u)) :
            v[i] = IF i <= Len(t) THEN t[i] ELSE u[i - Len(t)]
      BY ConcatProperties
<1>. HIDE DEF v
<1>2. /\ Len(a) \in Nat /\ Len(t) \in Nat /\ Len(u) \in Nat
      /\ Len(b) = Len(a) + Len(t) /\ Len(b1) = Len(b)
      /\ Len(c) = Len(b1) + Len(u)
      BY DEF Grows, Drops
<1>3. ASSUME NEW i \in 1..Len(b) PROVE Pending(c[i]) = Pending(b[i])
  <2>1. i \in 1..Len(b1) /\ 0 + i = i BY <1>2
  <2>2. Pending(b1[i]) = Pending(b[0 + i]) BY <2>1 DEF Drops
  <2>3. Pending(c[i]) = Pending(b1[i]) BY <2>1 DEF Grows
  <2>. QED BY <2>1, <2>2, <2>3
<1>4. ASSUME NEW i \in 1..Len(a) PROVE Pending(c[i]) = Pending(a[i])
  <2>1. i \in 1..Len(b) BY <1>2
  <2>2. Pending(b[i]) = Pending(a[i]) BY DEF Grows
  <2>. QED BY <1>3, <2>1, <2>2
<1>5. ASSUME NEW i \in 1..Len(v)
      PROVE  Pending(c[Len(a) + i]) = [msgtyp |-> v[i], reqno |-> reqno + i]
  <2>1. CASE i <= Len(t)
    <3>. DEFINE x == Len(a) + i
    <3>1. i \in 1..Len(t) /\ x \in 1..Len(b) /\ v[i] = t[i]
          BY <1>1, <1>2, <2>1
    <3>2. Pending(b[Len(a) + i]) = [msgtyp |-> t[i], reqno |-> reqno + i]
          BY <3>1 DEF Grows
    <3>. HIDE DEF x
    <3>3. Pending(c[x]) = Pending(b[x]) BY <1>3, <3>1
    <3>. QED BY <3>1, <3>2, <3>3 DEF x
  <2>2. CASE ~(i <= Len(t))
    <3>. DEFINE j == i - Len(t)
                n == reqno + Len(t)
    <3>1. /\ j \in 1..Len(u) /\ v[i] = u[j] /\ n + j = reqno + i
          /\ Len(b1) + j = Len(a) + i
          BY <1>1, <1>2, <2>2
    <3>. HIDE DEF j
    <3>2. Pending(c[Len(b1) + j]) = [msgtyp |-> u[j], reqno |-> n + j]
          BY <3>1 DEF Grows
    <3>. HIDE DEF n
    <3>. QED BY <3>1, <3>2
  <2>. QED BY <2>1, <2>2
<1>6. Len(c) = Len(a) + Len(v) BY <1>1, <1>2
<1>. QED BY <1>4, <1>5, <1>6 DEF Grows, v

LEMMA ConnectSound ==
    ASSUME NEW c \in ResourceSetRec, QueueInv(c), c.fault = "none",
           c.life = "live", Sound(c, 0)
    PROVE  LET d == connect_to_manager(c)
           IN  Sound(d, 0) /\ Submits(c, d)
<1>. DEFINE b == [c EXCEPT !.client = "connecting", !.denied = FALSE]
            types == <<"register">>
            d == push_request(b, "register")
            msgs == connect_messages(d)
            e == enqueue(d, msgs)
<1>1. /\ b \in ResourceSetRec /\ b.client = "connecting" /\ b.fault = "none"
      /\ b.life = c.life /\ b.held = c.held /\ b.revived = c.revived
      /\ b.path = c.path /\ b.rset = c.rset /\ b.reqlist = c.reqlist
      /\ b.reqno = c.reqno /\ b.conn = c.conn /\ b.resset = c.resset
      /\ b.replies = c.replies
      BY DEF ResourceSetRec
<1>. HIDE DEF b
<1>2. QueueInv(b) BY <1>1, SameQueue
<1>3. "register" \in MsgType /\ types \in Seq(MsgType) /\ Len(types) = 1
      /\ types[1] = "register"
      BY DEF MsgType
<1>4. Kept(b) /\ (~b.revived => Orderly(b, 0))
      BY <1>1 DEF Sound, Kept, Orderly, Counted, UnregisterOut
<1>5. Sound(d, 0) /\ Pushed(b, d, types) /\ d \in ResourceSetRec
  <2>1. Sound(d, 0) /\ IF b.client = "created" THEN d = b
                                              ELSE Pushed(b, d, <<"register">>)
        BY <1>1, <1>2, <1>3, <1>4, PushSound
  <2>. HIDE DEF d
  <2>. QED BY <1>1, <1>2, <1>3, <2>1, PushRequestType DEF d
<1>6. d.fault # "none" \/ d.client = "created" \/ d.reqlist # <<>>
      BY <1>1, <1>2, RegisterSent
<1>7. connect_to_manager(c) = IF d.client = "created" \/ d.fault # "none"
                              THEN d ELSE e
      BY DEF connect_to_manager, b
<1>. HIDE DEF d
<1>8. Pushed(c, d, types) BY <1>1, <1>5 DEF Pushed
<1>. HIDE DEF types
<1>9. CASE d.client = "created" \/ d.fault # "none"
  <2>1. Submits(c, d) BY <1>3, <1>8 DEF Submits
  <2>. QED BY <1>5, <1>7, <1>9, <2>1
<1>10. CASE ~(d.client = "created" \/ d.fault # "none")
  <2>1. d.reqlist # <<>> /\ d.fault = "none" BY <1>6, <1>10
  <2>2. d.life = "live" BY <1>5, <2>1 DEF Sound
  <2>3. msgs \in Seq({"audio", "video", "acquire"})
        BY <1>5, ConnectMessagesKinds
  <2>. HIDE DEF msgs
  <2>4. msgs \in Seq(MsgType) /\ Len(msgs) \in Nat
        /\ \A i \in 1..Len(msgs) : msgs[i] # "unregister"
    <3>1. \A i \in 1..Len(msgs) : msgs[i] \in {"audio", "video", "acquire"}
          BY <2>3
    <3>. QED BY <2>3, <3>1 DEF MsgType
  <2>5. Sound(e, 0)
    <3>1. Kept(d) /\ (~d.revived => Orderly(d, 0)) /\ Alive(d)
          BY <1>5, <2>1, <2>2 DEF Sound
    <3>. HIDE DEF e
    <3>2. /\ d.client = "connecting" => HasRegister(d)
          /\ d.client = "ready" =>
              /\ d.resset
              /\ d.rset.state \in {"connected", "freed"} \/ UnregisterOut(d)
          BY <3>1 DEF Alive
    <3>. QED BY <1>5, <2>1, <2>2, <2>4, <3>1, <3>2, EnqueueSound DEF e
  <2>6. /\ e \in ResourceSetRec
        /\ Grows(e.reqlist, d.reqlist, msgs, d.reqno)
        /\ e.reqno = d.reqno + Len(msgs)
        BY <1>5, <2>4, EnqueueGrows
  <2>. HIDE DEF e
  <2>7. /\ c.reqlist \in Seq(Request) /\ d.reqlist \in Seq(Request)
        /\ e.reqlist \in Seq(Request) /\ c.reqno \in Nat
        /\ d.reqno = c.reqno + Len(types)
        BY <1>5, <1>8, <2>6 DEF ResourceSetRec, Pushed
  <2>8. PICK list \in Seq(Request) :
           /\ Grows(list, c.reqlist, types, c.reqno)
           /\ IF c.reqlist = <<>> THEN Serves(d, list) ELSE Drops(d.reqlist, list, 0)
        BY <1>8 DEF Pushed
  <2>9. Drops(d.reqlist, list, 0)
    <3>1. CASE c.reqlist # <<>> BY <2>8, <3>1
    <3>2. CASE c.reqlist = <<>>
      <4>1. PICK n \in 0..Len(list) : Drops(d.reqlist, list, n)
            BY <2>8, <3>2 DEF Serves
      <4>2. Len(list) = Len(c.reqlist) + 1 BY <1>3, <2>8 DEF Grows
      <4>3. Len(c.reqlist) = 0 BY <3>2
      <4>4. Len(d.reqlist) # 0 BY <2>1, <2>7
      <4>5. Len(d.reqlist) = Len(list) - n BY <4>1 DEF Drops
      <4>6. Len(list) = 1 BY <4>2, <4>3
      <4>7. n = 0 BY <4>4, <4>5, <4>6
      <4>. QED BY <4>1, <4>7
    <3>. QED BY <3>1, <3>2
  <2>. DEFINE all == types \o msgs
  <2>10. Grows(e.reqlist, c.reqlist, all, c.reqno)
    <3>. DEFINE a  == c.reqlist
                b1 == d.reqlist
                f  == e.reqlist
                n  == c.reqno
    <3>1. /\ a \in Seq(Request) /\ b1 \in Seq(Request) /\ f \in Seq(Request)
          /\ n \in Nat /\ Grows(list, a, types, n) /\ Drops(b1, list, 0)
          /\ Grows(f, b1, msgs, n + Len(types))
          BY <2>6, <2>7, <2>8, <2>9
    <3>. HIDE DEF a, b1, f, n
    <3>2. Grows(f, a, types \o msgs, n) BY <1>3, <2>4, <3>1, GrowsTwice
    <3>. QED BY <3>2 DEF a, f, n
  <2>11. /\ all \in Seq(MsgType) /\ Len(all) = 1 + Len(msgs)
         /\ all[1] = "register"
    <3>1. /\ all \in Seq(MsgType) /\ Len(all) = Len(types) + Len(msgs)
          /\ \A i \in 1..(Len(types) + Len(msgs)) :
                all[i] = IF i <= Len(types) THEN types[i] ELSE msgs[i - Len(types)]
          BY <1>3, <2>4, ConcatProperties
    <3>. HIDE DEF all
    <3>2. 1 \in 1..(Len(types) + Len(msgs)) BY <1>3, <2>4
    <3>. QED BY <1>3, <3>1, <3>2
  <2>. HIDE DEF all
  <2>12. Serves(e, e.reqlist) /\ Drops(e.reqlist, e.reqlist, 0)
         BY <2>7, ServesAll, DropsNothing
  <2>13. e.reqno = c.reqno + Len(all)
    <3>1. e.reqno = (c.reqno + 1) + Len(msgs) BY <1>3, <2>6, <2>7
    <3>2. c.reqno \in Nat BY <2>7
    <3>3. Len(all) = 1 + Len(msgs) BY <2>11
    <3>4. Len(msgs) \in Nat BY <2>4
    <3>. DEFINE m == Len(msgs)
                n == Len(all)
                x == c.reqno
                y == e.reqno
    <3>5. y = (x + 1) + m /\ n = 1 + m /\ x \in Nat /\ m \in Nat
          BY <3>1, <3>2, <3>3, <3>4
    <3>. HIDE DEF m, n, x, y
    <3>6. y = x + n BY <3>5
    <3>. QED BY <3>6 DEF n, x, y
  <2>14. Pushed(c, e, all) BY <2>7, <2>10, <2>12, <2>13 DEF Pushed
  <2>15. Submits(c, e)
    <3>1. Len(all) > 0 BY <2>4, <2>11
    <3>. QED BY <2>11, <2>14, <3>1 DEF Submits
  <2>. QED BY <1>7, <1>10, <2>5, <2>15
<1>. QED BY <1>9, <1>10
-----------------------------------------------------------------------------
(* The public operations.                                                  *)
LEMMA RestsMoves ==
    ASSUME NEW c, NEW d, d.reqlist = c.reqlist, d.reqno = c.reqno
    PROVE  Moves(c, d)
BY DEF Moves, Rests

(* Every operation but create changes something that does not matter here, *)
(* or gives the pointer up, and pushes a request.                          *)
LEMMA OperationSound ==
    ASSUME NEW c \in ResourceSetRec, QueueInv(c), c.fault = "none",
           c.life = "live", Sound(c, 0),
           NEW b \in ResourceSetRec, b.held => c.held,
           b.fault = c.fault, b.life = c.life, b.client = c.client,
           b.resset = c.resset, b.conn = c.conn, b.reqlist = c.reqlist,
           b.reqno = c.reqno, b.rset = c.rset, b.path = c.path,
           b.replies = c.replies, b.revived = c.revived,
           NEW t \in MsgType, t # "register", t = "unregister" => ~b.held
    PROVE  LET d == push_request(b, t) IN Sound(d, 0) /\ Moves(c, d)
<1>. DEFINE d == push_request(b, t)
            types == <<t>>
<1>1. QueueInv(b) BY SameQueue
<1>2. /\ Kept(b) /\ (~b.revived => Orderly(b, 0))
      /\ b.client = "connecting" => HasRegister(b) \/ t = "register"
      /\ b.client = "ready" =>
            b.resset /\ (b.rset.state \in {"connected", "freed"} \/ UnregisterOut(b))
      BY DEF Sound, Alive, Kept, Orderly, Counted, UnregisterOut, HasRegister
<1>3. Sound(d, 0) /\ IF b.client = "created" THEN d = b ELSE Pushed(b, d, types)
      BY <1>1, <1>2, PushSound
<1>. HIDE DEF d
<1>4. types \in Seq(MsgType) /\ Len(types) = 1 OBVIOUS
<1>. HIDE DEF types
<1>5. Pushed(b, d, types) => Submits(c, d)
  <2>1. Pushed(b, d, types) => Pushed(c, d, types) BY DEF Pushed
  <2>2. Len(types) > 0 /\ ~(Len(types) > 1) BY <1>4
  <2>. QED BY <1>4, <2>1, <2>2 DEF Submits
<1>. QED BY <1>3, <1>5, RestsMoves DEF Moves, d

LEMMA OperationsSound ==
    ASSUME NEW c \in ResourceSetRec, QueueInv(c), c.fault = "none",
           c.life = "live", Sound(c, 0)
    PROVE  /\ LET d == resource_set_destroy(c) IN Sound(d, 0) /\ Moves(c, d)
           /\ LET d == resource_set_acquire(c) IN Sound(d, 0) /\ Moves(c, d)
           /\ LET d == resource_set_release(c) IN Sound(d, 0) /\ Moves(c, d)
<1>1. {"unregister", "acquire", "release"} \subseteq MsgType BY DEF MsgType
<1>2. Moves(c, c) BY RestsMoves
<1>3. LET d == push_request([c EXCEPT !.held = FALSE], "unregister")
      IN  Sound(d, 0) /\ Moves(c, d)
  <2>. DEFINE b == [c EXCEPT !.held = FALSE]
  <2>1. /\ b \in ResourceSetRec /\ ~b.held
        /\ b.fault = c.fault /\ b.life = c.life /\ b.client = c.client
        /\ b.resset = c.resset /\ b.conn = c.conn /\ b.reqlist = c.reqlist
        /\ b.reqno = c.reqno /\ b.rset = c.rset /\ b.path = c.path
        /\ b.replies = c.replies /\ b.revived = c.revived
        BY DEF ResourceSetRec
  <2>. HIDE DEF b
  <2>2. LET d == push_request(b, "unregister") IN Sound(d, 0) /\ Moves(c, d)
        BY <1>1, <2>1, OperationSound
  <2>. QED BY <2>2 DEF b
<1>4. ASSUME NEW a \in BOOLEAN, NEW t \in {"acquire", "release"}
      PROVE  LET d == push_request([c EXCEPT !.acquire = a], t)
             IN  Sound(d, 0) /\ Moves(c, d)
  <2>. DEFINE b == [c EXCEPT !.acquire = a]
  <2>1. /\ b \in ResourceSetRec /\ b.held = c.held
        /\ b.fault = c.fault /\ b.life = c.life /\ b.client = c.client
        /\ b.resset = c.resset /\ b.conn = c.conn /\ b.reqlist = c.reqlist
        /\ b.reqno = c.reqno /\ b.rset = c.rset /\ b.path = c.path
        /\ b.replies = c.replies /\ b.revived = c.revived
        BY DEF ResourceSetRec
  <2>. HIDE DEF b
  <2>2. t \in MsgType /\ t # "register" /\ t # "unregister" BY <1>1
  <2>3. LET d == push_request(b, t) IN Sound(d, 0) /\ Moves(c, d)
        BY <2>1, <2>2, OperationSound
  <2>. QED BY <2>3 DEF b
<1>. QED BY <1>2, <1>3, <1>4 DEF resource_set_destroy, resource_set_acquire,
         resource_set_release

(* A release notice, for a set whose object path is there.                 *)
LEMMA ReleaseNoticeSound ==
    ASSUME NEW c \in ResourceSetRec, QueueInv(c), c.fault = "none",
           c.path, Sound(c, 0)
    PROVE  LET d == receive_release_message(c) IN Sound(d, 0) /\ Moves(c, d)
<1>1. CASE c.life = "freed"
  <2>. DEFINE d == [c EXCEPT !.fault = "stale"]
  <2>1. /\ d.fault = "stale" /\ d.revived = c.revived
        /\ d.reqlist = c.reqlist /\ d.reqno = c.reqno
        BY DEF ResourceSetRec
  <2>2. c.revived BY <1>1 DEF Sound, Orderly
  <2>. HIDE DEF d
  <2>3. Sound(d, 0) /\ Moves(c, d) BY <2>1, <2>2, SoundFault, RestsMoves
  <2>. QED BY <1>1, <2>3 DEF receive_release_message, d
<1>2. CASE c.life # "freed" /\ c.resset /\ c.life = "live"
  <2>. DEFINE b == [c EXCEPT !.acquire = FALSE]
  <2>1. /\ b \in ResourceSetRec /\ b.held = c.held
        /\ b.fault = c.fault /\ b.life = c.life /\ b.client = c.client
        /\ b.resset = c.resset /\ b.conn = c.conn /\ b.reqlist = c.reqlist
        /\ b.reqno = c.reqno /\ b.rset = c.rset /\ b.path = c.path
        /\ b.replies = c.replies /\ b.revived = c.revived
        BY DEF ResourceSetRec
  <2>. HIDE DEF b
  <2>2. "release" \in MsgType BY DEF MsgType
  <2>3. LET d == push_request(b, "release") IN Sound(d, 0) /\ Moves(c, d)
        BY <1>2, <2>1, <2>2, OperationSound
  <2>. QED BY <1>2, <2>3 DEF receive_release_message, b
<1>3. CASE c.life # "freed" /\ ~c.resset
      BY <1>3, RestsMoves DEF receive_release_message
<1>4. c.life \in {"live", "freed"} BY DEF Sound, ResourceSetRec
<1>. QED BY <1>1, <1>2, <1>3, <1>4

LEMMA ConfigureResourcesSound ==
    ASSUME NEW c \in ResourceSetRec, QueueInv(c), c.fault = "none",
           c.life = "live", Sound(c, 0),
           NEW mandatory \in SUBSET Resource, NEW optional \in SUBSET Resource
    PROVE  LET d == resource_set_configure_resources(c, mandatory, optional)
           IN  Sound(d, 0) /\ Moves(c, d)
<1>. DEFINE flags == [all |-> mandatory \cup optional,
                      opt |-> optional \ mandatory]
            b == [c EXCEPT !.resources = flags]
<1>1. flags \in ResourceFlags BY DEF ResourceFlags
<1>. HIDE DEF flags
<1>2. /\ b \in ResourceSetRec /\ b.held = c.held
      /\ b.fault = c.fault /\ b.life = c.life /\ b.client = c.client
      /\ b.resset = c.resset /\ b.conn = c.conn /\ b.reqlist = c.reqlist
      /\ b.reqno = c.reqno /\ b.rset = c.rset /\ b.path = c.path
      /\ b.replies = c.replies /\ b.revived = c.revived
      BY <1>1 DEF ResourceSetRec
<1>3. "update" \in MsgType BY DEF MsgType
<1>. HIDE DEF b
<1>4. LET d == push_request(b, "update") IN Sound(d, 0) /\ Moves(c, d)
      BY <1>2, <1>3, OperationSound
<1>5. Moves(c, c) BY RestsMoves
<1>. QED BY <1>4, <1>5 DEF resource_set_configure_resources, b, flags

LEMMA ConfigureSound ==
    ASSUME NEW c \in ResourceSetRec, QueueInv(c), c.fault = "none",
           c.life = "live", Sound(c, 0),
           NEW kind \in Kind, NEW given \in ConfigValue
    PROVE  LET d == configure(c, kind, given) IN Sound(d, 0) /\ Moves(c, d)
<1>. DEFINE configs == configs_after(c, kind, given)
            b == [c EXCEPT !.configs = configs]
<1>1. configs \in Seq(Config) BY ConfigsAfterType
<1>. HIDE DEF configs
<1>2. /\ b \in ResourceSetRec /\ b.held = c.held
      /\ b.fault = c.fault /\ b.life = c.life /\ b.client = c.client
      /\ b.resset = c.resset /\ b.conn = c.conn /\ b.reqlist = c.reqlist
      /\ b.reqno = c.reqno /\ b.rset = c.rset /\ b.path = c.path
      /\ b.replies = c.replies /\ b.revived = c.revived
      BY <1>1 DEF ResourceSetRec
<1>3. kind \in MsgType /\ kind # "register" /\ kind # "unregister"
      BY DEF MsgType, Kind
<1>. HIDE DEF b
<1>4. LET d == push_request(b, kind) IN Sound(d, 0) /\ Moves(c, d)
      BY <1>2, <1>3, OperationSound
<1>5. Moves(c, c) BY RestsMoves
<1>. QED BY <1>4, <1>5 DEF configure, b, configs

LEMMA CreateSound ==
    ASSUME NEW c, c.life = "none", c.fault = "none", Sound(c, 0),
           NEW conn \in BOOLEAN, NEW mandatory \in SUBSET Resource,
           NEW optional \in SUBSET Resource
    PROVE  LET d == resource_set_create(conn, mandatory, optional)
           IN  Sound(d, 0) /\ Moves(c, d)
<1>. DEFINE flags == [all |-> mandatory \cup optional,
                      opt |-> optional \ mandatory]
            b == [NoSet EXCEPT !.life = "live", !.held = TRUE, !.conn = conn,
                               !.resources = flags]
            d == connect_to_manager(b)
<1>1. flags \in ResourceFlags BY DEF ResourceFlags
<1>2. NoSet \in ResourceSetRec
      BY DEF NoSet, ResourceSetRec, NoFlags, ResourceFlags, Freed, Rset, RsetState
<1>. HIDE DEF flags
<1>3. b \in ResourceSetRec BY <1>1, <1>2 DEF ResourceSetRec
<1>4. /\ b.fault = "none" /\ b.reqlist = <<>> /\ ~b.path /\ ~b.resset
      /\ b.replies = {} /\ b.life = "live" /\ b.client = "created"
      /\ b.rset.state = "freed" /\ b.rset.refcnt = 0 /\ b.reqno = 0
      BY DEF NoSet, Freed
<1>. HIDE DEF b
<1>5. Len(b.reqlist) = 0 BY <1>4
<1>6. QueueInv(b) BY <1>4, <1>5 DEF QueueInv, Settled, Ascending, Backed
<1>7. Sound(b, 0)
  <2>1. Kept(b) /\ Alive(b) BY <1>4, <1>5 DEF Kept, Alive
  <2>2. Orderly(b, 0) BY <1>4 DEF Orderly, Counted, UnregisterOut
  <2>. QED BY <1>4, <2>1, <2>2 DEF Sound
<1>8. Sound(d, 0) /\ Submits(b, d)
      BY <1>3, <1>4, <1>6, <1>7, ConnectSound
<1>. HIDE DEF d
<1>9. c.reqlist = b.reqlist /\ c.reqno = b.reqno BY <1>4 DEF Sound
<1>10. Submits(c, d) BY <1>8, <1>9 DEF Submits, Pushed
<1>. QED BY <1>8, <1>10 DEF Moves, d, b, flags, resource_set_create

LEMMA ManagerIsUpSound ==
    ASSUME NEW c \in ResourceSetRec, QueueInv(c), c.fault = "none", Sound(c, 0)
    PROVE  LET d == manager_is_up(c) IN Sound(d, 0) /\ Moves(c, d)
<1>1. Moves(c, c) BY RestsMoves
<1>. QED BY <1>1, ConnectSound DEF manager_is_up, Moves
-----------------------------------------------------------------------------
(* Notifications and the loss of the manager.                              *)
LEMMA HandlersSound ==
    ASSUME NEW c \in ResourceSetRec, c.fault = "none", Sound(c, 0),
           c.path \/ c.rset.state = "connected"
    PROVE  /\ LET d == disconnect_from_manager(c) IN Sound(d, 0) /\ Moves(c, d)
           /\ \A granted, auto :
                 LET d == receive_grant_message(c, granted, auto)
                 IN  Sound(d, 0) /\ Moves(c, d)
           /\ LET d == receive_advice_message(c) IN Sound(d, 0) /\ Moves(c, d)
<1>1. c.life = "freed" => c.revived BY DEF Sound, Orderly, Counted
<1>2. Moves(c, c) BY RestsMoves
<1>3. c.life = "freed" => LET d == [c EXCEPT !.fault = "stale"]
                          IN  Sound(d, 0) /\ Moves(c, d)
  <2>. DEFINE d == [c EXCEPT !.fault = "stale"]
  <2>1. /\ d.fault = "stale" /\ d.revived = c.revived
        /\ d.reqlist = c.reqlist /\ d.reqno = c.reqno
        BY DEF ResourceSetRec
  <2>. HIDE DEF d
  <2>2. c.life = "freed" => Sound(d, 0) /\ Moves(c, d)
        BY <1>1, <2>1, SoundFault, RestsMoves
  <2>. QED BY <2>2 DEF d
<1>4. LET d == [c EXCEPT !.client = "created"] IN Sound(d, 0) /\ Moves(c, d)
  <2>. DEFINE d == [c EXCEPT !.client = "created"]
  <2>1. /\ d.fault = "none" /\ d.revived = c.revived /\ d.client = "created"
        /\ d.reqlist = c.reqlist /\ d.reqno = c.reqno /\ d.life = c.life
        /\ d.held = c.held /\ d.path = c.path /\ d.rset = c.rset
        BY DEF ResourceSetRec
  <2>. HIDE DEF d
  <2>2. Sound(d, 0)
        BY <2>1 DEF Sound, Kept, Alive, Orderly, Counted, UnregisterOut
  <2>3. Moves(c, d) BY <2>1, RestsMoves
  <2>. QED BY <2>2, <2>3 DEF d
<1>5. LET d == [c EXCEPT !.acquire = FALSE] IN Sound(d, 0) /\ Moves(c, d)
  <2>. DEFINE d == [c EXCEPT !.acquire = FALSE]
  <2>1. /\ d.fault = "none" /\ d.revived = c.revived /\ d.client = c.client
        /\ d.reqlist = c.reqlist /\ d.reqno = c.reqno /\ d.life = c.life
        /\ d.held = c.held /\ d.path = c.path /\ d.rset = c.rset
        /\ d.resset = c.resset
        BY DEF ResourceSetRec
  <2>. HIDE DEF d
  <2>2. Sound(d, 0)
        BY <2>1 DEF Sound, Kept, Alive, Orderly, Counted, UnregisterOut, HasRegister
  <2>3. Moves(c, d) BY <2>1, RestsMoves
  <2>. QED BY <2>2, <2>3 DEF d
<1>. QED BY <1>2, <1>3, <1>4, <1>5 DEF disconnect_from_manager,
         receive_grant_message, receive_advice_message

(* What the loss of the link does to the resset_t.                         *)
LEMMA DestroyedCount ==
    ASSUME NEW c \in ResourceSetRec, resset_find(c.rset), NEW k \in Nat,
           Counted(c, k)
    PROVE  LET d == dbus_disconnect_from_manager(c)
           IN  Counted(d, k) /\ d.rset.state \in {"killed", "freed"}
<1>. DEFINE r == c.rset
            q == [r EXCEPT !.state = "killed"]
            d == dbus_disconnect_from_manager(c)
<1>1. r \in Rset /\ r.refcnt \in Nat /\ r.state \in RsetState
      BY DEF ResourceSetRec, Rset
<1>2. ~d.path /\ d.rset = resset_destroy(r)
      BY DEF dbus_disconnect_from_manager, ResourceSetRec
<1>. HIDE DEF d
<1>3. /\ r.refcnt \in {k, k + 1} /\ (r.state = "freed") = (r.refcnt = 0)
      /\ r.state \in {"created", "connected"} => r.refcnt = k + 1
      /\ r.state # "freed"
      BY DEF Counted, resset_find
<1>. HIDE DEF r
<1>4. CASE r.state = "killed"
  <2>1. d.rset = r BY <1>2, <1>4 DEF resset_destroy
  <2>. QED BY <1>2, <1>3, <1>4, <2>1 DEF Counted, d
<1>5. CASE r.state # "killed"
  <2>1. q.state = "killed" /\ q.refcnt = r.refcnt BY <1>1 DEF Rset
  <2>2. d.rset = resset_unref(q) BY <1>2, <1>5 DEF resset_destroy
  <2>3. q \in Rset BY <1>1, <2>1 DEF Rset, RsetState
  <2>. HIDE DEF q
  <2>4. r.refcnt = k + 1 BY <1>1, <1>3, <1>5 DEF RsetState
  <2>5. CASE k = 0
    <3>1. d.rset = Freed BY <2>1, <2>2, <2>4, <2>5 DEF resset_unref
    <3>2. d.rset.state = "freed" /\ d.rset.refcnt = 0 BY <3>1 DEF Freed
    <3>. QED BY <1>2, <2>5, <3>2 DEF Counted, d
  <2>6. CASE k # 0
    <3>1. d.rset = [q EXCEPT !.refcnt = @ - 1]
          BY <2>1, <2>2, <2>4, <2>6 DEF resset_unref
    <3>2. d.rset.state = "killed" /\ d.rset.refcnt = k
          BY <2>1, <2>3, <2>4, <3>1 DEF Rset
    <3>. QED BY <1>2, <2>6, <3>2 DEF Counted, d
  <2>. QED BY <2>5, <2>6
<1>. QED BY <1>4, <1>5

LEMMA LinkDownSound ==
    ASSUME NEW c \in ResourceSetRec, QueueInv(c), c.fault = "none", Sound(c, 0)
    PROVE  LET d == link_down(c) IN Sound(d, 0) /\ Moves(c, d)
<1>. DEFINE told == IF c.rset.state = "connected" THEN disconnect_from_manager(c)
                                                  ELSE c
            d == dbus_disconnect_from_manager(told)
<1>1. CASE ~resset_find(c.rset)
      BY <1>1, RestsMoves DEF link_down
<1>2. CASE resset_find(c.rset)
  <2>1. link_down(c) = d BY <1>2 DEF link_down
  <2>2. /\ Sound(told, 0) /\ Moves(c, told)
        /\ told \in ResourceSetRec
        BY HandlersSound, HandlersType, RestsMoves
  <2>3. /\ told.rset = c.rset /\ told.reqlist = c.reqlist
        /\ told.reqno = c.reqno /\ told.revived = c.revived
        /\ told.life = c.life /\ told.held = c.held /\ told.resset = c.resset
        /\ told.fault # "none" \/ told.client = "created" \/ told.client = c.client
        /\ told.client = "ready" /\ told.fault = "none" =>
              ~told.resset \/ c.rset.state # "connected"
        BY DEF disconnect_from_manager, ResourceSetRec
  <2>. HIDE DEF told
  <2>4. /\ d.life = told.life /\ d.held = told.held /\ d.client = told.client
        /\ d.resset = told.resset /\ d.reqlist = told.reqlist
        /\ d.reqno = told.reqno /\ d.fault = told.fault
        /\ d.revived = told.revived /\ ~d.path
        BY <2>2 DEF dbus_disconnect_from_manager, ResourceSetRec
  <2>5. Moves(c, d) BY <2>3, <2>4, RestsMoves
  <2>6. Sound(d, 0)
    <3>1. CASE told.fault # "none"
          BY <2>2, <2>4, <3>1 DEF Sound
    <3>2. CASE told.fault = "none"
      <4>. DEFINE k == IF told.reqlist = <<>> THEN 0 ELSE 2
      <4>1. ~told.revived => Orderly(told, 0) BY <2>2, <3>2 DEF Sound
      <4>2. ASSUME ~told.revived
            PROVE  Counted(d, k) /\ d.rset.state \in {"killed", "freed"}
        <5>1. Counted(told, k) /\ k \in Nat BY <4>1, <4>2 DEF Orderly
        <5>. HIDE DEF k, d
        <5>2. resset_find(told.rset) BY <1>2, <2>3
        <5>. QED BY <2>2, <5>1, <5>2, DestroyedCount DEF d
      <4>. HIDE DEF d, k
      <4>3. UnregisterOut(d) = UnregisterOut(told) BY <2>4 DEF UnregisterOut
      <4>4. told.life = "live" /\ told.client = "ready" => UnregisterOut(told)
            BY <1>2, <2>2, <2>3, <3>2 DEF Sound, Alive, resset_find
      <4>5. Kept(d) BY <2>2, <2>4, <3>2 DEF Sound, Kept
      <4>6. d.life = "live" => Alive(d)
            BY <2>2, <2>4, <3>2, <4>3, <4>4 DEF Sound, Alive, HasRegister
      <4>7. UnregisterOut(d) /\ ~d.revived => d.rset.state = "killed"
        <5>. SUFFICES ASSUME UnregisterOut(d), ~d.revived
                      PROVE  d.rset.state = "killed"
             OBVIOUS
        <5>1. told.reqlist # <<>> /\ k = 2 BY <2>4 DEF UnregisterOut, k
        <5>2. Counted(d, 2) BY <2>4, <4>2, <5>1
        <5>. QED BY <2>4, <4>2, <5>2 DEF Counted
      <4>8. ~d.revived => Orderly(d, 0)
        <5>. SUFFICES ASSUME ~d.revived PROVE Orderly(d, 0)
             OBVIOUS
        <5>1. Counted(d, k) BY <2>4, <4>2
        <5>2. k = IF d.reqlist = <<>> THEN 0 ELSE 0 + 2 BY <2>4 DEF k
        <5>. QED BY <2>4, <4>3, <4>4, <4>7, <5>1, <5>2 DEF Orderly
      <4>. QED BY <2>2, <2>4, <3>2, <4>5, <4>6, <4>8 DEF Sound
    <3>. QED BY <3>1, <3>2
  <2>. QED BY <2>1, <2>5, <2>6
<1>. QED BY <1>1, <1>2
-----------------------------------------------------------------------------
(* Answers.                                                                *)
LEMMA AnsweredSound ==
    ASSUME NEW c \in ResourceSetRec, NEW t, NEW err \in BOOLEAN,
           resset_find(c.rset),
           ~c.revived => Counted(c, 2),
           ~c.revived /\ t = "unregister" => c.rset.state = "killed"
    PROVE  LET d == answered(c, t, err)
           IN  /\ d.life = c.life /\ d.held = c.held /\ d.client = c.client
               /\ d.resset = c.resset /\ d.reqlist = c.reqlist
               /\ d.reqno = c.reqno /\ d.path = c.path
               /\ c.revived => d.revived
               /\ ~d.revived => Counted(d, 2)
               /\ t = "register" /\ ~err => d.rset.state = "connected"
               /\ t \notin {"register", "unregister"} => d.rset = c.rset
<1>. DEFINE d == answered(c, t, err)
<1>1. c.rset \in Rset /\ c.rset.refcnt \in Nat /\ c.rset.state \in RsetState
      BY DEF ResourceSetRec, Rset
<1>2. CASE t = "register"
  <2>. DEFINE r == [c.rset EXCEPT !.state = IF err THEN "killed" ELSE "connected"]
  <2>1. /\ r.state = IF err THEN "killed" ELSE "connected"
        /\ r.refcnt = c.rset.refcnt
        BY <1>1 DEF Rset
  <2>2. d = [c EXCEPT !.rset    = r,
                      !.revived = @ \/ (~err /\ c.rset.state = "killed" /\ ~c.path)]
        BY <1>2 DEF answered, ResourceSetRec
  <2>. HIDE DEF r, d
  <2>3. /\ d.life = c.life /\ d.held = c.held /\ d.client = c.client
        /\ d.resset = c.resset /\ d.reqlist = c.reqlist
        /\ d.reqno = c.reqno /\ d.path = c.path /\ d.rset = r
        /\ d.revived = (c.revived \/ (~err /\ c.rset.state = "killed" /\ ~c.path))
        BY <2>2 DEF ResourceSetRec
  <2>4. ~d.revived => Counted(d, 2)
    <3>. SUFFICES ASSUME ~d.revived PROVE Counted(d, 2)
         OBVIOUS
    <3>1. ~c.revived /\ (~err => c.rset.state # "killed" \/ c.path) BY <2>3
    <3>2. Counted(c, 2) BY <3>1
    <3>3. r.refcnt \in {2, 3} /\ r.state # "freed" /\ (c.path => r.refcnt = 3)
          BY <2>1, <3>2 DEF Counted
    <3>4. ~err => c.path
          BY <1>1, <3>1, <3>2 DEF Counted, resset_find, RsetState
    <3>. QED BY <2>1, <2>3, <3>3, <3>4 DEF Counted
  <2>. QED BY <1>2, <2>1, <2>3, <2>4 DEF d
<1>3. CASE t = "unregister" /\ err
  <2>. DEFINE r == [resset_ref(c.rset) EXCEPT !.state = "connected"]
  <2>1. d = [c EXCEPT !.rset = r, !.revived = @ \/ c.rset.state = "killed"]
        BY <1>3 DEF answered
  <2>. HIDE DEF r, d
  <2>2. /\ d.life = c.life /\ d.held = c.held /\ d.client = c.client
        /\ d.resset = c.resset /\ d.reqlist = c.reqlist
        /\ d.reqno = c.reqno /\ d.path = c.path
        /\ d.revived = (c.revived \/ c.rset.state = "killed")
        BY <2>1 DEF ResourceSetRec
  <2>. QED BY <1>3, <2>2 DEF d
<1>4. CASE ~(t = "register" \/ (t = "unregister" /\ err))
      BY <1>4 DEF answered
<1>. QED BY <1>2, <1>3, <1>4

(* One answer's two references go, and what is left is sound.              *)
LEMMA UnrefTwice ==
    ASSUME NEW c \in ResourceSetRec, NEW k \in Nat, Counted(c, k + 2),
           NEW d, d.path = c.path,
           d.rset = resset_unref(resset_unref(c.rset))
    PROVE  /\ Counted(d, k)
           /\ d.rset.state = c.rset.state \/ (k = 0 /\ c.rset.state = "killed")
           /\ c.rset.refcnt >= 2
<1>. DEFINE r == c.rset
            s == resset_unref(r)
            q == resset_unref(s)
<1>1. r \in Rset /\ r.refcnt \in Nat /\ r.state \in RsetState
      BY DEF ResourceSetRec, Rset
<1>2. /\ r.refcnt \in {k + 2, k + 3} /\ r.state # "freed"
      /\ r.state \in {"created", "connected"} => c.path
      /\ c.path => r.refcnt = k + 3
      BY DEF Counted
<1>. HIDE DEF r
<1>3. s.refcnt = r.refcnt - 1 /\ s.state = r.state /\ s \in Rset
  <2>1. s = [r EXCEPT !.refcnt = @ - 1] BY <1>1, <1>2 DEF resset_unref
  <2>2. s \in Rset BY <1>1, UnrefType
  <2>. HIDE DEF s
  <2>. QED BY <1>1, <2>1, <2>2 DEF Rset
<1>. HIDE DEF s
<1>4. CASE s.refcnt <= 1
  <2>1. q = Freed BY <1>4 DEF resset_unref
  <2>2. q.state = "freed" /\ q.refcnt = 0 BY <2>1 DEF Freed
  <2>3. k = 0 /\ r.refcnt = 2 /\ ~c.path BY <1>1, <1>2, <1>3, <1>4
  <2>4. r.state = "killed" BY <1>1, <1>2, <2>3 DEF RsetState
  <2>. HIDE DEF q
  <2>. QED BY <2>2, <2>3, <2>4 DEF Counted, q, r, s
<1>5. CASE ~(s.refcnt <= 1)
  <2>1. q = [s EXCEPT !.refcnt = @ - 1] BY <1>5 DEF resset_unref
  <2>. HIDE DEF q
  <2>2. q.refcnt = r.refcnt - 2 /\ q.state = r.state
        BY <1>1, <1>3, <2>1 DEF Rset
  <2>3. d.rset = q BY DEF q, r, s
  <2>4. q.refcnt \in {k, k + 1} /\ q.refcnt # 0 /\ (c.path => q.refcnt = k + 1)
        BY <1>1, <1>2, <1>3, <1>5, <2>2
  <2>5. Counted(d, k) BY <1>2, <2>2, <2>3, <2>4 DEF Counted
  <2>. QED BY <1>2, <2>2, <2>3, <2>5 DEF r
<1>. QED BY <1>4, <1>5

LEMMA ReplyDoneSound ==
    ASSUME NEW c \in ResourceSetRec, NEW reply, Sound(c, 2)
    PROVE  LET d == reply_done(c, reply)
           IN  /\ Sound(d, 0)
               /\ d.reqlist = c.reqlist /\ d.reqno = c.reqno
               /\ d.client = c.client /\ (d.fault = "none" => c.fault = "none")
<1>. DEFINE d == reply_done(c, reply)
            r == resset_unref(resset_unref(c.rset))
<1>1. /\ d.life = c.life /\ d.held = c.held /\ d.client = c.client
      /\ d.resset = c.resset /\ d.reqlist = c.reqlist
      /\ d.reqno = c.reqno /\ d.path = c.path /\ d.revived = c.revived
      /\ d.rset = r
      /\ d.fault = IF c.fault = "none" /\ c.rset.refcnt < 2 THEN "stale" ELSE c.fault
      BY DEF reply_done, ResourceSetRec
<1>. HIDE DEF d
<1>. DEFINE k == IF c.reqlist = <<>> THEN 0 ELSE 2
<1>2. k \in Nat /\ k + 2 = (IF c.reqlist = <<>> THEN 2 ELSE 2 + 2)
      /\ k = (IF d.reqlist = <<>> THEN 0 ELSE 0 + 2)
      BY <1>1
<1>3. ASSUME c.fault = "none", ~c.revived
      PROVE  /\ Counted(d, k)
             /\ d.rset.state = c.rset.state \/ (k = 0 /\ c.rset.state = "killed")
             /\ c.rset.refcnt >= 2
  <2>1. Orderly(c, 2) BY <1>3 DEF Sound
  <2>2. Counted(c, k + 2) BY <1>2, <2>1 DEF Orderly
  <2>. HIDE DEF k
  <2>. QED BY <1>1, <1>2, <2>2, UnrefTwice
<1>4. c.rset.refcnt \in Nat BY DEF ResourceSetRec, Rset
<1>5. CASE c.fault # "none"
      BY <1>1, <1>5 DEF Sound, d
<1>6. CASE c.fault = "none" /\ c.rset.refcnt < 2
  <2>1. d.fault = "stale" BY <1>1, <1>6
  <2>2. c.revived BY <1>3, <1>4, <1>6
  <2>3. Sound(d, 0) BY <1>1, <2>1, <2>2, SoundFault
  <2>. QED BY <1>1, <2>3 DEF d
<1>7. CASE c.fault = "none" /\ ~(c.rset.refcnt < 2)
  <2>1. d.fault = "none" BY <1>1, <1>7
  <2>2. UnregisterOut(d) = UnregisterOut(c) BY <1>1 DEF UnregisterOut
  <2>3. Kept(d) BY <1>1, <1>7 DEF Sound, Kept
  <2>4. d.life = "live" => Alive(d)
    <3>1. r.state = c.rset.state \/ r.state = "freed"
      <4>1. c.rset \in Rset BY DEF ResourceSetRec
      <4>. DEFINE s == resset_unref(c.rset)
      <4>2. ASSUME NEW x \in Rset
            PROVE  resset_unref(x).state \in {x.state, "freed"}
        <5>1. [x EXCEPT !.refcnt = @ - 1].state = x.state BY DEF Rset
        <5>. QED BY <5>1 DEF resset_unref, Freed
      <4>3. s \in Rset BY <4>1, UnrefType
      <4>4. s.state \in {c.rset.state, "freed"} BY <4>1, <4>2
      <4>. HIDE DEF s
      <4>5. resset_unref(s).state \in {s.state, "freed"} BY <4>2, <4>3
      <4>. QED BY <4>4, <4>5 DEF s
    <3>. HIDE DEF r
    <3>. QED BY <1>1, <1>7, <2>2, <3>1 DEF Sound, Alive, HasRegister
  <2>5. ~d.revived => Orderly(d, 0)
    <3>. SUFFICES ASSUME ~d.revived PROVE Orderly(d, 0)
         OBVIOUS
    <3>1. /\ Counted(d, k) /\ Orderly(c, 2)
          /\ d.rset.state = c.rset.state \/ (k = 0 /\ c.rset.state = "killed")
          BY <1>1, <1>3, <1>7 DEF Sound
    <3>2. UnregisterOut(c) => k = 2 BY DEF UnregisterOut
    <3>. HIDE DEF r
    <3>. QED BY <1>1, <1>2, <2>2, <3>1, <3>2 DEF Orderly
  <2>6. Sound(d, 0) BY <1>1, <1>7, <2>1, <2>3, <2>4, <2>5 DEF Sound
  <2>. QED BY <1>1, <1>7, <2>6 DEF d
<1>. QED BY <1>5, <1>6, <1>7

(* What is left of the queue when its head has been taken off.             *)
Popped(a, reply, p) ==
    /\ queued(a, reply.reqno) /\ Idle(p, {reply}, 2)
    /\ p.life = a.life /\ p.held = a.held /\ p.client = a.client
    /\ p.resset = a.resset /\ p.reqno = a.reqno /\ p.path = a.path
    /\ p.revived = a.revived /\ p.rset = a.rset /\ p.fault = a.fault
    /\ Drops(p.reqlist, a.reqlist, 1)
    /\ Kept(p)
    /\ HasRegister(a) /\ reply.msgtyp # "register" => HasRegister(p)
    /\ reply.msgtyp = "unregister" => ~a.held

LEMMA PoppedSound ==
    ASSUME NEW a \in ResourceSetRec, a.reqlist # <<>>,
           Ascending(a.reqlist, a.reqno), HeadBusy(a.reqlist),
           a.fault = "none", a.resset, a.conn, Backed(a, 2), resset_find(a.rset),
           NEW reply, reply = Pending(Head(a.reqlist)), a.replies = {reply},
           Kept(a)
    PROVE  Popped(a, reply, pop_request(a, reply.reqno))
<1>. DEFINE old == a.reqlist
            n   == Head(old).reqno
            p   == pop_request(a, n)
<1>0. reply.reqno = n /\ reply.msgtyp = Head(old).msgtyp BY DEF Pending
<1>1. queued(a, n) /\ Idle(p, {reply}, 2) BY PopHead
<1>2. PICK rest \in Seq(Request) :
         /\ p = [a EXCEPT !.reqlist = rest]
         /\ Len(rest) = Len(old) - 1
         /\ \A j \in 1..Len(rest) : rest[j] = old[j + 1]
      BY PopHead
<1>3. /\ p.life = a.life /\ p.held = a.held /\ p.client = a.client
      /\ p.resset = a.resset /\ p.reqno = a.reqno /\ p.path = a.path
      /\ p.revived = a.revived /\ p.rset = a.rset /\ p.fault = a.fault
      /\ p.reqlist = rest
      BY <1>2 DEF ResourceSetRec
<1>. HIDE DEF p, n
<1>4. old \in Seq(Request) /\ Len(old) \in Nat /\ Len(old) # 0
      BY DEF ResourceSetRec
<1>. HIDE DEF old
<1>5. Head(old) = old[1] /\ 1 \in 1..Len(old) BY <1>4
<1>6. ASSUME NEW j \in 1..Len(rest)
      PROVE  /\ 1 + j \in 1..Len(old) /\ rest[j] = old[1 + j]
  <2>1. 1 + j = j + 1 /\ 1 + j \in 1..Len(old) BY <1>2, <1>4
  <2>2. rest[j] = old[j + 1] BY <1>2
  <2>. QED BY <2>1, <2>2
<1>7. Drops(rest, old, 1) BY <1>2, <1>4, <1>6 DEF Drops
<1>8. Kept(p) BY <1>3, <1>6 DEF Kept, old
<1>9. HasRegister(a) /\ Head(old).msgtyp # "register" => HasRegister(p)
  <2>. SUFFICES ASSUME NEW i \in 1..Len(old), old[i].msgtyp = "register",
                       Head(old).msgtyp # "register"
                PROVE  HasRegister(p)
       BY DEF HasRegister, old
  <2>. DEFINE j == i - 1
  <2>1. i # 1 BY <1>5
  <2>2. j \in 1..Len(rest) /\ 1 + j = i BY <1>2, <1>4, <2>1
  <2>. HIDE DEF j
  <2>3. rest[j].msgtyp = "register" BY <1>6, <2>2
  <2>. QED BY <1>3, <2>2, <2>3 DEF HasRegister
<1>10. Head(old).msgtyp = "unregister" => ~a.held BY <1>5 DEF Kept, old
<1>. QED BY <1>0, <1>1, <1>3, <1>7, <1>8, <1>9, <1>10 DEF Popped, p, old

(* A status callback that ends in send_request.                            *)
LEMMA ServedSound ==
    ASSUME NEW c, NEW q, NEW reply, Idle(q, {reply}, 2),
           Kept(q), q.life = "live",
           q.client = "connecting" => HasRegister(q),
           q.client = "ready" => q.resset /\ q.rset.state = "connected",
           resset_find(q.rset), ~q.revived => Counted(q, 2),
           c.reqlist # <<>>, Drops(q.reqlist, c.reqlist, 1), q.reqno = c.reqno
    PROVE  LET d == send_request(q) IN Sound(d, 2) /\ Finishes(c, d)
<1>1. q.reqlist \in Seq(Request) BY DEF Idle, ResourceSetRec
<1>2. ~dangling(q) BY DEF dangling
<1>3. Poised(q, 2) BY <1>2 DEF Poised
<1>4. LET d == send_request(q)
      IN  Sound(d, 2) /\ d.reqno = q.reqno /\ Serves(d, q.reqlist)
      BY <1>3, SendRequestSound
<1>. QED BY <1>1, <1>4 DEF Finishes

LEMMA StatusCbSound ==
    ASSUME NEW c, NEW a \in ResourceSetRec,
           a.reqlist = c.reqlist, a.reqno = c.reqno, a.client = c.client,
           a.reqlist # <<>>,
           Ascending(a.reqlist, a.reqno), HeadBusy(a.reqlist),
           a.fault = "none", a.resset, a.conn, Backed(a, 2), resset_find(a.rset),
           NEW reply, reply = Pending(Head(a.reqlist)), a.replies = {reply},
           NEW err \in BOOLEAN,
           a.life = "live", Kept(a),
           a.client = "connecting" => HasRegister(a),
           ~a.revived => Counted(a, 2),
           reply.msgtyp = "register" /\ ~err => a.rset.state = "connected",
           reply.msgtyp = "unregister" /\ ~a.revived => ~a.path,
           reply.msgtyp \notin {"register", "unregister"} /\ a.client = "ready"
              => a.rset.state = "connected"
    PROVE  LET d == status_cb(a, reply, err)
           IN  Sound(d, 2) /\ Finishes(c, d)
<1>. DEFINE p == pop_request(a, reply.reqno)
            t == reply.msgtyp
<1>1. t = Head(a.reqlist).msgtyp BY DEF Pending
<1>2. /\ queued(a, reply.reqno) /\ Idle(p, {reply}, 2)
      /\ p.life = a.life /\ p.held = a.held /\ p.client = a.client
      /\ p.resset = a.resset /\ p.reqno = a.reqno /\ p.path = a.path
      /\ p.revived = a.revived /\ p.rset = a.rset /\ p.fault = a.fault
      /\ Drops(p.reqlist, a.reqlist, 1)
      /\ Kept(p)
      /\ HasRegister(a) /\ t # "register" => HasRegister(p)
      /\ t = "unregister" => ~a.held
  <2>1. Popped(a, reply, p) BY PoppedSound
  <2>. HIDE DEF p
  <2>. QED BY <2>1 DEF Popped
<1>. HIDE DEF p
<1>3. ~p.revived => Counted(p, 2) BY <1>2 DEF Counted
<1>4. p \in ResourceSetRec BY <1>2 DEF Idle
<1>5. CASE t = "register"
  <2>. DEFINE q == connect_complete_cb(p, err)
  <2>1. status_cb(a, reply, err) = send_request(q)
        BY <1>2, <1>5 DEF status_cb, p
  <2>2. /\ q \in ResourceSetRec
        /\ q.life = p.life /\ q.held = p.held
        /\ q.client = (IF err THEN "created" ELSE "ready")
        /\ q.resset = p.resset /\ q.reqno = p.reqno /\ q.path = p.path
        /\ q.revived = p.revived /\ q.rset = p.rset /\ q.fault = p.fault
        /\ q.reqlist = p.reqlist /\ q.replies = p.replies /\ q.conn = p.conn
        BY <1>4 DEF connect_complete_cb, ResourceSetRec
  <2>. HIDE DEF q
  <2>3. Idle(q, {reply}, 2) BY <1>2, <2>2 DEF Idle, Backed
  <2>4. Kept(q) /\ (~q.revived => Counted(q, 2))
        BY <1>2, <1>3, <2>2 DEF Kept, Counted
  <2>5. LET d == send_request(q) IN Sound(d, 2) /\ Finishes(c, d)
        BY <1>2, <1>5, <2>2, <2>3, <2>4, ServedSound
  <2>. QED BY <2>1, <2>5
<1>6. CASE t = "unregister"
  <2>. DEFINE d == disconnect_complete_cb(p)
  <2>1. status_cb(a, reply, err) = d BY <1>2, <1>6 DEF status_cb, p
  <2>2. /\ d.life = "freed" /\ d.reqlist = <<>> /\ d.held = p.held
        /\ d.reqno = p.reqno /\ d.path = p.path /\ d.client = p.client
        /\ d.revived = p.revived /\ d.rset = p.rset /\ d.fault = p.fault
        BY <1>4 DEF disconnect_complete_cb, ResourceSetRec
  <2>. HIDE DEF d
  <2>3. ~d.held BY <1>2, <1>6, <2>2
  <2>4. ~d.revived => Orderly(d, 2)
        BY <1>2, <1>3, <1>6, <2>2 DEF Orderly, Counted, UnregisterOut
  <2>5. Sound(d, 2) BY <1>2, <2>2, <2>3, <2>4 DEF Sound, Kept
  <2>6. Finishes(c, d)
        BY <1>1, <1>2, <1>6, <2>2 DEF Finishes, UnregisterOut
  <2>. QED BY <2>1, <2>5, <2>6
<1>7. CASE t \notin {"register", "unregister"}
  <2>1. status_cb(a, reply, err) = send_request(p)
        BY <1>2, <1>7 DEF status_cb, p
  <2>2. LET d == send_request(p) IN Sound(d, 2) /\ Finishes(c, d)
        BY <1>2, <1>3, <1>7, ServedSound
  <2>. QED BY <2>1, <2>2
<1>. QED BY <1>5, <1>6, <1>7

LEMMA StatusMethodSound ==
    ASSUME NEW c \in ResourceSetRec, QueueInv(c), c.fault = "none", Sound(c, 0),
           NEW reply \in c.replies, NEW err \in BOOLEAN
    PROVE  LET d == status_method(c, reply, err) IN Sound(d, 0) /\ Moves(c, d)
<1>. DEFINE t == reply.msgtyp
            a == answered(c, t, err)
            b == status_cb(a, reply, err)
            d == reply_done(b, reply)
<1>1. c.reqlist # <<>> BY DEF QueueInv, Settled
<1>2. /\ Ascending(c.reqlist, c.reqno) /\ HeadBusy(c.reqlist)
      /\ c.resset /\ c.conn /\ Backed(c, 2)
      /\ c.replies = {Pending(Head(c.reqlist))}
      /\ reply = Pending(Head(c.reqlist)) /\ c.replies = {reply}
      BY <1>1 DEF QueueInv, Settled
<1>3. /\ c.life = "live" /\ Kept(c) /\ Alive(c)
      /\ ~c.revived => Orderly(c, 0)
      BY <1>1 DEF Sound
<1>4. ~c.revived => Counted(c, 2) BY <1>1, <1>3 DEF Orderly
<1>5. UnregisterOut(c) = (t = "unregister") BY <1>1, <1>2 DEF UnregisterOut, Pending
<1>6. CASE ~resset_find(c.rset)
  <2>. DEFINE f == [c EXCEPT !.fault = "stale"]
  <2>1. /\ f.fault = "stale" /\ f.revived = c.revived
        /\ f.reqlist = c.reqlist /\ f.reqno = c.reqno
        BY DEF ResourceSetRec
  <2>2. c.revived BY <1>4, <1>6 DEF Counted, resset_find
  <2>. HIDE DEF f
  <2>3. Sound(f, 0) /\ Moves(c, f) BY <2>1, <2>2, SoundFault, RestsMoves
  <2>. QED BY <1>6, <2>3 DEF status_method, f
<1>7. CASE resset_find(c.rset)
  <2>. HIDE DEF t
  <2>1. a \in ResourceSetRec BY AnsweredType
  <2>2. /\ a.fault = c.fault /\ a.reqlist = c.reqlist
        /\ a.reqno = c.reqno /\ a.conn = c.conn /\ a.resset = c.resset
        /\ a.replies = c.replies
        /\ resset_find(a.rset) /\ Backed(a, 2)
    <3>1. Backed(c, 2) BY <1>2
    <3>2. \A k \in Nat : Backed(c, k) =>
             /\ a.fault = c.fault /\ a.reqlist = c.reqlist
             /\ a.reqno = c.reqno /\ a.conn = c.conn /\ a.resset = c.resset
             /\ a.replies = c.replies
             /\ resset_find(a.rset) /\ Backed(a, k)
          BY <1>7, AnsweredKeeps
    <3>. HIDE DEF a
    <3>. QED BY <3>1, <3>2
  <2>3. /\ a.life = c.life /\ a.held = c.held /\ a.client = c.client
        /\ a.path = c.path
        /\ c.revived => a.revived
        /\ ~a.revived => Counted(a, 2)
        /\ t = "register" /\ ~err => a.rset.state = "connected"
        /\ t \notin {"register", "unregister"} => a.rset = c.rset
    <3>1. ~c.revived /\ t = "unregister" => c.rset.state = "killed"
          BY <1>3, <1>5 DEF Orderly
    <3>. QED BY <1>4, <1>7, <3>1, AnsweredSound
  <2>. HIDE DEF a
  <2>4. /\ Kept(a) /\ (a.client = "connecting" => HasRegister(a))
        /\ t = "unregister" /\ ~a.revived => ~a.path
        /\ t \notin {"register", "unregister"} /\ a.client = "ready"
              => a.rset.state = "connected"
    <3>1. Kept(a) /\ (a.client = "connecting" => HasRegister(a))
          BY <1>3, <2>2, <2>3 DEF Kept, Alive, HasRegister
    <3>2. t = "unregister" /\ ~a.revived => ~a.path
          BY <1>3, <1>5, <2>3 DEF Orderly
    <3>3. t \notin {"register", "unregister"} /\ a.client = "ready"
              => a.rset.state = "connected"
          BY <1>3, <1>5, <1>7, <2>3 DEF Alive, resset_find
    <3>. QED BY <3>1, <3>2, <3>3
  <2>5. Sound(b, 2) /\ Finishes(c, b) /\ b \in ResourceSetRec
    <3>1. Sound(b, 2) /\ Finishes(c, b)
          BY <1>1, <1>2, <1>3, <2>1, <2>2, <2>3, <2>4, StatusCbSound DEF t
    <3>. QED BY <2>1, <3>1, StatusCbType
  <2>. HIDE DEF b
  <2>6. /\ Sound(d, 0) /\ d.reqlist = b.reqlist /\ d.reqno = b.reqno
        /\ d.client = b.client /\ (d.fault = "none" => b.fault = "none")
        BY <2>5, ReplyDoneSound
  <2>. HIDE DEF d
  <2>7. Finishes(c, d) BY <2>5, <2>6 DEF Finishes, Serves
  <2>. QED BY <1>7, <2>6, <2>7 DEF status_method, Moves, a, b, d, t
<1>. QED BY <1>6, <1>7
-----------------------------------------------------------------------------
(* The process.                                                            *)
Sounds == \A s \in Sets : Sound(cs[s], 0)

Carries(c, d) ==
    Moves(c, d) /\ (c.fault # "none" => d.fault # "none" /\ Rests(c, d))

LEMMA InitSounds == Init => Sounds
<1>1. Sound(NoSet, 0)
  <2>1. /\ NoSet.fault = "none" /\ ~NoSet.held /\ NoSet.life = "none"
        /\ NoSet.reqlist = <<>> /\ NoSet.reqno = 0 /\ ~NoSet.path
        /\ NoSet.rset.refcnt = 0 /\ NoSet.rset.state = "freed"
        BY DEF NoSet, Freed
  <2>. QED BY <2>1 DEF Sound, Kept, Orderly, Counted, UnregisterOut
<1>. QED BY <1>1 DEF Init, Sounds

(* A step that changes one set.                                            *)
LEMMA OneSetSound ==
    ASSUME TypeOK, Sounds, NEW s \in Sets, cs[s].fault = "none", NEW d,
           Sound(d, 0), Moves(cs[s], d), cs' = [cs EXCEPT ![s] = d]
    PROVE  Sounds' /\ \A z \in Sets : Carries(cs[z], cs'[z])
<1>1. ASSUME NEW z \in Sets
      PROVE  Sound(cs'[z], 0) /\ Carries(cs[z], cs'[z])
  <2>1. CASE z = s
    <3>1. cs'[z] = d BY <2>1 DEF TypeOK
    <3>. QED BY <2>1, <3>1 DEF Carries
  <2>2. CASE z # s
    <3>1. cs'[z] = cs[z] BY <2>2 DEF TypeOK
    <3>2. Moves(cs[z], cs[z]) BY RestsMoves
    <3>. QED BY <3>1, <3>2 DEF Rests, Carries, Sounds
  <2>. QED BY <2>1, <2>2
<1>. QED BY <1>1 DEF Sounds

LEMMA NoSetSound ==
    ASSUME Sounds, UNCHANGED cs
    PROVE  Sounds' /\ \A z \in Sets : Carries(cs[z], cs'[z])
BY RestsMoves DEF Sounds, Carries, Rests

LEMMA AppSound ==
    ASSUME TypeOK, Queues, Sounds, NEW s \in Sets, App(s)
    PROVE  Sounds' /\ \A z \in Sets : Carries(cs[z], cs'[z])
<1>. DEFINE c == cs[s]
<1>1. /\ c \in ResourceSetRec /\ QueueInv(c) /\ Sound(c, 0)
      BY DEF TypeOK, Queues, Sounds
<1>2. c.fault = "none"
      BY DEF App, Create, Destroy, Acquire, Release, ConfigureResources,
             Configure, CallAPI, Running
<1>3. c.held => c.life = "live" BY <1>1, <1>2 DEF Sound, Kept
<1>4. ASSUME NEW d, CallAPI(s, d), Sound(d, 0), Moves(c, d)
      PROVE  Sounds' /\ \A z \in Sets : Carries(cs[z], cs'[z])
      BY <1>2, <1>4, OneSetSound DEF CallAPI
<1>5. ASSUME NEW f \in FlagChoice
      PROVE  f.mandatory \in SUBSET Resource /\ f.optional \in SUBSET Resource
      BY ChoiceAssumption
<1>. HIDE DEF c
<1>6. CASE Create(s)
      BY <1>1, <1>2, <1>4, <1>5, <1>6, CreateSound, ChoiceAssumption DEF Create, c
<1>7. CASE Destroy(s)
      BY <1>1, <1>2, <1>3, <1>4, <1>7, OperationsSound DEF Destroy, c
<1>8. CASE Acquire(s)
      BY <1>1, <1>2, <1>3, <1>4, <1>8, OperationsSound DEF Acquire, c
<1>9. CASE Release(s)
      BY <1>1, <1>2, <1>3, <1>4, <1>9, OperationsSound DEF Release, c
<1>10. CASE ConfigureResources(s)
       BY <1>1, <1>2, <1>3, <1>4, <1>5, <1>10, ConfigureResourcesSound
          DEF ConfigureResources, c
<1>11. CASE Configure(s)
       BY <1>1, <1>2, <1>3, <1>4, <1>11, ConfigureSound, ChoiceAssumption
          DEF Configure, c
<1>. QED BY <1>6, <1>7, <1>8, <1>9, <1>10, <1>11 DEF App

(* An answer from the manager, or an error in place of one.                *)
LEMMA AnswerSound ==
    ASSUME TypeOK, Queues, Sounds, Running, NEW s \in Sets,
           NEW reply \in cs[s].replies, NEW err \in BOOLEAN,
           cs' = [cs EXCEPT ![s] = status_method(@, reply, err)]
    PROVE  Sounds' /\ \A z \in Sets : Carries(cs[z], cs'[z])
<1>. DEFINE d == status_method(cs[s], reply, err)
<1>1. cs[s] \in ResourceSetRec /\ QueueInv(cs[s]) /\ Sound(cs[s], 0)
      /\ cs[s].fault = "none"
      BY DEF TypeOK, Queues, Sounds, Running
<1>2. Sound(d, 0) /\ Moves(cs[s], d) BY <1>1, StatusMethodSound
<1>3. cs' = [cs EXCEPT ![s] = d] OBVIOUS
<1>. HIDE DEF d
<1>. QED BY <1>1, <1>2, <1>3, OneSetSound

LEMMA MainLoopSound ==
    ASSUME TypeOK, Queues, Sounds, MainLoop
    PROVE  Sounds' /\ \A z \in Sets : Carries(cs[z], cs'[z])
<1>1. Running
      BY DEF MainLoop, DispatchAnswer, DispatchNotice, DispatchUp,
             DispatchDown, Dispatch
<1>2. ASSUME NEW s \in Sets
      PROVE  /\ cs[s] \in ResourceSetRec /\ QueueInv(cs[s]) /\ Sound(cs[s], 0)
             /\ cs[s].fault = "none"
      BY <1>1 DEF TypeOK, Queues, Sounds, Running
<1>3. CASE DispatchAnswer
  <2>. DEFINE m == Head(inq)
  <2>1. m \in Answer BY <1>3, InqType DEF DispatchAnswer, Dispatch
  <2>2. m.set \in Sets /\ m.err \in BOOLEAN BY <2>1 DEF Answer
  <2>3. CASE m.reply \in cs[m.set].replies
    <3>1. cs' = [cs EXCEPT ![m.set] = status_method(@, m.reply, m.err)]
          BY <1>3, <2>3 DEF DispatchAnswer
    <3>. HIDE DEF m
    <3>. QED BY <1>1, <2>2, <2>3, <3>1, AnswerSound
  <2>4. CASE m.reply \notin cs[m.set].replies
    <3>1. cs' = cs BY <1>3, <2>4 DEF DispatchAnswer
    <3>. QED BY <3>1, NoSetSound
  <2>. QED BY <2>3, <2>4
<1>4. CASE DispatchNotice
  <2>. DEFINE m == Head(inq)
              c == cs[m.set]
              after == CASE m.kind = "grant"   ->
                                receive_grant_message(c, TRUE, m.set \in AutoRelease)
                         [] m.kind = "revoke"  ->
                                receive_grant_message(c, FALSE, m.set \in AutoRelease)
                         [] m.kind = "release" -> receive_release_message(c)
                         [] m.kind = "unregister" -> disconnect_from_manager(c)
                         [] OTHER -> receive_advice_message(c)
  <2>1. m \in Notice BY <1>4, InqType DEF DispatchNotice, Dispatch
  <2>2. m.set \in Sets BY <2>1 DEF Notice
  <2>3. cs' = IF c.path /\ resset_find(c.rset)
              THEN [cs EXCEPT ![m.set] = after] ELSE cs
        BY <1>4 DEF DispatchNotice
  <2>4. CASE ~(c.path /\ resset_find(c.rset))
        BY <2>3, <2>4, NoSetSound
  <2>5. CASE c.path /\ resset_find(c.rset)
    <3>1. /\ c \in ResourceSetRec /\ QueueInv(c) /\ Sound(c, 0)
          /\ c.fault = "none"
          BY <1>2, <2>2
    <3>2. Sound(after, 0) /\ Moves(c, after)
      <4>. HIDE DEF c, m
      <4>1. LET d == receive_release_message(c) IN Sound(d, 0) /\ Moves(c, d)
            BY <2>5, <3>1, ReleaseNoticeSound
      <4>2. /\ LET d == disconnect_from_manager(c) IN Sound(d, 0) /\ Moves(c, d)
            /\ \A granted, auto :
                  LET d == receive_grant_message(c, granted, auto)
                  IN  Sound(d, 0) /\ Moves(c, d)
            /\ LET d == receive_advice_message(c) IN Sound(d, 0) /\ Moves(c, d)
            BY <2>5, <3>1, HandlersSound
      <4>. QED BY <4>1, <4>2
    <3>3. cs' = [cs EXCEPT ![m.set] = after] BY <2>3, <2>5
    <3>. HIDE DEF after, m
    <3>. QED BY <2>2, <3>1, <3>2, <3>3, OneSetSound
  <2>. QED BY <2>4, <2>5
<1>5. CASE DispatchUp
  <2>1. \A s \in Sets : cs'[s] = manager_is_up(cs[s]) BY <1>5 DEF DispatchUp
  <2>2. ASSUME NEW s \in Sets
        PROVE  Sound(cs'[s], 0) /\ Carries(cs[s], cs'[s])
    <3>1. LET d == manager_is_up(cs[s]) IN Sound(d, 0) /\ Moves(cs[s], d)
          BY <1>2, ManagerIsUpSound
    <3>. QED BY <1>2, <2>1, <3>1 DEF Carries
  <2>. QED BY <2>2 DEF Sounds
<1>6. CASE DispatchDown
  <2>1. \A s \in Sets : cs'[s] = link_down(cs[s]) BY <1>6 DEF DispatchDown
  <2>2. ASSUME NEW s \in Sets
        PROVE  Sound(cs'[s], 0) /\ Carries(cs[s], cs'[s])
    <3>1. LET d == link_down(cs[s]) IN Sound(d, 0) /\ Moves(cs[s], d)
          BY <1>2, LinkDownSound
    <3>. QED BY <1>2, <2>1, <3>1 DEF Carries
  <2>. QED BY <2>2 DEF Sounds
<1>. QED BY <1>3, <1>4, <1>5, <1>6 DEF MainLoop

LEMMA TimeoutSound ==
    ASSUME TypeOK, Queues, Sounds, NEW s \in Sets, Timeout(s)
    PROVE  Sounds' /\ \A z \in Sets : Carries(cs[z], cs'[z])
<1>1. PICK reply \in cs[s].replies :
         cs' = [cs EXCEPT ![s] = status_method(@, reply, TRUE)]
      BY DEF Timeout
<1>2. Running BY DEF Timeout
<1>. QED BY <1>1, <1>2, AnswerSound

(* What is on the wire, and which answers are lost, is nothing to a set.   *)
LEMMA WireSound ==
    ASSUME NEW c \in ResourceSetRec, Sound(c, 0),
           NEW d, \E wire, lost : d = [c EXCEPT !.wire = wire, !.lost = lost]
    PROVE  Sound(d, 0) /\ Carries(c, d)
<1>1. /\ d.life = c.life /\ d.held = c.held /\ d.client = c.client
      /\ d.resset = c.resset /\ d.reqlist = c.reqlist
      /\ d.reqno = c.reqno /\ d.path = c.path /\ d.revived = c.revived
      /\ d.rset = c.rset /\ d.fault = c.fault
      BY DEF ResourceSetRec
<1>2. Moves(c, d) BY <1>1, RestsMoves
<1>. QED BY <1>1, <1>2 DEF Rests, Carries, Sound, Kept, Alive, Orderly, Counted,
                           UnregisterOut, HasRegister

LEMMA EnvironmentSound ==
    ASSUME TypeOK, Sounds,
           \/ \E s \in Sets : Bus(s) \/ ManagerNotifies(s)
           \/ ManagerStarts
           \/ ManagerDies
           \/ ManagerReplaced
    PROVE  Sounds' /\ \A z \in Sets : Carries(cs[z], cs'[z])
<1>1. \A s \in Sets : cs[s] \in ResourceSetRec /\ Sound(cs[s], 0)
      BY DEF TypeOK, Sounds
<1>2. ASSUME NEW s \in Sets, NEW wire, NEW lost,
             cs' = [cs EXCEPT ![s] = [cs[s] EXCEPT !.wire = wire, !.lost = lost]]
      PROVE  Sounds' /\ \A z \in Sets : Carries(cs[z], cs'[z])
  <2>. DEFINE after == [cs[s] EXCEPT !.wire = wire, !.lost = lost]
  <2>1. cs' = [cs EXCEPT ![s] = after] BY <1>2
  <2>2. Sound(after, 0) /\ Carries(cs[s], after) BY <1>1, WireSound
  <2>3. ASSUME NEW z \in Sets
        PROVE  Sound(cs'[z], 0) /\ Carries(cs[z], cs'[z])
    <3>. HIDE DEF after
    <3>1. CASE z = s
      <4>1. cs'[z] = after BY <2>1, <3>1 DEF TypeOK
      <4>. QED BY <2>2, <3>1, <4>1
    <3>2. CASE z # s
      <4>1. cs'[z] = cs[z] BY <2>1, <3>2 DEF TypeOK
      <4>2. Moves(cs[z], cs[z]) BY RestsMoves
      <4>. QED BY <1>1, <4>1, <4>2 DEF Rests, Carries
    <3>. QED BY <3>1, <3>2
  <2>. QED BY <2>3 DEF Sounds
<1>3. ASSUME NEW s \in Sets, NEW answers, TakeCall(s, answers)
      PROVE  Sounds' /\ \A z \in Sets : Carries(cs[z], cs'[z])
  <2>. DEFINE lost == IF answers = <<>>
                      THEN cs[s].lost \cup {Head(cs[s].wire).reqno}
                      ELSE cs[s].lost
              wire == Tail(cs[s].wire)
  <2>1. cs' = [cs EXCEPT ![s] = [cs[s] EXCEPT !.wire = wire, !.lost = lost]]
        BY <1>3 DEF TakeCall, TypeOK, ResourceSetRec
  <2>. HIDE DEF wire, lost
  <2>. QED BY <1>2, <2>1
<1>4. ASSUME NEW s \in Sets, NoReply(s)
      PROVE  Sounds' /\ \A z \in Sets : Carries(cs[z], cs'[z])
  <2>1. PICK reply : cs' = [cs EXCEPT ![s].lost = @ \ {reply.reqno}]
        BY <1>4 DEF NoReply
  <2>. DEFINE lost == cs[s].lost \ {reply.reqno}
              wire == cs[s].wire
  <2>2. [cs[s] EXCEPT !.lost = lost] = [cs[s] EXCEPT !.wire = wire, !.lost = lost]
        BY <1>1 DEF ResourceSetRec
  <2>3. cs' = [cs EXCEPT ![s] = [cs[s] EXCEPT !.wire = wire, !.lost = lost]]
        BY <2>1, <2>2
  <2>. HIDE DEF wire, lost
  <2>. QED BY <1>2, <2>3
<1>5. ASSUME NEW s \in Sets, Bus(s)
      PROVE  Sounds' /\ \A z \in Sets : Carries(cs[z], cs'[z])
      BY <1>3, <1>4, <1>5 DEF Bus, ManagerHandles, Bounce
<1>6. ASSUME LostWithManager
      PROVE  Sounds' /\ \A z \in Sets : Carries(cs[z], cs'[z])
  <2>1. PICK n \in [Sets -> 0..(MaxTimeouts + 1)] :
           cs' = [s \in Sets |->
                    [cs[s] EXCEPT !.wire = SubSeq(@, n[s] + 1, Len(@)),
                                  !.lost = @ \cup {cs[s].wire[i].reqno :
                                                      i \in 1..n[s]}]]
        BY <1>6 DEF LostWithManager
  <2>2. ASSUME NEW z \in Sets
        PROVE  Sound(cs'[z], 0) /\ Carries(cs[z], cs'[z])
    <3>. DEFINE wire == SubSeq(cs[z].wire, n[z] + 1, Len(cs[z].wire))
                lost == cs[z].lost \cup {cs[z].wire[i].reqno : i \in 1..n[z]}
    <3>1. cs'[z] = [cs[z] EXCEPT !.wire = wire, !.lost = lost] BY <2>1
    <3>. HIDE DEF wire, lost
    <3>. QED BY <1>1, <3>1, WireSound
  <2>. QED BY <2>2 DEF Sounds
<1>. QED BY <1>5, <1>6, NoSetSound
         DEF ManagerNotifies, ManagerStarts, ManagerDies, ManagerReplaced

LEMMA NextSound ==
    ASSUME TypeOK, Queues, Sounds, [Next]_vars
    PROVE  Sounds' /\ \A z \in Sets : Carries(cs[z], cs'[z])
<1>1. CASE UNCHANGED vars BY <1>1, NoSetSound DEF vars
<1>. QED BY <1>1, AppSound, MainLoopSound, TimeoutSound, EnvironmentSound
         DEF Next

Inv == TypeOK /\ Queues /\ Sounds

LEMMA InvAlways == Spec => []Inv
<1>1. Init => Inv BY InitType, InitQueues, InitSounds DEF Inv
<1>2. Inv /\ [Next]_vars => Inv' BY NextType, NextQueues, NextSound DEF Inv
<1>. QED BY <1>1, <1>2, PTL DEF Spec

(* As long as no killed set came back to life, the references that         *)
(* dbus_send_message takes, status_method and resconn_reply_destroy give   *)
(* back and resset_destroy drops add up: the resset_t is freed only when   *)
(* nothing can reach it any more, and exactly once.                        *)
THEOREM RefsAccountedAlways == Spec => []RefsAccounted
<1>1. Inv => RefsAccounted
  <2>. SUFFICES ASSUME NEW c \in ResourceSetRec, c.fault = "none", QueueInv(c),
                       Sound(c, 0), ~c.revived
                PROVE  Referenced(c)
       BY DEF RefsAccounted, Running, Inv, TypeOK, Queues, Sounds
  <2>1. c.replies = {} <=> c.reqlist = <<>> BY DEF QueueInv, Settled
  <2>2. Counted(c, IF c.reqlist = <<>> THEN 0 ELSE 0 + 2)
        BY DEF Sound, Orderly
  <2>. QED BY <2>1, <2>2 DEF Referenced, Counted
<1>. QED BY <1>1, InvAlways, PTL

(* status_method, status_cb, send_request and the notice handlers follow   *)
(* resset->userdata and rs->resset without a check; what they point to is  *)
(* freed only on a set that came back to life after it was killed.         *)
THEOREM StaleNeedsRevivalAlways == Spec => []StaleNeedsRevival
<1>1. Inv => StaleNeedsRevival BY DEF StaleNeedsRevival, Inv, Sounds, Sound
<1>. QED BY <1>1, InvAlways, PTL

(* A client that connect_complete_cb has declared ready is connected and   *)
(* has its object path, until disconnect_from_manager says otherwise or    *)
(* its UNREGISTER has been sent.                                           *)
THEOREM ReadyIsReachableAlways == Spec => []ReadyIsReachable
<1>1. Inv => ReadyIsReachable
  <2>. SUFFICES ASSUME NEW c \in ResourceSetRec, c.fault = "none", QueueInv(c),
                       Sound(c, 0), c.life = "live", c.client = "ready",
                       ~c.revived
                PROVE  \/ c.rset.state = "connected" /\ c.path
                       \/ \E reply \in c.replies : reply.msgtyp = "unregister"
       BY DEF ReadyIsReachable, Running, Inv, TypeOK, Queues, Sounds
  <2>1. CASE UnregisterOut(c)
    <3>1. Pending(Head(c.reqlist)) \in c.replies
          BY <2>1 DEF UnregisterOut, QueueInv, Settled
    <3>2. Pending(Head(c.reqlist)).msgtyp = "unregister"
          BY <2>1 DEF UnregisterOut, Pending
    <3>. QED BY <3>1, <3>2
  <2>2. CASE ~UnregisterOut(c)
        BY <2>2 DEF Sound, Orderly, Counted
  <2>. QED BY <2>1, <2>2
<1>. QED BY <1>1, InvAlways, PTL
-----------------------------------------------------------------------------
(* The request queue of resource.c implements the pipe of RequestPipe.     *)
Job == [msgtyp: MsgType, reqno: Nat]

(* The pipe's view of a queue. *)
Line(list) == [i \in DOMAIN list |-> Pending(list[i])]

LEMMA LineType ==
    ASSUME NEW list \in Seq(Request)
    PROVE  /\ Line(list) \in Seq(Job) /\ Len(Line(list)) = Len(list)
           /\ \A i \in 1..Len(list) : Line(list)[i] = Pending(list[i])
<1>1. DOMAIN list = 1..Len(list) /\ Len(list) \in Nat
      /\ \A i \in 1..Len(list) : list[i] \in Request
      OBVIOUS
<1>2. \A i \in 1..Len(list) : Pending(list[i]) \in Job
      BY <1>1 DEF Pending, Job, Request
<1>. QED BY <1>1, <1>2 DEF Line

LEMMA SameSequence ==
    ASSUME NEW S, NEW s \in Seq(S), NEW t \in Seq(S), Len(s) = Len(t),
           \A i \in 1..Len(s) : s[i] = t[i]
    PROVE  s = t
OBVIOUS

LEMMA Joined ==
    ASSUME NEW S, NEW s \in Seq(S), NEW t \in Seq(S)
    PROVE  /\ s \o t \in Seq(S) /\ Len(s \o t) = Len(s) + Len(t)
           /\ \A i \in 1..Len(s) : (s \o t)[i] = s[i]
           /\ \A i \in 1..Len(t) : (s \o t)[Len(s) + i] = t[i]
OBVIOUS

LEMMA PipeFields ==
    ASSUME NEW c \in ResourceSetRec
    PROVE  /\ PipeOf(c).queue = Line(c.reqlist)
           /\ PipeOf(c).out = {reply.reqno : reply \in c.replies}
           /\ PipeOf(c).last = c.reqno
           /\ PipeOf(c).ready = (c.client = "ready")
           /\ PipeOf(c).broken = (c.fault # "none")
BY DEF PipeOf, Line, Pending

(* What is out is the first request.                                       *)
LEMMA OutIsFirst ==
    ASSUME NEW c \in ResourceSetRec, QueueInv(c), c.fault = "none"
    PROVE  PipeOf(c).out = IF c.reqlist = <<>> THEN {} ELSE {c.reqlist[1].reqno}
<1>1. CASE c.reqlist = <<>>
      BY <1>1, PipeFields DEF QueueInv, Settled
<1>2. CASE c.reqlist # <<>>
  <2>1. c.replies = {Pending(Head(c.reqlist))}
        BY <1>2 DEF QueueInv, Settled
  <2>2. Head(c.reqlist) = c.reqlist[1] BY <1>2 DEF ResourceSetRec
  <2>3. Pending(c.reqlist[1]).reqno = c.reqlist[1].reqno BY DEF Pending
  <2>. QED BY <1>2, <2>1, <2>2, <2>3, PipeFields
<1>. QED BY <1>1, <1>2

LEMMA LineDrops ==
    ASSUME NEW old \in Seq(Request), NEW new \in Seq(Request), NEW n,
           Drops(new, old, n)
    PROVE  Line(new) = SubSeq(Line(old), n + 1, Len(Line(old)))
<1>. DEFINE p == Line(new)
            q == Line(old)
            m == Len(q)
            r == SubSeq(q, n + 1, m)
<1>1. /\ p \in Seq(Job) /\ q \in Seq(Job)
      /\ Len(p) = Len(new) /\ Len(q) = Len(old)
      /\ \A i \in 1..Len(new) : p[i] = Pending(new[i])
      /\ \A i \in 1..Len(old) : q[i] = Pending(old[i])
      BY LineType
<1>2. /\ m = Len(old) /\ n \in 0..m /\ m \in Nat /\ Len(new) = m - n
      /\ \A i \in 1..Len(new) : Pending(new[i]) = Pending(old[n + i])
      BY <1>1 DEF Drops
<1>. HIDE DEF p, q
<1>3. m \in Nat /\ n \in Nat /\ n <= m BY <1>2
<1>4. \A i \in (n + 1)..m : q[i] \in Job
  <2>1. \A i \in 1..m : q[i] \in Job BY <1>1
  <2>. QED BY <1>3, <2>1
<1>. HIDE DEF m
<1>5. /\ r \in Seq(Job)
      /\ Len(r) = IF n + 1 <= m THEN m - (n + 1) + 1 ELSE 0
      /\ \A i \in 1..(m - (n + 1) + 1) : r[i] = q[(n + 1) + i - 1]
  <2>1. n + 1 \in Int /\ m \in Int BY <1>3
  <2>. QED BY <1>4, <2>1, SubSeqProperties
<1>. HIDE DEF r
<1>6. Len(r) = m - n /\ m - (n + 1) + 1 = m - n BY <1>3, <1>5
<1>7. ASSUME NEW i \in 1..Len(p) PROVE p[i] = r[i]
  <2>1. i \in 1..(m - n) /\ i \in 1..Len(new) BY <1>1, <1>2
  <2>2. (n + 1) + i - 1 = n + i /\ n + i \in 1..m BY <1>3, <2>1
  <2>3. r[i] = q[n + i] BY <1>5, <1>6, <2>1, <2>2
  <2>4. q[n + i] = Pending(old[n + i]) BY <1>1, <1>2, <2>2
  <2>. QED BY <1>1, <1>2, <2>1, <2>3, <2>4
<1>8. p = r BY <1>1, <1>2, <1>5, <1>6, <1>7, SameSequence
<1>. QED BY <1>8 DEF p, q, m, r

LEMMA LineGrows ==
    ASSUME NEW old \in Seq(Request), NEW new \in Seq(Request),
           NEW types \in Seq(MsgType), NEW reqno \in Nat,
           Grows(new, old, types, reqno)
    PROVE  Line(new) = Line(old) \o Pipe!Jobs(types, reqno)
<1>. DEFINE p == Line(new)
            q == Line(old)
            j == Pipe!Jobs(types, reqno)
            r == q \o j
<1>1. /\ p \in Seq(Job) /\ q \in Seq(Job)
      /\ Len(p) = Len(new) /\ Len(q) = Len(old)
      /\ \A i \in 1..Len(new) : p[i] = Pending(new[i])
      /\ \A i \in 1..Len(old) : q[i] = Pending(old[i])
      BY LineType
<1>2. /\ DOMAIN types = 1..Len(types) /\ Len(types) \in Nat
      /\ \A i \in 1..Len(types) : types[i] \in MsgType
      OBVIOUS
<1>3. /\ j \in Seq(Job) /\ Len(j) = Len(types)
      /\ \A i \in 1..Len(types) : j[i] = [msgtyp |-> types[i], reqno |-> reqno + i]
  <2>1. \A i \in 1..Len(types) : [msgtyp |-> types[i], reqno |-> reqno + i] \in Job
        BY <1>2 DEF Job
  <2>2. j = [i \in 1..Len(types) |-> [msgtyp |-> types[i], reqno |-> reqno + i]]
        BY <1>2 DEF Pipe!Jobs
  <2>. HIDE DEF j
  <2>3. \A i \in 1..Len(types) : j[i] = [msgtyp |-> types[i], reqno |-> reqno + i]
        BY <2>2
  <2>4. j \in [1..Len(types) -> Job] BY <2>1, <2>2, <2>3
  <2>5. j \in Seq(Job) BY <1>2, <2>4
  <2>. QED BY <1>2, <2>3, <2>4, <2>5
<1>4. Len(new) = Len(old) + Len(types) /\ Len(old) \in Nat BY DEF Grows
<1>. HIDE DEF p, q, j
<1>5. /\ r \in Seq(Job) /\ Len(r) = Len(q) + Len(j)
      /\ \A i \in 1..Len(q) : r[i] = q[i]
      /\ \A i \in 1..Len(j) : r[Len(q) + i] = j[i]
  <2>1. q \in Seq(Job) /\ j \in Seq(Job) BY <1>1, <1>3
  <2>. QED BY <2>1, Joined
<1>. HIDE DEF r
<1>6. ASSUME NEW i \in 1..Len(p) PROVE p[i] = r[i]
  <2>1. p[i] = Pending(new[i]) /\ i \in 1..(Len(q) + Len(j))
        BY <1>1, <1>3, <1>4
  <2>2. CASE i <= Len(old)
    <3>1. i \in 1..Len(old) BY <1>4, <2>2
    <3>2. Pending(new[i]) = Pending(old[i]) BY <3>1 DEF Grows
    <3>. QED BY <1>1, <1>5, <2>1, <2>2, <3>1, <3>2
  <2>3. CASE ~(i <= Len(old))
    <3>. DEFINE k == i - Len(old)
    <3>1. k \in 1..Len(types) /\ Len(old) + k = i BY <1>1, <1>2, <1>4, <2>3
    <3>. HIDE DEF k
    <3>2. r[i] = j[k] BY <1>1, <1>3, <1>5, <3>1
    <3>3. Pending(new[Len(old) + k]) = [msgtyp |-> types[k], reqno |-> reqno + k]
          BY <3>1 DEF Grows
    <3>. QED BY <1>3, <2>1, <3>1, <3>2, <3>3
  <2>. QED BY <2>2, <2>3
<1>7. p = r BY <1>1, <1>3, <1>4, <1>5, <1>6, SameSequence
<1>. QED BY <1>7 DEF p, q, j, r
LEMMA FirstOfLine ==
    ASSUME NEW list \in Seq(Request), list # <<>>
    PROVE  /\ Line(list) # <<>>
           /\ Head(Line(list)) = Pending(list[1])
           /\ Tail(Line(list)) = SubSeq(Line(list), 2, Len(Line(list)))
<1>. DEFINE p == Line(list)
<1>1. /\ p \in Seq(Job) /\ Len(p) = Len(list)
      /\ \A i \in 1..Len(list) : p[i] = Pending(list[i])
      BY LineType
<1>2. Len(list) \in Nat /\ Len(list) # 0 OBVIOUS
<1>. HIDE DEF p
<1>3. p # <<>> /\ Head(p) = p[1] BY <1>1, <1>2
<1>4. Tail(p) = SubSeq(p, 2, Len(p)) BY <1>1, <1>3, TailIsSubSeq
<1>5. p[1] = Pending(list[1]) BY <1>1, <1>2
<1>. QED BY <1>3, <1>4, <1>5 DEF p
-----------------------------------------------------------------------------
(* The steps of the pipe.                                                  *)
LEMMA ServesServed ==
    ASSUME NEW d \in ResourceSetRec, QueueInv(d), d.fault = "none",
           NEW list \in Seq(Request), Serves(d, list)
    PROVE  Pipe!Served(PipeOf(d), Line(list))
<1>1. PICK n \in 0..Len(list) :
         /\ Drops(d.reqlist, list, n)
         /\ d.client = "ready" => \A i \in 1..n : list[i].msgtyp \in Kind
      BY DEF Serves
<1>2. d.reqlist \in Seq(Request) BY DEF ResourceSetRec
<1>. DEFINE new == PipeOf(d)
            q   == Line(list)
<1>3. /\ new.queue = Line(d.reqlist) /\ new.ready = (d.client = "ready")
      /\ new.out = IF d.reqlist = <<>> THEN {} ELSE {d.reqlist[1].reqno}
      BY PipeFields, OutIsFirst
<1>4. /\ Len(q) = Len(list) /\ Len(list) \in Nat
      /\ \A i \in 1..Len(list) : q[i] = Pending(list[i])
      BY LineType
<1>5. Line(d.reqlist) = SubSeq(q, n + 1, Len(q)) BY <1>1, <1>2, LineDrops
<1>. HIDE DEF new, q
<1>6. Len(d.reqlist) = Len(list) - n BY <1>1 DEF Drops
<1>7. new.out = IF n = Len(q) THEN {} ELSE {q[n + 1].reqno}
  <2>1. CASE n = Len(list)
    <3>1. d.reqlist = <<>> BY <1>2, <1>6, <2>1
    <3>. QED BY <1>3, <1>4, <2>1, <3>1
  <2>2. CASE n # Len(list)
    <3>1. Len(d.reqlist) > 0 /\ 1 \in 1..Len(d.reqlist) /\ n + 1 \in 1..Len(list)
          BY <1>1, <1>4, <1>6, <2>2
    <3>2. d.reqlist # <<>> BY <1>2, <3>1
    <3>3. d.reqlist[1].reqno = list[n + 1].reqno
          BY <1>1, <1>2, <3>1, DropsFrom
    <3>4. q[n + 1] = Pending(list[n + 1]) BY <1>4, <3>1
    <3>5. q[n + 1].reqno = list[n + 1].reqno BY <3>4 DEF Pending
    <3>. QED BY <1>3, <1>4, <2>2, <3>2, <3>3, <3>5
  <2>. QED BY <2>1, <2>2
<1>8. new.ready => \A i \in 1..n : q[i].msgtyp \in {"audio", "video"}
  <2>. SUFFICES ASSUME new.ready, NEW i \in 1..n
                PROVE  q[i].msgtyp \in {"audio", "video"}
       OBVIOUS
  <2>1. list[i].msgtyp \in Kind BY <1>1, <1>3
  <2>2. i \in 1..Len(list) BY <1>1, <1>4
  <2>3. q[i] = Pending(list[i]) BY <1>4, <2>2
  <2>4. q[i].msgtyp = list[i].msgtyp BY <2>3 DEF Pending
  <2>. QED BY <2>1, <2>4 DEF Kind
<1>9. n \in 0..Len(q) BY <1>4
<1>10. Pipe!Served(new, q) BY <1>3, <1>5, <1>7, <1>8, <1>9 DEF Pipe!Served
<1>. QED BY <1>10 DEF new, q

LEMMA RestsRest ==
    ASSUME NEW c \in ResourceSetRec, QueueInv(c), c.fault = "none",
           NEW d \in ResourceSetRec, QueueInv(d), d.fault = "none", Rests(c, d)
    PROVE  Pipe!Rest(PipeOf(c), PipeOf(d))
BY PipeFields, OutIsFirst DEF Rests, Pipe!Rest

LEMMA SubmitsSubmit ==
    ASSUME NEW c \in ResourceSetRec, QueueInv(c), c.fault = "none",
           NEW d \in ResourceSetRec, QueueInv(d), d.fault = "none", Submits(c, d)
    PROVE  Pipe!Submit(PipeOf(c), PipeOf(d))
<1>1. PICK types \in Seq(MsgType) :
         /\ Len(types) > 0
         /\ Len(types) > 1 => types[1] = "register"
         /\ Pushed(c, d, types)
      BY DEF Submits
<1>2. PICK list \in Seq(Request) :
         /\ d.reqno = c.reqno + Len(types)
         /\ Grows(list, c.reqlist, types, c.reqno)
         /\ IF c.reqlist = <<>> THEN Serves(d, list) ELSE Drops(d.reqlist, list, 0)
      BY <1>1 DEF Pushed
<1>3. /\ c.reqlist \in Seq(Request) /\ d.reqlist \in Seq(Request)
      /\ c.reqno \in Nat
      BY DEF ResourceSetRec
<1>. DEFINE old == PipeOf(c)
            new == PipeOf(d)
            all == old.queue \o Pipe!Jobs(types, old.last)
<1>4. /\ old.queue = Line(c.reqlist) /\ new.queue = Line(d.reqlist)
      /\ old.last = c.reqno /\ new.last = d.reqno
      /\ old.out = IF c.reqlist = <<>> THEN {} ELSE {c.reqlist[1].reqno}
      /\ new.out = IF d.reqlist = <<>> THEN {} ELSE {d.reqlist[1].reqno}
      BY PipeFields, OutIsFirst
<1>5. all = Line(list)
  <2>1. Line(list) = Line(c.reqlist) \o Pipe!Jobs(types, c.reqno)
        BY <1>2, <1>3, LineGrows
  <2>2. old.queue = Line(c.reqlist) /\ old.last = c.reqno BY <1>4
  <2>. HIDE DEF old
  <2>. QED BY <2>1, <2>2
<1>6. c.reqlist = <<>> => Pipe!Served(new, Line(list))
      BY <1>2, ServesServed
<1>7. c.reqlist # <<>> => /\ new.queue = Line(list)
                          /\ new.out = old.out
  <2>. SUFFICES ASSUME c.reqlist # <<>>
                PROVE  new.queue = Line(list) /\ new.out = old.out
       OBVIOUS
  <2>1. Drops(d.reqlist, list, 0) BY <1>2
  <2>2. /\ Line(d.reqlist) = SubSeq(Line(list), 0 + 1, Len(Line(list)))
        /\ Line(list) \in Seq(Job)
        BY <1>3, <2>1, LineDrops, LineType
  <2>3. Line(d.reqlist) = Line(list) BY <2>2, SubSeqFull
  <2>4. Len(d.reqlist) = Len(list) /\ Len(list) \in Nat
        BY <2>1 DEF Drops
  <2>5. Len(c.reqlist) \in Nat /\ Len(c.reqlist) > 0 BY <1>3
  <2>6. Len(list) = Len(c.reqlist) + Len(types) /\ Len(types) \in Nat
        BY <1>2 DEF Grows
  <2>7. Len(d.reqlist) > 0 /\ 1 \in 1..Len(d.reqlist) /\ 1 \in 1..Len(c.reqlist)
        BY <2>4, <2>5, <2>6
  <2>8. d.reqlist # <<>> BY <1>3, <2>7
  <2>9. d.reqlist[1].reqno = list[1].reqno
    <3>1. d.reqlist[1].reqno = list[0 + 1].reqno
          BY <1>3, <2>1, <2>7, DropsFrom
    <3>. QED BY <3>1
  <2>10. list[1].reqno = c.reqlist[1].reqno
    <3>1. Pending(list[1]) = Pending(c.reqlist[1]) BY <1>2, <2>7 DEF Grows
    <3>. QED BY <3>1, SamePending
  <2>. QED BY <1>4, <2>3, <2>8, <2>9, <2>10
<1>8. (old.out = {}) <=> (c.reqlist = <<>>) BY <1>4
<1>9. /\ Len(types) \in Nat /\ types \in [1..Len(types) -> MsgType]
      /\ new.last - old.last = Len(types)
      BY <1>2, <1>3, <1>4
<1>10. types \in [1..(new.last - old.last) -> Pipe!JobType]
       BY <1>9 DEF Pipe!JobType, MsgType
<1>11. new.last > old.last BY <1>1, <1>2, <1>3, <1>4
<1>. HIDE DEF old, new
<1>12. IF old.out = {} THEN Pipe!Served(new, all)
                       ELSE new.queue = all /\ new.out = old.out
  <2>. HIDE DEF all
  <2>. QED BY <1>5, <1>6, <1>7, <1>8
<1>13. Pipe!Submit(old, new)
  <2>. HIDE DEF all
  <2>1. \E t \in [1..(new.last - old.last) -> Pipe!JobType] :
          /\ Len(t) > 1 => t[1] = "register"
          /\ IF old.out = {}
             THEN Pipe!Served(new, old.queue \o Pipe!Jobs(t, old.last))
             ELSE /\ new.queue = old.queue \o Pipe!Jobs(t, old.last)
                  /\ new.out = old.out
        BY <1>1, <1>10, <1>12 DEF all
  <2>. QED BY <1>11, <2>1 DEF Pipe!Submit
<1>. QED BY <1>13 DEF old, new

LEMMA FinishesFinish ==
    ASSUME NEW c \in ResourceSetRec, QueueInv(c), c.fault = "none",
           NEW d \in ResourceSetRec, QueueInv(d), d.fault = "none", Finishes(c, d)
    PROVE  Pipe!Finish(PipeOf(c), PipeOf(d))
<1>. DEFINE old == PipeOf(c)
            new == PipeOf(d)
<1>1. c.reqlist # <<>> /\ d.reqno = c.reqno BY DEF Finishes
<1>2. c.reqlist \in Seq(Request) /\ d.reqlist \in Seq(Request)
      BY DEF ResourceSetRec
<1>3. /\ old.queue = Line(c.reqlist) /\ new.queue = Line(d.reqlist)
      /\ old.last = c.reqno /\ new.last = d.reqno
      /\ old.out # {}
      /\ new.out = IF d.reqlist = <<>> THEN {} ELSE {d.reqlist[1].reqno}
      BY <1>1, PipeFields, OutIsFirst
<1>4. ASSUME NEW list \in Seq(Request), Drops(list, c.reqlist, 1),
             Serves(d, list)
      PROVE  Pipe!Served(new, Tail(Line(c.reqlist)))
  <2>1. Line(list) = SubSeq(Line(c.reqlist), 1 + 1, Len(Line(c.reqlist)))
        BY <1>2, <1>4, LineDrops
  <2>2. Tail(Line(c.reqlist)) = SubSeq(Line(c.reqlist), 2, Len(Line(c.reqlist)))
        BY <1>1, <1>2, FirstOfLine
  <2>3. 1 + 1 = 2 OBVIOUS
  <2>4. Tail(Line(c.reqlist)) = Line(list) BY <2>1, <2>2, <2>3
  <2>5. Pipe!Served(new, Line(list)) BY <1>4, ServesServed
  <2>. HIDE DEF new
  <2>. QED BY <2>4, <2>5
<1>5. ASSUME UnregisterOut(c), d.reqlist = <<>>
      PROVE  /\ Head(Line(c.reqlist)).msgtyp = "unregister"
             /\ new.queue = <<>> /\ new.out = {}
  <2>1. Head(Line(c.reqlist)) = Pending(c.reqlist[1]) BY <1>1, <1>2, FirstOfLine
  <2>2. Head(c.reqlist) = c.reqlist[1] BY <1>1, <1>2
  <2>3. Pending(c.reqlist[1]).msgtyp = "unregister"
        BY <1>5, <2>2 DEF UnregisterOut, Pending
  <2>4. Line(d.reqlist) = <<>>
    <3>1. Len(Line(d.reqlist)) = Len(d.reqlist) /\ Line(d.reqlist) \in Seq(Job)
          BY <1>2, LineType
    <3>. QED BY <1>5, <3>1
  <2>. QED BY <1>3, <1>5, <2>1, <2>3, <2>4
<1>6. \/ Pipe!Served(new, Tail(Line(c.reqlist)))
      \/ /\ Head(Line(c.reqlist)).msgtyp = "unregister"
         /\ new.queue = <<>> /\ new.out = {}
      BY <1>4, <1>5 DEF Finishes
<1>. HIDE DEF old, new
<1>7. Pipe!Finish(old, new) BY <1>1, <1>3, <1>6 DEF Pipe!Finish
<1>. QED BY <1>7 DEF old, new

LEMMA CarriesEvolves ==
    ASSUME NEW c \in ResourceSetRec, QueueInv(c),
           NEW d \in ResourceSetRec, QueueInv(d), Carries(c, d)
    PROVE  Pipe!Evolves(PipeOf(c), PipeOf(d))
<1>1. /\ PipeOf(c).broken = (c.fault # "none")
      /\ PipeOf(d).broken = (d.fault # "none")
      BY PipeFields
<1>2. CASE d.fault # "none" BY <1>1, <1>2 DEF Pipe!Evolves
<1>3. CASE d.fault = "none"
  <2>1. c.fault = "none" BY <1>3 DEF Carries
  <2>2. \/ Pipe!Rest(PipeOf(c), PipeOf(d))
        \/ Pipe!Submit(PipeOf(c), PipeOf(d))
        \/ Pipe!Finish(PipeOf(c), PipeOf(d))
        BY <1>3, <2>1, RestsRest, SubmitsSubmit, FinishesFinish DEF Carries, Moves
  <2>. QED BY <1>1, <2>1, <2>2 DEF Pipe!Evolves
<1>. QED BY <1>2, <1>3

(* enqueue, send_request and the answer to the oldest request are all that *)
(* changes a queue, and they keep what RequestPipe promises: one request   *)
(* at a time, the oldest; one out whenever one waits; and of a client that *)
(* is ready only requests about a stream are given up unsent.              *)
THEOREM ImplementsPipeAlways == Spec => ImplementsPipe
<1>1. Init => Pipe!Init
  <2>1. /\ NoSet.reqlist = <<>> /\ NoSet.replies = {} /\ NoSet.reqno = 0
        /\ NoSet.client = "created" /\ NoSet.fault = "none"
        BY DEF NoSet
  <2>2. [i \in DOMAIN <<>> |-> [msgtyp |-> <<>>[i].msgtyp,
                                reqno  |-> <<>>[i].reqno]] = <<>>
        OBVIOUS
  <2>3. {reply.reqno : reply \in {}} = {} OBVIOUS
  <2>. HIDE DEF NoSet
  <2>4. PipeOf(NoSet) = Pipe!Empty
        BY <2>1, <2>2, <2>3 DEF PipeOf, Pipe!Empty
  <2>. QED BY <2>4 DEF Init, Pipe!Init
<1>2. ASSUME Inv, Inv', [Next]_vars PROVE Pipe!Next
  <2>1. \A z \in Sets : Carries(cs[z], cs'[z]) BY <1>2, NextSound DEF Inv
  <2>2. \A z \in Sets : /\ cs[z] \in ResourceSetRec /\ cs'[z] \in ResourceSetRec
                        /\ QueueInv(cs[z]) /\ QueueInv(cs'[z])
        BY <1>2 DEF Inv, TypeOK, Queues
  <2>3. \A z \in Sets : Pipe!Evolves(PipeOf(cs[z]), PipeOf(cs'[z]))
        BY <2>1, <2>2, CarriesEvolves
  <2>. QED BY <2>3 DEF Pipe!Next
<1>. QED BY <1>1, <1>2, InvAlways, PTL DEF Spec, ImplementsPipe, Pipe!Spec
-----------------------------------------------------------------------------
(* No request overtakes another.                                           *)
LEMMA DropsAdvances ==
    ASSUME NEW old \in Seq(Request), NEW new \in Seq(Request), NEW n,
           Drops(new, old, n)
    PROVE  Advances(old, new)
<1>1. n \in 0..Len(old) /\ Len(new) = Len(old) - n /\ Len(old) \in Nat
      BY DEF Drops
<1>. DEFINE m    == Len(old)
            kept == SubSeq(old, n + 1, m)
<1>2. /\ Len(kept) = m - n
      /\ \A i \in 1..(m - n) : kept[i] = old[n + i]
  <2>1. n + 1 \in Int /\ m \in Int /\ n \in Int /\ n <= m BY <1>1
  <2>2. \A i \in (n + 1)..m : old[i] \in Request
    <3>1. \A i \in 1..m : old[i] \in Request OBVIOUS
    <3>. QED BY <1>1, <3>1
  <2>. HIDE DEF m
  <2>3. /\ Len(kept) = IF n + 1 <= m THEN m - (n + 1) + 1 ELSE 0
        /\ \A i \in 1..(m - (n + 1) + 1) : kept[i] = old[(n + 1) + i - 1]
        BY <2>1, <2>2, SubSeqProperties
  <2>. HIDE DEF kept
  <2>4. /\ m - (n + 1) + 1 = m - n
        /\ \A i \in 1..(m - n) : (n + 1) + i - 1 = n + i
        BY <2>1
  <2>. QED BY <2>1, <2>3, <2>4
<1>3. \A i \in 1..Len(new) : new[i].reqno = old[n + i].reqno BY DropsFrom
<1>4. /\ Len(kept) = Len(new)
      /\ \A i \in 1..Len(kept) : kept[i].reqno = new[i].reqno
      /\ \A i \in (Len(kept) + 1)..Len(new) : FALSE
  <2>. HIDE DEF kept
  <2>. QED BY <1>1, <1>2, <1>3
<1>5. LET left == SubSeq(old, n + 1, Len(old))
      IN  /\ Len(left) <= Len(new)
          /\ \A i \in 1..Len(left) : left[i].reqno = new[i].reqno
          /\ \A i \in (Len(left) + 1)..Len(new), j \in 1..Len(old) :
                old[j].reqno < new[i].reqno
  <2>. HIDE DEF kept
  <2>1. /\ Len(kept) <= Len(new)
        /\ \A i \in 1..Len(kept) : kept[i].reqno = new[i].reqno
        /\ \A i \in (Len(kept) + 1)..Len(new), j \in 1..Len(old) :
              old[j].reqno < new[i].reqno
        BY <1>1, <1>4
  <2>. QED BY <2>1 DEF kept
<1>. QED BY <1>1, <1>5 DEF Advances

LEMMA GrowsAdvances ==
    ASSUME NEW old \in Seq(Request), NEW new \in Seq(Request),
           NEW types \in Seq(MsgType), NEW reqno \in Nat,
           Ascending(old, reqno), Grows(new, old, types, reqno)
    PROVE  Advances(old, new)
<1>1. /\ Len(old) \in Nat /\ Len(types) \in Nat
      /\ Len(new) = Len(old) + Len(types)
      BY DEF Grows
<1>2. SubSeq(old, 0 + 1, Len(old)) = old BY SubSeqFull
<1>3. \A i \in 1..Len(old) : old[i].reqno = new[i].reqno
  <2>1. \A i \in 1..Len(old) : Pending(new[i]) = Pending(old[i]) BY DEF Grows
  <2>. QED BY <2>1, SamePending
<1>4. ASSUME NEW i \in (Len(old) + 1)..Len(new), NEW j \in 1..Len(old)
      PROVE  old[j].reqno < new[i].reqno
  <2>. DEFINE k == i - Len(old)
  <2>1. k \in 1..Len(types) /\ Len(old) + k = i BY <1>1
  <2>. HIDE DEF k
  <2>2. Pending(new[Len(old) + k]) = [msgtyp |-> types[k], reqno |-> reqno + k]
        BY <2>1 DEF Grows
  <2>3. new[i].reqno = reqno + k BY <2>1, <2>2 DEF Pending
  <2>4. old[j].reqno <= reqno BY DEF Ascending
  <2>5. old[j] \in Request OBVIOUS
  <2>6. old[j].reqno \in Nat BY <2>5 DEF Request
  <2>. QED BY <2>1, <2>3, <2>4, <2>6
<1>5. 0 \in 0..Len(old) BY <1>1
<1>6. LET kept == SubSeq(old, 0 + 1, Len(old))
      IN  /\ Len(kept) <= Len(new)
          /\ \A i \in 1..Len(kept) : kept[i].reqno = new[i].reqno
          /\ \A i \in (Len(kept) + 1)..Len(new), j \in 1..Len(old) :
                old[j].reqno < new[i].reqno
      BY <1>1, <1>2, <1>3, <1>4
<1>. QED BY <1>5, <1>6 DEF Advances

LEMMA SameGrows ==
    ASSUME NEW old \in Seq(Request), NEW list \in Seq(Request),
           NEW new \in Seq(Request), NEW types \in Seq(MsgType), NEW reqno \in Nat,
           Grows(list, old, types, reqno), Drops(new, list, 0)
    PROVE  Grows(new, old, types, reqno)
<1>1. /\ Len(old) \in Nat /\ Len(types) \in Nat
      /\ Len(list) = Len(old) + Len(types) /\ Len(new) = Len(list) - 0
      BY DEF Grows, Drops
<1>2. \A i \in 1..Len(new) : Pending(new[i]) = Pending(list[i])
  <2>1. \A i \in 1..Len(new) : Pending(new[i]) = Pending(list[0 + i]) BY DEF Drops
  <2>. QED BY <2>1
<1>3. \A i \in 1..Len(old) : Pending(new[i]) = Pending(old[i])
  <2>1. \A i \in 1..Len(old) : i \in 1..Len(new) BY <1>1
  <2>. QED BY <1>2, <2>1 DEF Grows
<1>4. ASSUME NEW i \in 1..Len(types)
      PROVE  Pending(new[Len(old) + i]) = [msgtyp |-> types[i], reqno |-> reqno + i]
  <2>1. Len(old) + i \in 1..Len(new) BY <1>1
  <2>2. Pending(list[Len(old) + i]) = [msgtyp |-> types[i], reqno |-> reqno + i]
        BY DEF Grows
  <2>. QED BY <1>2, <2>1, <2>2
<1>5. Len(new) = Len(old) + Len(types) BY <1>1
<1>. QED BY <1>3, <1>4, <1>5 DEF Grows

LEMMA SameAdvances ==
    ASSUME NEW list \in Seq(Request) PROVE Advances(list, list)
BY DropsNothing, DropsAdvances

LEMMA DropsTwice ==
    ASSUME NEW c \in ResourceSetRec, NEW d \in ResourceSetRec,
           NEW list \in Seq(Request), NEW m \in Nat,
           Drops(list, c.reqlist, m), Serves(d, list)
    PROVE  Advances(c.reqlist, d.reqlist)
<1>1. c.reqlist \in Seq(Request) /\ d.reqlist \in Seq(Request)
      BY DEF ResourceSetRec
<1>2. PICK n \in 0..Len(list) : Drops(d.reqlist, list, n) BY DEF Serves
<1>3. n \in Nat OBVIOUS
<1>4. Drops(d.reqlist, c.reqlist, m + n) BY <1>1, <1>2, <1>3, DropsMore
<1>. QED BY <1>1, <1>4, DropsAdvances

LEMMA EmptiesAdvances ==
    ASSUME NEW old \in Seq(Request) PROVE Advances(old, <<>>)
<1>1. Len(<<>>) = 0 /\ <<>> \in Seq(Request) /\ Len(old) \in Nat OBVIOUS
<1>2. Drops(<<>>, old, Len(old)) BY <1>1 DEF Drops
<1>. QED BY <1>1, <1>2, DropsAdvances

LEMMA StartsAdvances ==
    ASSUME NEW new \in Seq(Request) PROVE Advances(<<>>, new)
<1>1. /\ 0 \in 0..Len(<<>>)
      /\ SubSeq(<<>>, 0 + 1, Len(<<>>)) = <<>>
      /\ Len(<<>>) = 0 /\ Len(new) \in Nat
      OBVIOUS
<1>. QED BY <1>1 DEF Advances

LEMMA CarriesAdvances ==
    ASSUME NEW c \in ResourceSetRec, QueueInv(c), NEW d \in ResourceSetRec,
           Carries(c, d)
    PROVE  Advances(c.reqlist, d.reqlist)
<1>1. c.reqlist \in Seq(Request) /\ d.reqlist \in Seq(Request) /\ c.reqno \in Nat
      BY DEF ResourceSetRec
<1>2. CASE Rests(c, d) BY <1>1, <1>2, SameAdvances DEF Rests
<1>3. CASE ~Rests(c, d)
  <2>1. c.fault = "none" BY <1>3 DEF Carries
  <2>2. CASE Finishes(c, d)
    <3>1. ASSUME NEW list \in Seq(Request), Drops(list, c.reqlist, 1),
                 Serves(d, list)
          PROVE  Advances(c.reqlist, d.reqlist)
          BY <3>1, DropsTwice
    <3>2. d.reqlist = <<>> => Advances(c.reqlist, d.reqlist)
          BY <1>1, EmptiesAdvances
    <3>. QED BY <2>2, <3>1, <3>2 DEF Finishes
  <2>3. CASE Submits(c, d)
    <3>1. PICK types \in Seq(MsgType) : Pushed(c, d, types) BY <2>3 DEF Submits
    <3>2. PICK list \in Seq(Request) :
             /\ Grows(list, c.reqlist, types, c.reqno)
             /\ c.reqlist # <<>> => Drops(d.reqlist, list, 0)
          BY <3>1 DEF Pushed
    <3>3. CASE c.reqlist = <<>> BY <1>1, <3>3, StartsAdvances
    <3>4. CASE c.reqlist # <<>>
      <4>1. Ascending(c.reqlist, c.reqno) BY <2>1 DEF QueueInv, Settled
      <4>2. Grows(d.reqlist, c.reqlist, types, c.reqno)
            BY <1>1, <3>2, <3>4, SameGrows
      <4>. QED BY <1>1, <4>1, <4>2, GrowsAdvances
    <3>. QED BY <3>3, <3>4
  <2>. QED BY <1>3, <2>2, <2>3 DEF Carries, Moves
<1>. QED BY <1>2, <1>3

(* enqueue numbers requests upwards and puts them at the back, pop_request *)
(* and the skipping of send_request take them from the front: no request   *)
(* overtakes another and none is sent again.                               *)
THEOREM FifoRequestsAlways == Spec => FifoRequests
<1>1. ASSUME Inv, [Next]_vars
      PROVE  \A s \in Sets : Advances(cs[s].reqlist, cs'[s].reqlist)
  <2>1. \A z \in Sets : Carries(cs[z], cs'[z]) BY <1>1, NextSound DEF Inv
  <2>2. \A z \in Sets : cs[z] \in ResourceSetRec /\ QueueInv(cs[z])
        BY <1>1 DEF Inv, TypeOK, Queues
  <2>3. TypeOK' BY <1>1, NextType DEF Inv
  <2>4. \A z \in Sets : cs'[z] \in ResourceSetRec BY <2>3 DEF TypeOK
  <2>. QED BY <2>1, <2>2, <2>4, CarriesAdvances
<1>. QED BY <1>1, InvAlways, PTL DEF Spec, FifoRequests
-----------------------------------------------------------------------------
(***************************************************************************)
(* What becomes of a client that is not connected: no set sleeps while the *)
(* manager is there, unless its REGISTER failed; and as long as the        *)
(* manager stays, nothing but a failed REGISTER makes send_request hang.   *)
(*                                                                         *)
(* Both are about the ways into client_created.  Drifts(c, d) is what      *)
(* send_request may do to a client, and Fit, Settling and Placed what it   *)
(* needs and leaves behind when the manager has always been there.         *)
(***************************************************************************)
(* A set that waits for the manager to come back. *)
Dozing(c) == c.life = "live" /\ c.client = "created" /\ ~c.denied

(* The path of a set that has a resset_t is there until UNREGISTER is sent. *)
Led(c) == resset_find(c.rset) => c.path

Leaving(c) == UnregisterOut(c) /\ Head(c.reqlist).busy

Placed(c) == Led(c) \/ Leaving(c)

Drifts(c, d) ==
    /\ d.conn = c.conn /\ d.life = c.life /\ d.revived = c.revived
    /\ \/ d.client = c.client /\ d.denied = c.denied
       \/ d.client = "created" /\ d.denied

(* A client that is not connecting has nothing to send, but for what a     *)
(* REGISTER that has just failed left behind.                              *)
Fit(c) == c.reqlist # <<>> =>
             c.client # "created" \/ (c.denied /\ ~Head(c.reqlist).busy)

Settling(d) ==
    /\ d.fault = "spin" => d.denied
    /\ d.fault = "none" => d.reqlist = <<>> \/ d.client # "created"
-----------------------------------------------------------------------------
(* Fields that neither sending nor dropping requests touches.              *)
Alike(c, d) ==
    /\ d.conn = c.conn /\ d.life = c.life /\ d.revived = c.revived
    /\ d.client = c.client /\ d.denied = c.denied /\ d.fault = c.fault

LEMMA DbusSendKeeps ==
    ASSUME NEW c \in ResourceSetRec, NEW call \in Call
    PROVE  LET d == dbus_send_message(c, call)
           IN  /\ d \in ResourceSetRec /\ Alike(c, d)
               /\ d.path = c.path /\ d.rset.state = c.rset.state
<1>1. c.rset \in Rset BY DEF ResourceSetRec
<1>. DEFINE r == resset_ref(resset_ref(c.rset))
            d == dbus_send_message(c, call)
<1>2. r.state = c.rset.state BY <1>1 DEF resset_ref, Rset
<1>. HIDE DEF r
<1>3. Alike(c, d) /\ d.path = c.path /\ d.rset = r
      BY DEF dbus_send_message, ResourceSetRec, r, Alike
<1>4. d \in ResourceSetRec BY SendType
<1>. QED BY <1>2, <1>3, <1>4

LEMMA SendKeeps ==
    ASSUME NEW c \in ResourceSetRec, NEW rq \in Request,
           rq.msgtyp \in Kind => configured(c, rq.msgtyp)
    PROVE  LET d == send_message(c, rq)
           IN  /\ d \in ResourceSetRec /\ Alike(c, d)
               /\ rq.msgtyp # "unregister" /\ Led(c) => Led(d)
<1>. DEFINE call == message(c, rq)
            e    == send_message(c, rq)
<1>1. call \in Call /\ e \in ResourceSetRec BY MessageType, SendMessageType
<1>2. CASE rq.msgtyp = "register"
  <2>. DEFINE found == dbus_connect_to_manager(c)
              d     == resconn_connect(c, call)
  <2>1. found \in ResourceSetRec /\ Alike(c, found) /\ (Led(c) => Led(found))
        BY ConnectType
           DEF dbus_connect_to_manager, ResourceSetRec, Led, resset_find, Alike
  <2>2. d = IF resset_find(found.rset) THEN dbus_send_message(found, call)
                                       ELSE found
        BY DEF resconn_connect
  <2>. HIDE DEF found, call, d
  <2>3. d \in ResourceSetRec /\ Alike(c, d) /\ (Led(c) => Led(d))
        BY <1>1, <2>1, <2>2, DbusSendKeeps DEF Alike, Led, resset_find
  <2>4. e = IF c.conn THEN [d EXCEPT !.resset = @ \/ resset_find(d.rset)] ELSE c
        BY <1>2 DEF send_message, send_register_message, d, call
  <2>. HIDE DEF e
  <2>5. Alike(c, e) /\ (Led(c) => Led(e))
        BY <2>3, <2>4 DEF Alike, Led, ResourceSetRec
  <2>. QED BY <1>1, <2>5 DEF e
<1>3. CASE rq.msgtyp = "unregister"
  <2>. DEFINE d == dbus_send_message(c, call)
  <2>1. d \in ResourceSetRec /\ Alike(c, d) BY <1>1, DbusSendKeeps
  <2>. HIDE DEF d
  <2>2. Alike(c, dbus_disconnect_from_manager(d))
        BY <2>1 DEF dbus_disconnect_from_manager, Alike, ResourceSetRec
  <2>3. e = dbus_disconnect_from_manager(d)
        BY <1>3 DEF send_message, resconn_disconnect, d
  <2>. QED BY <1>1, <1>3, <2>2, <2>3
<1>4. CASE rq.msgtyp \notin {"register", "unregister"}
  <2>1. e = dbus_send_message(c, call) BY <1>4 DEF send_message
  <2>. HIDE DEF call, e
  <2>2. Alike(c, e) /\ e.path = c.path /\ e.rset.state = c.rset.state
        BY <1>1, <2>1, DbusSendKeeps
  <2>. QED BY <1>1, <2>2 DEF Led, resset_find, e
<1>. QED BY <1>2, <1>3, <1>4

LEMMA TransmitDrifts ==
    ASSUME NEW c \in ResourceSetRec, c.reqlist # <<>>, c.fault = "none",
           c.client # "created",
           LET t == Head(c.reqlist).msgtyp IN t \in Kind => configured(c, t)
    PROVE  LET d == transmit(c)
           IN  Drifts(c, d) /\ Settling(d) /\ (Led(c) => Placed(d))
<1>. DEFINE rq   == Head(c.reqlist)
            rest == Tail(c.reqlist)
            sent == send_message(c, rq)
            d    == transmit(c)
<1>1. rq \in Request /\ rest \in Seq(Request) BY DEF ResourceSetRec
<1>2. /\ sent \in ResourceSetRec /\ Alike(c, sent)
      /\ rq.msgtyp # "unregister" /\ Led(c) => Led(sent)
      BY <1>1, SendKeeps
<1>. HIDE DEF sent
<1>3. CASE rq.msgtyp = "register" /\ ~sent.resset
  <2>1. d = [c EXCEPT !.client  = "created",
                      !.denied  = TRUE,
                      !.reqlist = rest,
                      !.fault   = IF rest = <<>> THEN @ ELSE "spin"]
        BY <1>3 DEF transmit, sent
  <2>. HIDE DEF d, rest
  <2>2. /\ d.conn = c.conn /\ d.life = c.life /\ d.revived = c.revived
        /\ d.client = "created" /\ d.denied /\ d.reqlist = rest
        /\ d.fault = IF rest = <<>> THEN c.fault ELSE "spin"
        /\ d.path = c.path /\ d.rset = c.rset
        BY <2>1 DEF ResourceSetRec
  <2>. QED BY <2>2 DEF Drifts, Settling, Placed, Led, d
<1>4. CASE ~(rq.msgtyp = "register" /\ ~sent.resset)
  <2>. DEFINE busy == [rq EXCEPT !.busy = TRUE]
              list == <<busy>> \o rest
  <2>1. d = [sent EXCEPT !.reqlist = list]
        BY <1>4 DEF transmit, sent
  <2>2. busy.busy /\ busy.msgtyp = rq.msgtyp /\ busy \in Request
        BY <1>1 DEF Request
  <2>. HIDE DEF busy, rest, rq
  <2>3. list # <<>> /\ Head(list) = busy BY <1>1, <2>2
  <2>. HIDE DEF list, d
  <2>4. /\ d.reqlist = list /\ Alike(c, d)
        /\ d.path = sent.path /\ d.rset = sent.rset
        BY <1>2, <2>1 DEF Alike, ResourceSetRec
  <2>5. rq.msgtyp = "unregister" => Leaving(d)
        BY <2>2, <2>3, <2>4 DEF Leaving, UnregisterOut
  <2>6. Led(c) => Placed(d) BY <1>2, <2>4, <2>5 DEF Placed, Led
  <2>. QED BY <2>4, <2>6 DEF Drifts, Settling, Alike, d
<1>. QED BY <1>3, <1>4

LEMMA SendFirstDrifts ==
    ASSUME NEW c \in ResourceSetRec, c.fault = "none", c.client # "created"
    PROVE  LET d == send_first(c)
           IN  Drifts(c, d) /\ Settling(d) /\ (Led(c) => Placed(d))
<1>. DEFINE n == first_sent(c)
            d == send_first(c)
<1>1. CASE n = 0
  <2>1. d = [c EXCEPT !.reqlist = <<>>] BY <1>1 DEF send_first
  <2>. HIDE DEF d
  <2>2. Alike(c, d) /\ d.reqlist = <<>> /\ d.path = c.path /\ d.rset = c.rset
        BY <2>1 DEF Alike, ResourceSetRec
  <2>. QED BY <2>2 DEF Alike, Drifts, Settling, Placed, Led, d
<1>2. CASE n # 0
  <2>. DEFINE list == SubSeq(c.reqlist, n, Len(c.reqlist))
              e    == [c EXCEPT !.reqlist = list]
  <2>1. c.reqlist \in Seq(Request) BY DEF ResourceSetRec
  <2>2. /\ n \in 1..Len(c.reqlist)
        /\ \/ c.reqlist[n].msgtyp = "register"
           \/ sendable(c, c.reqlist[n].msgtyp)
        BY <1>2, FirstSent
  <2>3. d = transmit(e) BY <1>2 DEF send_first
  <2>. HIDE DEF n
  <2>4. list \in Seq(Request) /\ list # <<>> /\ Head(list) = c.reqlist[n]
    <3>1. Len(c.reqlist) \in n..Len(c.reqlist) BY <2>1, <2>2
    <3>2. Head(list) = c.reqlist[n] BY <2>1, <2>2, <3>1, HeadTailOfSubSeq
    <3>3. \A i \in n..Len(c.reqlist) : c.reqlist[i] \in Request BY <2>1, <2>2
    <3>4. list \in Seq(Request) /\ Len(list) > 0
          BY <2>1, <2>2, <3>3, SubSeqProperties
    <3>. HIDE DEF list
    <3>5. list # <<>> BY <3>4
    <3>. QED BY <3>2, <3>4, <3>5
  <2>. HIDE DEF list, d
  <2>5. /\ e \in ResourceSetRec /\ e.reqlist = list /\ Alike(c, e)
        /\ e.path = c.path /\ e.rset = c.rset /\ e.configs = c.configs
        BY <2>4 DEF ResourceSetRec, Alike
  <2>. HIDE DEF e
  <2>6. LET t == Head(e.reqlist).msgtyp IN t \in Kind => configured(e, t)
        BY <2>2, <2>4, <2>5 DEF sendable, configured, Kind
  <2>7. Drifts(e, d) /\ Settling(d) /\ (Led(e) => Placed(d))
        BY <2>3, <2>4, <2>5, <2>6, TransmitDrifts DEF Alike
  <2>. QED BY <2>5, <2>7 DEF Alike, Drifts, Led, d
<1>. QED BY <1>1, <1>2

LEMMA SendRequestDrifts ==
    ASSUME NEW c \in ResourceSetRec, c.fault = "none"
    PROVE  LET d == send_request(c)
           IN  /\ Drifts(c, d)
               /\ Fit(c) => Settling(d)
               /\ d.fault = "none" /\ Placed(c) => Placed(d)
<1>. DEFINE d == send_request(c)
<1>1. CASE c.reqlist = <<>> \/ Head(c.reqlist).busy
  <2>1. d = c BY <1>1 DEF send_request
  <2>. QED BY <1>1, <2>1 DEF Drifts, Settling, Fit
<1>2. CASE c.reqlist # <<>> /\ ~Head(c.reqlist).busy
  <2>1. Placed(c) => Led(c) BY <1>2 DEF Placed, Leaving
  <2>2. CASE c.client = "created"
    <3>1. d = [c EXCEPT !.fault = "spin"] BY <1>2, <2>2 DEF send_request
    <3>. HIDE DEF d
    <3>2. /\ d.fault = "spin" /\ d.conn = c.conn /\ d.life = c.life
          /\ d.revived = c.revived /\ d.client = c.client /\ d.denied = c.denied
          BY <3>1 DEF ResourceSetRec
    <3>. QED BY <1>2, <2>2, <3>2 DEF Drifts, Settling, Fit, d
  <2>3. CASE c.client # "created"
             /\ Head(c.reqlist).msgtyp # "register" /\ dangling(c)
    <3>1. d = [c EXCEPT !.fault = "stale"] BY <1>2, <2>3 DEF send_request
    <3>. HIDE DEF d
    <3>2. /\ d.fault = "stale" /\ d.conn = c.conn /\ d.life = c.life
          /\ d.revived = c.revived /\ d.client = c.client /\ d.denied = c.denied
          BY <3>1 DEF ResourceSetRec
    <3>. QED BY <3>2 DEF Drifts, Settling, d
  <2>4. CASE /\ c.client # "created"
             /\ ~(Head(c.reqlist).msgtyp # "register" /\ dangling(c))
    <3>1. d = send_first(c) BY <1>2, <2>4 DEF send_request
    <3>. QED BY <2>1, <2>4, <3>1, SendFirstDrifts
  <2>. QED BY <2>2, <2>3, <2>4
<1>. QED BY <1>1, <1>2
-----------------------------------------------------------------------------
(* New requests.  A set that has any is connecting or ready.               *)
Occupied(c) == c.reqlist # <<>> => c.client # "created"

LEMMA EnqueueKeeps ==
    ASSUME NEW c \in ResourceSetRec, NEW types \in Seq(MsgType)
    PROVE  LET d == enqueue(c, types)
           IN  /\ d \in ResourceSetRec /\ Alike(c, d)
               /\ Placed(c) => Placed(d)
<1>. DEFINE d == enqueue(c, types)
            new == [i \in 1..Len(types) |-> [msgtyp |-> types[i],
                                              reqno  |-> c.reqno + i,
                                              busy   |-> FALSE]]
<1>1. d \in ResourceSetRec /\ new \in Seq(Request)
  <2>1. Len(types) \in Nat /\ c.reqno \in Nat BY DEF ResourceSetRec
  <2>2. \A i \in 1..Len(types) : new[i] \in Request BY <2>1 DEF Request
  <2>. QED BY <2>1, <2>2, EnqueueType
<1>2. /\ Alike(c, d) /\ d.path = c.path /\ d.rset = c.rset
      /\ d.reqlist = c.reqlist \o new
      BY DEF enqueue, Alike, ResourceSetRec
<1>. HIDE DEF d, new
<1>3. c.reqlist # <<>> => d.reqlist # <<>> /\ Head(d.reqlist) = Head(c.reqlist)
  <2>1. c.reqlist \in Seq(Request) BY DEF ResourceSetRec
  <2>. QED BY <1>1, <1>2, <2>1
<1>4. Placed(c) => Placed(d)
      BY <1>2, <1>3 DEF Placed, Led, Leaving, UnregisterOut
<1>. QED BY <1>1, <1>2, <1>4 DEF d

LEMMA PushDrifts ==
    ASSUME NEW c \in ResourceSetRec, NEW t \in MsgType, c.fault = "none"
    PROVE  LET d == push_request(c, t)
           IN  /\ d \in ResourceSetRec /\ Drifts(c, d)
               /\ Occupied(c) => Settling(d)
               /\ d.fault = "none" /\ Placed(c) => Placed(d)
<1>. DEFINE types == <<t>>
            e == enqueue(c, types)
            d == push_request(c, t)
<1>1. types \in Seq(MsgType) OBVIOUS
<1>. HIDE DEF types
<1>2. e \in ResourceSetRec /\ Alike(c, e) /\ (Placed(c) => Placed(e))
      BY <1>1, EnqueueKeeps
<1>3. d = IF c.client = "created" THEN c ELSE send_request(e)
      BY DEF push_request, types
<1>4. d \in ResourceSetRec BY <1>2, <1>3, SendRequestType
<1>. HIDE DEF e, d
<1>5. CASE c.client = "created"
      BY <1>3, <1>4, <1>5 DEF Drifts, Occupied, Settling, d
<1>6. CASE c.client # "created"
  <2>1. Fit(e) /\ e.fault = "none" BY <1>2, <1>6 DEF Fit, Alike
  <2>2. /\ Drifts(e, d) /\ Settling(d)
        /\ d.fault = "none" /\ Placed(e) => Placed(d)
        BY <1>2, <1>3, <1>6, <2>1, SendRequestDrifts
  <2>. QED BY <1>2, <1>4, <2>2 DEF Alike, Drifts, d
<1>. QED BY <1>5, <1>6

LEMMA ConnectDrifts ==
    ASSUME NEW c \in ResourceSetRec, c.fault = "none"
    PROVE  LET d == connect_to_manager(c)
           IN  /\ d.conn = c.conn /\ d.life = c.life /\ d.revived = c.revived
               /\ ~Dozing(d) /\ Settling(d)
               /\ d.fault = "none" /\ Placed(c) => Placed(d)
<1>. DEFINE b == [c EXCEPT !.client = "connecting", !.denied = FALSE]
            d == push_request(b, "register")
            msgs == connect_messages(d)
            e == enqueue(d, msgs)
<1>1. /\ b \in ResourceSetRec /\ b.client = "connecting" /\ b.fault = "none"
      /\ b.conn = c.conn /\ b.life = c.life /\ b.revived = c.revived
      /\ b.path = c.path /\ b.rset = c.rset /\ b.reqlist = c.reqlist
      BY DEF ResourceSetRec
<1>. HIDE DEF b
<1>2. Occupied(b) /\ (Placed(c) => Placed(b)) /\ "register" \in MsgType
      BY <1>1 DEF Occupied, Placed, Led, Leaving, UnregisterOut, MsgType
<1>3. /\ d \in ResourceSetRec /\ Drifts(b, d) /\ Settling(d)
      /\ d.fault = "none" /\ Placed(b) => Placed(d)
      BY <1>1, <1>2, PushDrifts
<1>4. connect_to_manager(c) = IF d.client = "created" \/ d.fault # "none"
                              THEN d ELSE e
      BY DEF connect_to_manager, b
<1>. HIDE DEF d
<1>5. ~Dozing(d) /\ d.conn = c.conn /\ d.life = c.life /\ d.revived = c.revived
      BY <1>1, <1>3 DEF Drifts, Dozing
<1>6. msgs \in Seq(MsgType) BY <1>3, ConnectMessagesType
<1>. HIDE DEF msgs
<1>7. Alike(d, e) /\ (Placed(d) => Placed(e)) BY <1>3, <1>6, EnqueueKeeps
<1>. HIDE DEF e
<1>8. CASE d.client = "created" \/ d.fault # "none"
      BY <1>2, <1>3, <1>4, <1>5, <1>8
<1>9. CASE ~(d.client = "created" \/ d.fault # "none")
  <2>1. ~Dozing(e) /\ Settling(e) BY <1>7, <1>9 DEF Alike, Dozing, Settling
  <2>. QED BY <1>2, <1>3, <1>4, <1>5, <1>7, <1>9, <2>1 DEF Alike
<1>. QED BY <1>8, <1>9
-----------------------------------------------------------------------------
(* What a step may do to a set, but for the loss of the manager and its    *)
(* unregistering the set.                                                  *)
Stirs(c, d) ==
    /\ d.conn = c.conn \/ (c.life = "none" /\ d.life = "live")
    /\ d.life = "none" => c.life = "none"
    /\ Dozing(d) => Dozing(c)

(* A set under a manager that stays.                                       *)
Calm(c) ==
    /\ c.life = "live" => ~c.revived
    /\ c.fault # "none" => c.life = "live"
    /\ c.fault = "spin" => c.denied
    /\ c.fault = "none" /\ c.life = "live" => Placed(c) /\ Occupied(c)
    /\ c.fault = "none" /\ c.life = "freed" => ~c.path

LEMMA PushStirs ==
    ASSUME NEW c \in ResourceSetRec, c.fault = "none", c.life = "live",
           NEW b \in ResourceSetRec, Alike(c, b), b.reqlist = c.reqlist,
           b.path = c.path, b.rset = c.rset, NEW t \in MsgType
    PROVE  LET d == push_request(b, t)
           IN  Stirs(c, d) /\ (Calm(c) => Calm(d))
<1>. DEFINE d == push_request(b, t)
<1>1. /\ Drifts(b, d) /\ (Occupied(b) => Settling(d))
      /\ d.fault = "none" /\ Placed(b) => Placed(d)
      BY PushDrifts DEF Alike
<1>. HIDE DEF d
<1>2. /\ d.conn = c.conn /\ d.life = c.life /\ d.revived = c.revived
      /\ Dozing(d) => Dozing(c)
      BY <1>1 DEF Drifts, Alike, Dozing
<1>3. Occupied(c) = Occupied(b) /\ Placed(c) = Placed(b)
      BY DEF Alike, Occupied, Placed, Led, Leaving, UnregisterOut
<1>4. Calm(c) => Calm(d)
      BY <1>1, <1>2, <1>3 DEF Calm, Settling, Occupied
<1>. QED BY <1>2, <1>4 DEF Stirs, d

LEMMA SameStirs ==
    ASSUME NEW c, NEW d, Alike(c, d), d.reqlist = c.reqlist,
           d.path = c.path, d.rset = c.rset
    PROVE  Stirs(c, d) /\ (Calm(c) => Calm(d))
BY DEF Alike, Stirs, Calm, Dozing, Occupied, Placed, Led, Leaving, UnregisterOut

LEMMA OperationsStir ==
    ASSUME NEW c \in ResourceSetRec, c.fault = "none", c.life = "live"
    PROVE  /\ LET d == resource_set_destroy(c) IN Stirs(c, d) /\ (Calm(c) => Calm(d))
           /\ LET d == resource_set_acquire(c) IN Stirs(c, d) /\ (Calm(c) => Calm(d))
           /\ LET d == resource_set_release(c) IN Stirs(c, d) /\ (Calm(c) => Calm(d))
<1>1. {"unregister", "acquire", "release"} \subseteq MsgType BY DEF MsgType
<1>2. Stirs(c, c) BY DEF Stirs
<1>3. LET d == push_request([c EXCEPT !.held = FALSE], "unregister")
      IN  Stirs(c, d) /\ (Calm(c) => Calm(d))
  <2>. DEFINE b == [c EXCEPT !.held = FALSE]
  <2>1. /\ b \in ResourceSetRec /\ Alike(c, b) /\ b.reqlist = c.reqlist
        /\ b.path = c.path /\ b.rset = c.rset
        BY DEF ResourceSetRec, Alike
  <2>. HIDE DEF b
  <2>2. LET d == push_request(b, "unregister")
        IN  Stirs(c, d) /\ (Calm(c) => Calm(d))
        BY <1>1, <2>1, PushStirs
  <2>. QED BY <2>2 DEF b
<1>4. ASSUME NEW a \in BOOLEAN, NEW t \in {"acquire", "release"}
      PROVE  LET d == push_request([c EXCEPT !.acquire = a], t)
             IN  Stirs(c, d) /\ (Calm(c) => Calm(d))
  <2>. DEFINE b == [c EXCEPT !.acquire = a]
  <2>1. /\ b \in ResourceSetRec /\ Alike(c, b) /\ b.reqlist = c.reqlist
        /\ b.path = c.path /\ b.rset = c.rset
        BY DEF ResourceSetRec, Alike
  <2>. HIDE DEF b
  <2>2. t \in MsgType BY <1>1
  <2>3. LET d == push_request(b, t) IN Stirs(c, d) /\ (Calm(c) => Calm(d))
        BY <2>1, <2>2, PushStirs
  <2>. QED BY <2>3 DEF b
<1>. QED BY <1>2, <1>3, <1>4 DEF resource_set_destroy, resource_set_acquire,
         resource_set_release

LEMMA ConfigureResourcesStirs ==
    ASSUME NEW c \in ResourceSetRec, c.fault = "none", c.life = "live",
           NEW mandatory \in SUBSET Resource, NEW optional \in SUBSET Resource
    PROVE  LET d == resource_set_configure_resources(c, mandatory, optional)
           IN  Stirs(c, d) /\ (Calm(c) => Calm(d))
<1>. DEFINE flags == [all |-> mandatory \cup optional,
                      opt |-> optional \ mandatory]
            b == [c EXCEPT !.resources = flags]
<1>1. flags \in ResourceFlags BY DEF ResourceFlags
<1>. HIDE DEF flags
<1>2. /\ b \in ResourceSetRec /\ Alike(c, b) /\ b.reqlist = c.reqlist
      /\ b.path = c.path /\ b.rset = c.rset
      BY <1>1 DEF ResourceSetRec, Alike
<1>3. "update" \in MsgType BY DEF MsgType
<1>. HIDE DEF b
<1>4. LET d == push_request(b, "update") IN Stirs(c, d) /\ (Calm(c) => Calm(d))
      BY <1>2, <1>3, PushStirs
<1>5. Stirs(c, c) BY DEF Stirs
<1>. QED BY <1>4, <1>5 DEF resource_set_configure_resources, b, flags

LEMMA ConfigureStirs ==
    ASSUME NEW c \in ResourceSetRec, c.fault = "none", c.life = "live",
           NEW kind \in Kind, NEW given \in ConfigValue
    PROVE  LET d == configure(c, kind, given)
           IN  Stirs(c, d) /\ (Calm(c) => Calm(d))
<1>. DEFINE configs == configs_after(c, kind, given)
            b == [c EXCEPT !.configs = configs]
<1>1. configs \in Seq(Config) BY ConfigsAfterType
<1>. HIDE DEF configs
<1>2. /\ b \in ResourceSetRec /\ Alike(c, b) /\ b.reqlist = c.reqlist
      /\ b.path = c.path /\ b.rset = c.rset
      BY <1>1 DEF ResourceSetRec, Alike
<1>3. kind \in MsgType BY DEF MsgType, Kind
<1>. HIDE DEF b
<1>4. LET d == push_request(b, kind) IN Stirs(c, d) /\ (Calm(c) => Calm(d))
      BY <1>2, <1>3, PushStirs
<1>5. Stirs(c, c) BY DEF Stirs
<1>. QED BY <1>4, <1>5 DEF configure, b, configs

(* A set that connects does not doze, whatever comes of it.                *)
LEMMA ConnectStirs ==
    ASSUME NEW c \in ResourceSetRec, c.fault = "none", c.life = "live"
    PROVE  LET d == connect_to_manager(c)
           IN  /\ d.conn = c.conn /\ d.life = "live" /\ ~Dozing(d)
               /\ Calm(c) => Calm(d)
<1>. DEFINE d == connect_to_manager(c)
<1>1. /\ d.conn = c.conn /\ d.life = c.life /\ d.revived = c.revived
      /\ ~Dozing(d) /\ Settling(d)
      /\ d.fault = "none" /\ Placed(c) => Placed(d)
      BY ConnectDrifts
<1>. HIDE DEF d
<1>2. Calm(c) => Calm(d) BY <1>1 DEF Calm, Settling, Occupied
<1>. QED BY <1>1, <1>2 DEF d

LEMMA CreateStirs ==
    ASSUME NEW conn \in BOOLEAN, NEW mandatory \in SUBSET Resource,
           NEW optional \in SUBSET Resource
    PROVE  LET d == resource_set_create(conn, mandatory, optional)
           IN  d.life = "live" /\ ~Dozing(d) /\ Calm(d)
<1>. DEFINE flags == [all |-> mandatory \cup optional,
                      opt |-> optional \ mandatory]
            b == [NoSet EXCEPT !.life = "live", !.held = TRUE, !.conn = conn,
                               !.resources = flags]
<1>1. flags \in ResourceFlags BY DEF ResourceFlags
<1>2. NoSet \in ResourceSetRec
      BY DEF NoSet, ResourceSetRec, NoFlags, ResourceFlags, Freed, Rset, RsetState
<1>. HIDE DEF flags
<1>3. b \in ResourceSetRec BY <1>1, <1>2 DEF ResourceSetRec
<1>4. /\ b.fault = "none" /\ b.reqlist = <<>> /\ b.life = "live"
      /\ b.rset.state = "freed" /\ ~b.revived
      BY DEF NoSet, Freed
<1>. HIDE DEF b
<1>5. Calm(b) BY <1>4 DEF Calm, Placed, Led, resset_find, Occupied
<1>6. LET d == connect_to_manager(b)
      IN  d.life = "live" /\ ~Dozing(d) /\ (Calm(b) => Calm(d))
      BY <1>3, <1>4, ConnectStirs
<1>. QED BY <1>4, <1>5, <1>6 DEF b, flags, resource_set_create

LEMMA ManagerIsUpStirs ==
    ASSUME NEW c \in ResourceSetRec, c.fault = "none"
    PROVE  LET d == manager_is_up(c)
           IN  /\ Stirs(c, d) /\ (Calm(c) => Calm(d))
               /\ Dozing(d) => ~c.conn
<1>1. CASE c.life = "live" /\ c.conn /\ c.client = "created"
      BY <1>1, ConnectStirs DEF manager_is_up, Stirs
<1>2. CASE ~(c.life = "live" /\ c.conn /\ c.client = "created")
      BY <1>2 DEF manager_is_up, Dozing, Stirs
<1>. QED BY <1>1, <1>2
-----------------------------------------------------------------------------
(* Notifications, all but that the manager has dropped the set.            *)
LEMMA NoticesStir ==
    ASSUME NEW c \in ResourceSetRec, c.fault = "none", Sound(c, 0), c.path
    PROVE  /\ \A granted, auto \in BOOLEAN :
                 LET d == receive_grant_message(c, granted, auto)
                 IN  Stirs(c, d) /\ (Calm(c) => Calm(d))
           /\ LET d == receive_advice_message(c) IN Stirs(c, d) /\ (Calm(c) => Calm(d))
           /\ LET d == receive_release_message(c) IN Stirs(c, d) /\ (Calm(c) => Calm(d))
<1>1. LET d == [c EXCEPT !.fault = "stale"]
      IN  d.conn = c.conn /\ d.life = c.life
      BY DEF ResourceSetRec
<1>2. CASE c.life = "freed"
  <2>1. ~Calm(c) BY <1>2 DEF Calm
  <2>2. LET d == [c EXCEPT !.fault = "stale"] IN Stirs(c, d)
        BY <1>1, <1>2 DEF Stirs, Dozing
  <2>. QED BY <1>2, <2>1, <2>2 DEF receive_grant_message, receive_advice_message,
           receive_release_message
<1>3. CASE c.life # "freed"
  <2>1. c.life = "live" BY <1>3 DEF Sound, ResourceSetRec
  <2>2. Stirs(c, c) BY DEF Stirs
  <2>. DEFINE b == [c EXCEPT !.acquire = FALSE]
  <2>3. /\ b \in ResourceSetRec /\ Alike(c, b) /\ b.reqlist = c.reqlist
        /\ b.path = c.path /\ b.rset = c.rset
        BY DEF ResourceSetRec, Alike
  <2>4. \A granted, auto \in BOOLEAN : receive_grant_message(c, granted, auto) \in {c, b}
        BY <1>3 DEF receive_grant_message
  <2>5. receive_advice_message(c) = c BY <1>3 DEF receive_advice_message
  <2>6. receive_release_message(c) = IF c.resset THEN push_request(b, "release") ELSE c
        BY <1>3 DEF receive_release_message
  <2>7. "release" \in MsgType BY DEF MsgType
  <2>. HIDE DEF b
  <2>8. Stirs(c, b) /\ (Calm(c) => Calm(b)) BY <2>3, SameStirs
  <2>9. LET d == push_request(b, "release") IN Stirs(c, d) /\ (Calm(c) => Calm(d))
        BY <2>1, <2>3, <2>7, PushStirs
  <2>. QED BY <2>2, <2>4, <2>5, <2>6, <2>8, <2>9
<1>. QED BY <1>2, <1>3

(* The manager is lost: sets that were connected doze, and these have a    *)
(* connection to the bus.                                                  *)
LEMMA LinkDownDozes ==
    ASSUME NEW c \in ResourceSetRec, c.fault = "none", QueueInv(c),
           Dozing(c) => c.conn
    PROVE  LET d == link_down(c)
           IN  d.conn = c.conn /\ d.life = c.life /\ (Dozing(d) => d.conn)
<1>. DEFINE told == IF c.rset.state = "connected" THEN disconnect_from_manager(c)
                                                  ELSE c
            gone == dbus_disconnect_from_manager(told)
<1>1. c.resset => c.conn BY DEF QueueInv, Settled
<1>2. /\ told \in ResourceSetRec /\ told.conn = c.conn /\ told.life = c.life
      /\ Dozing(told) => told.conn
  <2>1. LET t == [c EXCEPT !.fault = "stale"]
        IN  /\ t \in ResourceSetRec /\ t.conn = c.conn /\ t.life = c.life
            /\ t.client = c.client /\ t.denied = c.denied
        BY DEF ResourceSetRec
  <2>2. LET t == [c EXCEPT !.client = "created"]
        IN  t \in ResourceSetRec /\ t.conn = c.conn /\ t.life = c.life
        BY DEF ResourceSetRec
  <2>. QED BY <1>1, <2>1, <2>2 DEF disconnect_from_manager, Dozing
<1>. HIDE DEF told
<1>3. /\ gone.conn = told.conn /\ gone.life = told.life
      /\ gone.client = told.client /\ gone.denied = told.denied
      BY <1>2 DEF dbus_disconnect_from_manager, ResourceSetRec
<1>. HIDE DEF gone
<1>4. link_down(c) = IF resset_find(c.rset) THEN gone ELSE c
      BY DEF link_down, gone, told
<1>. QED BY <1>2, <1>3, <1>4 DEF Dozing
-----------------------------------------------------------------------------
(* Answers.                                                                *)
LEMMA ReplyDoneKeeps ==
    ASSUME NEW c \in ResourceSetRec, NEW reply
    PROVE  LET d == reply_done(c, reply)
           IN  /\ d.conn = c.conn /\ d.life = c.life /\ d.revived = c.revived
               /\ d.client = c.client /\ d.denied = c.denied
               /\ d.reqlist = c.reqlist /\ d.path = c.path
               /\ resset_find(d.rset) => resset_find(c.rset)
               /\ d.fault = IF c.fault = "none" /\ c.rset.refcnt < 2
                            THEN "stale" ELSE c.fault
<1>. DEFINE d == reply_done(c, reply)
            r == resset_unref(resset_unref(c.rset))
<1>1. c.rset \in Rset BY DEF ResourceSetRec
<1>2. r.state \in {"freed", c.rset.state}
  <2>1. ASSUME NEW x \in Rset
        PROVE  resset_unref(x) \in Rset
               /\ resset_unref(x).state \in {"freed", x.state}
        BY UnrefType DEF resset_unref, Freed, Rset
  <2>. HIDE DEF r
  <2>. QED BY <1>1, <2>1 DEF r
<1>. HIDE DEF r
<1>3. /\ d.conn = c.conn /\ d.life = c.life /\ d.revived = c.revived
      /\ d.client = c.client /\ d.denied = c.denied
      /\ d.reqlist = c.reqlist /\ d.path = c.path /\ d.rset = r
      /\ d.fault = IF c.fault = "none" /\ c.rset.refcnt < 2
                   THEN "stale" ELSE c.fault
      BY DEF reply_done, ResourceSetRec, r
<1>. HIDE DEF d
<1>. QED BY <1>2, <1>3 DEF resset_find, d

(* What the answer does to the resset_t: only one to REGISTER or           *)
(* UNREGISTER can bring it back to life.                                   *)
LEMMA AnsweredStirs ==
    ASSUME NEW c \in ResourceSetRec, resset_find(c.rset), NEW t, NEW err \in BOOLEAN
    PROVE  LET d == answered(c, t, err)
           IN  /\ d.conn = c.conn /\ d.life = c.life /\ d.fault = c.fault
               /\ d.client = c.client /\ d.held = c.held /\ d.denied = c.denied
               /\ d.reqlist = c.reqlist /\ d.path = c.path
               /\ resset_find(d.rset) /\ d.rset.refcnt >= c.rset.refcnt
               /\ d.revived /\ ~c.revived =>
                     \/ t = "register" /\ ~c.path
                     \/ t = "unregister"
<1>. DEFINE d == answered(c, t, err)
<1>1. c.rset \in Rset /\ c.rset.refcnt \in Nat BY DEF ResourceSetRec, Rset
<1>2. /\ d.conn = c.conn /\ d.life = c.life /\ d.fault = c.fault
      /\ d.client = c.client /\ d.held = c.held /\ d.denied = c.denied
      /\ d.reqlist = c.reqlist /\ d.path = c.path
      BY DEF answered, ResourceSetRec
<1>3. d.revived /\ ~c.revived =>
         (t = "register" /\ ~c.path) \/ t = "unregister"
      BY DEF answered, ResourceSetRec
<1>4. \/ d.rset = [c.rset EXCEPT !.state = IF err THEN "killed" ELSE "connected"]
      \/ d.rset = [resset_ref(c.rset) EXCEPT !.state = "connected"]
      \/ d.rset = c.rset
      BY DEF answered, ResourceSetRec
<1>. HIDE DEF d
<1>5. /\ d.rset.state \in {"killed", "connected", c.rset.state}
      /\ d.rset.refcnt \in {c.rset.refcnt, c.rset.refcnt + 1}
  <2>1. /\ resset_ref(c.rset) \in Rset
        /\ resset_ref(c.rset).refcnt = c.rset.refcnt + 1
        BY <1>1 DEF resset_ref, Rset
  <2>. QED BY <1>1, <1>4, <2>1 DEF Rset
<1>6. resset_find(d.rset) BY <1>5 DEF resset_find
<1>7. d.rset.refcnt >= c.rset.refcnt BY <1>1, <1>5
<1>. QED BY <1>2, <1>3, <1>6, <1>7 DEF d

(* A status callback that goes on with the next request.                   *)
LEMMA ServedStirs ==
    ASSUME NEW c, c.fault = "none", NEW q, NEW R, NEW k, Idle(q, R, k),
           q.conn = c.conn, q.life = c.life, Dozing(q) => Dozing(c),
           q.client = "created" => q.denied \/ c.client = "created",
           NEW reply
    PROVE  LET d == reply_done(send_request(q), reply)
           IN  /\ Stirs(c, d) /\ d.life = c.life /\ d.revived = q.revived
               /\ Led(q) /\ (q.client = "created" => q.denied) =>
                     /\ d.fault = "spin" => d.denied
                     /\ d.fault = "none" => Placed(d) /\ Occupied(d)
<1>. DEFINE b == send_request(q)
            d == reply_done(b, reply)
<1>1. q \in ResourceSetRec /\ q.fault = "none" BY DEF Idle
<1>2. b \in ResourceSetRec BY <1>1, SendRequestType
<1>3. /\ Drifts(q, b) /\ (Fit(q) => Settling(b))
      /\ b.fault = "none" /\ Placed(q) => Placed(b)
      BY <1>1, SendRequestDrifts
<1>4. q.reqlist # <<>> => ~Head(q.reqlist).busy
  <2>. SUFFICES ASSUME q.reqlist # <<>> PROVE ~Head(q.reqlist).busy OBVIOUS
  <2>1. q.reqlist \in Seq(Request) BY <1>1 DEF ResourceSetRec
  <2>2. Head(q.reqlist) = q.reqlist[1] /\ 1 \in 1..Len(q.reqlist) BY <2>1
  <2>. QED BY <2>2 DEF Idle, NoneBusy
<1>. HIDE DEF b
<1>5. /\ d.conn = b.conn /\ d.life = b.life /\ d.revived = b.revived
      /\ d.client = b.client /\ d.denied = b.denied
      /\ d.reqlist = b.reqlist /\ d.path = b.path
      /\ resset_find(d.rset) => resset_find(b.rset)
      /\ d.fault = IF b.fault = "none" /\ b.rset.refcnt < 2
                   THEN "stale" ELSE b.fault
      BY <1>2, ReplyDoneKeeps
<1>. HIDE DEF d
<1>6. Stirs(c, d) /\ d.life = c.life /\ d.revived = q.revived
      BY <1>3, <1>5 DEF Drifts, Stirs, Dozing
<1>7. ASSUME Led(q), q.client = "created" => q.denied
      PROVE  /\ d.fault = "spin" => d.denied
             /\ d.fault = "none" => Placed(d) /\ Occupied(d)
  <2>1. Fit(q) BY <1>4, <1>7 DEF Fit
  <2>2. Settling(b) /\ (b.fault = "none" => Placed(b))
        BY <1>3, <1>7, <2>1 DEF Placed
  <2>3. d.fault = "none" => b.fault = "none" BY <1>5
  <2>4. d.fault = "none" => Placed(d)
        BY <1>5, <2>2, <2>3 DEF Placed, Led, Leaving, UnregisterOut
  <2>5. d.fault = "spin" => b.fault = "spin" BY <1>5
  <2>. QED BY <1>5, <2>2, <2>3, <2>4, <2>5 DEF Settling, Occupied
<1>. QED BY <1>6, <1>7 DEF b, d

LEMMA StatusMethodStirs ==
    ASSUME NEW c \in ResourceSetRec, QueueInv(c), c.fault = "none", Sound(c, 0),
           NEW reply \in c.replies, NEW err \in BOOLEAN
    PROVE  LET d == status_method(c, reply, err)
           IN  Stirs(c, d) /\ (Calm(c) => Calm(d))
<1>. DEFINE t == reply.msgtyp
            a == answered(c, t, err)
            p == pop_request(a, reply.reqno)
            d == status_method(c, reply, err)
<1>1. c.reqlist # <<>> BY DEF QueueInv, Settled
<1>2. /\ Ascending(c.reqlist, c.reqno) /\ HeadBusy(c.reqlist)
      /\ c.resset /\ c.conn /\ Backed(c, 2)
      /\ c.replies = {Pending(Head(c.reqlist))}
      /\ reply = Pending(Head(c.reqlist)) /\ c.replies = {reply}
      BY <1>1 DEF QueueInv, Settled
<1>3. /\ c.life = "live" /\ Kept(c)
      /\ ~c.revived => Orderly(c, 0)
      BY <1>1 DEF Sound
<1>4. UnregisterOut(c) = (t = "unregister") BY <1>1, <1>2 DEF UnregisterOut, Pending
<1>5. ~c.revived => Counted(c, 2) BY <1>1, <1>3 DEF Orderly
<1>6. Sound(d, 0) BY StatusMethodSound
<1>7. CASE ~resset_find(c.rset)
  <2>1. d = [c EXCEPT !.fault = "stale"] BY <1>7 DEF status_method
  <2>. HIDE DEF d
  <2>2. d.conn = c.conn /\ d.life = c.life /\ d.client = c.client
        /\ d.denied = c.denied
        BY <2>1 DEF ResourceSetRec
  <2>3. c.revived BY <1>5, <1>7 DEF Counted, resset_find
  <2>4. ~Calm(c) BY <1>3, <2>3 DEF Calm
  <2>. QED BY <2>2, <2>4 DEF Stirs, Dozing, d
<1>8. CASE resset_find(c.rset)
  <2>0. d = reply_done(status_cb(a, reply, err), reply)
        BY <1>8 DEF status_method
  <2>. HIDE DEF t, d
  <2>1. /\ a.conn = c.conn /\ a.life = c.life /\ a.fault = c.fault
        /\ a.client = c.client /\ a.held = c.held /\ a.denied = c.denied
        /\ a.reqlist = c.reqlist /\ a.path = c.path
        /\ resset_find(a.rset) /\ a.rset.refcnt >= c.rset.refcnt
        /\ a.revived /\ ~c.revived =>
              (t = "register" /\ ~c.path) \/ t = "unregister"
        BY <1>8, AnsweredStirs
  <2>2. a \in ResourceSetRec BY AnsweredType
  <2>3. /\ a.reqno = c.reqno /\ a.resset = c.resset /\ a.replies = c.replies
        /\ Backed(a, 2)
    <3>1. \A k \in Nat : Backed(c, k) =>
             /\ a.reqno = c.reqno /\ a.resset = c.resset /\ a.replies = c.replies
             /\ Backed(a, k)
          BY <1>8, AnsweredKeeps
    <3>. HIDE DEF a
    <3>. QED BY <1>2, <3>1
  <2>. HIDE DEF a
  <2>4. Popped(a, reply, p)
    <3>1. Kept(a) BY <1>2, <1>3, <1>4, <2>1, <2>2 DEF Kept
    <3>. QED BY <1>1, <1>2, <2>1, <2>2, <2>3, <3>1, PoppedSound
  <2>5. /\ p \in ResourceSetRec /\ p.conn = a.conn /\ p.denied = a.denied
    <3>1. p \in ResourceSetRec BY <2>4 DEF Popped, Idle
    <3>2. p.conn = a.conn /\ p.denied = a.denied
          BY <2>2 DEF pop_request, ResourceSetRec
    <3>. QED BY <3>1, <3>2
  <2>6. /\ Idle(p, {reply}, 2) /\ queued(a, reply.reqno)
        /\ p.life = c.life /\ p.client = c.client /\ p.path = c.path
        /\ p.revived = a.revived /\ p.rset = a.rset /\ p.fault = "none"
        BY <2>1, <2>4 DEF Popped
  <2>. HIDE DEF p
  <2>7. status_cb(a, reply, err) =
           IF t = "register" THEN send_request(connect_complete_cb(p, err))
           ELSE IF t = "unregister" THEN disconnect_complete_cb(p)
           ELSE send_request(p)
        BY <1>2, <1>3, <2>1, <2>3, <2>6 DEF status_cb, p, t
  <2>8. Calm(c) => /\ ~c.revived /\ c.client # "created" /\ Placed(c)
                   /\ t # "unregister" => c.path
        BY <1>1, <1>3, <1>4, <1>8
           DEF Calm, Occupied, Placed, Led, Leaving
  <2>9. CASE t = "register"
    <3>. DEFINE q == connect_complete_cb(p, err)
    <3>1. /\ q \in ResourceSetRec /\ q.client = (IF err THEN "created" ELSE "ready")
          /\ q.denied = err /\ q.conn = p.conn /\ q.life = p.life
          /\ q.path = p.path /\ q.rset = p.rset /\ q.fault = p.fault
          /\ q.revived = p.revived /\ q.reqlist = p.reqlist /\ q.reqno = p.reqno
          /\ q.replies = p.replies /\ q.resset = p.resset
          BY <2>5 DEF connect_complete_cb, ResourceSetRec
    <3>2. d = reply_done(send_request(q), reply) BY <2>0, <2>7, <2>9
    <3>. HIDE DEF q
    <3>3. Idle(q, {reply}, 2) BY <2>6, <3>1 DEF Idle, Backed
    <3>4. q.client = "created" => q.denied BY <3>1
    <3>5. /\ Stirs(c, d) /\ d.life = q.life /\ d.revived = q.revived
          /\ Led(q) => /\ d.fault = "spin" => d.denied
                       /\ d.fault = "none" => Placed(d) /\ Occupied(d)
      <4>1. q.conn = c.conn /\ q.life = c.life /\ ~Dozing(q)
            BY <2>1, <2>5, <2>6, <3>1, <3>4 DEF Dozing
      <4>. QED BY <3>2, <3>3, <3>4, <4>1, ServedStirs
    <3>6. Calm(c) => Calm(d)
      <4>. SUFFICES ASSUME Calm(c) PROVE Calm(d) OBVIOUS
      <4>1. c.path /\ ~c.revived BY <2>8, <2>9
      <4>2. ~q.revived /\ q.path BY <2>1, <2>6, <2>9, <3>1, <4>1
      <4>3. Led(q) /\ d.life = "live" BY <1>3, <2>6, <3>1, <3>5, <4>2 DEF Led
      <4>. QED BY <3>5, <4>2, <4>3 DEF Calm
    <3>. QED BY <3>5, <3>6 DEF d
  <2>10. CASE t = "unregister"
    <3>. DEFINE q == disconnect_complete_cb(p)
    <3>1. q \in ResourceSetRec
      <4>1. <<>> \in Seq(Request) OBVIOUS
      <4>. QED BY <2>5, <4>1 DEF disconnect_complete_cb, ResourceSetRec
    <3>2. /\ q.life = "freed" /\ q.conn = p.conn /\ q.path = p.path
          /\ q.rset = p.rset /\ q.fault = p.fault
          BY <2>5 DEF disconnect_complete_cb, ResourceSetRec
    <3>3. d = reply_done(q, reply) BY <2>0, <2>7, <2>10
    <3>. HIDE DEF q
    <3>4. /\ d.conn = q.conn /\ d.life = q.life /\ d.path = q.path
          /\ d.fault = IF q.fault = "none" /\ q.rset.refcnt < 2
                       THEN "stale" ELSE q.fault
          BY <3>1, <3>3, ReplyDoneKeeps
    <3>5. Stirs(c, d) BY <2>1, <2>5, <3>2, <3>4 DEF Stirs, Dozing
    <3>6. Calm(c) => Calm(d)
      <4>. SUFFICES ASSUME Calm(c) PROVE Calm(d) OBVIOUS
      <4>1. ~c.revived BY <2>8
      <4>2. ~c.path /\ c.rset.refcnt \in {2, 2 + 1}
            BY <1>3, <1>4, <1>5, <2>10, <4>1 DEF Orderly, Counted
      <4>3. p.rset.refcnt >= c.rset.refcnt /\ p.rset.refcnt \in Nat
        <5>1. p.rset.refcnt \in Nat BY <2>5 DEF ResourceSetRec, Rset
        <5>. QED BY <2>1, <2>6, <5>1
      <4>4. ~(p.rset.refcnt < 2) BY <4>2, <4>3
      <4>5. d.fault = "none" /\ d.life = "freed" /\ ~d.path
            BY <2>6, <3>2, <3>4, <4>2, <4>4
      <4>. QED BY <4>5 DEF Calm
    <3>. QED BY <3>5, <3>6 DEF d
  <2>11. CASE t \notin {"register", "unregister"}
    <3>1. d = reply_done(send_request(p), reply) BY <2>0, <2>7, <2>11
    <3>2. /\ p.conn = c.conn /\ p.denied = c.denied /\ (Dozing(p) => Dozing(c))
          BY <2>1, <2>5, <2>6 DEF Dozing
    <3>3. /\ Stirs(c, d) /\ d.life = p.life /\ d.revived = p.revived
          /\ Led(p) /\ (p.client = "created" => p.denied) =>
                /\ d.fault = "spin" => d.denied
                /\ d.fault = "none" => Placed(d) /\ Occupied(d)
          BY <2>6, <3>1, <3>2, ServedStirs
    <3>4. Calm(c) => Calm(d)
      <4>. SUFFICES ASSUME Calm(c) PROVE Calm(d) OBVIOUS
      <4>1. c.path /\ ~c.revived /\ c.client # "created" BY <2>8, <2>11
      <4>2. ~p.revived /\ Led(p) /\ p.client # "created" /\ d.life = "live"
            BY <1>3, <2>1, <2>6, <2>11, <3>3, <4>1 DEF Led
      <4>. QED BY <3>3, <4>2 DEF Calm
    <3>. QED BY <3>3, <3>4 DEF d
  <2>. QED BY <2>9, <2>10, <2>11
<1>. QED BY <1>7, <1>8

-----------------------------------------------------------------------------
(* The queue of messages.  p is q with messages behind it that do not say  *)
(* that the manager is gone.                                               *)
HasUp(q) == \E i \in 1..Len(q) : q[i].kind = "up"

Recovers(q) ==
    \A i \in 1..Len(q) : q[i].kind = "down" =>
        \E j \in 1..Len(q) : j > i /\ q[j].kind = "up"

Lacks(q, kinds) == \A i \in 1..Len(q) : q[i].kind \notin kinds

Gains(q, p) ==
    /\ Len(p) \in Nat /\ Len(p) >= Len(q)
    /\ \A i \in 1..Len(q) : p[i] = q[i]
    /\ \A i \in (Len(q) + 1)..Len(p) : p[i].kind \notin {"down", "unregister"}

LEMMA GainsKeeps ==
    ASSUME NEW q, NEW p, Len(q) \in Nat, Gains(q, p)
    PROVE  /\ HasUp(q) => HasUp(p)
           /\ Recovers(q) => Recovers(p)
           /\ \A kinds \in SUBSET {"down", "unregister"} :
                 Lacks(q, kinds) => Lacks(p, kinds)
<1>1. \A i \in 1..Len(q) : i \in 1..Len(p) /\ p[i] = q[i] BY DEF Gains
<1>2. \A i \in 1..Len(p) :
         i \in 1..Len(q) \/ p[i].kind \notin {"down", "unregister"}
      BY DEF Gains
<1>3. HasUp(q) => HasUp(p) BY <1>1 DEF HasUp
<1>4. Recovers(q) => Recovers(p) BY <1>1, <1>2 DEF Recovers
<1>5. \A kinds \in SUBSET {"down", "unregister"} :
         Lacks(q, kinds) => Lacks(p, kinds)
      BY <1>1, <1>2 DEF Lacks
<1>. QED BY <1>3, <1>4, <1>5

LEMMA AppendGains ==
    ASSUME NEW S, NEW q \in Seq(S), NEW m \in S,
           m.kind \notin {"down", "unregister"}
    PROVE  Gains(q, Append(q, m)) /\ (m.kind = "up" => Recovers(Append(q, m)))
           /\ (m.kind = "up" => HasUp(Append(q, m)))
<1>. DEFINE p == Append(q, m)
<1>1. /\ Len(p) = Len(q) + 1 /\ Len(q) \in Nat /\ p[Len(q) + 1] = m
      /\ \A i \in 1..Len(q) : p[i] = q[i]
      OBVIOUS
<1>. HIDE DEF p
<1>2. \A i \in (Len(q) + 1)..Len(p) : i = Len(q) + 1 BY <1>1
<1>3. Gains(q, p) BY <1>1, <1>2 DEF Gains
<1>4. Len(p) \in 1..Len(p) /\ Len(p) = Len(q) + 1 BY <1>1
<1>5. ASSUME m.kind = "up"
      PROVE  Recovers(p) /\ HasUp(p)
  <2>1. p[Len(p)].kind = "up" BY <1>1, <1>5
  <2>2. \A i \in 1..Len(p) : p[i].kind = "down" => Len(p) > i
        BY <1>1, <2>1
  <2>. QED BY <1>4, <2>1, <2>2 DEF Recovers, HasUp
<1>. QED BY <1>3, <1>5 DEF p

LEMMA TailKeeps ==
    ASSUME NEW S, NEW q \in Seq(S), q # <<>>
    PROVE  /\ Recovers(q) => Recovers(Tail(q))
           /\ HasUp(q) /\ Head(q).kind # "up" => HasUp(Tail(q))
           /\ Recovers(q) /\ Head(q).kind = "down" => HasUp(Tail(q))
           /\ \A kinds : Lacks(q, kinds) => Lacks(Tail(q), kinds)
<1>. DEFINE p == Tail(q)
<1>1. /\ Len(q) \in Nat /\ Len(q) > 0 /\ Len(p) = Len(q) - 1
      /\ \A i \in 1..Len(p) : p[i] = q[i + 1]
      /\ Head(q) = q[1]
      OBVIOUS
<1>. HIDE DEF p
<1>2. \A i \in 1..Len(p) : i + 1 \in 1..Len(q) /\ p[i] = q[i + 1] BY <1>1
<1>3. ASSUME NEW j \in 1..Len(q), j # 1
      PROVE  j - 1 \in 1..Len(p) /\ p[j - 1] = q[j]
  <2>1. j - 1 \in 1..Len(p) BY <1>1, <1>3
  <2>2. (j - 1) + 1 = j OBVIOUS
  <2>. QED BY <1>2, <2>1, <2>2
<1>4. Recovers(q) => Recovers(p)
  <2>. SUFFICES ASSUME Recovers(q), NEW i \in 1..Len(p), p[i].kind = "down"
                PROVE  \E j \in 1..Len(p) : j > i /\ p[j].kind = "up"
       BY DEF Recovers
  <2>1. PICK j \in 1..Len(q) : j > i + 1 /\ q[j].kind = "up"
        BY <1>2 DEF Recovers
  <2>2. j # 1 /\ j - 1 > i BY <2>1
  <2>. QED BY <1>3, <2>1, <2>2
<1>5. HasUp(q) /\ Head(q).kind # "up" => HasUp(p) BY <1>1, <1>3 DEF HasUp
<1>6. Recovers(q) /\ Head(q).kind = "down" => HasUp(p)
  <2>. SUFFICES ASSUME Recovers(q), q[1].kind = "down" PROVE HasUp(p) BY <1>1
  <2>1. PICK j \in 1..Len(q) : j > 1 /\ q[j].kind = "up" BY <1>1 DEF Recovers
  <2>. QED BY <1>3, <2>1 DEF HasUp
<1>7. \A kinds : Lacks(q, kinds) => Lacks(p, kinds) BY <1>2 DEF Lacks
<1>. QED BY <1>4, <1>5, <1>6, <1>7 DEF p
-----------------------------------------------------------------------------
(* The process.                                                            *)
StirsAll ==
    \A z \in Sets : Stirs(cs[z], cs'[z]) /\ (Calm(cs[z]) => Calm(cs'[z]))

LEMMA OneSetStirs ==
    ASSUME TypeOK, NEW s \in Sets, NEW d, Stirs(cs[s], d),
           Calm(cs[s]) => Calm(d), cs' = [cs EXCEPT ![s] = d]
    PROVE  StirsAll
<1>1. \A z \in Sets : cs'[z] = IF z = s THEN d ELSE cs[z] BY DEF TypeOK
<1>2. \A z \in Sets : Stirs(cs[z], cs[z]) BY DEF Stirs
<1>. QED BY <1>1, <1>2 DEF StirsAll

LEMMA NoSetStirs == ASSUME UNCHANGED cs PROVE StirsAll
BY DEF StirsAll, Stirs

LEMMA AppStirs ==
    ASSUME Inv, NEW s \in Sets, App(s)
    PROVE  StirsAll
<1>. DEFINE c == cs[s]
<1>1. c \in ResourceSetRec /\ Sound(c, 0) /\ TypeOK
      BY DEF Inv, TypeOK, Sounds
<1>2. c.fault = "none"
      BY DEF App, Create, Destroy, Acquire, Release, ConfigureResources,
             Configure, CallAPI, Running
<1>3. c.held => c.life = "live" BY <1>1, <1>2 DEF Sound, Kept
<1>4. ASSUME NEW d, CallAPI(s, d), Stirs(c, d), Calm(c) => Calm(d)
      PROVE  StirsAll
      BY <1>1, <1>4, OneSetStirs DEF CallAPI
<1>5. ASSUME NEW f \in FlagChoice
      PROVE  f.mandatory \in SUBSET Resource /\ f.optional \in SUBSET Resource
      BY ChoiceAssumption
<1>. HIDE DEF c
<1>6. CASE Create(s)
  <2>1. PICK conn \in ConnChoice, f \in FlagChoice :
           CallAPI(s, resource_set_create(conn, f.mandatory, f.optional))
        BY <1>6 DEF Create
  <2>2. c.life = "none" BY <1>6 DEF Create, c
  <2>3. LET d == resource_set_create(conn, f.mandatory, f.optional)
        IN  d.life = "live" /\ ~Dozing(d) /\ Calm(d)
        BY <1>5, ChoiceAssumption, CreateStirs
  <2>. QED BY <1>4, <2>1, <2>2, <2>3 DEF Stirs
<1>7. CASE Destroy(s)
      BY <1>1, <1>2, <1>3, <1>4, <1>7, OperationsStir DEF Destroy, c
<1>8. CASE Acquire(s)
      BY <1>1, <1>2, <1>3, <1>4, <1>8, OperationsStir DEF Acquire, c
<1>9. CASE Release(s)
      BY <1>1, <1>2, <1>3, <1>4, <1>9, OperationsStir DEF Release, c
<1>10. CASE ConfigureResources(s)
       BY <1>1, <1>2, <1>3, <1>4, <1>5, <1>10, ConfigureResourcesStirs
          DEF ConfigureResources, c
<1>11. CASE Configure(s)
       BY <1>1, <1>2, <1>3, <1>4, <1>11, ConfigureStirs, ChoiceAssumption
          DEF Configure, c
<1>. QED BY <1>6, <1>7, <1>8, <1>9, <1>10, <1>11 DEF App

LEMMA AnswerStirs ==
    ASSUME Inv, Running, NEW s \in Sets,
           NEW reply \in cs[s].replies, NEW err \in BOOLEAN,
           cs' = [cs EXCEPT ![s] = status_method(@, reply, err)]
    PROVE  StirsAll
<1>. DEFINE d == status_method(cs[s], reply, err)
<1>1. /\ cs[s] \in ResourceSetRec /\ QueueInv(cs[s]) /\ Sound(cs[s], 0)
      /\ cs[s].fault = "none" /\ TypeOK
      BY DEF Inv, TypeOK, Queues, Sounds, Running
<1>2. Stirs(cs[s], d) /\ (Calm(cs[s]) => Calm(d)) BY <1>1, StatusMethodStirs
<1>3. cs' = [cs EXCEPT ![s] = d] OBVIOUS
<1>. HIDE DEF d
<1>. QED BY <1>1, <1>2, <1>3, OneSetStirs

(* All that the main loop dispatches but the loss of the manager and its   *)
(* unregistering a set.                                                    *)
LEMMA MainLoopStirs ==
    ASSUME Inv, MainLoop, Head(inq).kind \notin {"down", "unregister"}
    PROVE  StirsAll
<1>1. Running /\ inq # <<>> /\ TypeOK
      BY DEF MainLoop, DispatchAnswer, DispatchNotice, DispatchUp,
             DispatchDown, Dispatch, Inv
<1>2. ASSUME NEW s \in Sets
      PROVE  /\ cs[s] \in ResourceSetRec /\ QueueInv(cs[s]) /\ Sound(cs[s], 0)
             /\ cs[s].fault = "none"
      BY <1>1 DEF Inv, TypeOK, Queues, Sounds, Running
<1>. DEFINE m == Head(inq)
<1>3. CASE DispatchAnswer
  <2>1. m \in Answer BY <1>1, <1>3, InqType DEF DispatchAnswer, Dispatch
  <2>2. m.set \in Sets /\ m.err \in BOOLEAN BY <2>1 DEF Answer
  <2>3. CASE m.reply \in cs[m.set].replies
    <3>1. cs' = [cs EXCEPT ![m.set] = status_method(@, m.reply, m.err)]
          BY <1>3, <2>3 DEF DispatchAnswer
    <3>. HIDE DEF m
    <3>. QED BY <1>1, <2>2, <2>3, <3>1, AnswerStirs
  <2>4. CASE m.reply \notin cs[m.set].replies
    <3>1. cs' = cs BY <1>3, <2>4 DEF DispatchAnswer
    <3>. QED BY <3>1, NoSetStirs
  <2>. QED BY <2>3, <2>4
<1>4. CASE DispatchNotice
  <2>. DEFINE c == cs[m.set]
              after == CASE m.kind = "grant"   ->
                                receive_grant_message(c, TRUE, m.set \in AutoRelease)
                         [] m.kind = "revoke"  ->
                                receive_grant_message(c, FALSE, m.set \in AutoRelease)
                         [] m.kind = "release" -> receive_release_message(c)
                         [] m.kind = "unregister" -> disconnect_from_manager(c)
                         [] OTHER -> receive_advice_message(c)
  <2>1. m \in Notice BY <1>1, <1>4, InqType DEF DispatchNotice, Dispatch
  <2>2. m.set \in Sets BY <2>1 DEF Notice
  <2>3. cs' = IF c.path /\ resset_find(c.rset)
              THEN [cs EXCEPT ![m.set] = after] ELSE cs
        BY <1>4 DEF DispatchNotice
  <2>4. CASE ~(c.path /\ resset_find(c.rset))
        BY <2>3, <2>4, NoSetStirs
  <2>5. CASE c.path /\ resset_find(c.rset)
    <3>1. c \in ResourceSetRec /\ Sound(c, 0) /\ c.fault = "none" BY <1>2, <2>2
    <3>2. m.kind # "unregister" OBVIOUS
    <3>3. Stirs(c, after) /\ (Calm(c) => Calm(after))
      <4>. HIDE DEF c, m
      <4>1. /\ \A granted, auto \in BOOLEAN :
                  LET d == receive_grant_message(c, granted, auto)
                  IN  Stirs(c, d) /\ (Calm(c) => Calm(d))
            /\ LET d == receive_advice_message(c)
               IN  Stirs(c, d) /\ (Calm(c) => Calm(d))
            /\ LET d == receive_release_message(c)
               IN  Stirs(c, d) /\ (Calm(c) => Calm(d))
            BY <2>5, <3>1, NoticesStir
      <4>2. (m.set \in AutoRelease) \in BOOLEAN OBVIOUS
      <4>. QED BY <3>2, <4>1, <4>2
    <3>4. cs' = [cs EXCEPT ![m.set] = after] BY <2>3, <2>5
    <3>. HIDE DEF after, m
    <3>. QED BY <1>1, <2>2, <3>3, <3>4, OneSetStirs
  <2>. QED BY <2>4, <2>5
<1>5. CASE DispatchUp
  <2>1. \A s \in Sets : cs'[s] = manager_is_up(cs[s]) BY <1>5 DEF DispatchUp
  <2>. QED BY <1>2, <2>1, ManagerIsUpStirs DEF StirsAll
<1>6. CASE DispatchDown BY <1>6 DEF DispatchDown, Dispatch
<1>. QED BY <1>3, <1>4, <1>5, <1>6 DEF MainLoop

LEMMA TimeoutStirs ==
    ASSUME Inv, NEW s \in Sets, Timeout(s)
    PROVE  StirsAll
<1>1. PICK reply \in cs[s].replies :
         cs' = [cs EXCEPT ![s] = status_method(@, reply, TRUE)]
      BY DEF Timeout
<1>2. Running BY DEF Timeout
<1>. QED BY <1>1, <1>2, AnswerStirs

(* The bus and the manager do nothing to a set but take calls off its wire *)
(* and lose answers.                                                       *)
LEMMA WireStirs ==
    ASSUME NEW c \in ResourceSetRec,
           NEW d, \E wire, lost : d = [c EXCEPT !.wire = wire, !.lost = lost]
    PROVE  Stirs(c, d) /\ (Calm(c) => Calm(d)) /\ d.fault = c.fault
<1>1. /\ d.conn = c.conn /\ d.life = c.life /\ d.revived = c.revived
      /\ d.client = c.client /\ d.denied = c.denied /\ d.fault = c.fault
      /\ d.reqlist = c.reqlist /\ d.path = c.path /\ d.rset = c.rset
      BY DEF ResourceSetRec
<1>. QED BY <1>1, SameStirs DEF Alike

LEMMA LostStirs == ASSUME TypeOK, LostWithManager PROVE StirsAll
<1>1. PICK n \in [Sets -> 0..(MaxTimeouts + 1)] :
         cs' = [s \in Sets |->
                  [cs[s] EXCEPT !.wire = SubSeq(@, n[s] + 1, Len(@)),
                                !.lost = @ \cup {cs[s].wire[i].reqno :
                                                    i \in 1..n[s]}]]
      BY DEF LostWithManager
<1>2. ASSUME NEW z \in Sets
      PROVE  Stirs(cs[z], cs'[z]) /\ (Calm(cs[z]) => Calm(cs'[z]))
  <2>. DEFINE wire == SubSeq(cs[z].wire, n[z] + 1, Len(cs[z].wire))
              lost == cs[z].lost \cup {cs[z].wire[i].reqno : i \in 1..n[z]}
  <2>1. cs'[z] = [cs[z] EXCEPT !.wire = wire, !.lost = lost] BY <1>1
  <2>2. cs[z] \in ResourceSetRec BY DEF TypeOK
  <2>. HIDE DEF wire, lost
  <2>3. \E w, l : cs'[z] = [cs[z] EXCEPT !.wire = w, !.lost = l] BY <2>1
  <2>. QED BY <2>2, <2>3, WireStirs
<1>. QED BY <1>2 DEF StirsAll

LEMMA BusStirs ==
    ASSUME TypeOK, NEW s \in Sets, Bus(s) \/ ManagerNotifies(s),
           "unregister" \notin Notices
    PROVE  StirsAll /\ Gains(inq, inq') /\ UNCHANGED up
<1>. DEFINE Message == Answer \cup Notice \cup Owner
<1>1. inq \in Seq(Message) /\ cs[s] \in ResourceSetRec BY DEF TypeOK
<1>2. ASSUME NEW m \in Message, m.kind \notin {"down", "unregister"},
             inq' = Append(inq, m)
      PROVE  Gains(inq, inq')
      BY <1>1, <1>2, AppendGains
<1>3. ASSUME inq' = inq PROVE Gains(inq, inq')
      BY <1>1, <1>3 DEF Gains
<1>4. ASSUME NEW wire, NEW lost,
             cs' = [cs EXCEPT ![s] = [cs[s] EXCEPT !.wire = wire, !.lost = lost]]
      PROVE  StirsAll
  <2>. DEFINE after == [cs[s] EXCEPT !.wire = wire, !.lost = lost]
  <2>1. cs' = [cs EXCEPT ![s] = after] BY <1>4
  <2>2. Stirs(cs[s], after) /\ (Calm(cs[s]) => Calm(after)) BY <1>1, WireStirs
  <2>. HIDE DEF after
  <2>. QED BY <2>1, <2>2, OneSetStirs
<1>5. ASSUME NEW answers, TakeCall(s, answers)
      PROVE  StirsAll
  <2>. DEFINE lost == IF answers = <<>>
                      THEN cs[s].lost \cup {Head(cs[s].wire).reqno}
                      ELSE cs[s].lost
              wire == Tail(cs[s].wire)
  <2>1. cs' = [cs EXCEPT ![s] = [cs[s] EXCEPT !.wire = wire, !.lost = lost]]
        BY <1>1, <1>5 DEF TakeCall, TypeOK, ResourceSetRec
  <2>. HIDE DEF wire, lost
  <2>. QED BY <1>4, <2>1
<1>6. ASSUME NEW call \in Call, NEW err \in BOOLEAN
      PROVE  /\ answer(s, call, err) \in Message
             /\ answer(s, call, err).kind = "answer"
      BY DEF answer, Answer, Reply, Call
<1>7. ASSUME cs[s].wire # <<>> PROVE Head(cs[s].wire) \in Call
      BY <1>1, <1>7 DEF ResourceSetRec
<1>. HIDE DEF Message
<1>8. ASSUME NEW m \in Message
      PROVE  inq \o <<m>> = Append(inq, m) /\ inq \o <<>> = inq
      BY <1>1
<1>9. CASE ManagerHandles(s)
  <2>. DEFINE call == Head(cs[s].wire)
  <2>1. call \in Call BY <1>7, <1>9 DEF ManagerHandles
  <2>2. CASE (call.msgtyp = "register") = ms[s].reg
    <3>1. TakeCall(s, <<>>) /\ UNCHANGED up BY <1>9, <2>2 DEF ManagerHandles
    <3>2. inq' = inq BY <1>1, <3>1 DEF TakeCall
    <3>. QED BY <1>3, <1>5, <3>1, <3>2
  <2>3. CASE ~((call.msgtyp = "register") = ms[s].reg)
    <3>1. PICK err \in {FALSE} \cup {call.msgtyp \in Refused} :
             TakeCall(s, <<answer(s, call, err)>>)
          BY <1>9, <2>3 DEF ManagerHandles
    <3>2. err \in BOOLEAN
      <4>1. (call.msgtyp \in Refused) \in BOOLEAN OBVIOUS
      <4>. HIDE DEF call
      <4>. QED BY <4>1
    <3>. DEFINE m == answer(s, call, err)
    <3>3. m \in Message /\ m.kind = "answer" BY <1>6, <2>1, <3>2
    <3>. HIDE DEF m, call
    <3>4. inq' = Append(inq, m) BY <1>8, <3>1, <3>3 DEF TakeCall, m, call
    <3>5. UNCHANGED up BY <1>9 DEF ManagerHandles
    <3>. QED BY <1>2, <1>5, <3>1, <3>3, <3>4, <3>5 DEF m
  <2>. QED BY <2>2, <2>3
<1>10. CASE Bounce(s)
  <2>. DEFINE m == answer(s, Head(cs[s].wire), TRUE)
  <2>1. m \in Message /\ m.kind = "answer" BY <1>6, <1>7, <1>10 DEF Bounce
  <2>2. TakeCall(s, <<m>>) /\ UNCHANGED up BY <1>10 DEF Bounce
  <2>. HIDE DEF m
  <2>3. inq' = Append(inq, m) BY <1>8, <2>1, <2>2 DEF TakeCall
  <2>. QED BY <1>2, <1>5, <2>1, <2>2, <2>3
<1>11. CASE NoReply(s)
  <2>1. PICK reply \in cs[s].replies :
           /\ inq' = Append(inq, [kind |-> "answer", set |-> s, reply |-> reply,
                                  err |-> TRUE])
           /\ cs' = [cs EXCEPT ![s].lost = @ \ {reply.reqno}]
        BY <1>11 DEF NoReply
  <2>. DEFINE m == [kind |-> "answer", set |-> s, reply |-> reply, err |-> TRUE]
              lost == cs[s].lost \ {reply.reqno}
              wire == cs[s].wire
  <2>2. reply \in Reply BY <1>1 DEF ResourceSetRec
  <2>3. m \in Message /\ m.kind = "answer" BY <2>2 DEF Message, Answer
  <2>4. [cs[s] EXCEPT !.lost = lost] = [cs[s] EXCEPT !.wire = wire, !.lost = lost]
        BY <1>1 DEF ResourceSetRec
  <2>5. cs' = [cs EXCEPT ![s] = [cs[s] EXCEPT !.wire = wire, !.lost = lost]]
        BY <2>1, <2>4
  <2>6. inq' = Append(inq, m) /\ UNCHANGED up BY <1>11, <2>1 DEF NoReply
  <2>. HIDE DEF wire, lost, m
  <2>. QED BY <1>2, <1>4, <2>3, <2>5, <2>6
<1>12. CASE ManagerNotifies(s)
  <2>1. PICK kind \in Notices : inq' = Append(inq, [kind |-> kind, set |-> s])
        BY <1>12 DEF ManagerNotifies
  <2>. DEFINE m == [kind |-> kind, set |-> s]
  <2>2. m \in Message /\ m.kind \notin {"down", "unregister"}
    <3>1. kind \in NoticeKind /\ kind # "unregister" BY ChoiceAssumption
    <3>2. kind # "down" BY <3>1 DEF NoticeKind
    <3>3. m \in Notice BY <3>1 DEF Notice
    <3>. QED BY <3>1, <3>2, <3>3 DEF Message
  <2>. HIDE DEF m
  <2>3. inq' = Append(inq, m) BY <2>1 DEF m
  <2>4. UNCHANGED cs /\ UNCHANGED up BY <1>12 DEF ManagerNotifies
  <2>. QED BY <1>2, <2>2, <2>3, <2>4, NoSetStirs
<1>. QED BY <1>9, <1>10, <1>11, <1>12 DEF Bus

-----------------------------------------------------------------------------
(* No lost wake-up.  Only sets with a connection to the bus doze, so that  *)
(* somebody hears of the manager; while it is there, a set that dozes has  *)
(* the news of it still to come, and so will one that is yet to be told    *)
(* that the manager had gone.                                              *)
Somebody == \E s \in Sets : cs[s].conn

Unmade == \A s \in Sets : cs[s].life = "none" => ~cs[s].conn

Watched == \A s \in Sets : Dozing(cs[s]) => cs[s].conn

Awaited == up => Recovers(inq) /\ \A s \in Sets : Dozing(cs[s]) => HasUp(inq)

Woken ==
    /\ Lacks(inq, {"unregister"}) /\ Unmade
    /\ Running => /\ Watched /\ Awaited
                  /\ Lacks(inq, {"down"}) \/ Somebody

LEMMA InitWoken == Init => Woken
<1>. SUFFICES ASSUME Init PROVE Woken OBVIOUS
<1>1. \A s \in Sets : cs[s].life = "none" /\ ~cs[s].conn BY DEF Init, NoSet
<1>2. Len(inq) = 0 BY DEF Init
<1>3. \A kinds : Lacks(inq, kinds) BY <1>2 DEF Lacks
<1>4. Recovers(inq) BY <1>2 DEF Recovers
<1>. QED BY <1>1, <1>3, <1>4 DEF Woken, Unmade, Watched, Awaited, Dozing

LEMMA StirsWatch ==
    ASSUME Unmade, StirsAll
    PROVE  Unmade' /\ (Watched => Watched') /\ (Somebody => Somebody')
<1>1. \A s \in Sets : Stirs(cs[s], cs'[s]) BY DEF StirsAll
<1>. QED BY <1>1 DEF Unmade, Watched, Somebody, Stirs, Dozing

LEMMA StirsWoken ==
    ASSUME Woken, StirsAll, Running' => Running, UNCHANGED up,
           Recovers(inq) => Recovers(inq)',
           HasUp(inq) => HasUp(inq)',
           \A kinds \in SUBSET {"down", "unregister"} :
              Lacks(inq, kinds) => Lacks(inq', kinds)
    PROVE  Woken'
<1>1. Unmade' /\ (Watched => Watched') /\ (Somebody => Somebody')
      BY StirsWatch DEF Woken
<1>2. Lacks(inq, {"unregister"})' BY DEF Woken
<1>3. Lacks(inq, {"down"}) => Lacks(inq, {"down"})' OBVIOUS
<1>4. \A s \in Sets : Dozing(cs'[s]) => Dozing(cs[s]) BY DEF StirsAll, Stirs
<1>5. Awaited => Awaited' BY <1>4 DEF Awaited
<1>. QED BY <1>1, <1>2, <1>3, <1>5 DEF Woken

LEMMA MainLoopWoken ==
    ASSUME Inv, Woken, MainLoop, Running' => Running
    PROVE  Woken'
<1>. DEFINE Message == Answer \cup Notice \cup Owner
<1>1. /\ Running /\ inq # <<>> /\ inq' = Tail(inq) /\ UNCHANGED up
      /\ Head(inq).kind \in {"answer", "up", "down"} \cup NoticeKind
      BY DEF MainLoop, DispatchAnswer, DispatchNotice, DispatchUp,
             DispatchDown, Dispatch
<1>2. inq \in Seq(Message) BY DEF Inv, TypeOK
<1>. HIDE DEF Message
<1>3. /\ Recovers(inq) => Recovers(inq')
      /\ HasUp(inq) /\ Head(inq).kind # "up" => HasUp(inq')
      /\ Recovers(inq) /\ Head(inq).kind = "down" => HasUp(inq')
      /\ \A kinds : Lacks(inq, kinds) => Lacks(inq', kinds)
      BY <1>1, <1>2, TailKeeps
<1>4. Head(inq).kind # "unregister"
  <2>1. Len(inq) \in Nat /\ Len(inq) > 0 /\ Head(inq) = inq[1] BY <1>1, <1>2
  <2>2. 1 \in 1..Len(inq) BY <2>1
  <2>. QED BY <2>1, <2>2 DEF Woken, Lacks
<1>5. CASE Head(inq).kind \notin {"up", "down"}
  <2>1. StirsAll BY <1>4, <1>5, MainLoopStirs
  <2>. QED BY <1>1, <1>3, <1>5, <2>1, StirsWoken
<1>6. CASE Head(inq).kind = "up"
  <2>1. StirsAll BY <1>6, MainLoopStirs
  <2>2. \A s \in Sets : cs'[s] = manager_is_up(cs[s])
        BY <1>6 DEF MainLoop, DispatchAnswer, DispatchNotice, DispatchUp,
                    DispatchDown, Dispatch, NoticeKind
  <2>3. \A s \in Sets : cs[s] \in ResourceSetRec /\ cs[s].fault = "none"
        BY <1>1 DEF Inv, TypeOK, Running
  <2>4. \A s \in Sets : Dozing(cs'[s]) => Dozing(cs[s]) /\ ~cs[s].conn
        BY <2>1, <2>2, <2>3, ManagerIsUpStirs DEF StirsAll, Stirs
  <2>5. \A s \in Sets : ~Dozing(cs'[s]) BY <1>1, <2>4 DEF Woken, Watched
  <2>6. Unmade' /\ (Somebody => Somebody') BY <2>1, StirsWatch DEF Woken
  <2>7. Watched' /\ (Awaited => Awaited')
        BY <1>1, <1>3, <2>5 DEF Watched, Awaited
  <2>. QED BY <1>1, <1>3, <2>6, <2>7 DEF Woken
<1>7. CASE Head(inq).kind = "down"
  <2>1. \A s \in Sets : cs'[s] = link_down(cs[s])
        BY <1>7 DEF MainLoop, DispatchAnswer, DispatchNotice, DispatchUp,
                    DispatchDown, Dispatch, NoticeKind
  <2>2. \A s \in Sets : /\ cs[s] \in ResourceSetRec /\ QueueInv(cs[s])
                        /\ cs[s].fault = "none" /\ (Dozing(cs[s]) => cs[s].conn)
        BY <1>1 DEF Inv, TypeOK, Queues, Running, Woken, Watched
  <2>3. \A s \in Sets : /\ cs'[s].conn = cs[s].conn /\ cs'[s].life = cs[s].life
                        /\ Dozing(cs'[s]) => cs'[s].conn
        BY <2>1, <2>2, LinkDownDozes
  <2>4. Unmade' /\ Watched' /\ (Somebody => Somebody')
        BY <2>3 DEF Unmade, Watched, Somebody, Woken
  <2>5. Awaited => Awaited' BY <1>1, <1>3, <1>7 DEF Awaited
  <2>. QED BY <1>1, <1>3, <2>4, <2>5 DEF Woken
<1>. QED BY <1>5, <1>6, <1>7

(* The manager gets or loses its name, with or without a gap.              *)
LEMMA OwnerWoken ==
    ASSUME Inv, Woken, ManagerStarts \/ ManagerDies \/ ManagerReplaced,
           Running' => Running
    PROVE  Woken'
<1>. DEFINE Message == Answer \cup Notice \cup Owner
<1>1. StirsAll
      BY NoSetStirs, LostStirs DEF ManagerStarts, ManagerDies, ManagerReplaced, Inv
<1>2. Unmade' /\ (Watched => Watched') /\ (Somebody => Somebody')
      BY <1>1, StirsWatch DEF Woken
<1>3. inq \in Seq(Message) /\ Len(inq) \in Nat BY DEF Inv, TypeOK
<1>4. \A kind \in {"up", "down"} : [kind |-> kind] \in Message BY DEF Owner
<1>. HIDE DEF Message
<1>5. CASE ManagerStarts \/ ManagerReplaced
  <2>. DEFINE m == [kind |-> "up"]
  <2>1. inq' = IF Somebody THEN Append(inq, m) ELSE inq
        BY <1>5 DEF ManagerStarts, ManagerReplaced, Announce, Somebody
  <2>2. m \in Message /\ m.kind = "up" BY <1>4
  <2>. HIDE DEF m
  <2>3. CASE Somebody
    <3>1. Gains(inq, inq') /\ Recovers(inq') /\ HasUp(inq')
          BY <1>3, <2>1, <2>2, <2>3, AppendGains
    <3>2. Lacks(inq, {"unregister"}) => Lacks(inq, {"unregister"})'
          BY <1>3, <3>1, GainsKeeps
    <3>3. Awaited' BY <3>1 DEF Awaited
    <3>. QED BY <1>2, <2>3, <3>2, <3>3 DEF Woken
  <2>4. CASE ~Somebody
    <3>1. inq' = inq BY <2>1, <2>4
    <3>2. Running => Lacks(inq, {"down"}) /\ \A s \in Sets : ~Dozing(cs[s])
          BY <2>4 DEF Woken, Watched, Somebody
    <3>3. Lacks(inq, {"down"}) => Recovers(inq') BY <3>1 DEF Lacks, Recovers
    <3>4. \A s \in Sets : Dozing(cs'[s]) => Dozing(cs[s])
          BY <1>1 DEF StirsAll, Stirs
    <3>5. Running => Awaited' /\ Lacks(inq, {"down"})'
          BY <3>1, <3>2, <3>3, <3>4 DEF Awaited
    <3>6. Lacks(inq, {"unregister"})' BY <3>1 DEF Woken
    <3>. QED BY <1>2, <3>5, <3>6 DEF Woken
  <2>. QED BY <2>3, <2>4
<1>6. CASE ManagerDies
  <2>. DEFINE m == [kind |-> "down"]
  <2>1. inq' = (IF Somebody THEN Append(inq, m) ELSE inq) /\ ~up'
        BY <1>6 DEF ManagerDies, Announce, Somebody
  <2>2. m \in Message /\ m.kind = "down" BY <1>4
  <2>. HIDE DEF m
  <2>3. Lacks(inq, {"unregister"})'
    <3>1. CASE Somebody
      <4>1. inq' = Append(inq, m) BY <2>1, <3>1
      <4>2. /\ Len(inq') = Len(inq) + 1 /\ inq'[Len(inq) + 1] = m
            /\ \A i \in 1..Len(inq) : inq'[i] = inq[i]
            BY <1>3, <2>2, <4>1
      <4>3. \A i \in 1..Len(inq') : i \in 1..Len(inq) \/ i = Len(inq) + 1
            BY <1>3, <4>2
      <4>. QED BY <2>2, <4>2, <4>3 DEF Lacks, Woken
    <3>2. CASE ~Somebody BY <2>1, <3>2 DEF Woken
    <3>. QED BY <3>1, <3>2
  <2>4. Awaited' BY <2>1 DEF Awaited
  <2>5. Running => Lacks(inq, {"down"})' \/ Somebody'
        BY <1>2, <2>1 DEF Woken
  <2>. QED BY <1>2, <2>3, <2>4, <2>5 DEF Woken
<1>. QED BY <1>5, <1>6

LEMMA NextWoken ==
    ASSUME "unregister" \notin Notices, Inv, Woken, [Next]_vars
    PROVE  Woken'
<1>1. Running' => Running
  <2>1. \A z \in Sets : cs[z].fault # "none" => cs'[z].fault # "none"
        BY NextSound DEF Inv, Carries
  <2>. QED BY <2>1 DEF Running
<1>2. Len(inq) \in Nat BY DEF Inv, TypeOK
<1>3. ASSUME StirsAll, UNCHANGED up, inq' = inq \/ Gains(inq, inq')
      PROVE  Woken'
  <2>1. CASE inq' = inq BY <1>1, <1>3, <2>1, StirsWoken
  <2>2. CASE Gains(inq, inq') BY <1>1, <1>2, <1>3, <2>2, GainsKeeps, StirsWoken
  <2>. QED BY <1>3, <2>1, <2>2
<1>4. CASE UNCHANGED vars BY <1>3, <1>4, NoSetStirs DEF vars
<1>5. CASE MainLoop BY <1>1, <1>5, MainLoopWoken
<1>6. CASE ManagerStarts \/ ManagerDies \/ ManagerReplaced
      BY <1>1, <1>6, OwnerWoken
<1>7. CASE \E s \in Sets : App(s)
  <2>1. UNCHANGED <<inq, up>>
        BY <1>7 DEF App, Create, Destroy, Acquire, Release,
                    ConfigureResources, Configure, CallAPI
  <2>. QED BY <1>3, <1>7, <2>1, AppStirs
<1>8. CASE \E s \in Sets : Timeout(s)
  <2>1. UNCHANGED <<inq, up>> BY <1>8 DEF Timeout
  <2>. QED BY <1>3, <1>8, <2>1, TimeoutStirs
<1>9. CASE \E s \in Sets : Bus(s) \/ ManagerNotifies(s)
      BY <1>3, <1>9, BusStirs DEF Inv
<1>. QED BY <1>4, <1>5, <1>6, <1>7, <1>8, <1>9 DEF Next

(* client_name_changed reconnects every set that is not connected, and no  *)
(* set is forgotten: once the manager is there and nothing is under way,   *)
(* only a set whose own REGISTER failed is still in client_created.  (A    *)
(* manager that unregisters a set of its own accord is not announced again *)
(* and leaves the set asleep.)                                             *)
THEOREM AsleepOnlyIfDeniedAlways ==
    ASSUME "unregister" \notin Notices
    PROVE  Spec => []AsleepOnlyIfDenied
<1>1. Init => Woken BY InitWoken
<1>2. Inv /\ Woken /\ [Next]_vars => Woken' BY NextWoken
<1>3. Inv /\ Woken => AsleepOnlyIfDenied
  <2>. SUFFICES ASSUME Inv, Woken, Running, up, NEW s \in Sets, Quiet(s),
                       Dozing(cs[s])
                PROVE  FALSE
       BY DEF AsleepOnlyIfDenied, Dozing
  <2>1. PICK i \in 1..Len(inq) : inq[i].kind = "up"
        BY DEF Woken, Awaited, HasUp
  <2>2. i \in DOMAIN inq BY DEF Inv, TypeOK
  <2>. QED BY <2>1, <2>2 DEF Quiet
<1>. QED BY <1>1, <1>2, <1>3, InvAlways, PTL DEF Spec
-----------------------------------------------------------------------------
(* Under a manager that stays no set is killed but by its own UNREGISTER.  *)
Steady == Lacks(inq, {"down", "unregister"}) /\ \A s \in Sets : Calm(cs[s])

LEMMA NextSteady ==
    ASSUME MaxDeaths = 0, "unregister" \notin Notices, Inv, Steady, [Next]_vars
    PROVE  Steady'
<1>. DEFINE Message == Answer \cup Notice \cup Owner
<1>1. inq \in Seq(Message) /\ Len(inq) \in Nat BY DEF Inv, TypeOK
<1>2. [kind |-> "up"] \in Message BY DEF Owner
<1>. HIDE DEF Message
<1>3. ASSUME StirsAll, inq' = inq \/ Gains(inq, inq')
      PROVE  Steady'
  <2>1. Lacks(inq, {"down", "unregister"})'
        BY <1>1, <1>3, GainsKeeps DEF Steady
  <2>. QED BY <1>3, <2>1 DEF Steady, StirsAll
<1>4. CASE UNCHANGED vars BY <1>3, <1>4, NoSetStirs DEF vars
<1>5. CASE MainLoop
  <2>1. inq # <<>> /\ inq' = Tail(inq)
        BY <1>5 DEF MainLoop, DispatchAnswer, DispatchNotice, DispatchUp,
                    DispatchDown, Dispatch
  <2>2. Len(inq) > 0 /\ Head(inq) = inq[1] BY <1>1, <2>1
  <2>3. 1 \in 1..Len(inq) BY <1>1, <2>2
  <2>4. Head(inq).kind \notin {"down", "unregister"}
        BY <2>2, <2>3 DEF Steady, Lacks
  <2>5. StirsAll BY <1>5, <2>4, MainLoopStirs
  <2>6. Lacks(inq, {"down", "unregister"})'
        BY <1>1, <2>1, TailKeeps DEF Steady
  <2>. QED BY <2>5, <2>6 DEF Steady, StirsAll
<1>6. CASE ManagerStarts
  <2>. DEFINE m == [kind |-> "up"]
  <2>1. StirsAll BY <1>6, NoSetStirs DEF ManagerStarts
  <2>2. inq' = inq \/ inq' = Append(inq, m)
        BY <1>6 DEF ManagerStarts, Announce
  <2>3. m \in Message /\ m.kind \notin {"down", "unregister"} BY <1>2
  <2>. HIDE DEF m
  <2>4. inq' = inq \/ Gains(inq, inq') BY <1>1, <2>2, <2>3, AppendGains
  <2>. QED BY <1>3, <2>1, <2>4
<1>7. ~ManagerDies /\ ~ManagerReplaced
  <2>1. used["deaths"] \in Nat BY DEF Inv, TypeOK, Counter
  <2>. QED BY <2>1 DEF ManagerDies, ManagerReplaced, Use
<1>8. CASE \E s \in Sets : App(s)
  <2>1. UNCHANGED inq
        BY <1>8 DEF App, Create, Destroy, Acquire, Release,
                    ConfigureResources, Configure, CallAPI
  <2>. QED BY <1>3, <1>8, <2>1, AppStirs
<1>9. CASE \E s \in Sets : Timeout(s)
  <2>1. UNCHANGED inq BY <1>9 DEF Timeout
  <2>. QED BY <1>3, <1>9, <2>1, TimeoutStirs
<1>10. CASE \E s \in Sets : Bus(s) \/ ManagerNotifies(s)
       BY <1>3, <1>10, BusStirs DEF Inv
<1>. QED BY <1>4, <1>5, <1>6, <1>7, <1>8, <1>9, <1>10 DEF Next

(* send_request repeats its loop for ever only for a set that has gone     *)
(* back to client_created with requests queued.  Under a manager that does *)
(* not go away or unregister a set of its own accord, the way there is a   *)
(* REGISTER that failed, and no freed memory is read.                      *)
THEOREM HangNeedsDenialAlways ==
    ASSUME MaxDeaths = 0, "unregister" \notin Notices
    PROVE  Spec => []HangNeedsDenial
<1>1. Init => Steady
  <2>. SUFFICES ASSUME Init PROVE Steady OBVIOUS
  <2>1. Len(inq) = 0 BY DEF Init
  <2>2. Calm(NoSet) BY DEF Calm, NoSet
  <2>. QED BY <2>1, <2>2 DEF Init, Steady, Lacks
<1>2. Inv /\ Steady /\ [Next]_vars => Steady' BY NextSteady
<1>3. Inv /\ Steady => HangNeedsDenial
  <2>. SUFFICES ASSUME NEW c \in ResourceSetRec, Sound(c, 0), Calm(c),
                       c.fault # "none"
                PROVE  c.denied /\ c.fault = "spin"
       BY DEF HangNeedsDenial, Running, Inv, Steady, TypeOK, Sounds
  <2>1. c.fault \in {"spin", "stale"} BY DEF ResourceSetRec
  <2>. QED BY <2>1 DEF Sound, Calm
<1>. QED BY <1>1, <1>2, <1>3, InvAlways, PTL DEF Spec
=============================================================================
