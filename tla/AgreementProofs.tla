-------------------------- MODULE AgreementProofs --------------------------
(***************************************************************************)
(* What the manager believes of a set, proved: when nothing is under way   *)
(* it agrees with the client.                                              *)
(*                                                                         *)
(* The agreement is about four attributes of a set.  The value that the    *)
(* client wants of each is, at any time, with the manager, or in a call on *)
(* the wire behind which no other call is about the attribute, or will be  *)
(* put into a request that waits in the queue: Told.  While the set is     *)
(* being connected the manager knows nothing of it yet, and what the       *)
(* REGISTER does not carry must wait in the queue behind it: Registering.  *)
(* Both hold of a client and its side e of the manager: e.m is what the    *)
(* manager knows, e.up that it is there, e.gone that its end is announced  *)
(* or hidden from the client, e.ok the numbers of the requests that have   *)
(* been answered without an error, e.revoked that a revocation is on its   *)
(* way, and e.auto that it will end the acquisition.                       *)
(***************************************************************************)
EXTENDS SetStateProofs

Attribute == {"resources", "audio", "video", "acquire"}

(* The messages that tell the manager of an attribute, and what they say.  *)
About(a) ==
    CASE a = "resources" -> {"update"}
      [] a = "acquire"   -> {"acquire", "release"}
      [] OTHER           -> {a}

Says(call, a) ==
    CASE a = "resources" -> call.resources
      [] a = "acquire"   -> call.msgtyp = "acquire"
      [] OTHER           -> call.value

Wants(c, a) ==
    CASE a = "resources" -> c.resources
      [] a = "acquire"   -> c.acquire
      [] OTHER           -> config_value(c, a)

Concerns(c, a) == a \in Kind => configured(c, a)

(* The last request about a has not been sent yet.  What it will say is    *)
(* read from the set when it is sent, but ACQUIRE and RELEASE say it by    *)
(* their type.                                                             *)
Waits(list, a, acquire) ==
    \E i \in 1..Len(list) :
       /\ ~list[i].busy /\ list[i].msgtyp \in About(a)
       /\ \A j \in (i + 1)..Len(list) : list[j].msgtyp \notin About(a)
       /\ a = "acquire" => acquire = (list[i].msgtyp = "acquire")

NoneWaits(list, a) ==
    \A i \in 1..Len(list) : list[i].msgtyp \in About(a) => list[i].busy

(* The last that the manager hears of a will be v.                         *)
Hears(m, wire, a, v) ==
    \E i \in 0..Len(wire) :
       /\ \A j \in (i + 1)..Len(wire) : wire[j].msgtyp \notin About(a)
       /\ i = 0 => m[a] = v
       /\ i > 0 => wire[i].msgtyp \in About(a) /\ Says(wire[i], a) = v

Told(c, m, a) ==
    \/ Waits(c.reqlist, a, c.acquire)
    \/ NoneWaits(c.reqlist, a) /\ Hears(m, c.wire, a, Wants(c, a))

(* An auto-release set does not mind an acquisition that it does not want, *)
(* and one that is being revoked will not want it.                         *)
Excused(c, e, a) == a = "acquire" /\ e.auto /\ (~c.acquire \/ e.revoked)

(* A killed set without its object path: it can only come back to life.    *)
Doomed(c) == c.rset.state = "killed" /\ ~c.path

OneOfAKind(c) ==
    \A i, j \in 1..Len(c.configs) :
       c.configs[i].kind = c.configs[j].kind => i = j

NoRegister(list) == \A i \in 1..Len(list) : list[i].msgtyp # "register"

(* The resources that a REGISTER carries may be out of date only when an   *)
(* UPDATE waits.                                                           *)
Carried(c, resources) ==
    \/ Waits(c.reqlist, "resources", c.acquire)
    \/ NoneWaits(c.reqlist, "resources") /\ resources = c.resources

Registering(c, e) ==
    LET rq == c.reqlist[1]
    IN  /\ c.reqlist # <<>> /\ rq.msgtyp = "register" /\ rq.busy
        /\ \A i \in 2..Len(c.reqlist) : c.reqlist[i].msgtyp # "register"
        /\ \A kind \in Kind :
              configured(c, kind) => Waits(c.reqlist, kind, c.acquire)
        /\ \/ e.auto /\ ~c.acquire
           \/ Waits(c.reqlist, "acquire", c.acquire)
           \/ NoneWaits(c.reqlist, "acquire") /\ ~c.acquire
        /\ \A i \in 1..Len(c.wire) :
              c.wire[i].reqno = rq.reqno =>
                 /\ i = Len(c.wire) /\ c.wire[i].msgtyp = "register"
                 /\ Carried(c, c.wire[i].resources)
        /\ rq.reqno \in e.ok =>
              /\ c.wire = <<>>
              /\ \/ e.gone
                 \/ /\ e.up /\ e.m.reg /\ ~e.m.acquire
                    /\ Carried(c, e.m.resources)

Knows(c, e) ==
    /\ e.up /\ e.m.reg
    /\ \A a \in Attribute :
          Concerns(c, a) => Told(c, e.m, a) \/ Excused(c, e, a)

Plain(wire) ==
    \A i \in 1..Len(wire) : wire[i].msgtyp \notin {"register", "unregister"}

Serving(c, e) ==
    /\ NoRegister(c.reqlist) /\ Plain(c.wire)
    /\ e.gone \/ Knows(c, e)

Follows(c, e) ==
    /\ c.client = "created" => c.reqlist = <<>> \/ Doomed(c)
    /\ c.client = "connecting" => Registering(c, e) \/ Doomed(c)
    /\ c.client = "ready" => Serving(c, e) \/ UnregisterOut(c)

Numbered(c, e) ==
    /\ \A i \in 1..Len(c.wire) : c.wire[i].reqno <= c.reqno
    /\ \A n \in e.ok : n <= c.reqno

Agrees(c, e) ==
    c.life # "freed" /\ ~c.revived /\ c.fault = "none" =>
        /\ OneOfAKind(c) /\ Numbered(c, e)
        /\ c.life = "live" => Follows(c, e)
-----------------------------------------------------------------------------
(* Queues.                                                                 *)

(* There is a last one. *)
LEMMA LastExists ==
    ASSUME NEW n \in Nat, NEW S \in SUBSET (1..n), S # {}
    PROVE  \E x \in S : \A y \in S : y <= x
<1>. DEFINE B == {n - x : x \in S}
<1>1. B \in SUBSET Nat /\ B # {}
  <2>1. \A x \in S : x \in 1..n OBVIOUS
  <2>2. \A x \in S : n - x \in Nat BY <2>1
  <2>3. PICK x \in S : TRUE OBVIOUS
  <2>4. n - x \in B BY <2>3
  <2>. QED BY <2>2, <2>4
<1>. HIDE DEF B
<1>2. Min(B) \in B /\ \A b \in B : Min(B) <= b BY <1>1, MinExists
<1>3. PICK x \in S : Min(B) = n - x BY <1>2 DEF B
<1>4. \A y \in S : n - y \in B BY DEF B
<1>5. \A y \in S : n - x <= n - y BY <1>2, <1>3, <1>4
<1>6. \A y \in S : y <= x BY <1>5
<1>. QED BY <1>6

(* Requests that join the queue.                                           *)
Behind(new, old, types) ==
    /\ Len(new) = Len(old) + Len(types)
    /\ \A i \in 1..Len(old) : new[i] = old[i]
    /\ \A i \in (Len(old) + 1)..Len(new) :
          ~new[i].busy /\ new[i].msgtyp = types[i - Len(old)]

LEMMA WaitsOn ==
    ASSUME NEW old, NEW new, NEW type, NEW a, NEW acquire,
           Len(old) \in Nat, Behind(new, old, <<type>>), type \notin About(a)
    PROVE  /\ Waits(old, a, acquire) => Waits(new, a, acquire)
           /\ NoneWaits(old, a) => NoneWaits(new, a)
<1>. DEFINE n == Len(old)
<1>1. /\ Len(new) = n + 1 /\ \A i \in 1..n : new[i] = old[i]
      /\ new[n + 1].msgtyp = type
  <2>1. Len(<<type>>) = 1 /\ <<type>>[1] = type OBVIOUS
  <2>2. n + 1 - n = 1 /\ n + 1 \in (n + 1)..(n + 1) OBVIOUS
  <2>. QED BY <2>1, <2>2 DEF Behind
<1>2. \A i \in 1..Len(new) : i \in 1..n \/ i = n + 1 BY <1>1
<1>3. \A i \in 1..n : i \in 1..Len(new) BY <1>1
<1>. HIDE DEF n
<1>4. ASSUME Waits(old, a, acquire) PROVE Waits(new, a, acquire)
  <2>1. PICK i \in 1..n :
           /\ ~old[i].busy /\ old[i].msgtyp \in About(a)
           /\ \A j \in (i + 1)..n : old[j].msgtyp \notin About(a)
           /\ a = "acquire" => acquire = (old[i].msgtyp = "acquire")
        BY <1>4 DEF Waits, n
  <2>2. ASSUME NEW j \in (i + 1)..Len(new) PROVE new[j].msgtyp \notin About(a)
    <3>1. CASE j = n + 1 BY <1>1, <3>1
    <3>2. CASE j # n + 1
      <4>1. j \in 1..n /\ j \in (i + 1)..n BY <1>1, <3>2 DEF n
      <4>. QED BY <1>1, <2>1, <4>1
    <3>. QED BY <3>1, <3>2
  <2>. QED BY <1>1, <1>3, <2>1, <2>2 DEF Waits
<1>5. ASSUME NoneWaits(old, a) PROVE NoneWaits(new, a)
  <2>1. \A i \in 1..n : old[i].msgtyp \in About(a) => old[i].busy
        BY <1>5 DEF NoneWaits, n
  <2>. QED BY <1>1, <1>2, <2>1 DEF NoneWaits
<1>. QED BY <1>4, <1>5

(* The last one to join is the one that counts.                            *)
LEMMA WaitsLast ==
    ASSUME NEW old, NEW new, NEW type, NEW a, NEW acquire,
           Len(old) \in Nat, Behind(new, old, <<type>>), type \in About(a),
           a = "acquire" => acquire = (type = "acquire")
    PROVE  Waits(new, a, acquire)
<1>. DEFINE n == Len(old)
<1>1. Len(new) = n + 1 /\ new[n + 1].msgtyp = type /\ ~new[n + 1].busy
  <2>1. Len(<<type>>) = 1 /\ <<type>>[1] = type OBVIOUS
  <2>2. n + 1 - n = 1 /\ n + 1 \in (n + 1)..(n + 1) OBVIOUS
  <2>. QED BY <2>1, <2>2 DEF Behind
<1>2. n + 1 \in 1..Len(new) /\ (n + 1 + 1)..Len(new) = {} BY <1>1
<1>. QED BY <1>1, <1>2 DEF Waits

(* Requests taken from the front of the queue.                             *)
TakenOff(new, old, n) ==
    /\ n \in 0..Len(old) /\ Len(new) = Len(old) - n
    /\ \A i \in 1..Len(new) : new[i] = old[n + i]

LEMMA WaitsBehind ==
    ASSUME NEW old, NEW new, NEW n, NEW a, NEW acquire,
           Len(old) \in Nat, TakenOff(new, old, n)
    PROVE  /\ Waits(old, a, acquire)
              /\ (\A i \in 1..n : old[i].busy \/ old[i].msgtyp \notin About(a))
                 => Waits(new, a, acquire)
           /\ NoneWaits(old, a) => NoneWaits(new, a)
<1>1. /\ n \in Nat /\ Len(new) \in Nat /\ Len(new) = Len(old) - n
      /\ \A i \in 1..Len(new) : n + i \in 1..Len(old) /\ new[i] = old[n + i]
      BY DEF TakenOff
<1>2. ASSUME Waits(old, a, acquire),
             \A i \in 1..n : old[i].busy \/ old[i].msgtyp \notin About(a)
      PROVE  Waits(new, a, acquire)
  <2>1. PICK i \in 1..Len(old) :
           /\ ~old[i].busy /\ old[i].msgtyp \in About(a)
           /\ \A j \in (i + 1)..Len(old) : old[j].msgtyp \notin About(a)
           /\ a = "acquire" => acquire = (old[i].msgtyp = "acquire")
        BY <1>2 DEF Waits
  <2>2. i \notin 1..n BY <1>2, <2>1
  <2>. DEFINE k == i - n
  <2>3. k \in 1..Len(new) /\ n + k = i BY <1>1, <2>2
  <2>4. \A j \in (k + 1)..Len(new) : j \in 1..Len(new) /\ n + j \in (i + 1)..Len(old)
        BY <1>1, <2>3
  <2>. HIDE DEF k
  <2>5. new[k] = old[i] BY <1>1, <2>3
  <2>6. \A j \in (k + 1)..Len(new) : new[j].msgtyp \notin About(a)
        BY <1>1, <2>1, <2>4
  <2>. QED BY <2>1, <2>3, <2>5, <2>6 DEF Waits
<1>3. ASSUME NoneWaits(old, a) PROVE NoneWaits(new, a)
      BY <1>1, <1>3 DEF NoneWaits
<1>. QED BY <1>2, <1>3

(* A request leaves the queue for the wire.                                *)
Started(new, old) ==
    /\ Len(new) = Len(old)
    /\ new[1].busy /\ new[1].msgtyp = old[1].msgtyp
    /\ \A i \in 2..Len(new) : new[i] = old[i]

LEMMA HearsOther ==
    ASSUME NEW m, NEW wire, NEW call, NEW a, NEW v, NEW T, wire \in Seq(T),
           call \in T, Hears(m, wire, a, v), call.msgtyp \notin About(a)
    PROVE  Hears(m, Append(wire, call), a, v)
<1>. DEFINE new == Append(wire, call)
            n   == Len(wire)
<1>1. /\ n \in Nat /\ Len(new) = n + 1 /\ new[n + 1] = call
      /\ \A j \in 1..n : new[j] = wire[j]
      OBVIOUS
<1>. HIDE DEF new, n
<1>2. PICK i \in 0..n :
         /\ \A j \in (i + 1)..n : wire[j].msgtyp \notin About(a)
         /\ i = 0 => m[a] = v
         /\ i > 0 => wire[i].msgtyp \in About(a) /\ Says(wire[i], a) = v
      BY DEF Hears, n
<1>3. ASSUME NEW j \in (i + 1)..Len(new) PROVE new[j].msgtyp \notin About(a)
  <2>1. CASE j = n + 1 BY <1>1, <2>1
  <2>2. CASE j # n + 1
    <3>1. j \in 1..n /\ j \in (i + 1)..n BY <1>1, <2>2
    <3>. QED BY <1>1, <1>2, <3>1
  <2>. QED BY <2>1, <2>2
<1>4. i \in 0..Len(new) /\ (i > 0 => i \in 1..n) BY <1>1
<1>5. i > 0 => new[i].msgtyp \in About(a) /\ Says(new[i], a) = v
      BY <1>1, <1>2, <1>4
<1>. QED BY <1>2, <1>3, <1>4, <1>5 DEF Hears, new

LEMMA HearsNew ==
    ASSUME NEW m, NEW wire, NEW call, NEW a, NEW T, wire \in Seq(T), call \in T,
           call.msgtyp \in About(a)
    PROVE  Hears(m, Append(wire, call), a, Says(call, a))
<1>. DEFINE new == Append(wire, call)
            n   == Len(wire)
<1>1. n \in Nat /\ Len(new) = n + 1 /\ new[n + 1] = call OBVIOUS
<1>. HIDE DEF new, n
<1>2. n + 1 \in 0..Len(new) /\ (n + 1 + 1)..Len(new) = {} /\ n + 1 > 0 /\ n + 1 # 0
      BY <1>1
<1>. QED BY <1>1, <1>2 DEF Hears, new

(* The manager handles the oldest call.                                    *)
LEMMA HearsTail ==
    ASSUME NEW m, NEW wire, NEW a, NEW v, NEW T, wire \in Seq(T), wire # <<>>,
           Hears(m, wire, a, v), NEW d,
           d[a] = IF Head(wire).msgtyp \in About(a) THEN Says(Head(wire), a)
                                                    ELSE m[a]
    PROVE  Hears(d, Tail(wire), a, v)
<1>. DEFINE new == Tail(wire)
            n   == Len(new)
<1>1. /\ n \in Nat /\ Len(wire) = n + 1 /\ Head(wire) = wire[1]
      /\ \A j \in 1..n : new[j] = wire[j + 1]
      OBVIOUS
<1>. HIDE DEF new, n
<1>2. PICK i \in 0..Len(wire) :
         /\ \A j \in (i + 1)..Len(wire) : wire[j].msgtyp \notin About(a)
         /\ i = 0 => m[a] = v
         /\ i > 0 => wire[i].msgtyp \in About(a) /\ Says(wire[i], a) = v
      BY DEF Hears
<1>3. ASSUME NEW k \in 0..n, k = IF i = 0 THEN 0 ELSE i - 1,
             NEW j \in (k + 1)..n
      PROVE  new[j].msgtyp \notin About(a)
  <2>1. j \in 1..n /\ j + 1 \in (i + 1)..Len(wire) BY <1>1, <1>3
  <2>. QED BY <1>1, <1>2, <2>1
<1>4. CASE i = 0
  <2>1. 1 \in (i + 1)..Len(wire) BY <1>1, <1>4
  <2>2. d[a] = v BY <1>1, <1>2, <1>4, <2>1
  <2>3. \A j \in (0 + 1)..n : new[j].msgtyp \notin About(a) BY <1>1, <1>3, <1>4
  <2>. QED BY <1>1, <2>2, <2>3 DEF Hears, n, new
<1>5. CASE i = 1
  <2>1. d[a] = v BY <1>1, <1>2, <1>5
  <2>2. \A j \in (0 + 1)..n : new[j].msgtyp \notin About(a) BY <1>1, <1>3, <1>5
  <2>. QED BY <1>1, <2>1, <2>2 DEF Hears, n, new
<1>6. CASE i > 1
  <2>. DEFINE k == i - 1
  <2>1. k \in 1..n /\ k \in 0..n /\ k > 0 /\ k # 0 /\ k + 1 = i BY <1>1, <1>6
  <2>. HIDE DEF k
  <2>2. k = IF i = 0 THEN 0 ELSE i - 1 BY <1>6 DEF k
  <2>3. \A j \in (k + 1)..n : new[j].msgtyp \notin About(a) BY <1>3, <2>1, <2>2
  <2>4. new[k] = wire[i] BY <1>1, <2>1
  <2>. QED BY <1>2, <1>6, <2>1, <2>3, <2>4 DEF Hears, n, new
<1>. QED BY <1>4, <1>5, <1>6
-----------------------------------------------------------------------------
(* Sending.                                                                *)

(* What the client wants of the set stays what it is. *)
Wishes(c, d) ==
    d.configs = c.configs /\ d.acquire = c.acquire /\ d.resources = c.resources

LEMMA SameWishes ==
    ASSUME NEW c, NEW d, Wishes(c, d), NEW a
    PROVE  Wants(d, a) = Wants(c, a) /\ Concerns(d, a) = Concerns(c, a)
BY DEF Wishes, Wants, Concerns, config_value, configured

(* A message about an attribute says what the client wants.                *)
LEMMA MessageSays ==
    ASSUME NEW c, NEW rq, NEW a \in Attribute, rq.msgtyp \in About(a),
           a = "acquire" => c.acquire = (rq.msgtyp = "acquire")
    PROVE  Says(message(c, rq), a) = Wants(c, a)
<1>1. CASE a = "resources" BY <1>1 DEF About, Says, Wants, message
<1>2. CASE a = "acquire" BY <1>2 DEF About, Says, Wants, message
<1>3. CASE a \in Kind
  <2>1. rq.msgtyp = a /\ a # "resources" /\ a # "acquire"
        BY <1>3 DEF Kind, About
  <2>. QED BY <1>3, <2>1 DEF Says, Wants, message
<1>. QED BY <1>1, <1>2, <1>3 DEF Attribute, Kind

(* Everything but the connection and the queue. *)
Kindred(c, d) ==
    /\ Wishes(c, d) /\ d.client = c.client /\ d.life = c.life
    /\ d.revived = c.revived /\ d.fault = c.fault /\ d.reqno = c.reqno
    /\ d.resset = c.resset /\ d.conn = c.conn /\ d.held = c.held

LEMMA TransmitTells ==
    ASSUME NEW c \in ResourceSetRec, c.reqlist # <<>>,
           Head(c.reqlist).msgtyp # "register",
           sendable(c, Head(c.reqlist).msgtyp)
    PROVE  LET d == transmit(c)
           IN  /\ Kindred(c, d) /\ Started(d.reqlist, c.reqlist)
               /\ d.wire = Append(c.wire, message(c, Head(c.reqlist)))
<1>. DEFINE rq   == Head(c.reqlist)
            call == message(c, rq)
            e    == dbus_send_message(c, call)
            sent == send_message(c, rq)
            busy == [rq EXCEPT !.busy = TRUE]
            list == <<busy>> \o Tail(c.reqlist)
            d    == transmit(c)
<1>1. c.reqlist \in Seq(Request) /\ rq \in Request /\ rq = c.reqlist[1]
      BY DEF ResourceSetRec
<1>. HIDE DEF call
<1>2. Kindred(c, e) /\ e.wire = Append(c.wire, call) /\ DOMAIN e = DOMAIN c
      BY DEF dbus_send_message, Kindred, Wishes, ResourceSetRec
<1>. HIDE DEF e
<1>3. sent = e \/ sent = [e EXCEPT !.path = FALSE, !.rset = resset_destroy(@)]
      BY DEF send_message, resconn_disconnect, dbus_disconnect_from_manager, e, call
<1>4. Kindred(c, sent) /\ sent.wire = e.wire /\ DOMAIN sent = DOMAIN c
  <2>1. ASSUME sent = [e EXCEPT !.path = FALSE, !.rset = resset_destroy(@)]
        PROVE  Kindred(c, sent) /\ sent.wire = e.wire /\ DOMAIN sent = DOMAIN c
    <3>. HIDE DEF sent
    <3>. QED BY <1>2, <2>1 DEF Kindred, Wishes
  <2>2. ASSUME sent = e
        PROVE  Kindred(c, sent) /\ sent.wire = e.wire /\ DOMAIN sent = DOMAIN c
    <3>. HIDE DEF sent
    <3>. QED BY <1>2, <2>2
  <2>. QED BY <1>3, <2>1, <2>2
<1>5. d = [sent EXCEPT !.reqlist = list] BY DEF transmit
<1>. HIDE DEF sent, list, d
<1>6. DOMAIN c = DOMAIN sent /\ "reqlist" \in DOMAIN c BY <1>4 DEF ResourceSetRec
<1>7. Kindred(c, d) /\ d.wire = sent.wire /\ d.reqlist = list
      BY <1>4, <1>5, <1>6 DEF Kindred, Wishes
<1>8. Started(list, c.reqlist)
  <2>. DEFINE t == Tail(c.reqlist)
              n == Len(t)
  <2>1. busy.busy /\ busy.msgtyp = c.reqlist[1].msgtyp /\ busy \in Request
        BY <1>1 DEF Request
  <2>2. /\ t \in Seq(Request) /\ n \in Nat /\ Len(c.reqlist) = n + 1
        /\ \A i \in 1..n : t[i] = c.reqlist[i + 1]
        BY <1>1
  <2>. HIDE DEF busy, t, n
  <2>3. /\ Len(<<busy>> \o t) = n + 1 /\ (<<busy>> \o t)[1] = busy
        /\ \A i \in 2..(n + 1) : (<<busy>> \o t)[i] = t[i - 1]
        BY <2>1, <2>2 DEF n
  <2>4. \A i \in 2..(n + 1) : i - 1 \in 1..n /\ (i - 1) + 1 = i BY <2>2
  <2>5. \A i \in 2..(n + 1) : t[i - 1] = c.reqlist[i] BY <2>2, <2>4
  <2>. QED BY <2>1, <2>2, <2>3, <2>5 DEF Started, list, t
<1>. QED BY <1>2, <1>4, <1>7, <1>8 DEF d, call

(* The manager will hear of what waits, and of what is sent now.           *)
LEMMA TransmitTold ==
    ASSUME NEW c \in ResourceSetRec, NEW d \in ResourceSetRec, c.reqlist # <<>>,
           NoneBusy(c.reqlist), Wishes(c, d), Started(d.reqlist, c.reqlist),
           NEW call, call = message(c, Head(c.reqlist)),
           d.wire = Append(c.wire, call), call \in Call,
           NEW m, NEW a \in Attribute, Told(c, m, a)
    PROVE  Told(d, m, a)
<1>. DEFINE old == c.reqlist
            new == d.reqlist
            rq  == Head(c.reqlist)
<1>1. /\ old \in Seq(Request) /\ rq = old[1] /\ Len(old) \in Nat /\ Len(old) # 0
      /\ new \in Seq(Request) /\ Len(new) = Len(old) /\ c.wire \in Seq(Call)
      BY DEF ResourceSetRec, Started
<1>2. call.msgtyp = rq.msgtyp /\ Wants(d, a) = Wants(c, a) /\ d.acquire = c.acquire
      BY SameWishes DEF message, Wishes
<1>3. /\ new[1].busy /\ new[1].msgtyp = rq.msgtyp
      /\ \A i \in 2..Len(new) : new[i] = old[i]
      BY <1>1 DEF Started
<1>4. \A i \in 1..Len(old) : i = 1 \/ i \in 2..Len(new) BY <1>1
<1>. HIDE DEF old, new, rq
<1>5. CASE Waits(old, a, c.acquire)
  <2>1. PICK i \in 1..Len(old) :
           /\ ~old[i].busy /\ old[i].msgtyp \in About(a)
           /\ \A j \in (i + 1)..Len(old) : old[j].msgtyp \notin About(a)
           /\ a = "acquire" => c.acquire = (old[i].msgtyp = "acquire")
        BY <1>5 DEF Waits
  <2>2. CASE i = 1
    <3>1. rq.msgtyp \in About(a) BY <1>1, <2>1, <2>2
    <3>2. Says(call, a) = Wants(c, a)
          BY <1>1, <2>1, <2>2, <3>1, MessageSays DEF rq
    <3>3. Hears(m, d.wire, a, Wants(d, a))
          BY <1>1, <1>2, <3>1, <3>2, HearsNew
    <3>4. \A j \in 2..Len(new) : new[j].msgtyp \notin About(a)
          BY <1>1, <1>3, <2>1, <2>2
    <3>5. NoneWaits(new, a) BY <1>1, <1>3, <1>4, <3>4 DEF NoneWaits
    <3>. QED BY <3>3, <3>5 DEF Told, new
  <2>3. CASE i # 1
    <3>1. i \in 2..Len(new) /\ i \in 1..Len(new) BY <1>1, <2>3
    <3>2. \A j \in (i + 1)..Len(new) : j \in 2..Len(new) /\ j \in (i + 1)..Len(old)
          BY <1>1, <3>1
    <3>3. \A j \in (i + 1)..Len(new) : new[j].msgtyp \notin About(a)
          BY <1>3, <2>1, <3>2
    <3>4. new[i] = old[i] BY <1>3, <3>1
    <3>5. Waits(new, a, d.acquire)
          BY <1>2, <2>1, <3>1, <3>3, <3>4 DEF Waits
    <3>. QED BY <3>5 DEF Told, new
  <2>. QED BY <2>2, <2>3
<1>6. CASE ~Waits(old, a, c.acquire)
  <2>1. NoneWaits(old, a) /\ Hears(m, c.wire, a, Wants(c, a))
        BY <1>6 DEF Told, old
  <2>2. \A i \in 1..Len(old) : old[i].msgtyp \notin About(a)
        BY <2>1 DEF NoneWaits, NoneBusy, old
  <2>3. rq.msgtyp \notin About(a) BY <1>1, <2>2
  <2>4. Hears(m, d.wire, a, Wants(d, a)) BY <1>1, <1>2, <2>1, <2>3, HearsOther
  <2>5. NoneWaits(new, a) BY <1>1, <1>3, <1>4, <2>2, <2>3 DEF NoneWaits
  <2>. QED BY <2>4, <2>5 DEF Told, new
<1>. QED BY <1>5, <1>6

(* A client that is ready and about to send: nothing is out.               *)
Ready(c) ==
    /\ c.client = "ready" /\ c.resset /\ may_send(c) /\ NoneBusy(c.reqlist)
    /\ NoRegister(c.reqlist) /\ Plain(c.wire)

LEMMA TransmitServes ==
    ASSUME NEW c \in ResourceSetRec, c.reqlist # <<>>, Ready(c),
           sendable(c, Head(c.reqlist).msgtyp),
           NEW e, e.gone \/ Knows(c, e)
    PROVE  LET d == transmit(c)
           IN  /\ Kindred(c, d)
               /\ d.wire = Append(c.wire, message(c, Head(c.reqlist)))
               /\ Serving(d, e) \/ UnregisterOut(d)
<1>. DEFINE d    == transmit(c)
            rq   == Head(c.reqlist)
            call == message(c, rq)
<1>1. /\ c.reqlist \in Seq(Request) /\ rq = c.reqlist[1] /\ Len(c.reqlist) # 0
      /\ Len(c.reqlist) \in Nat /\ rq \in Request /\ c.wire \in Seq(Call)
      BY DEF ResourceSetRec
<1>2. 1 \in 1..Len(c.reqlist) BY <1>1
<1>3. rq.msgtyp # "register" BY <1>1, <1>2 DEF Ready, NoRegister
<1>4. /\ Kindred(c, d) /\ Started(d.reqlist, c.reqlist)
      /\ d.wire = Append(c.wire, call)
      BY <1>3, TransmitTells
<1>5. d \in ResourceSetRec BY TransmitType
<1>6. call \in Call /\ call.msgtyp = rq.msgtyp
  <2>1. rq.msgtyp \in Kind => configured(c, rq.msgtyp) BY DEF sendable
  <2>. QED BY <1>1, <2>1, MessageType
<1>. HIDE DEF call, d
<1>7. CASE rq.msgtyp = "unregister"
  <2>1. d.reqlist \in Seq(Request) /\ Len(d.reqlist) # 0 /\ d.reqlist[1].msgtyp = "unregister"
        BY <1>1, <1>4, <1>5, <1>7 DEF Started, ResourceSetRec
  <2>2. d.reqlist # <<>> /\ Head(d.reqlist) = d.reqlist[1] BY <2>1
  <2>3. UnregisterOut(d) BY <2>1, <2>2 DEF UnregisterOut
  <2>. QED BY <1>4, <2>3 DEF d, call
<1>8. CASE rq.msgtyp # "unregister"
  <2>1. NoRegister(d.reqlist)
    <3>1. \A i \in 1..Len(d.reqlist) : i \in 1..Len(c.reqlist) /\ (i = 1 \/ i \in 2..Len(d.reqlist))
          BY <1>1, <1>4 DEF Started
    <3>. QED BY <1>1, <1>3, <1>4, <3>1 DEF Started, NoRegister, Ready
  <2>2. Plain(d.wire)
    <3>. DEFINE n == Len(c.wire)
    <3>1. /\ n \in Nat /\ Len(d.wire) = n + 1 /\ d.wire[n + 1] = call
          /\ \A i \in 1..n : d.wire[i] = c.wire[i]
          BY <1>1, <1>4, <1>6
    <3>2. \A i \in 1..Len(d.wire) : i \in 1..n \/ i = n + 1 BY <3>1
    <3>. HIDE DEF n
    <3>3. \A i \in 1..n : c.wire[i].msgtyp \notin {"register", "unregister"}
          BY DEF Ready, Plain, n
    <3>. QED BY <1>3, <1>6, <1>8, <3>1, <3>2, <3>3 DEF Plain
  <2>3. ASSUME Knows(c, e) PROVE Knows(d, e)
    <3>1. ASSUME NEW a \in Attribute, Concerns(d, a)
          PROVE  Told(d, e.m, a) \/ Excused(d, e, a)
      <4>1. Wishes(c, d) BY <1>4 DEF Kindred
      <4>2. Concerns(c, a) BY <3>1, <4>1, SameWishes
      <4>3. Told(c, e.m, a) \/ Excused(c, e, a) BY <2>3, <4>2 DEF Knows
      <4>4. Excused(c, e, a) => Excused(d, e, a) BY <4>1 DEF Excused, Wishes
      <4>5. NoneBusy(c.reqlist) BY DEF Ready
      <4>6. Told(c, e.m, a) => Told(d, e.m, a)
            BY <1>4, <1>5, <1>6, <4>1, <4>5, TransmitTold DEF call
      <4>. QED BY <4>3, <4>4, <4>6
    <3>. QED BY <2>3, <3>1 DEF Knows
  <2>4. Serving(d, e) BY <2>1, <2>2, <2>3 DEF Serving
  <2>. QED BY <1>4, <2>4 DEF d, call
<1>. QED BY <1>7, <1>8

LEMMA NumberedAppend ==
    ASSUME NEW c \in ResourceSetRec, NEW e, Numbered(c, e), NEW d,
           NEW call \in Call, d.wire = Append(c.wire, call),
           call.reqno <= c.reqno, d.reqno = c.reqno
    PROVE  Numbered(d, e)
<1>. DEFINE n == Len(c.wire)
<1>1. c.wire \in Seq(Call) BY DEF ResourceSetRec
<1>2. /\ n \in Nat /\ Len(d.wire) = n + 1 /\ d.wire[n + 1] = call
      /\ \A i \in 1..n : d.wire[i] = c.wire[i]
      BY <1>1
<1>3. \A i \in 1..Len(d.wire) : i \in 1..n \/ i = n + 1 BY <1>2
<1>4. \A i \in 1..n : c.wire[i].reqno <= c.reqno BY DEF Numbered
<1>. HIDE DEF n
<1>5. \A i \in 1..Len(d.wire) : d.wire[i].reqno <= c.reqno
      BY <1>2, <1>3, <1>4
<1>. QED BY <1>5 DEF Numbered

(* Without the requests in front that cannot be sent, the client is as     *)
(* ready as before: they are about configurations that it does not have.   *)
LEMMA DroppedReady ==
    ASSUME NEW c \in ResourceSetRec, NEW d \in ResourceSetRec, Ready(c),
           Kindred(c, d), d.wire = c.wire, d.rset = c.rset,
           NEW n, TakenOff(d.reqlist, c.reqlist, n),
           \A i \in 1..n : ~sendable(c, c.reqlist[i].msgtyp),
           NEW e, e.gone \/ Knows(c, e)
    PROVE  Ready(d) /\ (e.gone \/ Knows(d, e))
<1>1. /\ Len(c.reqlist) \in Nat /\ Wishes(c, d)
      /\ \A i \in 1..Len(d.reqlist) : /\ n + i \in 1..Len(c.reqlist)
                                      /\ d.reqlist[i] = c.reqlist[n + i]
      BY DEF ResourceSetRec, Kindred, TakenOff
<1>2. Ready(d)
      BY <1>1 DEF Ready, Kindred, may_send, NoneBusy, NoRegister
<1>3. ASSUME Knows(c, e), NEW a \in Attribute, Concerns(d, a)
      PROVE  Told(d, e.m, a) \/ Excused(d, e, a)
  <2>1. Concerns(c, a) /\ Wants(d, a) = Wants(c, a) BY <1>1, <1>3, SameWishes
  <2>2. Told(c, e.m, a) \/ Excused(c, e, a) BY <1>3, <2>1 DEF Knows
  <2>3. Excused(c, e, a) => Excused(d, e, a) BY <1>1 DEF Excused, Wishes
  <2>4. ASSUME NEW i \in 1..n PROVE c.reqlist[i].msgtyp \notin About(a)
    <3>1. i \in 1..Len(c.reqlist) BY <1>1 DEF TakenOff
    <3>2. /\ c.reqlist[i].msgtyp \in Kind
          /\ ~configured(c, c.reqlist[i].msgtyp)
          BY DEF sendable, Ready
    <3>. QED BY <2>1, <3>2 DEF About, Concerns, Kind, Attribute
  <2>5. /\ Waits(c.reqlist, a, c.acquire) => Waits(d.reqlist, a, c.acquire)
        /\ NoneWaits(c.reqlist, a) => NoneWaits(d.reqlist, a)
        BY <1>1, <2>4, WaitsBehind
  <2>6. Told(c, e.m, a) => Told(d, e.m, a) BY <1>1, <2>1, <2>5 DEF Told, Wishes
  <2>. QED BY <2>2, <2>3, <2>6
<1>4. Knows(c, e) => Knows(d, e) BY <1>3 DEF Knows
<1>. QED BY <1>2, <1>4

LEMMA SendFirstServes ==
    ASSUME NEW c \in ResourceSetRec, Ready(c), Ascending(c.reqlist, c.reqno),
           NEW e, e.gone \/ Knows(c, e), Numbered(c, e)
    PROVE  LET d == send_first(c)
           IN  /\ Kindred(c, d) /\ Numbered(d, e)
               /\ Serving(d, e) \/ UnregisterOut(d)
<1>. DEFINE n == first_sent(c)
            d == send_first(c)
<1>1. c.reqlist \in Seq(Request) /\ Len(c.reqlist) \in Nat BY DEF ResourceSetRec
<1>2. \A i \in 1..Len(c.reqlist) :
         n = 0 \/ i < n => ~sendable(c, c.reqlist[i].msgtyp)
      BY NotSent
<1>3. CASE n = 0
  <2>1. d = [c EXCEPT !.reqlist = <<>>] BY <1>3 DEF send_first
  <2>. HIDE DEF d
  <2>2. /\ Kindred(c, d) /\ d.wire = c.wire /\ d.rset = c.rset
        /\ d.reqlist = <<>> /\ d \in ResourceSetRec
    <3>1. <<>> \in Seq(Request) OBVIOUS
    <3>. QED BY <2>1, <3>1 DEF Kindred, Wishes, ResourceSetRec
  <2>3. TakenOff(d.reqlist, c.reqlist, Len(c.reqlist)) BY <1>1, <2>2 DEF TakenOff
  <2>4. \A i \in 1..Len(c.reqlist) : ~sendable(c, c.reqlist[i].msgtyp)
        BY <1>2, <1>3
  <2>5. Ready(d) /\ (e.gone \/ Knows(d, e)) BY <2>2, <2>3, <2>4, DroppedReady
  <2>6. Serving(d, e) BY <2>5 DEF Serving, Ready
  <2>7. Numbered(d, e) BY <2>2 DEF Numbered, Kindred
  <2>. QED BY <2>2, <2>6, <2>7 DEF d
<1>4. CASE n # 0
  <2>. DEFINE list == SubSeq(c.reqlist, n, Len(c.reqlist))
              b    == [c EXCEPT !.reqlist = list]
  <2>1. /\ n \in 1..Len(c.reqlist)
        /\ \/ c.reqlist[n].msgtyp = "register"
           \/ sendable(c, c.reqlist[n].msgtyp)
        BY <1>4, FirstSent
  <2>2. d = transmit(b) BY <1>4 DEF send_first
  <2>. HIDE DEF n
  <2>3. sendable(c, c.reqlist[n].msgtyp) BY <2>1 DEF Ready, NoRegister
  <2>4. /\ list \in Seq(Request) /\ Len(list) = Len(c.reqlist) - n + 1
        /\ \A i \in 1..Len(list) : list[i] = c.reqlist[n + i - 1]
    <3>1. \A i \in n..Len(c.reqlist) : c.reqlist[i] \in Request BY <1>1, <2>1
    <3>2. Len(c.reqlist) \in n..Len(c.reqlist) BY <1>1, <2>1
    <3>. QED BY <1>1, <2>1, <3>1, <3>2, SubSeqProperties
  <2>. DEFINE k == n - 1
  <2>5. /\ k \in 0..Len(c.reqlist)
        /\ \A i \in 1..k : i \in 1..Len(c.reqlist) /\ i < n
        BY <1>1, <2>1
  <2>. HIDE DEF list, d
  <2>6. TakenOff(list, c.reqlist, k)
    <3>1. \A i \in 1..Len(list) : n + i - 1 = k + i BY <1>1, <2>1, <2>4
    <3>2. Len(list) = Len(c.reqlist) - k BY <1>1, <2>1, <2>4
    <3>. QED BY <2>4, <2>5, <3>1, <3>2 DEF TakenOff
  <2>. HIDE DEF k
  <2>7. \A i \in 1..k : ~sendable(c, c.reqlist[i].msgtyp)
        BY <1>2, <2>5
  <2>8. /\ b \in ResourceSetRec /\ Kindred(c, b) /\ b.wire = c.wire
        /\ b.rset = c.rset /\ b.reqlist = list
        BY <2>4 DEF Kindred, Wishes, ResourceSetRec
  <2>. HIDE DEF b
  <2>9. Ready(b) /\ (e.gone \/ Knows(b, e)) BY <2>6, <2>7, <2>8, DroppedReady
  <2>10. /\ b.reqlist # <<>> /\ Head(b.reqlist) = c.reqlist[n]
         /\ c.reqlist[n] \in Request
    <3>1. Len(list) \in Nat /\ Len(list) # 0 /\ 1 \in 1..Len(list)
          BY <1>1, <2>1, <2>4
    <3>2. list # <<>> /\ Head(list) = list[1] BY <2>4, <3>1
    <3>3. list[1] = c.reqlist[n] BY <2>1, <2>4, <3>1
    <3>. QED BY <1>1, <2>1, <2>8, <3>2, <3>3
  <2>11. sendable(b, Head(b.reqlist).msgtyp)
         BY <2>3, <2>8, <2>10 DEF sendable, may_send, configured, Kindred, Wishes
  <2>. DEFINE call == message(b, Head(b.reqlist))
  <2>12. /\ Kindred(b, d) /\ d.wire = Append(b.wire, call)
         /\ Serving(d, e) \/ UnregisterOut(d)
         BY <2>2, <2>8, <2>9, <2>10, <2>11, TransmitServes
  <2>13. call \in Call /\ call.reqno = c.reqlist[n].reqno
    <3>1. Head(b.reqlist).msgtyp \in Kind => configured(b, Head(b.reqlist).msgtyp)
          BY <2>11 DEF sendable
    <3>. QED BY <2>8, <2>10, <3>1, MessageType
  <2>14. c.reqlist[n].reqno <= c.reqno BY <2>1 DEF Ascending
  <2>. HIDE DEF call
  <2>15. d.wire = Append(c.wire, call) /\ d.reqno = c.reqno
         BY <2>8, <2>12 DEF Kindred
  <2>16. Numbered(d, e) BY <2>13, <2>14, <2>15, NumberedAppend
  <2>. QED BY <2>8, <2>12, <2>16 DEF Kindred, Wishes, d
<1>. QED BY <1>3, <1>4

LEMMA SendRequestServes ==
    ASSUME NEW c \in ResourceSetRec, Ready(c), Ascending(c.reqlist, c.reqno),
           NEW e, e.gone \/ Knows(c, e), Numbered(c, e)
    PROVE  LET d == send_request(c)
           IN  /\ Kindred(c, d) /\ Numbered(d, e)
               /\ Serving(d, e) \/ UnregisterOut(d)
<1>1. CASE c.reqlist = <<>>
  <2>1. send_request(c) = c BY <1>1 DEF send_request
  <2>2. Serving(c, e) BY DEF Ready, Serving
  <2>. QED BY <2>1, <2>2 DEF Kindred, Wishes
<1>2. CASE c.reqlist # <<>>
  <2>1. ~Head(c.reqlist).busy
    <3>1. /\ c.reqlist \in Seq(Request) /\ Len(c.reqlist) \in Nat
          /\ Len(c.reqlist) # 0
          BY <1>2 DEF ResourceSetRec
    <3>2. Head(c.reqlist) = c.reqlist[1] /\ 1 \in 1..Len(c.reqlist) BY <3>1
    <3>. QED BY <3>2 DEF Ready, NoneBusy
  <2>2. c.client # "created" /\ ~dangling(c)
        BY DEF Ready, may_send, dangling, resset_find
  <2>3. send_request(c) = send_first(c) BY <1>2, <2>1, <2>2 DEF send_request
  <2>. QED BY <2>3, SendFirstServes
<1>. QED BY <1>1, <1>2
-----------------------------------------------------------------------------
(* New requests.                                                           *)

(* b is c with another wish, which a request of type t tells of.           *)
Asks(c, b, t) ==
    /\ b.reqlist = c.reqlist /\ b.wire = c.wire /\ b.reqno = c.reqno
    /\ b.client = c.client /\ b.life = c.life /\ b.revived = c.revived
    /\ b.fault = c.fault /\ b.rset = c.rset /\ b.path = c.path
    /\ b.resset = c.resset /\ b.conn = c.conn /\ b.replies = c.replies
    /\ \A a \in Attribute : Concerns(b, a) =>
          \/ t \in About(a) /\ (a = "acquire" => b.acquire = (t = "acquire"))
          \/ t \notin About(a) /\ Concerns(c, a) /\ Wants(b, a) = Wants(c, a)

LEMMA EnqueuePlain ==
    ASSUME NEW c \in ResourceSetRec, NEW types \in Seq(MsgType),
           Ascending(c.reqlist, c.reqno)
    PROVE  LET d == enqueue(c, types)
           IN  /\ d \in ResourceSetRec /\ Behind(d.reqlist, c.reqlist, types)
               /\ Wishes(c, d) /\ d.wire = c.wire
               /\ d.reqno = c.reqno + Len(types)
               /\ d.client = c.client /\ d.life = c.life
               /\ d.revived = c.revived /\ d.fault = c.fault
               /\ d.rset = c.rset /\ d.path = c.path /\ d.resset = c.resset
<1>. DEFINE d == enqueue(c, types)
<1>1. /\ d \in ResourceSetRec /\ Wishes(c, d) /\ d.wire = c.wire
      /\ d.reqno = c.reqno + Len(types)
      /\ d.client = c.client /\ d.life = c.life
      /\ d.revived = c.revived /\ d.fault = c.fault
      /\ d.rset = c.rset /\ d.path = c.path /\ d.resset = c.resset
  <2>1. d \in ResourceSetRec BY EnqueueType
  <2>. DEFINE new == [i \in 1..Len(types) |-> [msgtyp |-> types[i],
                                               reqno  |-> c.reqno + i,
                                               busy   |-> FALSE]]
  <2>2. d = [c EXCEPT !.reqno = @ + Len(types), !.reqlist = @ \o new]
        BY DEF enqueue
  <2>. HIDE DEF new, d
  <2>. QED BY <2>1, <2>2 DEF Wishes, ResourceSetRec
<1>2. Behind(d.reqlist, c.reqlist, types) BY EnqueueAppends DEF Behind
<1>. QED BY <1>1, <1>2

LEMMA NumberedMore ==
    ASSUME NEW c \in ResourceSetRec, NEW d, NEW e, NEW n \in Nat,
           Numbered(c, e), e.ok \in SUBSET Nat,
           d.wire = c.wire, d.reqno = c.reqno + n
    PROVE  Numbered(d, e)
<1>1. c.reqno \in Nat /\ c.wire \in Seq(Call) BY DEF ResourceSetRec
<1>2. \A i \in 1..Len(c.wire) : c.wire[i].reqno \in Nat
  <2>1. \A i \in 1..Len(c.wire) : c.wire[i] \in Call BY <1>1
  <2>. QED BY <2>1 DEF Call
<1>3. \A i \in 1..Len(c.wire) : c.wire[i].reqno <= c.reqno + n
      BY <1>1, <1>2 DEF Numbered
<1>4. \A x \in e.ok : x <= c.reqno + n BY <1>1 DEF Numbered
<1>. QED BY <1>3, <1>4 DEF Numbered

LEMMA AsksWaits ==
    ASSUME NEW c, NEW b, NEW t, Asks(c, b, t), NEW a \in Attribute,
           Concerns(b, a), t \notin About(a), NEW list,
           Waits(list, a, c.acquire)
    PROVE  Waits(list, a, b.acquire)
<1>1. Wants(b, a) = Wants(c, a) BY DEF Asks
<1>2. a = "acquire" => b.acquire = c.acquire BY <1>1 DEF Wants
<1>. QED BY <1>2 DEF Waits

LEMMA EnqueueTold ==
    ASSUME NEW c \in ResourceSetRec, NEW b \in ResourceSetRec, NEW t \in MsgType,
           Asks(c, b, t), Ascending(b.reqlist, b.reqno), NEW e,
           NEW a \in Attribute, Concerns(b, a),
           Concerns(c, a) => Told(c, e.m, a) \/ Excused(c, e, a)
    PROVE  LET d == enqueue(b, <<t>>) IN Told(d, e.m, a) \/ Excused(d, e, a)
<1>. DEFINE d == enqueue(b, <<t>>)
<1>1. <<t>> \in Seq(MsgType) OBVIOUS
<1>2. /\ Behind(d.reqlist, b.reqlist, <<t>>) /\ Wishes(b, d) /\ d.wire = b.wire
      BY <1>1, EnqueuePlain
<1>3. Len(b.reqlist) \in Nat /\ d.acquire = b.acquire
      BY <1>2 DEF ResourceSetRec, Wishes
<1>4. Wants(d, a) = Wants(b, a) BY <1>2, SameWishes
<1>. HIDE DEF d
<1>5. CASE t \in About(a)
  <2>1. a = "acquire" => d.acquire = (t = "acquire") BY <1>3, <1>5 DEF Asks
  <2>2. Waits(d.reqlist, a, d.acquire) BY <1>2, <1>3, <1>5, <2>1, WaitsLast
  <2>. QED BY <2>2 DEF Told, d
<1>6. CASE t \notin About(a)
  <2>1. Concerns(c, a) /\ Wants(b, a) = Wants(c, a) BY <1>6 DEF Asks
  <2>2. ASSUME Excused(c, e, a) PROVE Excused(d, e, a)
        BY <1>3, <2>1, <2>2 DEF Excused, Wants
  <2>3. ASSUME Waits(c.reqlist, a, c.acquire) PROVE Waits(d.reqlist, a, d.acquire)
    <3>1. b.reqlist = c.reqlist BY DEF Asks
    <3>2. Waits(b.reqlist, a, b.acquire) BY <1>6, <2>3, <3>1, AsksWaits
    <3>. QED BY <1>2, <1>3, <1>6, <3>2, WaitsOn
  <2>4. NoneWaits(c.reqlist, a) => NoneWaits(d.reqlist, a)
        BY <1>2, <1>3, <1>6, WaitsOn DEF Asks
  <2>5. Told(c, e.m, a) => Told(d, e.m, a)
        BY <1>2, <1>4, <2>1, <2>3, <2>4 DEF Told, Asks
  <2>. QED BY <2>1, <2>2, <2>5 DEF d
<1>. QED BY <1>5, <1>6

LEMMA EnqueueRegisters ==
    ASSUME NEW c \in ResourceSetRec, NEW b \in ResourceSetRec, NEW t \in MsgType,
           Asks(c, b, t), Ascending(b.reqlist, b.reqno), t # "register",
           NEW e, Registering(c, e)
    PROVE  Registering(enqueue(b, <<t>>), e)
<1>. DEFINE d    == enqueue(b, <<t>>)
            list == c.reqlist
            n    == Len(list)
<1>1. <<t>> \in Seq(MsgType) OBVIOUS
<1>2. /\ Behind(d.reqlist, b.reqlist, <<t>>) /\ Wishes(b, d) /\ d.wire = b.wire
      /\ d \in ResourceSetRec
      BY <1>1, EnqueuePlain
<1>. HIDE DEF d
<1>3. /\ n \in Nat /\ n > 0 /\ b.reqlist = list /\ d.acquire = b.acquire
      /\ d.wire = c.wire /\ d.resources = b.resources
  <2>1. list \in Seq(Request) /\ list # <<>> BY DEF ResourceSetRec, Registering
  <2>2. n \in Nat /\ n > 0 BY <2>1
  <2>. QED BY <1>2, <2>2 DEF Asks, Wishes
<1>4. /\ Len(d.reqlist) = n + 1 /\ d.reqlist[n + 1].msgtyp = t
      /\ \A i \in 1..n : d.reqlist[i] = list[i]
  <2>1. Len(<<t>>) = 1 /\ <<t>>[1] = t /\ n + 1 - n = 1
        /\ n + 1 \in (n + 1)..(n + 1)
        BY <1>3
  <2>. QED BY <1>2, <1>3, <2>1 DEF Behind
<1>. HIDE DEF n
<1>5. /\ d.reqlist # <<>> /\ d.reqlist[1] = list[1]
  <2>1. 1 \in 1..n /\ Len(d.reqlist) # 0 /\ d.reqlist \in Seq(Request)
        BY <1>2, <1>3, <1>4 DEF ResourceSetRec
  <2>. QED BY <1>4, <2>1
<1>6. \A i \in 2..Len(d.reqlist) : d.reqlist[i].msgtyp # "register"
  <2>1. \A i \in 2..Len(d.reqlist) : i = n + 1 \/ (i \in 2..n /\ i \in 1..n)
        BY <1>3, <1>4
  <2>. QED BY <1>4, <2>1 DEF Registering, n
<1>7. ASSUME NEW a \in Attribute, Concerns(b, a),
             t \in About(a) \/ Waits(list, a, c.acquire)
      PROVE  Waits(d.reqlist, a, d.acquire)
  <2>1. CASE t \in About(a)
    <3>1. a = "acquire" => d.acquire = (t = "acquire")
          BY <1>3, <1>7, <2>1 DEF Asks
    <3>. QED BY <1>2, <1>3, <2>1, <3>1, WaitsLast DEF n
  <2>2. CASE t \notin About(a)
    <3>1. Waits(b.reqlist, a, b.acquire) BY <1>3, <1>7, <2>2, AsksWaits
    <3>. QED BY <1>2, <1>3, <2>2, <3>1, WaitsOn DEF n
  <2>. QED BY <2>1, <2>2
<1>8. ASSUME NEW a \in Attribute, NoneWaits(list, a), t \notin About(a)
      PROVE  NoneWaits(d.reqlist, a)
      BY <1>2, <1>3, <1>8, WaitsOn DEF n
<1>9. ASSUME NEW kind \in Kind, configured(d, kind)
      PROVE  Waits(d.reqlist, kind, d.acquire)
  <2>1. kind \in Attribute /\ Concerns(b, kind)
        BY <1>2, <1>9 DEF Kind, Attribute, Concerns, configured, Wishes
  <2>2. t \in About(kind) \/ configured(c, kind)
        BY <2>1 DEF Asks, Concerns
  <2>. QED BY <1>7, <2>1, <2>2 DEF Registering
<1>10. \/ e.auto /\ ~d.acquire
       \/ Waits(d.reqlist, "acquire", d.acquire)
       \/ NoneWaits(d.reqlist, "acquire") /\ ~d.acquire
  <2>1. "acquire" \in Attribute /\ Concerns(b, "acquire")
        BY DEF Attribute, Concerns, Kind
  <2>2. t \notin About("acquire") => d.acquire = c.acquire
        BY <1>3, <2>1 DEF Asks, Wants
  <2>. QED BY <1>7, <1>8, <2>1, <2>2 DEF Registering
<1>11. ASSUME NEW x, Carried(c, x) PROVE Carried(d, x)
  <2>1. "resources" \in Attribute /\ Concerns(b, "resources")
        BY DEF Attribute, Concerns, Kind
  <2>2. t \notin About("resources") => d.resources = c.resources
        BY <1>3, <2>1 DEF Asks, Wants
  <2>. QED BY <1>7, <1>8, <1>11, <2>1, <2>2 DEF Carried
<1>. QED BY <1>3, <1>5, <1>6, <1>9, <1>10, <1>11 DEF Registering, d

(* Behind a request that is out, a new one only waits. *)
LEMMA PushWaits ==
    ASSUME NEW c \in ResourceSetRec, QueueInv(c), c.fault = "none",
           c.reqlist # <<>>, c.client # "created", NEW t \in MsgType
    PROVE  push_request(c, t) = enqueue(c, <<t>>)
<1>. DEFINE d == enqueue(c, <<t>>)
<1>1. <<t>> \in Seq(MsgType) OBVIOUS
<1>2. /\ Ascending(c.reqlist, c.reqno) /\ HeadBusy(c.reqlist)
      /\ c.reqlist \in Seq(Request)
      BY DEF QueueInv, Settled, ResourceSetRec
<1>3. d \in ResourceSetRec /\ Behind(d.reqlist, c.reqlist, <<t>>)
      BY <1>1, <1>2, EnqueuePlain
<1>4. push_request(c, t) = send_request(d) BY DEF push_request
<1>. HIDE DEF d
<1>5. /\ Len(c.reqlist) \in Nat /\ Len(c.reqlist) # 0 /\ 1 \in 1..Len(c.reqlist)
      /\ d.reqlist \in Seq(Request) /\ Len(d.reqlist) = Len(c.reqlist) + 1
  <2>1. Len(<<t>>) = 1 OBVIOUS
  <2>. QED BY <1>2, <1>3, <2>1 DEF Behind, ResourceSetRec
<1>6. d.reqlist[1] = c.reqlist[1] BY <1>3, <1>5 DEF Behind
<1>7. Head(d.reqlist) = d.reqlist[1] /\ d.reqlist # <<>> BY <1>5
<1>8. Head(d.reqlist).busy BY <1>2, <1>6, <1>7 DEF HeadBusy
<1>. QED BY <1>4, <1>8 DEF send_request, d

LEMMA PushAgrees ==
    ASSUME NEW c \in ResourceSetRec, QueueInv(c), Sound(c, 0),
           c.fault = "none", c.life = "live", NEW e, e.ok \in SUBSET Nat,
           Agrees(c, e), NEW b \in ResourceSetRec, NEW t \in MsgType,
           Asks(c, b, t), OneOfAKind(b), t # "register"
    PROVE  Agrees(push_request(b, t), e)
<1>. DEFINE d == push_request(b, t)
<1>. SUFFICES ASSUME ~d.revived PROVE Agrees(d, e) BY DEF Agrees
<1>1. /\ b.client = c.client /\ b.life = "live" /\ b.fault = "none"
      /\ b.reqlist = c.reqlist /\ b.revived = c.revived /\ b.wire = c.wire
      /\ b.reqno = c.reqno /\ b.rset = c.rset /\ b.path = c.path
      /\ b.resset = c.resset
      BY DEF Asks
<1>2. d.revived = b.revived BY <1>1, PushDrifts DEF Drifts
<1>3. /\ OneOfAKind(c) /\ Numbered(c, e) /\ Follows(c, e) /\ ~c.revived
      BY <1>1, <1>2 DEF Agrees
<1>4. Numbered(b, e) BY <1>1, <1>3 DEF Numbered
<1>5. QueueInv(b) BY SameQueue DEF Asks
<1>6. Ascending(b.reqlist, b.reqno) BY <1>1, <1>5 DEF QueueInv, Settled
<1>. DEFINE q == enqueue(b, <<t>>)
<1>7. <<t>> \in Seq(MsgType) /\ Len(<<t>>) = 1 OBVIOUS
<1>8. /\ q \in ResourceSetRec /\ Behind(q.reqlist, b.reqlist, <<t>>)
      /\ Wishes(b, q) /\ q.wire = b.wire /\ q.reqno = b.reqno + 1
      /\ q.client = b.client /\ q.life = b.life
      /\ q.revived = b.revived /\ q.fault = b.fault
      /\ q.rset = b.rset /\ q.path = b.path /\ q.resset = b.resset
      BY <1>6, <1>7, EnqueuePlain
<1>9. Numbered(q, e) BY <1>4, <1>8, NumberedMore
<1>10. OneOfAKind(q) BY <1>8 DEF OneOfAKind, Wishes
<1>11. c.reqlist \in Seq(Request) /\ Len(c.reqlist) \in Nat BY DEF ResourceSetRec
<1>12. CASE c.client = "created"
  <2>1. d = b BY <1>1, <1>12 DEF push_request
  <2>2. Follows(b, e)
        BY <1>1, <1>3, <1>12 DEF Follows, Doomed
  <2>. QED BY <1>4, <2>1, <2>2 DEF Agrees
<1>13. CASE c.client # "created" /\ c.reqlist # <<>>
  <2>1. d = q BY <1>1, <1>5, <1>13, PushWaits
  <2>. HIDE DEF q, d
  <2>2. ASSUME c.client = "connecting" PROVE Registering(q, e) \/ Doomed(q)
    <3>1. CASE Doomed(c) BY <1>1, <1>8, <3>1 DEF Doomed
    <3>2. CASE Registering(c, e)
          BY <1>6, <3>2, EnqueueRegisters DEF q
    <3>. QED BY <1>3, <2>2, <3>1, <3>2 DEF Follows
  <2>3. q.reqlist # <<>> /\ Head(q.reqlist) = Head(c.reqlist)
    <3>1. /\ Len(c.reqlist) # 0 /\ 1 \in 1..Len(c.reqlist)
          /\ Len(q.reqlist) = Len(c.reqlist) + 1 /\ q.reqlist \in Seq(Request)
          BY <1>1, <1>7, <1>8, <1>11, <1>13 DEF Behind, ResourceSetRec
    <3>2. q.reqlist[1] = c.reqlist[1] BY <1>1, <1>8, <3>1 DEF Behind
    <3>. QED BY <1>11, <3>1, <3>2
  <2>4. ASSUME Serving(c, e) PROVE Serving(q, e)
    <3>1. NoRegister(q.reqlist)
      <4>. DEFINE n == Len(c.reqlist)
      <4>1. /\ Len(q.reqlist) = n + 1 /\ \A i \in 1..n : q.reqlist[i] = c.reqlist[i]
            /\ q.reqlist[n + 1].msgtyp = t
        <5>1. <<t>>[1] = t /\ n + 1 - n = 1 /\ n + 1 \in (n + 1)..(n + 1)
              BY <1>11
        <5>. QED BY <1>1, <1>7, <1>8, <5>1 DEF Behind
      <4>2. \A i \in 1..Len(q.reqlist) : i \in 1..n \/ i = n + 1 BY <1>11, <4>1
      <4>. HIDE DEF n
      <4>3. \A i \in 1..n : c.reqlist[i].msgtyp # "register"
            BY <2>4 DEF Serving, NoRegister, n
      <4>. QED BY <4>1, <4>2, <4>3 DEF NoRegister
    <3>2. Plain(q.wire) BY <1>1, <1>8, <2>4 DEF Serving
    <3>3. ASSUME Knows(c, e) PROVE Knows(q, e)
      <4>1. ASSUME NEW a \in Attribute, Concerns(q, a)
            PROVE  Told(q, e.m, a) \/ Excused(q, e, a)
        <5>1. Concerns(b, a) BY <1>8, <4>1, SameWishes
        <5>2. Concerns(c, a) => Told(c, e.m, a) \/ Excused(c, e, a)
              BY <3>3 DEF Knows
        <5>. QED BY <1>6, <5>1, <5>2, EnqueueTold DEF q
      <4>. QED BY <3>3, <4>1 DEF Knows
    <3>. QED BY <2>4, <3>1, <3>2, <3>3 DEF Serving
  <2>5. UnregisterOut(c) => UnregisterOut(q) BY <2>3 DEF UnregisterOut
  <2>6. Follows(q, e)
        BY <1>1, <1>3, <1>8, <1>13, <2>2, <2>4, <2>5 DEF Follows
  <2>. QED BY <1>9, <1>10, <2>1, <2>6 DEF Agrees, d
<1>14. CASE c.client # "created" /\ c.reqlist = <<>>
  <2>1. c.client = "ready"
    <3>1. Alive(c) BY DEF Sound
    <3>2. ~HasRegister(c) BY <1>14 DEF HasRegister
    <3>. QED BY <1>14, <3>1, <3>2 DEF Alive, ResourceSetRec
  <2>2. ~UnregisterOut(c) BY <1>14 DEF UnregisterOut
  <2>3. Serving(c, e) BY <1>3, <2>1, <2>2 DEF Follows
  <2>4. c.resset /\ c.rset.state = "connected"
    <3>1. Orderly(c, 0) /\ Alive(c) BY <1>3 DEF Sound
    <3>. QED BY <2>1, <2>2, <3>1 DEF Orderly, Alive
  <2>5. d = send_request(q) BY <1>1, <2>1 DEF push_request
  <2>6. Idle(q, {}, 0) BY <1>1, <1>5, <1>7, <1>14, EnqueueFirst
  <2>. HIDE DEF q, d
  <2>7. /\ Len(q.reqlist) = 1 /\ q.reqlist[1].msgtyp = t
        /\ \A i \in 1..Len(q.reqlist) : i = 1
    <3>1. Len(c.reqlist) = 0 BY <1>14
    <3>2. <<t>>[1] = t /\ 1 - 0 = 1 /\ 1 \in (0 + 1)..1 OBVIOUS
    <3>3. Len(q.reqlist) = 1 BY <1>1, <1>7, <1>8, <3>1 DEF Behind
    <3>. QED BY <1>1, <1>8, <3>1, <3>2, <3>3 DEF Behind
  <2>8. Ready(q)
    <3>1. NoRegister(q.reqlist) BY <2>7 DEF NoRegister
    <3>2. NoneBusy(q.reqlist) BY <2>6 DEF Idle
    <3>3. Plain(q.wire) BY <1>1, <1>8, <2>3 DEF Serving
    <3>. QED BY <1>1, <1>8, <2>1, <2>4, <3>1, <3>2, <3>3 DEF Ready, may_send
  <2>9. ASSUME Knows(c, e) PROVE Knows(q, e)
    <3>1. ASSUME NEW a \in Attribute, Concerns(q, a)
          PROVE  Told(q, e.m, a) \/ Excused(q, e, a)
      <4>1. Concerns(b, a) BY <1>8, <3>1, SameWishes
      <4>2. Concerns(c, a) => Told(c, e.m, a) \/ Excused(c, e, a)
            BY <2>9 DEF Knows
      <4>. QED BY <1>6, <4>1, <4>2, EnqueueTold DEF q
    <3>. QED BY <2>9, <3>1 DEF Knows
  <2>10. e.gone \/ Knows(q, e) BY <2>3, <2>9 DEF Serving
  <2>11. Ascending(q.reqlist, q.reqno) BY <2>6 DEF Idle
  <2>12. /\ Kindred(q, d) /\ Numbered(d, e)
         /\ Serving(d, e) \/ UnregisterOut(d)
         BY <1>8, <1>9, <2>5, <2>8, <2>10, <2>11, SendRequestServes
  <2>13. OneOfAKind(d) BY <1>10, <2>12 DEF OneOfAKind, Kindred, Wishes
  <2>14. d.client = "ready" BY <1>1, <1>8, <2>1, <2>12 DEF Kindred
  <2>15. Follows(d, e) BY <2>12, <2>14 DEF Follows
  <2>. QED BY <2>12, <2>13, <2>15 DEF Agrees, d
<1>. QED BY <1>12, <1>13, <1>14
-----------------------------------------------------------------------------
(* The public operations.                                                  *)
LEMMA AsksSame ==
    ASSUME NEW c, NEW b, NEW t,
           b.reqlist = c.reqlist, b.wire = c.wire, b.reqno = c.reqno,
           b.client = c.client, b.life = c.life, b.revived = c.revived,
           b.fault = c.fault, b.rset = c.rset, b.path = c.path,
           b.resset = c.resset, b.conn = c.conn, b.replies = c.replies,
           b.configs = c.configs,
           \/ t = "update" /\ b.acquire = c.acquire
           \/ t = "unregister" /\ b.acquire = c.acquire /\ b.resources = c.resources
           \/ t \in {"acquire", "release"} /\ b.resources = c.resources
              /\ b.acquire = (t = "acquire")
    PROVE  Asks(c, b, t)
<1>1. ASSUME NEW a \in Attribute, Concerns(b, a)
      PROVE  \/ t \in About(a) /\ (a = "acquire" => b.acquire = (t = "acquire"))
             \/ t \notin About(a) /\ Concerns(c, a) /\ Wants(b, a) = Wants(c, a)
  <2>1. CASE a \in Kind
    <3>1. t \notin About(a) BY <2>1 DEF Kind, About
    <3>2. Concerns(c, a) /\ Wants(b, a) = Wants(c, a)
          BY <1>1, <2>1 DEF Kind, Concerns, Wants, configured, config_value
    <3>. QED BY <3>1, <3>2
  <2>2. CASE a = "resources"
        BY <2>2 DEF Kind, Concerns, Wants, About
  <2>3. CASE a = "acquire"
        BY <2>3 DEF Kind, Concerns, Wants, About
  <2>. QED BY <2>1, <2>2, <2>3 DEF Attribute, Kind
<1>. QED BY <1>1 DEF Asks

LEMMA OperationsAgree ==
    ASSUME NEW c \in ResourceSetRec, QueueInv(c), Sound(c, 0),
           c.fault = "none", c.life = "live", NEW e, e.ok \in SUBSET Nat,
           Agrees(c, e)
    PROVE  /\ Agrees(resource_set_destroy(c), e)
           /\ Agrees(resource_set_acquire(c), e)
           /\ Agrees(resource_set_release(c), e)
           /\ Agrees(receive_release_message(c), e)
<1>1. ASSUME NEW b \in ResourceSetRec, NEW t \in MsgType, Asks(c, b, t),
             b.configs = c.configs, t # "register"
      PROVE  Agrees(push_request(b, t), e)
  <2>1. CASE c.revived
    <3>1. b.fault = "none" /\ b.revived BY <1>1, <2>1 DEF Asks
    <3>2. push_request(b, t).revived BY <3>1, PushDrifts DEF Drifts
    <3>. QED BY <3>2 DEF Agrees
  <2>2. CASE ~c.revived
    <3>1. OneOfAKind(b) BY <1>1, <2>2 DEF Agrees, OneOfAKind
    <3>. QED BY <1>1, <3>1, PushAgrees
  <2>. QED BY <2>1, <2>2
<1>2. Agrees(resource_set_destroy(c), e)
  <2>. DEFINE b == [c EXCEPT !.held = FALSE]
  <2>1. b \in ResourceSetRec /\ Asks(c, b, "unregister") /\ b.configs = c.configs
    <3>1. b \in ResourceSetRec BY DEF ResourceSetRec
    <3>2. /\ b.reqlist = c.reqlist /\ b.wire = c.wire /\ b.reqno = c.reqno
          /\ b.client = c.client /\ b.life = c.life /\ b.revived = c.revived
          /\ b.fault = c.fault /\ b.rset = c.rset /\ b.path = c.path
          /\ b.resset = c.resset /\ b.conn = c.conn /\ b.replies = c.replies
          /\ b.configs = c.configs /\ b.acquire = c.acquire
          /\ b.resources = c.resources
          BY DEF ResourceSetRec
    <3>. HIDE DEF b
    <3>. QED BY <3>1, <3>2, AsksSame
  <2>. HIDE DEF b
  <2>. QED BY <1>1, <2>1 DEF resource_set_destroy, MsgType, b
<1>3. ASSUME NEW x \in BOOLEAN, NEW t, t = IF x THEN "acquire" ELSE "release"
      PROVE  Agrees(push_request([c EXCEPT !.acquire = x], t), e)
  <2>. DEFINE b == [c EXCEPT !.acquire = x]
  <2>1. b \in ResourceSetRec /\ Asks(c, b, t) /\ b.configs = c.configs
    <3>1. b \in ResourceSetRec BY DEF ResourceSetRec
    <3>2. /\ b.reqlist = c.reqlist /\ b.wire = c.wire /\ b.reqno = c.reqno
          /\ b.client = c.client /\ b.life = c.life /\ b.revived = c.revived
          /\ b.fault = c.fault /\ b.rset = c.rset /\ b.path = c.path
          /\ b.resset = c.resset /\ b.conn = c.conn /\ b.replies = c.replies
          /\ b.configs = c.configs /\ b.acquire = x
          /\ b.resources = c.resources
          BY DEF ResourceSetRec
    <3>. HIDE DEF b
    <3>3. b.acquire = (t = "acquire") /\ t \in {"acquire", "release"}
          BY <1>3, <3>2
    <3>. QED BY <3>1, <3>2, <3>3, AsksSame
  <2>. HIDE DEF b
  <2>2. t \in MsgType /\ t # "register" BY <1>3 DEF MsgType
  <2>3. Agrees(push_request(b, t), e) BY <1>1, <2>1, <2>2
  <2>. QED BY <2>3 DEF b
<1>4. Agrees(resource_set_acquire(c), e)
  <2>1. Agrees(push_request([c EXCEPT !.acquire = TRUE], "acquire"), e) BY <1>3
  <2>. QED BY <2>1 DEF resource_set_acquire
<1>5. /\ Agrees(push_request([c EXCEPT !.acquire = FALSE], "release"), e)
  BY <1>3
<1>6. Agrees(resource_set_release(c), e) BY <1>5 DEF resource_set_release
<1>7. Agrees(receive_release_message(c), e)
  <2>1. \/ receive_release_message(c) = c
        \/ receive_release_message(c)
              = push_request([c EXCEPT !.acquire = FALSE], "release")
        BY DEF receive_release_message
  <2>. QED BY <1>5, <2>1
<1>. QED BY <1>2, <1>4, <1>6, <1>7

LEMMA ConfigureResourcesAgrees ==
    ASSUME NEW c \in ResourceSetRec, QueueInv(c), Sound(c, 0),
           c.fault = "none", c.life = "live", NEW e, e.ok \in SUBSET Nat,
           Agrees(c, e), NEW mandatory \in SUBSET Resource,
           NEW optional \in SUBSET Resource
    PROVE  Agrees(resource_set_configure_resources(c, mandatory, optional), e)
<1>. DEFINE flags == [all |-> mandatory \cup optional, opt |-> optional \ mandatory]
            b     == [c EXCEPT !.resources = flags]
<1>1. flags \in ResourceFlags BY DEF ResourceFlags
<1>. HIDE DEF flags
<1>2. b \in ResourceSetRec BY <1>1 DEF ResourceSetRec
<1>3. /\ b.reqlist = c.reqlist /\ b.wire = c.wire /\ b.reqno = c.reqno
      /\ b.client = c.client /\ b.life = c.life /\ b.revived = c.revived
      /\ b.fault = c.fault /\ b.rset = c.rset /\ b.path = c.path
      /\ b.resset = c.resset /\ b.conn = c.conn /\ b.replies = c.replies
      /\ b.configs = c.configs /\ b.acquire = c.acquire
      BY DEF ResourceSetRec
<1>4. \/ resource_set_configure_resources(c, mandatory, optional) = c
      \/ resource_set_configure_resources(c, mandatory, optional)
            = push_request(b, "update")
      BY DEF resource_set_configure_resources, flags
<1>. HIDE DEF b
<1>5. Asks(c, b, "update") BY <1>3, AsksSame
<1>6. "update" \in MsgType BY DEF MsgType
<1>7. Agrees(push_request(b, "update"), e)
  <2>1. CASE c.revived
    <3>1. push_request(b, "update").revived
          BY <1>2, <1>3, <1>6, <2>1, PushDrifts DEF Drifts
    <3>. QED BY <3>1 DEF Agrees
  <2>2. CASE ~c.revived
    <3>1. OneOfAKind(b) BY <1>3, <2>2 DEF Agrees, OneOfAKind
    <3>. QED BY <1>2, <1>5, <1>6, <3>1, PushAgrees
  <2>. QED BY <2>1, <2>2
<1>. QED BY <1>4, <1>7

(* The configuration of a kind is the only one of it.                      *)
LEMMA ConfigOf ==
    ASSUME NEW c \in ResourceSetRec, OneOfAKind(c), NEW i \in 1..Len(c.configs)
    PROVE  /\ configured(c, c.configs[i].kind)
           /\ config_value(c, c.configs[i].kind) = c.configs[i].value
<1>. DEFINE kind == c.configs[i].kind
            j    == CHOOSE j \in DOMAIN c.configs : c.configs[j].kind = kind
<1>1. DOMAIN c.configs = 1..Len(c.configs) BY DEF ResourceSetRec
<1>2. j \in 1..Len(c.configs) /\ c.configs[j].kind = kind BY <1>1
<1>3. config_value(c, kind) = c.configs[j].value BY DEF config_value
<1>. HIDE DEF j
<1>4. j = i BY <1>2 DEF OneOfAKind
<1>. QED BY <1>1, <1>3, <1>4 DEF configured

(* A call changes the configuration of its kind and no other.              *)
LEMMA ConfiguresOne ==
    ASSUME NEW c \in ResourceSetRec, OneOfAKind(c), NEW kind \in Kind,
           NEW given \in ConfigValue, NEW b \in ResourceSetRec,
           b.configs = configs_after(c, kind, given)
    PROVE  /\ OneOfAKind(b)
           /\ \A k : k # kind /\ configured(b, k) =>
                 configured(c, k) /\ config_value(b, k) = config_value(c, k)
<1>1. /\ c.configs \in Seq(Config) /\ Len(c.configs) \in Nat
      /\ DOMAIN c.configs = 1..Len(c.configs)
      /\ DOMAIN b.configs = 1..Len(b.configs)
      BY DEF ResourceSetRec
<1>. DEFINE n       == Len(c.configs)
            updated == [i \in DOMAIN c.configs |->
                          IF c.configs[i].kind = kind
                          THEN [kind  |-> kind,
                                value |-> merged(kind, c.configs[i].value, given)]
                          ELSE c.configs[i]]
            first   == [kind |-> kind, value |-> given]
            created == <<first>> \o c.configs
            list    == b.configs
<1>2. list = IF configured(c, kind) THEN updated
             ELSE IF creates(kind, given) THEN created ELSE c.configs
      BY DEF configs_after
<1>3. CASE configured(c, kind)
  <2>1. list = updated BY <1>2, <1>3
  <2>2. DOMAIN list = 1..n BY <1>1, <2>1
  <2>3. Len(list) = n BY <1>1, <2>2
  <2>4. \A i \in 1..n : /\ list[i].kind = c.configs[i].kind
                        /\ c.configs[i].kind # kind => list[i] = c.configs[i]
        BY <1>1, <2>1
  <2>. HIDE DEF list, updated
  <2>5. OneOfAKind(b) BY <2>3, <2>4 DEF OneOfAKind, list
  <2>6. ASSUME NEW k, k # kind, configured(b, k)
        PROVE  configured(c, k) /\ config_value(b, k) = config_value(c, k)
    <3>1. PICK i \in 1..n : list[i].kind = k
          BY <1>1, <2>3, <2>6 DEF configured, list
    <3>2. c.configs[i].kind = k /\ list[i] = c.configs[i] BY <2>4, <2>6, <3>1
    <3>3. config_value(b, k) = list[i].value
          BY <2>3, <2>5, <3>1, ConfigOf DEF list
    <3>4. configured(c, k) /\ config_value(c, k) = c.configs[i].value
          BY <3>2, ConfigOf
    <3>. QED BY <3>2, <3>3, <3>4
  <2>. QED BY <2>5, <2>6
<1>4. CASE ~configured(c, kind) /\ ~creates(kind, given)
      BY <1>2, <1>4 DEF OneOfAKind, configured, config_value
<1>5. CASE ~configured(c, kind) /\ creates(kind, given)
  <2>1. list = created BY <1>2, <1>5
  <2>2. first.kind = kind /\ <<first>> \in Seq({first}) OBVIOUS
  <2>. HIDE DEF list, first
  <2>3. /\ Len(list) = n + 1 /\ list[1] = first
        /\ \A i \in 1..n : list[i + 1] = c.configs[i]
    <3>. HIDE DEF n
    <3>1. Len(<<first>> \o c.configs) = 1 + n BY <1>1 DEF n
    <3>2. (<<first>> \o c.configs)[1] = first BY <1>1 DEF n
    <3>3. \A i \in 1..n : (<<first>> \o c.configs)[i + 1] = c.configs[i]
          BY <1>1 DEF n
    <3>. QED BY <1>1, <2>1, <3>1, <3>2, <3>3 DEF n
  <2>4. \A i \in 1..n : c.configs[i].kind # kind BY <1>1, <1>5 DEF configured
  <2>5. ASSUME NEW i \in 1..(n + 1), i # 1
        PROVE  i - 1 \in 1..n /\ list[i] = c.configs[i - 1]
    <3>1. i - 1 \in 1..n /\ (i - 1) + 1 = i BY <1>1, <2>5
    <3>. QED BY <2>3, <3>1
  <2>. HIDE DEF n
  <2>6. OneOfAKind(b)
    <3>. SUFFICES ASSUME NEW i \in 1..(n + 1), NEW j \in 1..(n + 1),
                         list[i].kind = list[j].kind
                  PROVE  i = j
         BY <2>3 DEF OneOfAKind, list
    <3>1. i = 1 <=> j = 1 BY <2>2, <2>3, <2>4, <2>5
    <3>2. CASE i # 1 /\ j # 1
      <4>1. c.configs[i - 1].kind = c.configs[j - 1].kind BY <2>5, <3>2
      <4>2. i - 1 \in 1..Len(c.configs) /\ j - 1 \in 1..Len(c.configs)
            BY <2>5, <3>2 DEF n
      <4>3. i - 1 = j - 1 BY <4>1, <4>2 DEF OneOfAKind
      <4>. QED BY <4>3
    <3>. QED BY <3>1, <3>2
  <2>7. ASSUME NEW k, k # kind, configured(b, k)
        PROVE  configured(c, k) /\ config_value(b, k) = config_value(c, k)
    <3>1. PICK i \in 1..(n + 1) : list[i].kind = k
          BY <1>1, <2>3, <2>7 DEF configured, list
    <3>2. i # 1 BY <2>2, <2>3, <2>7, <3>1
    <3>3. i - 1 \in 1..Len(c.configs) /\ list[i] = c.configs[i - 1]
          BY <2>5, <3>2 DEF n
    <3>4. config_value(b, k) = list[i].value
          BY <2>3, <2>6, <3>1, ConfigOf DEF list
    <3>5. configured(c, k) /\ config_value(c, k) = c.configs[i - 1].value
          BY <3>1, <3>3, ConfigOf
    <3>. QED BY <3>3, <3>4, <3>5
  <2>. QED BY <2>6, <2>7
<1>. QED BY <1>3, <1>4, <1>5

LEMMA ConfigureAgrees ==
    ASSUME NEW c \in ResourceSetRec, QueueInv(c), Sound(c, 0),
           c.fault = "none", c.life = "live", NEW e, e.ok \in SUBSET Nat,
           Agrees(c, e), NEW kind \in Kind, NEW given \in ConfigValue
    PROVE  Agrees(configure(c, kind, given), e)
<1>. DEFINE configs == configs_after(c, kind, given)
            b       == [c EXCEPT !.configs = configs]
<1>1. configs \in Seq(Config) BY ConfigsAfterType
<1>. HIDE DEF configs
<1>2. b \in ResourceSetRec BY <1>1 DEF ResourceSetRec
<1>3. /\ b.reqlist = c.reqlist /\ b.wire = c.wire /\ b.reqno = c.reqno
      /\ b.client = c.client /\ b.life = c.life /\ b.revived = c.revived
      /\ b.fault = c.fault /\ b.rset = c.rset /\ b.path = c.path
      /\ b.resset = c.resset /\ b.conn = c.conn /\ b.replies = c.replies
      /\ b.configs = configs /\ b.acquire = c.acquire
      /\ b.resources = c.resources
      BY DEF ResourceSetRec
<1>4. \/ configure(c, kind, given) = c
      \/ configure(c, kind, given) = push_request(b, kind)
      BY DEF configure, configs
<1>. HIDE DEF b
<1>5. kind \in MsgType /\ kind # "register" /\ kind \notin {"update", "acquire", "release"}
      BY DEF Kind, MsgType
<1>6. CASE c.revived
  <2>1. push_request(b, kind).revived
        BY <1>2, <1>3, <1>5, <1>6, PushDrifts DEF Drifts
  <2>. QED BY <1>4, <2>1 DEF Agrees
<1>7. CASE ~c.revived
  <2>1. OneOfAKind(c) BY <1>7 DEF Agrees
  <2>2. /\ OneOfAKind(b)
        /\ \A k : k # kind /\ configured(b, k) =>
              configured(c, k) /\ config_value(b, k) = config_value(c, k)
        BY <1>2, <1>3, <2>1, ConfiguresOne DEF configs
  <2>3. ASSUME NEW a \in Attribute, Concerns(b, a)
        PROVE  \/ kind \in About(a) /\ (a = "acquire" => b.acquire = (kind = "acquire"))
               \/ kind \notin About(a) /\ Concerns(c, a) /\ Wants(b, a) = Wants(c, a)
    <3>1. CASE a = kind BY <1>5, <3>1 DEF About, Kind
    <3>2. CASE a # kind /\ a \in Kind
      <4>1. configured(c, a) /\ config_value(b, a) = config_value(c, a)
            BY <2>2, <2>3, <3>2 DEF Concerns
      <4>. QED BY <3>2, <4>1 DEF Kind, About, Concerns, Wants
    <3>3. CASE a \notin Kind
          BY <1>3, <1>5, <3>3 DEF Attribute, Kind, About, Concerns, Wants
    <3>. QED BY <3>1, <3>2, <3>3
  <2>4. Asks(c, b, kind) BY <1>3, <2>3 DEF Asks
  <2>5. Agrees(push_request(b, kind), e) BY <1>2, <1>5, <2>2, <2>4, PushAgrees
  <2>. QED BY <1>4, <2>5
<1>. QED BY <1>6, <1>7
-----------------------------------------------------------------------------
(* Connecting.                                                             *)

(* What the REGISTER does not carry is asked for behind it.                *)
LEMMA ConnectMessagesAll ==
    ASSUME NEW c \in ResourceSetRec, OneOfAKind(c)
    PROVE  LET m == connect_messages(c)
           IN  /\ m \in Seq({"audio", "video", "acquire"})
               /\ \A kind \in Kind : configured(c, kind) =>
                     \E i \in 1..Len(m) : m[i] = kind
               /\ IF c.acquire THEN m # <<>> /\ m[Len(m)] = "acquire"
                               ELSE \A i \in 1..Len(m) : m[i] # "acquire"
<1>. DEFINE S == {"audio", "video", "acquire"}
            n == Len(c.configs)
            x == IF n > 0 THEN config_messages(c.configs[1].kind) ELSE <<>>
            y == IF n > 1 THEN config_messages(c.configs[2].kind) ELSE <<>>
            z == IF c.acquire THEN <<"acquire">> ELSE <<>>
            m == connect_messages(c)
<1>1. m = x \o y \o z BY DEF connect_messages
<1>2. /\ c.configs \in Seq(Config) /\ n \in Nat
      /\ \A i \in 1..n : c.configs[i].kind \in Kind
      /\ DOMAIN c.configs = 1..n
  <2>1. c.configs \in Seq(Config) BY DEF ResourceSetRec
  <2>2. \A i \in 1..n : c.configs[i] \in Config BY <2>1
  <2>. QED BY <2>1, <2>2 DEF Config
<1>3. n <= 2
  <2>1. ASSUME n > 2 PROVE FALSE
    <3>1. 1 \in 1..n /\ 2 \in 1..n /\ 3 \in 1..n BY <1>2, <2>1
    <3>2. c.configs[1].kind # c.configs[2].kind /\ c.configs[1].kind # c.configs[3].kind
          /\ c.configs[2].kind # c.configs[3].kind
          BY <3>1 DEF OneOfAKind
    <3>. QED BY <1>2, <3>1, <3>2 DEF Kind
  <2>. QED BY <1>2, <2>1
<1>4. ASSUME NEW kind \in Kind
      PROVE  /\ config_messages(kind) \in Seq({"audio", "video"})
             /\ \E i \in 1..Len(config_messages(kind)) : config_messages(kind)[i] = kind
  <2>1. CASE kind = "audio"
    <3>1. /\ <<"audio", "video">> \in Seq({"audio", "video"})
          /\ 1 \in 1..Len(<<"audio", "video">>) /\ <<"audio", "video">>[1] = "audio"
          OBVIOUS
    <3>. QED BY <2>1, <3>1 DEF config_messages
  <2>2. CASE kind = "video"
    <3>1. /\ <<"video">> \in Seq({"audio", "video"})
          /\ 1 \in 1..Len(<<"video">>) /\ <<"video">>[1] = "video"
          OBVIOUS
    <3>. QED BY <2>2, <3>1 DEF config_messages
  <2>. QED BY <2>1, <2>2 DEF Kind
<1>5. /\ x \in Seq({"audio", "video"})
      /\ n > 0 => \E i \in 1..Len(x) : x[i] = c.configs[1].kind
  <2>1. <<>> \in Seq({"audio", "video"}) OBVIOUS
  <2>2. n > 0 => c.configs[1].kind \in Kind BY <1>2
  <2>. QED BY <1>4, <2>1, <2>2
<1>6. /\ y \in Seq({"audio", "video"})
      /\ n > 1 => \E i \in 1..Len(y) : y[i] = c.configs[2].kind
  <2>1. <<>> \in Seq({"audio", "video"}) OBVIOUS
  <2>2. n > 1 => c.configs[2].kind \in Kind BY <1>2
  <2>. QED BY <1>4, <2>1, <2>2
<1>7. /\ z \in Seq(S)
      /\ c.acquire => Len(z) = 1 /\ z[1] = "acquire"
      /\ ~c.acquire => z = <<>>
  <2>1. <<"acquire">> \in Seq(S) /\ <<>> \in Seq(S) OBVIOUS
  <2>. QED BY <2>1
<1>. HIDE DEF x, y, z, m, n
<1>8. x \in Seq(S) /\ y \in Seq(S) /\ Len(x) \in Nat /\ Len(y) \in Nat /\ Len(z) \in Nat
  <2>1. ASSUME NEW w \in Seq({"audio", "video"}) PROVE w \in Seq(S)
        OBVIOUS
  <2>. QED BY <1>5, <1>6, <1>7, <2>1
<1>. HIDE DEF S
<1>9. /\ m \in Seq(S) /\ Len(m) = Len(x) + Len(y) + Len(z)
      /\ \A i \in 1..Len(x) : m[i] = x[i]
      /\ \A i \in 1..Len(y) : m[Len(x) + i] = y[i]
      /\ \A i \in 1..Len(z) : m[Len(x) + Len(y) + i] = z[i]
  <2>. DEFINE v == x \o y
  <2>1. /\ v \in Seq(S) /\ Len(v) = Len(x) + Len(y)
        /\ \A i \in 1..Len(x) : v[i] = x[i]
        /\ \A i \in 1..Len(y) : v[Len(x) + i] = y[i]
        BY <1>8
  <2>. HIDE DEF v
  <2>2. /\ v \o z \in Seq(S) /\ Len(v \o z) = Len(v) + Len(z)
        /\ \A i \in 1..Len(v) : (v \o z)[i] = v[i]
        /\ \A i \in 1..Len(z) : (v \o z)[Len(v) + i] = z[i]
        BY <1>7, <2>1
  <2>3. m = v \o z BY <1>1 DEF v
  <2>4. /\ \A i \in 1..Len(x) : i \in 1..Len(v)
        /\ \A i \in 1..Len(y) : Len(x) + i \in 1..Len(v)
        BY <1>8, <2>1
  <2>. QED BY <2>1, <2>2, <2>3, <2>4
<1>10. ASSUME NEW kind \in Kind, configured(c, kind)
       PROVE  \E i \in 1..Len(m) : m[i] = kind
  <2>1. PICK j \in 1..n : c.configs[j].kind = kind
        BY <1>2, <1>10 DEF configured
  <2>2. j = 1 \/ j = 2 BY <1>2, <1>3
  <2>3. CASE j = 1
    <3>1. PICK i \in 1..Len(x) : x[i] = kind BY <1>2, <1>5, <2>1, <2>3
    <3>2. i \in 1..Len(m) BY <1>8, <1>9
    <3>. QED BY <1>9, <3>1, <3>2
  <2>4. CASE j = 2
    <3>1. PICK i \in 1..Len(y) : y[i] = kind BY <1>2, <1>6, <2>1, <2>4
    <3>2. Len(x) + i \in 1..Len(m) BY <1>8, <1>9
    <3>. QED BY <1>9, <3>1, <3>2
  <2>. QED BY <2>2, <2>3, <2>4
<1>11. CASE c.acquire
  <2>1. Len(m) = Len(x) + Len(y) + 1 BY <1>7, <1>9, <1>11
  <2>2. m[Len(m)] = "acquire" BY <1>7, <1>8, <1>9, <1>11, <2>1
  <2>3. m # <<>> BY <1>8, <1>9, <2>1
  <2>. QED BY <1>9, <1>10, <1>11, <2>2, <2>3 DEF m, S
<1>12. CASE ~c.acquire
  <2>1. ASSUME NEW i \in 1..Len(m) PROVE m[i] # "acquire"
    <3>1. Len(z) = 0 BY <1>7, <1>12
    <3>2. CASE i \in 1..Len(x) BY <1>5, <1>9, <3>2
    <3>3. CASE i \notin 1..Len(x)
      <4>1. i - Len(x) \in 1..Len(y) /\ Len(x) + (i - Len(x)) = i
            BY <1>8, <1>9, <3>1, <3>3
      <4>2. m[i] = y[i - Len(x)] BY <1>9, <4>1
      <4>. QED BY <1>6, <4>1, <4>2
    <3>. QED BY <3>2, <3>3
  <2>. QED BY <1>9, <1>10, <1>12, <2>1 DEF m, S
<1>. QED BY <1>11, <1>12

(* A kind of message of which one waits in a queue with one request out,   *)
(* which is none of that kind. *)
LEMMA WaitsSome ==
    ASSUME NEW list \in Seq(Request), NEW a \in Kind, NEW acquire,
           \A i \in 1..Len(list) : i = 1 \/ ~list[i].busy,
           list[1].msgtyp # a,
           NEW k \in 1..Len(list), list[k].msgtyp = a
    PROVE  Waits(list, a, acquire)
<1>. DEFINE S == {i \in 1..Len(list) : list[i].msgtyp = a}
<1>1. S \in SUBSET (1..Len(list)) /\ S # {} /\ Len(list) \in Nat OBVIOUS
<1>2. PICK i \in S : \A j \in S : j <= i
  <2>. HIDE DEF S
  <2>. QED BY <1>1, LastExists
<1>3. i \in 1..Len(list) /\ list[i].msgtyp = a /\ ~list[i].busy BY <1>2
<1>4. \A j \in (i + 1)..Len(list) : j \in 1..Len(list) /\ ~(j <= i) BY <1>3
<1>5. \A j \in (i + 1)..Len(list) : list[j].msgtyp # a BY <1>2, <1>4
<1>6. About(a) = {a} /\ a # "acquire" BY DEF About, Kind
<1>. QED BY <1>3, <1>5, <1>6 DEF Waits

(* The REGISTER of a set with nothing else to send: it cannot be sent, or  *)
(* it is the only request.                                                 *)
Alone(c, d, call) ==
    /\ Wishes(c, d) /\ d.life = c.life /\ d.reqno = c.reqno /\ d.fault = "none"
    /\ \/ d.client = "created" /\ d.reqlist = <<>> /\ d.wire = c.wire
       \/ /\ d.client = c.client /\ d.wire = Append(c.wire, call)
          /\ Len(d.reqlist) = 1 /\ d.reqlist[1].busy
          /\ d.reqlist[1].msgtyp = "register"
          /\ d.reqlist[1].reqno = c.reqlist[1].reqno

LEMMA RegisterAlone ==
    ASSUME NEW c \in ResourceSetRec, Idle(c, {}, 0), Len(c.reqlist) = 1,
           c.reqlist[1].msgtyp = "register", c.client = "connecting"
    PROVE  Alone(c, send_request(c), message(c, c.reqlist[1]))
<1>. DEFINE d    == send_request(c)
            rq   == c.reqlist[1]
            call == message(c, rq)
<1>1. /\ c.reqlist \in Seq(Request) /\ c.reqlist # <<>> /\ Head(c.reqlist) = rq
      /\ rq \in Request /\ ~rq.busy /\ c.fault = "none"
  <2>1. c.reqlist \in Seq(Request) BY DEF ResourceSetRec
  <2>2. 1 \in 1..Len(c.reqlist) BY <2>1
  <2>. QED BY <2>1, <2>2 DEF Idle, NoneBusy
<1>2. d = send_first(c) BY <1>1 DEF send_request
<1>3. first_sent(c) = 1
  <2>1. 1 \in 1..Len(c.reqlist) BY <1>1
  <2>2. first_sent(c) # 0 /\ ~(1 < first_sent(c)) BY <2>1, NotSent
  <2>3. first_sent(c) \in 1..Len(c.reqlist) BY <2>2, FirstSent
  <2>. QED BY <2>2, <2>3
<1>4. SubSeq(c.reqlist, 1, Len(c.reqlist)) = c.reqlist BY <1>1
<1>5. [c EXCEPT !.reqlist = c.reqlist] = c BY DEF ResourceSetRec
<1>6. d = transmit(c) BY <1>2, <1>3, <1>4, <1>5 DEF send_first
<1>. DEFINE sent == send_register_message(c, rq)
            rest == Tail(c.reqlist)
            busy == [rq EXCEPT !.busy = TRUE]
<1>7. rest = <<>>
  <2>1. rest \in Seq(Request) /\ Len(rest) = 0 BY <1>1
  <2>. HIDE DEF rest
  <2>. QED BY <2>1
<1>8. d = IF ~sent.resset
          THEN [c EXCEPT !.client = "created", !.denied = TRUE, !.reqlist = <<>>,
                         !.fault = c.fault]
          ELSE [sent EXCEPT !.reqlist = <<busy>> \o <<>>]
      BY <1>1, <1>6, <1>7 DEF transmit, send_message
<1>9. CASE ~sent.resset
  <2>. HIDE DEF sent, rest, busy, call
  <2>1. d = [c EXCEPT !.client = "created", !.denied = TRUE, !.reqlist = <<>>,
                      !.fault = c.fault]
        BY <1>8, <1>9
  <2>. HIDE DEF d
  <2>2. Alone(c, d, call) BY <1>1, <2>1 DEF Alone, Wishes, ResourceSetRec
  <2>. QED BY <2>2 DEF d, call
<1>10. CASE sent.resset
  <2>1. c.conn BY <1>10 DEF Idle, send_register_message
  <2>. DEFINE found == dbus_connect_to_manager(c)
              e     == resconn_connect(c, call)
  <2>2. /\ found \in ResourceSetRec /\ Wishes(c, found)
        /\ found.life = c.life /\ found.reqno = c.reqno
        /\ found.fault = c.fault /\ found.client = c.client
        /\ found.wire = c.wire
        BY ConnectType DEF dbus_connect_to_manager, Wishes, ResourceSetRec
  <2>3. resset_find(found.rset)
    <3>1. CASE resset_find(c.rset) BY <3>1 DEF dbus_connect_to_manager
    <3>2. CASE ~resset_find(c.rset)
      <4>1. ~c.path BY <3>2 DEF Idle, Backed
      <4>2. found.rset = resset_create("created")
            BY <3>2, <4>1 DEF dbus_connect_to_manager, ResourceSetRec
      <4>3. found.rset.state = "created" BY <4>2 DEF resset_create
      <4>. QED BY <4>3 DEF resset_find
    <3>. QED BY <3>1, <3>2
  <2>4. e = dbus_send_message(found, call) BY <2>3 DEF resconn_connect
  <2>5. sent = [e EXCEPT !.resset = @ \/ resset_find(e.rset)]
        BY <2>1 DEF send_register_message
  <2>. HIDE DEF sent, found, call
  <2>6. /\ Wishes(c, e) /\ e.life = c.life /\ e.reqno = c.reqno
        /\ e.fault = c.fault /\ e.client = c.client
        /\ e.wire = Append(c.wire, call) /\ DOMAIN e = DOMAIN found
        BY <2>2, <2>4 DEF dbus_send_message, Wishes, ResourceSetRec
  <2>. HIDE DEF e
  <2>7. /\ Wishes(c, sent) /\ sent.life = c.life /\ sent.reqno = c.reqno
        /\ sent.fault = c.fault /\ sent.client = c.client
        /\ sent.wire = Append(c.wire, call) /\ DOMAIN sent = DOMAIN found
        /\ "reqlist" \in DOMAIN found
        BY <2>2, <2>5, <2>6 DEF Wishes, ResourceSetRec
  <2>8. d = [sent EXCEPT !.reqlist = <<busy>> \o <<>>] BY <1>8, <1>10
  <2>9. busy \in Request /\ busy.busy /\ busy.msgtyp = "register"
        /\ busy.reqno = rq.reqno
        BY <1>1 DEF Request
  <2>. HIDE DEF d, busy
  <2>10. Len(<<busy>> \o <<>>) = 1 /\ (<<busy>> \o <<>>)[1] = busy
         BY <2>9
  <2>11. d.reqlist = <<busy>> \o <<>> BY <2>7, <2>8
  <2>12. /\ Wishes(c, d) /\ d.life = c.life /\ d.reqno = c.reqno
         /\ d.fault = c.fault /\ d.client = c.client
         /\ d.wire = Append(c.wire, call)
         BY <2>7, <2>8 DEF Wishes
  <2>13. Alone(c, d, call) BY <1>1, <2>9, <2>10, <2>11, <2>12 DEF Alone
  <2>. QED BY <2>13 DEF d, call
<1>. QED BY <1>9, <1>10

(* connect_to_manager, on a set with nothing in its queue. *)
LEMMA ConnectRegisters ==
    ASSUME NEW c \in ResourceSetRec, Len(c.reqlist) = 1, c.reqlist[1].busy,
           c.reqlist[1].msgtyp = "register", c.reqlist[1].reqno = c.reqno,
           OneOfAKind(c), NEW e, NEW wire \in Seq(Call), NEW call \in Call,
           c.wire = Append(wire, call), call = message(c, c.reqlist[1]),
           \A i \in 1..Len(wire) : wire[i].reqno < c.reqno,
           c.reqno \notin e.ok, Ascending(c.reqlist, c.reqno)
    PROVE  Registering(enqueue(c, connect_messages(c)), e)
<1>. DEFINE m    == connect_messages(c)
            d    == enqueue(c, m)
            list == d.reqlist
            n    == Len(m)
            S    == {"audio", "video", "acquire"}
<1>1. /\ m \in Seq(S)
      /\ \A kind \in Kind : configured(c, kind) => \E i \in 1..n : m[i] = kind
      /\ IF c.acquire THEN m # <<>> /\ m[n] = "acquire"
                      ELSE \A i \in 1..n : m[i] # "acquire"
      BY ConnectMessagesAll
<1>. HIDE DEF m, n
<1>2. /\ m \in Seq(MsgType) /\ n \in Nat /\ n = Len(m)
      /\ \A i \in 1..n : m[i] \in S
  <2>1. m \in Seq(MsgType) BY <1>1 DEF MsgType
  <2>. QED BY <1>1, <2>1 DEF n
<1>3. /\ d \in ResourceSetRec /\ Behind(list, c.reqlist, m)
      /\ Wishes(c, d) /\ d.wire = c.wire
      BY <1>2, EnqueuePlain
<1>. HIDE DEF d
<1>4. /\ Len(list) = n + 1 /\ list[1] = c.reqlist[1] /\ list \in Seq(Request)
      /\ \A i \in 2..(n + 1) : ~list[i].busy /\ list[i].msgtyp = m[i - 1]
                               /\ i - 1 \in 1..n
  <2>1. 1 \in 1..Len(c.reqlist) BY <1>3
  <2>. QED BY <1>2, <1>3, <2>1 DEF Behind, ResourceSetRec
<1>. HIDE DEF list
<1>5. list # <<>> BY <1>2, <1>4
<1>6. \A i \in 1..Len(list) : i = 1 \/ i \in 2..(n + 1) BY <1>2, <1>4
<1>7. \A i \in 2..Len(list) : list[i].msgtyp \in S BY <1>2, <1>4
<1>8. ASSUME NEW kind \in Kind, configured(d, kind)
      PROVE  Waits(list, kind, d.acquire)
  <2>1. configured(c, kind) BY <1>3, <1>8 DEF configured, Wishes
  <2>2. PICK i \in 1..n : m[i] = kind BY <1>1, <2>1
  <2>3. i + 1 \in 2..(n + 1) /\ i + 1 \in 1..Len(list) /\ (i + 1) - 1 = i
        BY <1>2, <1>4
  <2>4. list[i + 1].msgtyp = kind BY <1>4, <2>2, <2>3
  <2>5. list[1].msgtyp # kind BY <1>4 DEF Kind
  <2>6. \A j \in 1..Len(list) : j = 1 \/ ~list[j].busy BY <1>4, <1>6
  <2>. QED BY <1>4, <2>3, <2>4, <2>5, <2>6, WaitsSome
<1>9. \/ Waits(list, "acquire", d.acquire)
      \/ NoneWaits(list, "acquire") /\ ~d.acquire
  <2>1. About("acquire") = {"acquire", "release"} BY DEF About
  <2>2. CASE c.acquire
    <3>1. d.acquire /\ n > 0 /\ m[n] = "acquire"
      <4>1. n # 0 BY <1>1, <1>2, <2>2
      <4>. QED BY <1>1, <1>2, <1>3, <2>2, <4>1 DEF Wishes
    <3>2. n + 1 \in 2..(n + 1) /\ n + 1 \in 1..Len(list) /\ (n + 1) - 1 = n
          BY <1>2, <1>4, <3>1
    <3>3. list[n + 1].msgtyp = "acquire" /\ ~list[n + 1].busy BY <1>4, <3>1, <3>2
    <3>4. (n + 1 + 1)..Len(list) = {} BY <1>2, <1>4
    <3>. QED BY <2>1, <3>1, <3>2, <3>3, <3>4 DEF Waits
  <2>3. CASE ~c.acquire
    <3>1. ~d.acquire BY <1>3, <2>3 DEF Wishes
    <3>2. \A i \in 2..(n + 1) : list[i].msgtyp \notin {"acquire", "release"}
          BY <1>1, <1>2, <1>4, <2>3
    <3>. QED BY <1>4, <1>6, <2>1, <3>1, <3>2 DEF NoneWaits
  <2>. QED BY <2>2, <2>3
<1>10. ASSUME NEW i \in 1..Len(d.wire), d.wire[i].reqno = list[1].reqno
       PROVE  /\ i = Len(d.wire) /\ d.wire[i].msgtyp = "register"
              /\ Carried(d, d.wire[i].resources)
  <2>1. /\ Len(wire) \in Nat /\ Len(d.wire) = Len(wire) + 1
        /\ d.wire[Len(wire) + 1] = call
        /\ \A j \in 1..Len(wire) : d.wire[j] = wire[j]
        BY <1>3
  <2>2. i = Len(wire) + 1
    <3>1. ASSUME i # Len(wire) + 1 PROVE FALSE
      <4>1. i \in 1..Len(wire) BY <1>10, <2>1, <3>1
      <4>2. d.wire[i].reqno < c.reqno BY <2>1, <4>1
      <4>3. d.wire[i].reqno = c.reqno BY <1>4, <1>10
      <4>. QED BY <4>2, <4>3 DEF ResourceSetRec
    <3>. QED BY <3>1
  <2>3. call.msgtyp = "register" /\ call.resources = d.resources
        BY <1>3 DEF message, Wishes
  <2>4. NoneWaits(list, "resources")
    <3>1. About("resources") = {"update"} BY DEF About
    <3>2. \A j \in 2..(n + 1) : list[j].msgtyp # "update" BY <1>4, <1>7
    <3>. QED BY <1>4, <1>6, <3>1, <3>2 DEF NoneWaits
  <2>. QED BY <2>1, <2>2, <2>3, <2>4 DEF Carried, list
<1>11. list[1].reqno \notin e.ok BY <1>4
<1>. QED BY <1>4, <1>5, <1>7, <1>8, <1>9, <1>10, <1>11 DEF Registering, d, list, m

LEMMA ConnectAgrees ==
    ASSUME NEW c \in ResourceSetRec, QueueInv(c), Sound(c, 0),
           c.fault = "none", c.life = "live", c.client = "created",
           NEW e, e.ok \in SUBSET Nat, Agrees(c, e)
    PROVE  Agrees(connect_to_manager(c), e)
<1>. DEFINE b == [c EXCEPT !.client = "connecting", !.denied = FALSE]
            p == push_request(b, "register")
            m == connect_messages(p)
            d == connect_to_manager(c)
<1>. SUFFICES ASSUME ~d.revived, d.fault = "none"
              PROVE  Agrees(d, e)
     BY DEF Agrees
<1>1. d.revived = c.revived BY ConnectDrifts
<1>2. OneOfAKind(c) /\ Numbered(c, e) /\ (c.reqlist = <<>> \/ Doomed(c))
      BY <1>1 DEF Agrees, Follows
<1>3. /\ b \in ResourceSetRec /\ b.client = "connecting" /\ b.fault = "none"
      /\ b.life = "live" /\ b.path = c.path /\ b.rset = c.rset
      /\ b.reqlist = c.reqlist /\ b.reqno = c.reqno /\ b.conn = c.conn
      /\ b.resset = c.resset /\ b.replies = c.replies /\ b.wire = c.wire
      /\ Wishes(c, b)
      BY DEF ResourceSetRec, Wishes
<1>4. QueueInv(b) BY <1>3, SameQueue
<1>5. d = IF p.client = "created" \/ p.fault # "none" THEN p ELSE enqueue(p, m)
      BY DEF connect_to_manager
<1>. HIDE DEF b
<1>6. <<"register">> \in Seq(MsgType) /\ Len(<<"register">>) = 1
      /\ "register" \in MsgType
      BY DEF MsgType
<1>7. p \in ResourceSetRec /\ QueueInv(p)
      BY <1>3, <1>4, <1>6, PushRequestSettles, PushRequestType
<1>8. m \in Seq(MsgType) /\ Len(m) \in Nat BY ConnectMessagesType
<1>9. Ascending(b.reqlist, b.reqno) BY <1>3, <1>4 DEF QueueInv, Settled
<1>. DEFINE q == enqueue(b, <<"register">>)
<1>10. /\ q \in ResourceSetRec /\ Behind(q.reqlist, b.reqlist, <<"register">>)
       /\ Wishes(b, q) /\ q.wire = b.wire /\ q.reqno = b.reqno + 1
       /\ q.client = b.client /\ q.life = b.life /\ q.fault = b.fault
       /\ q.rset = b.rset /\ q.path = b.path
       BY <1>3, <1>6, <1>9, EnqueuePlain
<1>11. c.reqno \in Nat /\ c.wire \in Seq(Call) /\ c.reqlist \in Seq(Request)
       BY DEF ResourceSetRec
<1>12. CASE c.reqlist # <<>>
  <2>1. Doomed(c) BY <1>2, <1>12
  <2>2. p = q BY <1>3, <1>4, <1>6, <1>12, PushWaits
  <2>3. d = enqueue(p, m) BY <1>3, <1>5, <1>10, <2>2
  <2>. HIDE DEF p, q, m, d
  <2>4. Ascending(p.reqlist, p.reqno)
        BY <1>3, <1>7, <1>10, <2>2 DEF QueueInv, Settled
  <2>5. /\ Wishes(p, d) /\ d.wire = p.wire /\ d.reqno = p.reqno + Len(m)
        /\ d.client = p.client /\ d.rset = p.rset /\ d.path = p.path
        BY <1>7, <1>8, <2>3, <2>4, EnqueuePlain
  <2>6. Numbered(p, e) BY <1>2, <1>3, <1>10, <2>2, NumberedMore
  <2>7. Numbered(d, e) BY <1>7, <1>8, <2>5, <2>6, NumberedMore
  <2>8. Doomed(d) BY <1>3, <1>10, <2>1, <2>2, <2>5 DEF Doomed
  <2>9. OneOfAKind(d)
        BY <1>2, <1>3, <1>10, <2>2, <2>5 DEF OneOfAKind, Wishes
  <2>10. d.client = "connecting" BY <1>3, <1>10, <2>2, <2>5
  <2>. QED BY <2>7, <2>8, <2>9, <2>10 DEF Agrees, Follows, d
<1>13. CASE c.reqlist = <<>>
  <2>1. Idle(q, {}, 0) BY <1>3, <1>4, <1>6, <1>13, EnqueueFirst
  <2>2. p = send_request(q) BY <1>3 DEF push_request
  <2>3. Len(q.reqlist) = 1 /\ q.reqlist[1].msgtyp = "register"
    <3>1. Len(c.reqlist) = 0 BY <1>13
    <3>2. Len(q.reqlist) = 1 BY <1>3, <1>6, <1>10, <3>1 DEF Behind
    <3>3. <<"register">>[1] = "register" /\ 1 - 0 = 1 /\ 1 \in (0 + 1)..1 OBVIOUS
    <3>. QED BY <1>3, <1>10, <3>1, <3>2, <3>3 DEF Behind
  <2>4. q.reqlist[1].reqno = c.reqno + 1
    <3>. DEFINE new == [i \in 1..Len(<<"register">>) |->
                          [msgtyp |-> <<"register">>[i],
                           reqno  |-> b.reqno + i, busy |-> FALSE]]
    <3>1. q.reqlist = b.reqlist \o new BY <1>3 DEF enqueue, ResourceSetRec
    <3>2. Len(new) = 1 /\ new[1].reqno = c.reqno + 1 BY <1>3, <1>6
    <3>3. new \in Seq(Request)
      <4>1. ASSUME NEW i \in 1..Len(<<"register">>) PROVE new[i] \in Request
        <5>1. <<"register">>[i] \in MsgType /\ b.reqno + i \in Nat
              BY <1>3, <1>6, <1>11
        <5>. QED BY <5>1 DEF Request
      <4>. QED BY <4>1
    <3>. HIDE DEF new, q
    <3>4. (<<>> \o new)[1] = new[1] BY <3>2, <3>3
    <3>. QED BY <1>3, <1>13, <3>1, <3>2, <3>4
  <2>. DEFINE call == message(q, q.reqlist[1])
  <2>5. Alone(q, p, call) BY <1>3, <1>10, <2>1, <2>2, <2>3, RegisterAlone
  <2>6. call \in Call /\ call.reqno = c.reqno + 1
    <3>1. q.reqlist[1] \in Request
      <4>1. 1 \in 1..Len(q.reqlist) BY <2>3
      <4>. QED BY <1>10, <4>1 DEF ResourceSetRec
    <3>. HIDE DEF q
    <3>. QED BY <1>10, <2>3, <2>4, <3>1, MessageType DEF Kind
  <2>. HIDE DEF p, q
  <2>7. OneOfAKind(p)
        BY <1>2, <1>3, <1>10, <2>5 DEF OneOfAKind, Wishes, Alone
  <2>8. CASE p.client = "created"
    <3>1. d = p BY <1>5, <2>8
    <3>2. p.reqlist = <<>> /\ p.wire = c.wire /\ p.reqno = c.reqno + 1
          BY <1>3, <1>10, <2>5, <2>8 DEF Alone
    <3>3. Numbered(p, e) BY <1>2, <3>2, NumberedMore
    <3>. HIDE DEF d
    <3>4. Agrees(d, e) BY <2>7, <2>8, <3>1, <3>2, <3>3 DEF Agrees, Follows
    <3>. QED BY <3>4 DEF d
  <2>9. CASE p.client # "created"
    <3>1. d = enqueue(p, m) BY <1>5, <2>5, <2>9 DEF Alone
    <3>2. /\ p.client = "connecting" /\ p.wire = Append(c.wire, call)
          /\ Len(p.reqlist) = 1 /\ p.reqlist[1].busy
          /\ p.reqlist[1].msgtyp = "register"
          /\ p.reqlist[1].reqno = c.reqno + 1 /\ p.reqno = c.reqno + 1
          BY <1>3, <1>10, <2>4, <2>5, <2>9 DEF Alone
    <3>3. call = message(p, p.reqlist[1])
          BY <2>3, <2>4, <2>5, <3>2 DEF message, Alone, Wishes, Kind
    <3>. HIDE DEF call, m, d
    <3>4. Ascending(p.reqlist, p.reqno)
          BY <2>5, <1>7 DEF QueueInv, Settled, Alone
    <3>5. \A i \in 1..Len(c.wire) : c.wire[i].reqno < p.reqno
      <4>1. \A i \in 1..Len(c.wire) : c.wire[i].reqno \in Nat
        <5>1. \A i \in 1..Len(c.wire) : c.wire[i] \in Call BY <1>11
        <5>. QED BY <5>1 DEF Call
      <4>. QED BY <1>2, <1>11, <3>2, <4>1 DEF Numbered
    <3>6. p.reqno \notin e.ok BY <1>2, <1>11, <3>2 DEF Numbered
    <3>7. Registering(d, e)
          BY <1>7, <1>11, <2>6, <2>7, <3>1, <3>2, <3>3, <3>4, <3>5, <3>6,
             ConnectRegisters DEF m
    <3>8. /\ Wishes(p, d) /\ d.wire = p.wire /\ d.reqno = p.reqno + Len(m)
          /\ d.client = p.client
          BY <1>7, <1>8, <3>1, <3>4, EnqueuePlain
    <3>9. Numbered(p, e)
      <4>1. Numbered([c EXCEPT !.reqno = c.reqno + 1], e)
        <5>. DEFINE x == [c EXCEPT !.reqno = c.reqno + 1]
        <5>1. x.wire = c.wire /\ x.reqno = c.reqno + 1 BY DEF ResourceSetRec
        <5>. HIDE DEF x
        <5>2. Numbered(x, e) BY <1>2, <5>1, NumberedMore
        <5>. QED BY <5>2 DEF x
      <4>. DEFINE x == [c EXCEPT !.reqno = c.reqno + 1]
      <4>2. x \in ResourceSetRec /\ x.wire = c.wire /\ x.reqno = c.reqno + 1
        <5>1. c.reqno + 1 \in Nat BY <1>11
        <5>. QED BY <5>1 DEF ResourceSetRec
      <4>3. call.reqno <= c.reqno + 1 BY <1>11, <2>6
      <4>. HIDE DEF x
      <4>. QED BY <2>6, <3>2, <4>1, <4>2, <4>3, NumberedAppend DEF x
    <3>10. Numbered(d, e) BY <1>7, <1>8, <3>8, <3>9, NumberedMore
    <3>11. OneOfAKind(d) BY <2>7, <3>8 DEF OneOfAKind, Wishes
    <3>12. Agrees(d, e)
           BY <3>2, <3>7, <3>8, <3>10, <3>11 DEF Agrees, Follows
    <3>. QED BY <3>12 DEF d
  <2>. QED BY <2>8, <2>9
<1>. QED BY <1>12, <1>13

LEMMA ManagerIsUpAgrees ==
    ASSUME NEW c \in ResourceSetRec, QueueInv(c), Sound(c, 0),
           c.fault = "none", NEW e, e.ok \in SUBSET Nat, Agrees(c, e)
    PROVE  Agrees(manager_is_up(c), e)
BY ConnectAgrees DEF manager_is_up

LEMMA CreateAgrees ==
    ASSUME NEW c \in ResourceSetRec, c.life = "none", c.fault = "none",
           ~c.revived, Sound(c, 0), NEW e, e.ok \in SUBSET Nat, Agrees(c, e),
           NEW conn \in BOOLEAN, NEW mandatory \in SUBSET Resource,
           NEW optional \in SUBSET Resource
    PROVE  Agrees(resource_set_create(conn, mandatory, optional), e)
<1>. DEFINE flags == [all |-> mandatory \cup optional,
                      opt |-> optional \ mandatory]
            b == [NoSet EXCEPT !.life = "live", !.held = TRUE, !.conn = conn,
                               !.resources = flags]
<1>1. flags \in ResourceFlags BY DEF ResourceFlags
<1>2. NoSet \in ResourceSetRec
      BY DEF NoSet, ResourceSetRec, NoFlags, ResourceFlags, Freed, Rset, RsetState
<1>. HIDE DEF flags
<1>3. b \in ResourceSetRec BY <1>1, <1>2 DEF ResourceSetRec
<1>4. /\ b.fault = "none" /\ b.reqlist = <<>> /\ ~b.path /\ ~b.resset
      /\ b.replies = {} /\ b.life = "live" /\ b.client = "created"
      /\ b.rset.state = "freed" /\ b.rset.refcnt = 0 /\ b.reqno = 0
      /\ b.wire = <<>> /\ b.configs = <<>>
      BY DEF NoSet, Freed
<1>. HIDE DEF b
<1>5. Len(b.reqlist) = 0 /\ Len(b.wire) = 0 /\ Len(b.configs) = 0 BY <1>4
<1>6. QueueInv(b) BY <1>4, <1>5 DEF QueueInv, Settled, Ascending, Backed
<1>7. Sound(b, 0)
  <2>1. Kept(b) /\ Alive(b) BY <1>4, <1>5 DEF Kept, Alive
  <2>2. Orderly(b, 0) BY <1>4 DEF Orderly, Counted, UnregisterOut
  <2>. QED BY <1>4, <2>1, <2>2 DEF Sound
<1>8. Agrees(b, e)
  <2>1. c.reqno = 0 BY DEF Sound
  <2>2. \A n \in e.ok : n <= 0 BY <2>1 DEF Agrees, Numbered
  <2>. QED BY <1>4, <1>5, <2>2 DEF Agrees, Numbered, OneOfAKind, Follows
<1>. QED BY <1>3, <1>4, <1>6, <1>7, <1>8, ConnectAgrees
         DEF resource_set_create, b, flags
-----------------------------------------------------------------------------
(* Notifications and the loss of the manager.                              *)

(* The side of the manager after a message has been taken.                 *)
Later(e, f) ==
    /\ f.m = e.m /\ f.up = e.up /\ f.auto = e.auto
    /\ e.gone => f.gone
    /\ f.ok \subseteq e.ok

LEMMA LaterRegisters ==
    ASSUME NEW c, NEW e, NEW f, Later(e, f), Registering(c, e)
    PROVE  Registering(c, f)
BY DEF Later, Registering

LEMMA AgreesLater ==
    ASSUME NEW c, NEW e, NEW f, Later(e, f), Agrees(c, e),
           c.acquire /\ e.auto /\ e.revoked => f.revoked
    PROVE  Agrees(c, f)
<1>1. Numbered(c, e) => Numbered(c, f) BY DEF Later, Numbered
<1>2. Registering(c, e) => Registering(c, f) BY LaterRegisters
<1>3. Knows(c, e) => Knows(c, f) BY DEF Later, Knows, Excused
<1>4. Serving(c, e) => Serving(c, f) BY <1>3 DEF Later, Serving
<1>. QED BY <1>1, <1>2, <1>4 DEF Agrees, Follows

(* An auto-release set is told that it has lost its resources.             *)
LEMMA RevokeAgrees ==
    ASSUME NEW c \in ResourceSetRec, Sound(c, 0), c.fault = "none",
           NEW e, NEW f, Later(e, f), Agrees(c, e)
    PROVE  Agrees(receive_grant_message(c, FALSE, e.auto), f)
<1>. DEFINE d == receive_grant_message(c, FALSE, e.auto)
<1>1. CASE c.life = "freed"
  <2>1. d.fault = "stale" BY <1>1 DEF receive_grant_message, ResourceSetRec
  <2>. QED BY <2>1 DEF Agrees
<1>2. CASE c.life # "freed" /\ c.resset /\ e.auto
  <2>1. d = [c EXCEPT !.acquire = FALSE] BY <1>2 DEF receive_grant_message
  <2>. HIDE DEF d
  <2>2. /\ d.life = c.life /\ d.revived = c.revived /\ d.fault = c.fault
        /\ d.configs = c.configs /\ d.resources = c.resources /\ ~d.acquire
        /\ d.wire = c.wire /\ d.reqno = c.reqno /\ d.reqlist = c.reqlist
        /\ d.client = c.client /\ d.rset = c.rset /\ d.path = c.path
        BY <2>1 DEF ResourceSetRec
  <2>3. Numbered(c, e) => Numbered(d, f) BY <2>2 DEF Later, Numbered
  <2>4. OneOfAKind(c) => OneOfAKind(d) BY <2>2 DEF OneOfAKind
  <2>5. \A list, a : a # "acquire" =>
           (Waits(list, a, c.acquire) => Waits(list, a, d.acquire))
        BY DEF Waits
  <2>6. \A kind : kind \in Kind => kind # "acquire" BY DEF Kind
  <2>7. \A x : Carried(c, x) => Carried(d, x) BY <2>2, <2>5 DEF Carried
  <2>8. \A kind : configured(d, kind) = configured(c, kind)
        BY <2>2 DEF configured
  <2>9. Registering(c, e) => Registering(d, f)
    <3>1. Registering(c, e) => Registering(c, f) BY LaterRegisters
    <3>2. f.auto BY <1>2 DEF Later
    <3>. QED BY <2>2, <2>5, <2>6, <2>7, <2>8, <3>1, <3>2 DEF Registering
  <2>10. ASSUME Knows(c, e) PROVE Knows(d, f)
    <3>1. ASSUME NEW a \in Attribute, Concerns(d, a)
          PROVE  Told(d, f.m, a) \/ Excused(d, f, a)
      <4>1. CASE a = "acquire" BY <1>2, <2>2, <4>1 DEF Excused, Later
      <4>2. CASE a # "acquire"
        <5>1. Concerns(c, a) BY <2>8, <3>1 DEF Concerns
        <5>2. Told(c, e.m, a) BY <2>10, <4>2, <5>1 DEF Knows, Excused
        <5>3. Wants(d, a) = Wants(c, a) BY <2>2, <4>2 DEF Wants, config_value
        <5>. QED BY <2>2, <2>5, <4>2, <5>2, <5>3 DEF Told, Later
      <4>. QED BY <4>1, <4>2
    <3>. QED BY <2>10, <3>1 DEF Knows, Later
  <2>11. Serving(c, e) => Serving(d, f) BY <2>2, <2>10 DEF Serving, Later
  <2>12. Follows(c, e) => Follows(d, f)
         BY <2>2, <2>9, <2>11 DEF Follows, Doomed, UnregisterOut
  <2>13. Agrees(d, f) BY <2>2, <2>3, <2>4, <2>12 DEF Agrees
  <2>. QED BY <2>13 DEF d
<1>3. CASE c.life # "freed" /\ ~(c.resset /\ e.auto)
  <2>1. d = c BY <1>3 DEF receive_grant_message
  <2>. SUFFICES ASSUME c.life # "freed", ~c.revived, c.fault = "none"
                PROVE  Agrees(c, f)
       BY <2>1 DEF Agrees
  <2>2. /\ OneOfAKind(c) /\ Numbered(c, f)
        /\ c.life = "live" => Follows(c, e)
        BY DEF Agrees, Later, Numbered
  <2>3. ASSUME c.life = "live", c.client = "ready", Serving(c, e)
        PROVE  Serving(c, f)
    <3>1. ~e.auto BY <1>3, <2>3 DEF Sound, Alive
    <3>2. Knows(c, e) => Knows(c, f) BY <3>1 DEF Knows, Later, Excused
    <3>. QED BY <2>3, <3>2 DEF Serving, Later
  <2>4. Registering(c, e) => Registering(c, f) BY LaterRegisters
  <2>5. c.life = "live" => Follows(c, f) BY <2>2, <2>3, <2>4 DEF Follows
  <2>. QED BY <2>2, <2>5 DEF Agrees
<1>. QED BY <1>1, <1>2, <1>3

(* Whatever is with the manager, a client that has lost it is set back.    *)
LEMMA LinkDownAgrees ==
    ASSUME NEW c \in ResourceSetRec, QueueInv(c), Sound(c, 0),
           c.fault = "none", NEW e, NEW f, f.ok \subseteq e.ok, Agrees(c, e)
    PROVE  Agrees(link_down(c), f)
<1>. DEFINE told == IF c.rset.state = "connected" THEN disconnect_from_manager(c)
                                                  ELSE c
            d == link_down(c)
<1>. SUFFICES ASSUME d.life # "freed", ~d.revived, d.fault = "none"
              PROVE  Agrees(d, f)
     BY DEF Agrees
<1>1. told \in ResourceSetRec BY HandlersType
<1>2. c.life # "freed" /\ ~c.revived
      /\ (told = c \/ told = [c EXCEPT !.client = "created"])
      /\ (c.rset.state = "connected" /\ c.resset => told.client = "created")
  <2>1. /\ told.life = c.life /\ told.revived = c.revived
        /\ c.life = "freed" /\ c.rset.state = "connected" => told.fault = "stale"
        BY DEF disconnect_from_manager, ResourceSetRec
  <2>2. /\ d.life = told.life /\ d.revived = told.revived /\ d.fault = told.fault
    <3>1. d = told \/ d = dbus_disconnect_from_manager(told)
          BY DEF link_down, resset_find
    <3>. HIDE DEF told, d
    <3>2. LET x == dbus_disconnect_from_manager(told)
          IN  x.life = told.life /\ x.revived = told.revived /\ x.fault = told.fault
          BY <1>1 DEF dbus_disconnect_from_manager, ResourceSetRec
    <3>. QED BY <3>1, <3>2
  <2>3. c.life # "freed" /\ ~c.revived BY <2>1, <2>2
  <2>4. told.client = "created" \/ ~(c.rset.state = "connected" /\ c.resset)
        BY <2>3 DEF disconnect_from_manager, ResourceSetRec
  <2>. QED BY <2>3, <2>4 DEF disconnect_from_manager
<1>3. /\ told.reqlist = c.reqlist /\ told.wire = c.wire /\ told.reqno = c.reqno
      /\ told.configs = c.configs /\ told.life = c.life /\ told.rset = c.rset
      /\ told.client = c.client \/ told.client = "created"
      BY <1>2 DEF ResourceSetRec
<1>4. d = IF resset_find(c.rset) THEN dbus_disconnect_from_manager(told) ELSE c
      BY DEF link_down
<1>. HIDE DEF told, d
<1>5. ~resset_find(c.rset) => told = c BY DEF told, resset_find
<1>6. /\ d.reqlist = c.reqlist /\ d.wire = c.wire /\ d.reqno = c.reqno
      /\ d.configs = c.configs /\ d.life = c.life /\ d.client = told.client
      /\ resset_find(c.rset) => ~d.path /\ d.rset = resset_destroy(c.rset)
      BY <1>1, <1>3, <1>4, <1>5 DEF dbus_disconnect_from_manager, ResourceSetRec
<1>7. Agrees(c, e) => OneOfAKind(c) /\ Numbered(c, e)
      BY <1>2 DEF Agrees
<1>8. OneOfAKind(d) /\ Numbered(d, f)
      BY <1>6, <1>7 DEF OneOfAKind, Numbered
<1>9. ASSUME c.reqlist # <<>>, c.life = "live" PROVE Doomed(d)
  <2>1. Counted(c, 2) BY <1>2, <1>9 DEF Sound, Orderly
  <2>2. c.rset \in Rset BY DEF ResourceSetRec
  <2>3. c.rset.refcnt # 0 /\ c.rset.state # "freed" BY <2>1 DEF Counted
  <2>4. resset_destroy(c.rset).state = "killed"
    <3>1. CASE c.rset.state = "killed" BY <3>1 DEF resset_destroy
    <3>2. CASE c.rset.state # "killed"
      <4>1. c.rset.refcnt = 3 BY <2>1, <2>2, <2>3, <3>2 DEF Counted, Rset, RsetState
      <4>2. resset_destroy(c.rset) = resset_unref([c.rset EXCEPT !.state = "killed"])
            BY <3>2 DEF resset_destroy
      <4>. QED BY <2>2, <4>1, <4>2 DEF resset_unref, Rset
    <3>. QED BY <3>1, <3>2
  <2>. QED BY <1>6, <2>3, <2>4 DEF Doomed, resset_find
<1>10. ASSUME c.life = "live" PROVE Follows(d, f)
  <2>1. d.client = "created" => d.reqlist = <<>> \/ Doomed(d)
        BY <1>6, <1>9, <1>10
  <2>2. ASSUME d.client = "connecting" PROVE Doomed(d)
    <3>1. c.client = "connecting" BY <1>3, <1>6, <2>2
    <3>2. HasRegister(c) BY <1>10, <3>1 DEF Sound, Alive
    <3>3. c.reqlist # <<>> BY <3>2 DEF HasRegister
    <3>. QED BY <1>9, <1>10, <3>3
  <2>3. ASSUME d.client = "ready" PROVE UnregisterOut(d)
    <3>1. c.client = "ready" BY <1>3, <1>6, <2>3
    <3>2. c.resset BY <1>10, <3>1 DEF Sound, Alive
    <3>3. c.rset.state # "connected" BY <1>2, <1>6, <2>3, <3>2
    <3>4. UnregisterOut(c) BY <1>2, <1>10, <3>1, <3>3 DEF Sound, Orderly
    <3>. QED BY <1>6, <3>4 DEF UnregisterOut
  <2>. QED BY <2>1, <2>2, <2>3 DEF Follows
<1>. QED BY <1>6, <1>8, <1>10 DEF Agrees, d
-----------------------------------------------------------------------------
(* Answers.                                                                *)

(* What the answer's references were kept for does not matter here. *)
LEMMA ReplyDoneAgrees ==
    ASSUME NEW c \in ResourceSetRec, NEW reply, Sound(reply_done(c, reply), 0),
           NEW e, Agrees(c, e)
    PROVE  Agrees(reply_done(c, reply), e)
<1>. DEFINE d == reply_done(c, reply)
            r == resset_unref(resset_unref(c.rset))
<1>. SUFFICES ASSUME d.life # "freed", ~d.revived, d.fault = "none"
              PROVE  Agrees(d, e)
     BY DEF Agrees
<1>1. /\ d.life = c.life /\ d.client = c.client /\ d.configs = c.configs
      /\ d.acquire = c.acquire /\ d.resources = c.resources
      /\ d.reqlist = c.reqlist /\ d.wire = c.wire /\ d.reqno = c.reqno
      /\ d.path = c.path /\ d.revived = c.revived /\ d.rset = r
      /\ d.fault = "none" => c.fault = "none"
      BY DEF reply_done, ResourceSetRec
<1>. HIDE DEF d
<1>2. c.life # "freed" /\ ~c.revived /\ c.fault = "none" BY <1>1
<1>3. /\ OneOfAKind(c) /\ Numbered(c, e)
      /\ c.life = "live" => Follows(c, e)
      BY <1>2 DEF Agrees
<1>4. OneOfAKind(d) /\ Numbered(d, e) BY <1>1, <1>3 DEF OneOfAKind, Numbered
<1>5. Wishes(c, d) BY <1>1 DEF Wishes
<1>6. \A a : Wants(d, a) = Wants(c, a) /\ Concerns(d, a) = Concerns(c, a)
      BY <1>5, SameWishes
<1>7. ASSUME c.reqlist # <<>>, Doomed(c), c.life = "live" PROVE Doomed(d)
  <2>1. Counted(d, 2) BY <1>1, <1>7, d.fault = "none", ~d.revived DEF Sound, Orderly, d
  <2>2. d.rset.refcnt # 0 /\ d.rset.state # "freed" BY <2>1 DEF Counted
  <2>3. c.rset \in Rset /\ c.rset.state = "killed" BY <1>7 DEF Doomed, ResourceSetRec
  <2>4. r.state \in {"killed", "freed"}
    <3>1. ASSUME NEW x \in Rset, x.state \in {"killed", "freed"}
          PROVE  resset_unref(x).state \in {"killed", "freed"}
          BY <3>1 DEF resset_unref, Rset, Freed
    <3>2. resset_unref(c.rset) \in Rset BY <2>3, UnrefType
    <3>. QED BY <2>3, <3>1, <3>2
  <2>. QED BY <1>1, <1>7, <2>2, <2>4 DEF Doomed
<1>8. Registering(c, e) => Registering(d, e)
      BY <1>1 DEF Registering, configured, Carried
<1>9. Serving(c, e) => Serving(d, e)
  <2>1. \A a : Told(c, e.m, a) => Told(d, e.m, a) BY <1>1, <1>6 DEF Told
  <2>2. Knows(c, e) => Knows(d, e) BY <1>1, <1>6, <2>1 DEF Knows, Excused
  <2>. QED BY <1>1, <2>2 DEF Serving
<1>10. c.life = "live" => Follows(d, e)
  <2>1. c.life = "live" /\ c.client = "connecting" => c.reqlist # <<>>
    <3>1. c.life = "live" /\ c.client = "connecting" => HasRegister(d)
          BY <1>1, d.fault = "none" DEF Sound, Alive, d
    <3>. QED BY <1>1, <3>1 DEF HasRegister
  <2>. QED BY <1>1, <1>3, <1>7, <1>8, <1>9, <2>1 DEF Follows, UnregisterOut
<1>. QED BY <1>1, <1>4, <1>10 DEF Agrees, d

(* A doomed set sends nothing but REGISTER, and stays doomed.              *)
LEMMA DoomedSends ==
    ASSUME NEW c, NEW R, NEW k, Idle(c, R, k), Doomed(c),
           NEW e, Numbered(c, e)
    PROVE  LET d == send_request(c)
           IN  /\ Doomed(d) /\ Numbered(d, e) /\ Wishes(c, d) /\ d.life = c.life
               /\ d.client \in {c.client, "created"}
<1>. DEFINE d == send_request(c)
            Goal(x) == /\ Doomed(x) /\ Numbered(x, e) /\ Wishes(c, x)
                       /\ x.life = c.life /\ x.client \in {c.client, "created"}
<1>1. /\ c \in ResourceSetRec /\ c.reqlist \in Seq(Request)
      /\ Len(c.reqlist) \in Nat
      BY DEF Idle, ResourceSetRec
<1>2. ASSUME NEW f PROVE Goal([c EXCEPT !.fault = f])
      BY <1>1 DEF Doomed, Numbered, Wishes, ResourceSetRec
<1>3. ASSUME NEW list PROVE Goal([c EXCEPT !.reqlist = list])
      BY <1>1 DEF Doomed, Numbered, Wishes, ResourceSetRec
<1>4. Goal(c) BY DEF Wishes
<1>5. ASSUME first_sent(c) # 0 PROVE Goal(send_first(c))
  <2>. DEFINE n    == first_sent(c)
              list == SubSeq(c.reqlist, n, Len(c.reqlist))
              b    == [c EXCEPT !.reqlist = list]
              rq   == c.reqlist[n]
              call == message(b, rq)
              sent == send_register_message(b, rq)
              busy == <<[rq EXCEPT !.busy = TRUE]>> \o Tail(list)
              x    == send_first(c)
  <2>1. n \in 1..Len(c.reqlist) /\ rq.msgtyp = "register"
    <3>1. \/ rq.msgtyp = "register"
          \/ sendable(c, rq.msgtyp)
          BY <1>1, <1>5, FirstSent
    <3>. QED BY <1>1, <1>5, <3>1, FirstSent DEF sendable, may_send, Doomed
  <2>2. x = transmit(b) BY <1>5 DEF send_first
  <2>. HIDE DEF n
  <2>3. list \in Seq(Request) /\ list # <<>> /\ Head(list) = rq
    <3>1. Len(c.reqlist) \in n..Len(c.reqlist) BY <1>1, <2>1
    <3>2. Head(list) = c.reqlist[n] BY <1>1, <2>1, <3>1, HeadTailOfSubSeq
    <3>3. \A i \in n..Len(c.reqlist) : c.reqlist[i] \in Request BY <1>1, <2>1
    <3>4. list \in Seq(Request) /\ Len(list) > 0
          BY <1>1, <2>1, <3>3, SubSeqProperties
    <3>. HIDE DEF list
    <3>. QED BY <3>2, <3>4
  <2>. HIDE DEF list
  <2>4. /\ b \in ResourceSetRec /\ b.reqlist = list /\ Wishes(c, b)
        /\ b.rset = c.rset /\ b.path = c.path /\ b.wire = c.wire
        /\ b.reqno = c.reqno /\ b.client = c.client /\ b.life = c.life
        BY <1>1, <2>3 DEF ResourceSetRec, Wishes
  <2>5. rq \in Request /\ rq.reqno <= c.reqno
        BY <1>1, <2>1 DEF Idle, Ascending
  <2>6. /\ x = [b EXCEPT !.client = "created", !.denied = TRUE,
                         !.reqlist = Tail(@),
                         !.fault = IF Tail(b.reqlist) = <<>> THEN @ ELSE "spin"]
           \/ x = [sent EXCEPT !.reqlist = busy]
        BY <2>1, <2>2, <2>3, <2>4 DEF transmit, send_message
  <2>. HIDE DEF x, b, busy
  <2>7. CASE x = [b EXCEPT !.client = "created", !.denied = TRUE,
                           !.reqlist = Tail(@),
                           !.fault = IF Tail(b.reqlist) = <<>> THEN @ ELSE "spin"]
        BY <2>4, <2>7 DEF Doomed, Numbered, Wishes, ResourceSetRec, x
  <2>8. CASE x = [sent EXCEPT !.reqlist = busy]
    <3>1. call \in Call /\ call.reqno = rq.reqno
          BY <2>1, <2>4, <2>5, MessageType DEF Kind
    <3>2. dbus_connect_to_manager(b) = b
          BY <2>4 DEF dbus_connect_to_manager, resset_find, Doomed
    <3>. DEFINE y == dbus_send_message(b, call)
    <3>3. sent = b \/ sent = [y EXCEPT !.resset = @ \/ resset_find(y.rset)]
          BY <2>4, <3>2 DEF send_register_message, resconn_connect, resset_find, Doomed
    <3>. HIDE DEF call, sent
    <3>4. /\ y \in ResourceSetRec /\ y.rset.state = b.rset.state
          /\ Wishes(b, y) /\ y.path = b.path /\ y.wire = Append(b.wire, call)
          /\ y.reqno = b.reqno /\ y.client = b.client /\ y.life = b.life
      <4>1. y \in ResourceSetRec /\ y.rset.state = b.rset.state
            BY <2>4, <3>1, DbusSendKeeps
      <4>2. y = [b EXCEPT !.wire    = Append(@, call),
                          !.replies = @ \cup {[msgtyp |-> call.msgtyp,
                                                    reqno  |-> call.reqno]},
                          !.rset    = resset_ref(resset_ref(@))]
            BY DEF dbus_send_message
      <4>. HIDE DEF y
      <4>. QED BY <2>4, <4>1, <4>2 DEF Wishes, ResourceSetRec
    <3>5. Numbered(b, e) BY <2>4 DEF Numbered
    <3>6. Numbered(y, e)
      <4>1. call.reqno <= b.reqno BY <2>4, <2>5, <3>1
      <4>. HIDE DEF y
      <4>. QED BY <2>4, <3>1, <3>4, <3>5, <4>1, NumberedAppend
    <3>. HIDE DEF y
    <3>7. Goal(b) BY <2>4, <3>5 DEF Doomed
    <3>8. Goal(y) BY <2>4, <3>4, <3>6 DEF Doomed, Wishes
    <3>9. Goal(sent) /\ sent \in ResourceSetRec
      <4>1. CASE sent = b BY <2>4, <3>7, <4>1
      <4>2. CASE sent = [y EXCEPT !.resset = @ \/ resset_find(y.rset)]
        <5>1. (y.resset \/ resset_find(y.rset)) \in BOOLEAN
              BY <3>4 DEF ResourceSetRec, resset_find
        <5>2. sent \in ResourceSetRec BY <3>4, <4>2, <5>1 DEF ResourceSetRec
        <5>3. Goal(sent)
              BY <3>4, <3>8, <4>2 DEF Doomed, Numbered, Wishes, ResourceSetRec
        <5>. QED BY <5>2, <5>3
      <4>. QED BY <3>3, <4>1, <4>2
    <3>. QED BY <2>8, <3>9 DEF Doomed, Numbered, Wishes, ResourceSetRec, x
  <2>. QED BY <2>6, <2>7, <2>8 DEF x
<1>6. Goal(send_first(c))
  <2>1. CASE first_sent(c) = 0 BY <1>3, <2>1 DEF send_first
  <2>. QED BY <1>5, <2>1
<1>. HIDE DEF Goal
<1>7. Goal(d) BY <1>2, <1>4, <1>6 DEF send_request
<1>. QED BY <1>7 DEF Goal

(* The request that has been answered leaves the queue. *)
After(c, p) ==
    /\ TakenOff(p.reqlist, c.reqlist, 1) /\ Wishes(c, p)
    /\ p.wire = c.wire /\ p.reqno = c.reqno

LEMMA AfterWaits ==
    ASSUME NEW c \in ResourceSetRec, c.reqlist[1].busy, NEW p, After(c, p), NEW a
    PROVE  /\ Waits(c.reqlist, a, c.acquire) => Waits(p.reqlist, a, p.acquire)
           /\ NoneWaits(c.reqlist, a) => NoneWaits(p.reqlist, a)
           /\ Wants(p, a) = Wants(c, a) /\ Concerns(p, a) = Concerns(c, a)
           /\ p.acquire = c.acquire /\ p.resources = c.resources
           /\ NoRegister(c.reqlist) => NoRegister(p.reqlist)
<1>1. /\ Len(c.reqlist) \in Nat /\ p.acquire = c.acquire
      /\ p.resources = c.resources /\ TakenOff(p.reqlist, c.reqlist, 1)
      BY DEF ResourceSetRec, After, Wishes
<1>2. \A i \in 1..1 : c.reqlist[i].busy OBVIOUS
<1>3. NoRegister(c.reqlist) => NoRegister(p.reqlist)
  <2>1. \A i \in 1..Len(p.reqlist) : 1 + i \in 1..Len(c.reqlist)
        BY <1>1 DEF TakenOff
  <2>. QED BY <1>1, <2>1 DEF TakenOff, NoRegister
<1>. QED BY <1>1, <1>2, <1>3, WaitsBehind, SameWishes DEF After

LEMMA AfterKnows ==
    ASSUME NEW c \in ResourceSetRec, c.reqlist[1].busy, NEW p, After(c, p),
           NEW e, Knows(c, e)
    PROVE  Knows(p, e)
<1>1. ASSUME NEW a \in Attribute, Concerns(p, a)
      PROVE  Told(p, e.m, a) \/ Excused(p, e, a)
  <2>1. Told(c, e.m, a) \/ Excused(c, e, a) BY <1>1, AfterWaits DEF Knows
  <2>2. Told(c, e.m, a) => Told(p, e.m, a) BY AfterWaits DEF Told, After
  <2>3. Excused(c, e, a) => Excused(p, e, a) BY AfterWaits DEF Excused
  <2>. QED BY <2>1, <2>2, <2>3
<1>. QED BY <1>1 DEF Knows

(* What status_method has done before it calls back: the request that has  *)
(* been answered is off the queue, and p is the client.                    *)
Reached(c, reply, err, p) ==
    /\ c.reqlist # <<>> /\ c.reqlist[1].busy /\ c.life = "live"
    /\ reply.msgtyp = c.reqlist[1].msgtyp /\ reply.reqno = c.reqlist[1].reqno
    /\ After(c, p) /\ Idle(p, {reply}, 2)
    /\ p.life = "live" /\ p.client = c.client /\ p.path = c.path
    /\ c.revived => p.revived
    /\ reply.msgtyp = "register" /\ ~err =>
          p.rset.state = "connected" /\ (Doomed(c) => p.revived)
    /\ reply.msgtyp \notin {"register", "unregister"} => p.rset = c.rset

LEMMA AnswerReached ==
    ASSUME NEW c \in ResourceSetRec, QueueInv(c), c.fault = "none", Sound(c, 0),
           NEW reply \in c.replies, NEW err \in BOOLEAN, resset_find(c.rset)
    PROVE  LET a == answered(c, reply.msgtyp, err)
               p == pop_request(a, reply.reqno)
               b == status_cb(a, reply, err)
           IN  /\ Reached(c, reply, err, p)
               /\ status_method(c, reply, err) = reply_done(b, reply)
               /\ b \in ResourceSetRec
               /\ b = IF reply.msgtyp = "register"
                      THEN send_request(connect_complete_cb(p, err))
                      ELSE IF reply.msgtyp = "unregister"
                      THEN disconnect_complete_cb(p)
                      ELSE send_request(p)
<1>. DEFINE t == reply.msgtyp
            a == answered(c, t, err)
            p == pop_request(a, reply.reqno)
            b == status_cb(a, reply, err)
<1>1. c.reqlist # <<>> BY DEF QueueInv, Settled
<1>2. /\ Ascending(c.reqlist, c.reqno) /\ HeadBusy(c.reqlist)
      /\ c.resset /\ c.conn /\ Backed(c, 2)
      /\ reply = Pending(Head(c.reqlist)) /\ c.replies = {reply}
      BY <1>1 DEF QueueInv, Settled
<1>3. c.life = "live" /\ Kept(c) /\ (~c.revived => Orderly(c, 0))
      BY <1>1 DEF Sound
<1>4. /\ Head(c.reqlist) = c.reqlist[1] /\ c.reqlist[1].busy
      /\ t = c.reqlist[1].msgtyp /\ reply.reqno = c.reqlist[1].reqno
  <2>1. Head(c.reqlist) = c.reqlist[1] BY <1>1 DEF ResourceSetRec
  <2>. QED BY <1>2, <2>1 DEF HeadBusy, Pending
<1>5. status_method(c, reply, err) = reply_done(b, reply) BY DEF status_method
<1>6. a \in ResourceSetRec /\ b \in ResourceSetRec
  <2>1. a \in ResourceSetRec BY AnsweredType
  <2>. HIDE DEF a
  <2>. QED BY <2>1, StatusCbType
<1>7. /\ a.life = "live" /\ a.client = c.client /\ a.reqlist = c.reqlist
      /\ a.reqno = c.reqno /\ a.path = c.path /\ (c.revived => a.revived)
      /\ t = "register" /\ ~err => a.rset.state = "connected"
      /\ t \notin {"register", "unregister"} => a.rset = c.rset
  <2>1. ~c.revived => Counted(c, 2) BY <1>1, <1>3 DEF Orderly
  <2>2. ~c.revived /\ t = "unregister" => c.rset.state = "killed"
        BY <1>1, <1>3, <1>4 DEF Orderly, UnregisterOut
  <2>. QED BY <1>3, <2>1, <2>2, AnsweredSound
<1>8. /\ Wishes(c, a) /\ a.wire = c.wire /\ a.held = c.held /\ a.fault = "none"
      /\ t = "register" /\ ~err /\ Doomed(c) => a.revived
      BY DEF answered, Wishes, ResourceSetRec, Doomed
<1>9. /\ a.resset = c.resset /\ a.conn = c.conn /\ a.replies = c.replies
      /\ Backed(a, 2) /\ resset_find(a.rset)
  <2>1. \A k \in Nat : Backed(c, k) =>
           /\ a.resset = c.resset /\ a.conn = c.conn /\ a.replies = c.replies
           /\ Backed(a, k) /\ resset_find(a.rset)
        BY AnsweredKeeps
  <2>. HIDE DEF a
  <2>. QED BY <1>2, <2>1
<1>. HIDE DEF a
<1>10. /\ queued(a, reply.reqno) /\ Idle(p, {reply}, 2)
       /\ \E rest \in Seq(Request) :
             /\ p = [a EXCEPT !.reqlist = rest]
             /\ Len(rest) = Len(c.reqlist) - 1
             /\ \A j \in 1..Len(rest) : rest[j] = c.reqlist[j + 1]
  <2>1. /\ Head(a.reqlist).reqno = reply.reqno /\ a.reqlist # <<>>
        /\ Ascending(a.reqlist, a.reqno) /\ HeadBusy(a.reqlist)
        /\ a.resset /\ a.conn /\ a.replies = {Pending(Head(a.reqlist))}
        BY <1>1, <1>2, <1>4, <1>7, <1>9
  <2>. DEFINE n == Head(a.reqlist).reqno
  <2>2. /\ queued(a, n) /\ Idle(pop_request(a, n), a.replies, 2)
        /\ \E rest \in Seq(Request) :
              /\ pop_request(a, n) = [a EXCEPT !.reqlist = rest]
              /\ Len(rest) = Len(a.reqlist) - 1
              /\ \A j \in 1..Len(rest) : rest[j] = a.reqlist[j + 1]
        BY <1>6, <1>8, <1>9, <2>1, PopHead
  <2>3. n = reply.reqno /\ a.replies = {reply} /\ a.reqlist = c.reqlist
        BY <1>2, <1>7, <1>9, <2>1
  <2>. HIDE DEF n
  <2>. QED BY <2>2, <2>3
<1>11. PICK rest \in Seq(Request) :
          /\ p = [a EXCEPT !.reqlist = rest]
          /\ Len(rest) = Len(c.reqlist) - 1
          /\ \A j \in 1..Len(rest) : rest[j] = c.reqlist[j + 1]
       BY <1>10
<1>12. b = IF t = "register" THEN send_request(connect_complete_cb(p, err))
           ELSE IF t = "unregister" THEN disconnect_complete_cb(p)
           ELSE send_request(p)
       BY <1>2, <1>7, <1>9, <1>10 DEF status_cb
<1>. HIDE DEF p
<1>13. /\ p.reqlist = rest /\ p.life = "live" /\ p.client = c.client
       /\ p.path = c.path /\ p.revived = a.revived /\ p.rset = a.rset
       /\ Wishes(c, p) /\ p.wire = c.wire /\ p.reqno = c.reqno
       BY <1>6, <1>7, <1>8, <1>11 DEF Wishes, ResourceSetRec
<1>14. TakenOff(rest, c.reqlist, 1)
  <2>1. Len(c.reqlist) \in Nat /\ Len(c.reqlist) # 0 BY <1>1 DEF ResourceSetRec
  <2>2. \A j \in 1..Len(rest) : rest[j] = c.reqlist[1 + j]
    <3>1. \A j \in 1..Len(rest) : 1 + j = j + 1 BY <1>11, <2>1
    <3>. QED BY <1>11, <3>1
  <2>. QED BY <1>11, <2>1, <2>2 DEF TakenOff
<1>15. Reached(c, reply, err, p)
       BY <1>1, <1>3, <1>4, <1>7, <1>8, <1>10, <1>13, <1>14 DEF Reached, After
<1>. HIDE DEF b
<1>. QED BY <1>5, <1>6, <1>12, <1>15 DEF a, p, b

(* The REGISTER has been granted, and the manager starts from what it      *)
(* said.                                                                   *)
LEMMA RegisteredKnows ==
    ASSUME NEW c \in ResourceSetRec, NEW reply, NEW err, NEW p,
           Reached(c, reply, err, p),
           NEW e, e.m \in ManagerRec, Registering(c, e), reply.reqno \in e.ok
    PROVE  NoRegister(p.reqlist) /\ Plain(p.wire) /\ (e.gone \/ Knows(p, e))
<1>1. /\ c.reqlist[1].busy /\ After(c, p) /\ reply.reqno = c.reqlist[1].reqno
      BY DEF Reached
<1>2. /\ p.wire = <<>> /\ c.wire = <<>>
      /\ \/ e.gone
         \/ /\ e.up /\ e.m.reg /\ ~e.m.acquire
            /\ Carried(c, e.m.resources)
      BY <1>1 DEF Registering, After
<1>3. Plain(p.wire) BY <1>2 DEF Plain
<1>4. NoRegister(p.reqlist)
  <2>1. \A i \in 1..Len(p.reqlist) : /\ 1 + i \in 2..Len(c.reqlist)
                                     /\ p.reqlist[i] = c.reqlist[1 + i]
    <3>1. Len(c.reqlist) \in Nat BY DEF ResourceSetRec
    <3>. QED BY <1>1, <3>1 DEF After, TakenOff
  <2>. QED BY <2>1 DEF NoRegister, Registering
<1>5. ASSUME ~e.gone PROVE Knows(p, e)
  <2>1. e.up /\ e.m.reg /\ ~e.m.acquire /\ Carried(c, e.m.resources)
        BY <1>2, <1>5
  <2>2. ASSUME NEW a \in Attribute, e.m[a] = Wants(p, a)
        PROVE  Hears(e.m, p.wire, a, Wants(p, a))
    <3>1. Len(p.wire) = 0 BY <1>2
    <3>. QED BY <2>2, <3>1 DEF Hears
  <2>3. ASSUME NEW a \in Kind, Concerns(p, a) PROVE Told(p, e.m, a)
    <3>1. Concerns(c, a) BY <1>1, <2>3, AfterWaits
    <3>2. Waits(c.reqlist, a, c.acquire) BY <3>1 DEF Concerns, Registering
    <3>. QED BY <1>1, <3>2, AfterWaits DEF Told
  <2>4. Told(p, e.m, "resources")
    <3>1. CASE Waits(c.reqlist, "resources", c.acquire)
          BY <1>1, <3>1, AfterWaits DEF Told
    <3>2. CASE NoneWaits(c.reqlist, "resources") /\ e.m.resources = c.resources
      <4>1. Wants(p, "resources") = c.resources BY <1>1, AfterWaits DEF Wants
      <4>2. Hears(e.m, p.wire, "resources", Wants(p, "resources"))
            BY <2>2, <3>2, <4>1 DEF Attribute
      <4>. QED BY <1>1, <3>2, <4>2, AfterWaits DEF Told
    <3>. QED BY <2>1, <3>1, <3>2 DEF Carried
  <2>5. Told(p, e.m, "acquire") \/ Excused(p, e, "acquire")
    <3>0. p.acquire = c.acquire BY <1>1, AfterWaits
    <3>1. CASE e.auto /\ ~c.acquire BY <3>0, <3>1 DEF Excused
    <3>2. CASE Waits(c.reqlist, "acquire", c.acquire)
          BY <1>1, <3>2, AfterWaits DEF Told
    <3>3. CASE NoneWaits(c.reqlist, "acquire") /\ ~c.acquire
      <4>1. c.acquire \in BOOLEAN /\ e.m.acquire \in BOOLEAN
            BY DEF ResourceSetRec, ManagerRec
      <4>2. Wants(p, "acquire") = c.acquire BY <3>0 DEF Wants
      <4>3. e.m.acquire = c.acquire BY <2>1, <3>3, <4>1
      <4>4. Hears(e.m, p.wire, "acquire", Wants(p, "acquire"))
            BY <2>2, <4>2, <4>3 DEF Attribute
      <4>. QED BY <1>1, <3>3, <4>4, AfterWaits DEF Told
    <3>. QED BY <3>1, <3>2, <3>3 DEF Registering
  <2>. QED BY <2>1, <2>3, <2>4, <2>5 DEF Knows, Attribute, Kind
<1>. QED BY <1>3, <1>4, <1>5

(* A client that is ready goes on with the next request. *)
LEMMA NextServes ==
    ASSUME NEW q, NEW R, Idle(q, R, 2), q.client = "ready", q.life = "live",
           q.rset.state = "connected", NoRegister(q.reqlist), Plain(q.wire),
           OneOfAKind(q), NEW e, Numbered(q, e), e.gone \/ Knows(q, e)
    PROVE  Agrees(send_request(q), e)
<1>. DEFINE d == send_request(q)
<1>1. q \in ResourceSetRec /\ Ascending(q.reqlist, q.reqno) /\ Ready(q)
      BY DEF Idle, Ready, may_send
<1>2. Kindred(q, d) /\ Numbered(d, e) /\ (Serving(d, e) \/ UnregisterOut(d))
      BY <1>1, SendRequestServes
<1>. HIDE DEF d
<1>3. OneOfAKind(d) /\ d.client = "ready"
      BY <1>2 DEF Kindred, Wishes, OneOfAKind
<1>. QED BY <1>2, <1>3 DEF Agrees, Follows, d

(* With client_created there must be nothing to send.                      *)
LEMMA CreatedSends ==
    ASSUME NEW q, NEW R, NEW k, Idle(q, R, k), q.client = "created",
           send_request(q).fault = "none"
    PROVE  send_request(q) = q /\ q.reqlist = <<>>
<1>1. q \in ResourceSetRec /\ q.reqlist \in Seq(Request) BY DEF Idle, ResourceSetRec
<1>2. CASE q.reqlist = <<>> BY <1>2 DEF send_request
<1>3. CASE q.reqlist # <<>>
  <2>1. Head(q.reqlist) = q.reqlist[1] /\ 1 \in 1..Len(q.reqlist) BY <1>1, <1>3
  <2>2. ~Head(q.reqlist).busy BY <2>1 DEF Idle, NoneBusy
  <2>3. send_request(q) = [q EXCEPT !.fault = "spin"]
        BY <1>3, <2>2 DEF send_request
  <2>4. send_request(q).fault = "spin" BY <1>1, <2>3 DEF ResourceSetRec
  <2>. QED BY <2>4
<1>. QED BY <1>2, <1>3

LEMMA StatusMethodAgrees ==
    ASSUME NEW c \in ResourceSetRec, QueueInv(c), c.fault = "none", Sound(c, 0),
           NEW reply \in c.replies, NEW err \in BOOLEAN,
           NEW e, e.m \in ManagerRec, Agrees(c, e),
           ~err => reply.reqno \in e.ok
    PROVE  Agrees(status_method(c, reply, err), e)
<1>. DEFINE d == status_method(c, reply, err)
            t == reply.msgtyp
            a == answered(c, t, err)
            p == pop_request(a, reply.reqno)
            b == status_cb(a, reply, err)
<1>. SUFFICES ASSUME d.life # "freed", ~d.revived, d.fault = "none"
              PROVE  Agrees(d, e)
     BY DEF Agrees
<1>1. resset_find(c.rset)
  <2>. SUFFICES ASSUME ~resset_find(c.rset) PROVE FALSE OBVIOUS
  <2>1. d = [c EXCEPT !.fault = "stale"] BY DEF status_method
  <2>. HIDE DEF d
  <2>2. d.fault = "stale" BY <2>1 DEF ResourceSetRec
  <2>. QED BY <2>2
<1>2. /\ Reached(c, reply, err, p) /\ d = reply_done(b, reply)
      /\ b \in ResourceSetRec
      /\ b = IF t = "register" THEN send_request(connect_complete_cb(p, err))
             ELSE IF t = "unregister" THEN disconnect_complete_cb(p)
             ELSE send_request(p)
      BY <1>1, AnswerReached
<1>3. Sound(d, 0) BY StatusMethodSound
<1>. HIDE DEF a, p, b, d
<1>4. b.life = d.life /\ ~b.revived /\ b.fault = "none"
      BY <1>2, ReplyDoneKeeps
<1>5. SUFFICES Agrees(b, e) BY <1>2, <1>3, ReplyDoneAgrees
<1>6. /\ c.reqlist # <<>> /\ c.reqlist[1].busy /\ c.life = "live"
      /\ t = c.reqlist[1].msgtyp /\ reply.reqno = c.reqlist[1].reqno
      /\ After(c, p) /\ Idle(p, {reply}, 2) /\ p.life = "live"
      /\ p.client = c.client /\ p.path = c.path /\ (c.revived => p.revived)
      /\ t = "register" /\ ~err =>
            p.rset.state = "connected" /\ (Doomed(c) => p.revived)
      /\ t \notin {"register", "unregister"} => p.rset = c.rset
      BY <1>2 DEF Reached
<1>7. p \in ResourceSetRec /\ p.fault = "none" BY <1>6 DEF Idle
<1>8. ASSUME ~p.revived
      PROVE  /\ OneOfAKind(p) /\ Numbered(p, e) /\ Follows(c, e)
             /\ Orderly(c, 0)
  <2>1. OneOfAKind(c) /\ Numbered(c, e) /\ Follows(c, e) /\ Orderly(c, 0)
        BY <1>6, <1>8 DEF Agrees, Sound
  <2>. QED BY <1>6, <2>1 DEF After, Wishes, OneOfAKind, Numbered
<1>9. UnregisterOut(c) = (t = "unregister")
  <2>1. Head(c.reqlist) = c.reqlist[1] BY <1>6 DEF ResourceSetRec
  <2>. QED BY <1>6, <2>1 DEF UnregisterOut
<1>10. /\ Registering(c, e) => t = "register"
       /\ NoRegister(c.reqlist) => t # "register"
  <2>1. 1 \in 1..Len(c.reqlist) BY <1>6 DEF ResourceSetRec
  <2>. QED BY <1>6, <2>1 DEF Registering, NoRegister
<1>11. CASE t = "register"
  <2>. DEFINE q == connect_complete_cb(p, err)
  <2>1. b = send_request(q) BY <1>2, <1>11
  <2>2. /\ q \in ResourceSetRec /\ Wishes(p, q)
        /\ q.client = (IF err THEN "created" ELSE "ready")
        /\ q.conn = p.conn /\ q.life = p.life /\ q.wire = p.wire
        /\ q.path = p.path /\ q.rset = p.rset /\ q.fault = p.fault
        /\ q.revived = p.revived /\ q.reqlist = p.reqlist /\ q.reqno = p.reqno
        /\ q.replies = p.replies /\ q.resset = p.resset
        BY <1>7 DEF connect_complete_cb, ResourceSetRec, Wishes
  <2>. HIDE DEF q
  <2>3. Idle(q, {reply}, 2) BY <1>6, <2>2 DEF Idle, Backed
  <2>4. ~p.revived
    <3>1. Drifts(q, b) BY <1>7, <2>1, <2>2, SendRequestDrifts
    <3>. QED BY <1>4, <2>2, <3>1 DEF Drifts
  <2>5. OneOfAKind(q) /\ Numbered(q, e)
        BY <1>8, <2>2, <2>4 DEF OneOfAKind, Numbered, Wishes
  <2>6. CASE err
    <3>1. b = q /\ q.reqlist = <<>> BY <1>4, <2>1, <2>2, <2>3, <2>6, CreatedSends
    <3>. QED BY <2>2, <2>5, <2>6, <3>1 DEF Agrees, Follows
  <2>7. CASE ~err
    <3>1. Registering(c, e)
          BY <1>6, <1>8, <1>9, <1>10, <1>11, <2>4, <2>7
             DEF Follows, Serving, ResourceSetRec
    <3>2. NoRegister(p.reqlist) /\ Plain(p.wire) /\ (e.gone \/ Knows(p, e))
          BY <1>2, <2>7, <3>1, RegisteredKnows
    <3>3. e.gone \/ Knows(q, e)
      <4>1. \A x : /\ Told(p, e.m, x) => Told(q, e.m, x)
                   /\ Excused(p, e, x) => Excused(q, e, x)
                   /\ Concerns(q, x) = Concerns(p, x)
        <5>1. \A x : Wants(q, x) = Wants(p, x) /\ Concerns(q, x) = Concerns(p, x)
              BY <2>2, SameWishes
        <5>. QED BY <2>2, <5>1 DEF Told, Excused, Wishes
      <4>. QED BY <3>2, <4>1 DEF Knows
    <3>. QED BY <1>6, <1>11, <2>1, <2>2, <2>3, <2>5, <2>7, <3>2, <3>3, NextServes
  <2>. QED BY <2>6, <2>7
<1>12. CASE t = "unregister"
  <2>1. b.life = "freed"
        BY <1>2, <1>7, <1>12 DEF disconnect_complete_cb, ResourceSetRec
  <2>. QED BY <1>4, <2>1
<1>13. CASE t \notin {"register", "unregister"}
  <2>1. b = send_request(p) /\ p.rset = c.rset BY <1>2, <1>6, <1>13
  <2>2. ~p.revived
    <3>1. Drifts(p, b) BY <1>7, <2>1, SendRequestDrifts
    <3>. QED BY <1>4, <3>1 DEF Drifts
  <2>3. OneOfAKind(p) /\ Numbered(p, e) /\ Follows(c, e) /\ Orderly(c, 0)
        BY <1>8, <2>2
  <2>4. CASE c.client = "created"
    <3>1. b = p /\ p.reqlist = <<>> BY <1>4, <1>6, <2>1, <2>4, CreatedSends
    <3>. QED BY <1>6, <2>3, <2>4, <3>1 DEF Agrees, Follows
  <2>5. CASE c.client = "connecting"
    <3>1. Doomed(p)
          BY <1>6, <1>10, <1>13, <2>1, <2>3, <2>5 DEF Follows, Doomed
    <3>2. /\ Doomed(b) /\ Numbered(b, e) /\ Wishes(p, b) /\ b.life = "live"
          /\ b.client \in {"connecting", "created"}
          BY <1>6, <2>1, <2>3, <2>5, <3>1, DoomedSends
    <3>. QED BY <2>3, <3>2 DEF Agrees, Follows, OneOfAKind, Wishes
  <2>6. CASE c.client = "ready"
    <3>1. Serving(c, e) /\ c.rset.state = "connected"
          BY <1>6, <1>9, <1>13, <2>3, <2>6 DEF Follows, Orderly
    <3>2. NoRegister(p.reqlist) /\ Plain(p.wire)
          BY <1>6, <3>1, AfterWaits DEF Serving, After
    <3>3. e.gone \/ Knows(p, e) BY <1>6, <3>1, AfterKnows DEF Serving
    <3>. QED BY <1>6, <2>1, <2>3, <2>6, <3>1, <3>2, <3>3, NextServes
  <2>. QED BY <2>4, <2>5, <2>6 DEF ResourceSetRec
<1>. QED BY <1>11, <1>12, <1>13

(* The news of a revocation does not reach a set without its object path.  *)
LEMMA UnreachedAgrees ==
    ASSUME NEW c \in ResourceSetRec, Sound(c, 0), c.fault = "none",
           ~(c.path /\ resset_find(c.rset)),
           NEW e, NEW f, Later(e, f), Agrees(c, e)
    PROVE  Agrees(c, f)
<1>. SUFFICES ASSUME c.life # "freed", ~c.revived PROVE Agrees(c, f)
     BY DEF Agrees
<1>1. OneOfAKind(c) /\ Numbered(c, f) /\ (c.life = "live" => Follows(c, e))
      BY DEF Agrees, Later, Numbered
<1>2. ASSUME c.life = "live" PROVE Follows(c, f)
  <2>1. Registering(c, e) => Registering(c, f) BY LaterRegisters
  <2>2. c.client = "ready" => UnregisterOut(c)
    <3>1. CASE c.rset.state = "connected"
          BY <3>1 DEF Sound, Orderly, Counted, resset_find
    <3>2. CASE c.rset.state # "connected" BY <1>2, <3>2 DEF Sound, Orderly
    <3>. QED BY <3>1, <3>2
  <2>. QED BY <1>1, <1>2, <2>1, <2>2 DEF Follows
<1>. QED BY <1>1, <1>2 DEF Agrees
-----------------------------------------------------------------------------
(* The manager's side of a set, and the news of it that are under way.     *)
Granted(q, s) ==
    {n \in Nat : \E i \in 1..Len(q) :
        q[i].kind = "answer" /\ q[i].set = s /\ ~q[i].err /\ q[i].reply.reqno = n}

HasDown(q) == \E i \in 1..Len(q) : q[i].kind = "down"

Revoking(q, s) == \E i \in 1..Len(q) : q[i].kind = "revoke" /\ q[i].set = s

Side(s) ==
    [m |-> ms[s], up |-> up, gone |-> ms[s].passed \/ HasDown(inq),
     ok |-> Granted(inq, s), revoked |-> Revoking(inq, s),
     auto |-> s \in AutoRelease]

Agreeing == \A s \in Sets : Agrees(cs[s], Side(s))

LEMMA TailHas ==
    ASSUME NEW S, NEW q \in Seq(S), q # <<>>, NEW s
    PROVE  /\ Granted(Tail(q), s) \subseteq Granted(q, s)
           /\ HasDown(q) /\ Head(q).kind # "down" => HasDown(Tail(q))
           /\ Revoking(q, s) /\ ~(Head(q).kind = "revoke" /\ Head(q).set = s)
                 => Revoking(Tail(q), s)
           /\ LET m == Head(q)
              IN  m.kind = "answer" /\ m.set = s /\ ~m.err /\ m.reply.reqno \in Nat
                     => m.reply.reqno \in Granted(q, s)
<1>. DEFINE n == Len(q)
            p == Tail(q)
<1>1. /\ n \in Nat /\ Len(p) = n - 1 /\ Head(q) = q[1] /\ 1 \in 1..n
      /\ \A i \in 1..Len(p) : p[i] = q[i + 1] /\ i + 1 \in 1..n
      OBVIOUS
<1>2. \A i \in 1..n : i = 1 \/ (i - 1 \in 1..Len(p) /\ p[i - 1] = q[i])
  <2>. SUFFICES ASSUME NEW i \in 1..n, i # 1
                PROVE  i - 1 \in 1..Len(p) /\ p[i - 1] = q[i]
       OBVIOUS
  <2>. DEFINE j == i - 1
  <2>1. j \in 1..Len(p) /\ j + 1 = i BY <1>1
  <2>. HIDE DEF j, p
  <2>2. p[j] = q[i] BY <1>1, <2>1
  <2>. QED BY <2>1, <2>2 DEF j
<1>. HIDE DEF n, p
<1>3. Granted(p, s) \subseteq Granted(q, s) BY <1>1 DEF Granted, n
<1>4. HasDown(q) /\ Head(q).kind # "down" => HasDown(p)
      BY <1>1, <1>2 DEF HasDown, n
<1>5. Revoking(q, s) /\ ~(Head(q).kind = "revoke" /\ Head(q).set = s)
         => Revoking(p, s)
      BY <1>1, <1>2 DEF Revoking, n
<1>6. LET m == Head(q)
      IN  m.kind = "answer" /\ m.set = s /\ ~m.err /\ m.reply.reqno \in Nat
             => m.reply.reqno \in Granted(q, s)
      BY <1>1 DEF Granted, n
<1>. QED BY <1>3, <1>4, <1>5, <1>6 DEF p

(* What the main loop does to the manager's side of a set. *)
LEMMA DispatchLater ==
    ASSUME TypeOK, NEW kinds, Dispatch(kinds), Head(inq).kind # "down",
           NEW s \in Sets
    PROVE  /\ Later(Side(s), Side(s)')
           /\ Side(s).ok \in SUBSET Nat /\ Side(s).m \in ManagerRec
           /\ ~(Head(inq).kind = "revoke" /\ Head(inq).set = s) =>
                 (Side(s).revoked => Side(s)'.revoked)
<1>1. /\ inq \in Seq(Answer \cup Notice \cup Owner) /\ inq # <<>>
      /\ inq' = Tail(inq) /\ up' = up /\ ms' = ms
      BY DEF TypeOK, Dispatch
<1>2. /\ Granted(inq', s) \subseteq Granted(inq, s)
      /\ HasDown(inq) => HasDown(inq')
      /\ Revoking(inq, s) /\ ~(Head(inq).kind = "revoke" /\ Head(inq).set = s)
            => Revoking(inq', s)
      BY <1>1, TailHas
<1>3. /\ Side(s)' = [m |-> ms[s], up |-> up,
                     gone |-> ms[s].passed \/ HasDown(inq'),
                     ok |-> Granted(inq', s), revoked |-> Revoking(inq', s),
                     auto |-> s \in AutoRelease]
  <2>1. Side(s)' = [m |-> ms'[s], up |-> up',
                     gone |-> ms'[s].passed \/ HasDown(inq'),
                     ok |-> Granted(inq', s), revoked |-> Revoking(inq', s),
                     auto |-> s \in AutoRelease]
        BY DEF Side, HasDown, Granted, Revoking
  <2>. QED BY <1>1, <2>1
<1>4. Granted(inq, s) \in SUBSET Nat BY DEF Granted
<1>5. ms[s] \in ManagerRec BY DEF TypeOK
<1>. QED BY <1>2, <1>3, <1>4, <1>5 DEF Later, Side
-----------------------------------------------------------------------------
(* The process.                                                            *)
LEMMA OneSetAgrees ==
    ASSUME TypeOK, Agreeing, NEW s \in Sets, NEW d, Agrees(d, Side(s)),
           cs' = [cs EXCEPT ![s] = d], UNCHANGED <<inq, up, ms>>
    PROVE  Agreeing'
<1>1. \A z \in Sets : Side(z)' = Side(z)
      BY DEF Side, HasDown, Granted, Revoking
<1>2. \A z \in Sets : cs'[z] = IF z = s THEN d ELSE cs[z] BY DEF TypeOK
<1>3. \A z \in Sets : Agrees(cs'[z], Side(z)) BY <1>2 DEF Agreeing
<1>. QED BY <1>1, <1>3 DEF Agreeing

LEMMA SideType ==
    ASSUME TypeOK, NEW s \in Sets
    PROVE  Side(s).ok \in SUBSET Nat /\ Side(s).m \in ManagerRec
BY DEF TypeOK, Side, Granted

(* A set that has not been made has never come back to life.               *)
Fresh == \A s \in Sets : cs[s].life = "none" => ~cs[s].revived

LEMMA AppAgrees ==
    ASSUME Inv, Agreeing, Fresh, NEW s \in Sets, App(s)
    PROVE  Agreeing' /\ Fresh'
<1>. DEFINE c == cs[s]
            e == Side(s)
<1>1. c \in ResourceSetRec /\ QueueInv(c) /\ Sound(c, 0) /\ TypeOK /\ Agrees(c, e)
      BY DEF Inv, TypeOK, Queues, Sounds, Agreeing
<1>2. c.fault = "none"
      BY DEF App, Create, Destroy, Acquire, Release, ConfigureResources,
             Configure, CallAPI, Running
<1>3. c.held => c.life = "live" BY <1>1, <1>2 DEF Sound, Kept
<1>4. e.ok \in SUBSET Nat BY <1>1, SideType
<1>5. ASSUME NEW d, cs' = [cs EXCEPT ![s] = d], UNCHANGED <<inq, up, ms>>,
             Agrees(d, e)
      PROVE  Agreeing'
      BY <1>1, <1>5, OneSetAgrees
<1>6. Fresh'
  <2>1. StirsAll BY AppStirs
  <2>2. \A z \in Sets : z # s => cs'[z] = cs[z]
        BY <1>1 DEF App, Create, Destroy, Acquire, Release, ConfigureResources,
                    Configure, CallAPI, TypeOK
  <2>3. cs'[s].life # "none"
    <3>1. CASE Create(s)
      <4>1. PICK conn \in ConnChoice, f \in FlagChoice :
               CallAPI(s, resource_set_create(conn, f.mandatory, f.optional))
            BY <3>1 DEF Create
      <4>2. conn \in BOOLEAN /\ f.mandatory \in SUBSET Resource
            /\ f.optional \in SUBSET Resource
            BY ChoiceAssumption
      <4>3. resource_set_create(conn, f.mandatory, f.optional).life = "live"
            BY <4>2, CreateStirs
      <4>. QED BY <1>1, <4>1, <4>3 DEF CallAPI, TypeOK
    <3>2. CASE ~Create(s)
      <4>1. c.life = "live"
            BY <1>3, <3>2 DEF App, Destroy, Acquire, Release,
                              ConfigureResources, Configure
      <4>. QED BY <2>1, <4>1 DEF StirsAll, Stirs
    <3>. QED BY <3>1, <3>2
  <2>. QED BY <2>2, <2>3 DEF Fresh
<1>7. ASSUME NEW f \in FlagChoice
      PROVE  f.mandatory \in SUBSET Resource /\ f.optional \in SUBSET Resource
      BY ChoiceAssumption
<1>8. c.life = "none" => ~c.revived BY DEF Fresh
<1>. SUFFICES Agreeing' BY <1>6
<1>. HIDE DEF c, e
<1>9. CASE Create(s)
  <2>1. PICK conn \in ConnChoice, f \in FlagChoice :
           CallAPI(s, resource_set_create(conn, f.mandatory, f.optional))
        BY <1>9 DEF Create
  <2>2. c.life = "none" BY <1>9 DEF Create, c
  <2>3. Agrees(resource_set_create(conn, f.mandatory, f.optional), e)
        BY <1>1, <1>2, <1>4, <1>7, <1>8, <2>2, ChoiceAssumption, CreateAgrees
  <2>. QED BY <1>5, <2>1, <2>3 DEF CallAPI
<1>10. CASE Destroy(s)
  <2>1. c.life = "live" /\ CallAPI(s, resource_set_destroy(c))
        BY <1>3, <1>10 DEF Destroy, c
  <2>. QED BY <1>1, <1>2, <1>4, <1>5, <2>1, OperationsAgree
     DEF CallAPI
<1>11. CASE Acquire(s)
  <2>1. c.life = "live" /\ CallAPI(s, resource_set_acquire(c))
        BY <1>3, <1>11 DEF Acquire, c
  <2>. QED BY <1>1, <1>2, <1>4, <1>5, <2>1, OperationsAgree
     DEF CallAPI
<1>12. CASE Release(s)
  <2>1. c.life = "live" /\ CallAPI(s, resource_set_release(c))
        BY <1>3, <1>12 DEF Release, c
  <2>. QED BY <1>1, <1>2, <1>4, <1>5, <2>1, OperationsAgree
     DEF CallAPI
<1>13. CASE ConfigureResources(s)
  <2>1. PICK f \in FlagChoice :
           CallAPI(s, resource_set_configure_resources(c, f.mandatory, f.optional))
        BY <1>13 DEF ConfigureResources, c
  <2>2. c.life = "live" BY <1>3, <1>13 DEF ConfigureResources, c
  <2>. QED BY <1>1, <1>2, <1>4, <1>5, <1>7, <2>1, <2>2, ConfigureResourcesAgrees
     DEF CallAPI
<1>14. CASE Configure(s)
  <2>1. PICK call \in ConfigChoice : CallAPI(s, configure(c, call.kind, call.given))
        BY <1>14 DEF Configure, c
  <2>2. c.life = "live" BY <1>3, <1>14 DEF Configure, c
  <2>3. call.kind \in Kind /\ call.given \in ConfigValue BY ChoiceAssumption
  <2>. QED BY <1>1, <1>2, <1>4, <1>5, <2>1, <2>2, <2>3, ConfigureAgrees
     DEF CallAPI
<1>. QED BY <1>9, <1>10, <1>11, <1>12, <1>13, <1>14 DEF App

LEMMA TimeoutAgrees ==
    ASSUME Inv, Agreeing, Fresh, NEW s \in Sets, Timeout(s)
    PROVE  Agreeing' /\ Fresh'
<1>1. /\ cs[s] \in ResourceSetRec /\ QueueInv(cs[s]) /\ Sound(cs[s], 0)
      /\ cs[s].fault = "none" /\ TypeOK /\ Agrees(cs[s], Side(s))
      BY DEF Inv, TypeOK, Queues, Sounds, Timeout, Running, Agreeing
<1>2. PICK reply \in cs[s].replies :
         cs' = [cs EXCEPT ![s] = status_method(@, reply, TRUE)]
      BY DEF Timeout
<1>. DEFINE d == status_method(cs[s], reply, TRUE)
<1>3. Side(s).m \in ManagerRec BY <1>1, SideType
<1>4. Agrees(d, Side(s)) BY <1>1, <1>3, StatusMethodAgrees
<1>5. cs' = [cs EXCEPT ![s] = d] BY <1>2
<1>6. Agreeing'
  <2>. HIDE DEF d
  <2>. QED BY <1>1, <1>4, <1>5, OneSetAgrees DEF Timeout
<1>7. Fresh'
  <2>1. StirsAll BY TimeoutStirs
  <2>2. cs[s].reqlist # <<>> BY <1>1 DEF QueueInv, Settled
  <2>3. cs[s].life = "live" BY <1>1, <2>2 DEF Sound
  <2>4. cs'[s].life # "none" BY <2>1, <2>3 DEF StirsAll, Stirs
  <2>5. \A z \in Sets : z # s => cs'[z] = cs[z] BY <1>1, <1>5 DEF TypeOK
  <2>. QED BY <2>4, <2>5 DEF Fresh
<1>. QED BY <1>6, <1>7

(* A message is dispatched to one set, and the others are not concerned.   *)
LEMMA DispatchAgrees ==
    ASSUME Inv, Agreeing, NEW kinds, Dispatch(kinds), Head(inq).kind # "down",
           NEW s \in Sets, NEW d, Agrees(d, Side(s)'),
           Head(inq).kind = "revoke" => Head(inq).set = s,
           cs' = [cs EXCEPT ![s] = d]
    PROVE  Agreeing'
<1>1. TypeOK /\ \A z \in Sets : cs'[z] = IF z = s THEN d ELSE cs[z]
      BY DEF Inv, TypeOK
<1>2. ASSUME NEW z \in Sets, z # s PROVE Agrees(cs[z], Side(z)')
  <2>. DEFINE c == cs[z]
              e == Side(z)
              f == Side(z)'
  <2>1. Later(e, f) /\ (e.revoked => f.revoked) BY <1>1, <1>2, DispatchLater
  <2>2. Agrees(c, e) BY DEF Agreeing
  <2>. HIDE DEF c, e, f
  <2>3. Agrees(c, f) BY <2>1, <2>2, AgreesLater
  <2>. QED BY <2>3 DEF c, f
<1>3. \A z \in Sets : Agrees(cs'[z], Side(z)') BY <1>1, <1>2
<1>. QED BY <1>3 DEF Agreeing

LEMMA AnswerAgrees ==
    ASSUME Inv, Agreeing, DispatchAnswer
    PROVE  Agreeing'
<1>. DEFINE m == Head(inq)
<1>1. /\ TypeOK /\ Running /\ Dispatch({"answer"}) /\ m.kind = "answer"
      /\ inq # <<>> /\ inq \in Seq(Answer \cup Notice \cup Owner)
      BY DEF Inv, TypeOK, DispatchAnswer, Dispatch
<1>2. PICK s \in Sets : m.set = s /\ m.err \in BOOLEAN /\ m.reply \in Reply
  <2>1. m \in Answer BY <1>1, InqType
  <2>. QED BY <2>1 DEF Answer
<1>. DEFINE c == cs[s]
            e == Side(s)
            f == Side(s)'
            d == IF m.reply \in c.replies THEN status_method(c, m.reply, m.err) ELSE c
<1>3. /\ c \in ResourceSetRec /\ QueueInv(c) /\ Sound(c, 0) /\ c.fault = "none"
      /\ Agrees(c, e)
      BY <1>1, <1>2 DEF Inv, TypeOK, Queues, Sounds, Agreeing, Running
<1>4. Later(e, f) /\ (e.revoked => f.revoked) /\ e.m \in ManagerRec
      BY <1>1, <1>2, DispatchLater
<1>5. ~m.err => m.reply.reqno \in e.ok
  <2>1. m.reply.reqno \in Nat BY <1>2 DEF Reply
  <2>2. ~m.err => m.reply.reqno \in Granted(inq, s)
        BY <1>1, <1>2, <2>1, TailHas
  <2>. QED BY <2>2 DEF Side
<1>6. cs' = [cs EXCEPT ![s] = d]
  <2>1. cs' = IF m.reply \in c.replies
              THEN [cs EXCEPT ![s] = status_method(c, m.reply, m.err)] ELSE cs
        BY <1>2 DEF DispatchAnswer
  <2>2. cs = [cs EXCEPT ![s] = c] BY <1>1 DEF TypeOK
  <2>. QED BY <2>1, <2>2
<1>7. Agrees(d, e)
  <2>. HIDE DEF m, c, e
  <2>1. CASE m.reply \in c.replies
        BY <1>2, <1>3, <1>4, <1>5, <2>1, StatusMethodAgrees
  <2>2. CASE m.reply \notin c.replies BY <1>3, <2>2
  <2>. QED BY <2>1, <2>2
<1>8. Agrees(d, f)
  <2>. HIDE DEF m, c, d, e, f
  <2>. QED BY <1>4, <1>7, AgreesLater
<1>9. m.kind # "revoke" /\ m.kind # "down" BY <1>1
<1>. HIDE DEF d
<1>. QED BY <1>1, <1>2, <1>6, <1>8, <1>9, DispatchAgrees

LEMMA NoticeAgrees ==
    ASSUME Inv, Agreeing, Lacks(inq, {"unregister"}), DispatchNotice
    PROVE  Agreeing'
<1>. DEFINE m == Head(inq)
<1>1. /\ TypeOK /\ Running /\ Dispatch(NoticeKind) /\ m.kind \in NoticeKind
      /\ inq # <<>> /\ inq \in Seq(Answer \cup Notice \cup Owner)
      BY DEF Inv, TypeOK, DispatchNotice, Dispatch
<1>2. PICK s \in Sets : m.set = s
  <2>1. m \in Notice BY <1>1, InqType
  <2>. QED BY <2>1 DEF Notice
<1>. DEFINE c == cs[s]
            e == Side(s)
            f == Side(s)'
            auto  == s \in AutoRelease
            after == CASE m.kind = "grant"   -> receive_grant_message(c, TRUE, auto)
                       [] m.kind = "revoke"  -> receive_grant_message(c, FALSE, auto)
                       [] m.kind = "release" -> receive_release_message(c)
                       [] m.kind = "unregister" -> disconnect_from_manager(c)
                       [] OTHER -> receive_advice_message(c)
            d == IF c.path /\ resset_find(c.rset) THEN after ELSE c
<1>3. /\ c \in ResourceSetRec /\ QueueInv(c) /\ Sound(c, 0) /\ c.fault = "none"
      /\ Agrees(c, e)
      BY <1>1, <1>2 DEF Inv, TypeOK, Queues, Sounds, Agreeing, Running
<1>4. m.kind # "unregister" /\ m.kind # "down"
  <2>1. m = inq[1] /\ 1 \in 1..Len(inq) BY <1>1
  <2>. QED BY <1>1, <2>1 DEF Lacks, NoticeKind
<1>5. /\ Later(e, f) /\ e.ok \in SUBSET Nat
      /\ m.kind # "revoke" => (e.revoked => f.revoked)
      BY <1>1, <1>2, <1>4, DispatchLater
<1>6. cs' = [cs EXCEPT ![s] = d]
  <2>1. cs' = IF c.path /\ resset_find(c.rset) THEN [cs EXCEPT ![s] = after] ELSE cs
        BY <1>2 DEF DispatchNotice
  <2>2. cs = [cs EXCEPT ![s] = c] BY <1>1 DEF TypeOK
  <2>. HIDE DEF after
  <2>. QED BY <2>1, <2>2
<1>7. e.auto = auto BY DEF Side
<1>8. Agrees(d, f)
  <2>. HIDE DEF m, c, e, f, auto
  <2>1. CASE ~(c.path /\ resset_find(c.rset))
        BY <1>3, <1>5, <2>1, UnreachedAgrees
  <2>2. CASE (c.path /\ resset_find(c.rset)) /\ m.kind = "revoke"
    <3>1. d = receive_grant_message(c, FALSE, e.auto) BY <1>7, <2>2
    <3>. HIDE DEF d
    <3>. QED BY <1>3, <1>5, <3>1, RevokeAgrees
  <2>3. CASE (c.path /\ resset_find(c.rset)) /\ m.kind # "revoke"
    <3>1. Agrees(d, e)
      <4>1. \/ d = receive_grant_message(c, TRUE, auto)
            \/ d = receive_release_message(c)
            \/ d = receive_advice_message(c)
            BY <1>4, <2>3
      <4>. HIDE DEF d
      <4>2. CASE c.life = "live"
        <5>1. receive_grant_message(c, TRUE, auto) = c
              /\ receive_advice_message(c) = c
              BY <4>2 DEF receive_grant_message, receive_advice_message
        <5>. QED BY <1>3, <1>5, <4>1, <4>2, <5>1, OperationsAgree
      <4>3. CASE c.life # "live"
        <5>1. c.life = "freed" BY <1>3, <2>3, <4>3 DEF Sound, ResourceSetRec
        <5>2. d.fault = "stale"
              BY <1>3, <4>1, <5>1
                 DEF receive_grant_message, receive_advice_message,
                     receive_release_message, ResourceSetRec
        <5>. QED BY <5>2 DEF Agrees
      <4>. QED BY <4>2, <4>3
    <3>. HIDE DEF d
    <3>. QED BY <1>5, <2>3, <3>1, AgreesLater
  <2>. QED BY <2>1, <2>2, <2>3
<1>. HIDE DEF d
<1>. QED BY <1>1, <1>2, <1>4, <1>6, <1>8, DispatchAgrees

LEMMA MainLoopAgrees ==
    ASSUME Inv, Agreeing, Lacks(inq, {"unregister"}), MainLoop
    PROVE  Agreeing'
<1>1. CASE DispatchAnswer BY <1>1, AnswerAgrees
<1>2. CASE DispatchNotice BY <1>2, NoticeAgrees
<1>3. ASSUME Running, NEW s \in Sets
      PROVE  /\ cs[s] \in ResourceSetRec /\ QueueInv(cs[s]) /\ Sound(cs[s], 0)
             /\ cs[s].fault = "none" /\ Agrees(cs[s], Side(s)) /\ TypeOK
      BY <1>3 DEF Inv, TypeOK, Queues, Sounds, Agreeing, Running
<1>4. CASE DispatchUp
  <2>1. ASSUME NEW s \in Sets PROVE Agrees(cs'[s], Side(s)')
    <3>. DEFINE c == cs[s]
                e == Side(s)
                f == Side(s)'
    <3>1. /\ c \in ResourceSetRec /\ QueueInv(c) /\ Sound(c, 0)
          /\ c.fault = "none" /\ Agrees(c, e) /\ TypeOK
          BY <1>3, <1>4 DEF DispatchUp, Dispatch
    <3>2. /\ Later(e, f) /\ e.ok \in SUBSET Nat
          /\ e.revoked => f.revoked
          BY <1>4, <3>1, DispatchLater DEF DispatchUp, Dispatch
    <3>3. cs'[s] = manager_is_up(c) BY <1>4 DEF DispatchUp
    <3>. HIDE DEF c, e, f
    <3>4. Agrees(manager_is_up(c), e) BY <3>1, <3>2, ManagerIsUpAgrees
    <3>5. Agrees(manager_is_up(c), f) BY <3>2, <3>4, AgreesLater
    <3>. QED BY <3>3, <3>5 DEF f
  <2>. QED BY <2>1 DEF Agreeing
<1>5. CASE DispatchDown
  <2>1. ASSUME NEW s \in Sets PROVE Agrees(cs'[s], Side(s)')
    <3>. DEFINE c == cs[s]
                e == Side(s)
                f == Side(s)'
    <3>1. /\ c \in ResourceSetRec /\ QueueInv(c) /\ Sound(c, 0)
          /\ c.fault = "none" /\ Agrees(c, e) /\ TypeOK
          BY <1>3, <1>5 DEF DispatchDown, Dispatch
    <3>2. f.ok \subseteq e.ok
      <4>1. inq \in Seq(Answer \cup Notice \cup Owner) /\ inq # <<>>
            /\ inq' = Tail(inq)
            BY <1>5, <3>1 DEF TypeOK, DispatchDown, Dispatch
      <4>2. Granted(inq', s) \subseteq Granted(inq, s) BY <4>1, TailHas
      <4>. QED BY <4>2 DEF Side, Granted
    <3>3. cs'[s] = link_down(c) BY <1>5 DEF DispatchDown
    <3>. HIDE DEF c, e, f
    <3>. QED BY <3>1, <3>2, <3>3, LinkDownAgrees DEF f
  <2>. QED BY <2>1 DEF Agreeing
<1>. QED BY <1>1, <1>2, <1>4, <1>5 DEF MainLoop
-----------------------------------------------------------------------------
(* Calls leave the wire, and answers are lost.                             *)
Wired(c, d) ==
    /\ Wishes(c, d) /\ d.life = c.life /\ d.client = c.client
    /\ d.reqlist = c.reqlist /\ d.reqno = c.reqno
    /\ d.rset = c.rset /\ d.path = c.path
    /\ d.revived = c.revived /\ d.fault = c.fault

LEMMA WiredNumbers ==
    ASSUME NEW c, NEW d, Wired(c, d), NEW n, Len(c.wire) \in Nat,
           TakenOff(d.wire, c.wire, n)
    PROVE  /\ \A i \in 1..Len(d.wire) :
                 n + i \in 1..Len(c.wire) /\ d.wire[i] = c.wire[n + i]
           /\ Plain(c.wire) => Plain(d.wire)
           /\ OneOfAKind(c) => OneOfAKind(d)
           /\ Doomed(d) = Doomed(c) /\ UnregisterOut(d) = UnregisterOut(c)
<1>1. \A i \in 1..Len(d.wire) :
         n + i \in 1..Len(c.wire) /\ d.wire[i] = c.wire[n + i]
      BY DEF TakenOff
<1>. QED BY <1>1 DEF Plain, OneOfAKind, Doomed, UnregisterOut, Wired, Wishes

LEMMA WiredRegisters ==
    ASSUME NEW c, NEW d, Wired(c, d), NEW n, Len(c.wire) \in Nat,
           TakenOff(d.wire, c.wire, n), NEW e, NEW f, Registering(c, e),
           f.auto = e.auto,
           c.reqlist[1].reqno \in f.ok =>
              /\ d.wire = <<>>
              /\ \/ f.gone
                 \/ /\ f.up /\ f.m.reg /\ ~f.m.acquire
                    /\ Carried(c, f.m.resources)
    PROVE  Registering(d, f)
<1>1. /\ d.reqlist = c.reqlist /\ d.acquire = c.acquire
      /\ \A kind : configured(d, kind) = configured(c, kind)
      /\ \A resources : Carried(d, resources) = Carried(c, resources)
      BY DEF Wired, Wishes, configured, Carried
<1>2. ASSUME NEW i \in 1..Len(d.wire), d.wire[i].reqno = c.reqlist[1].reqno
      PROVE  /\ i = Len(d.wire) /\ d.wire[i].msgtyp = "register"
             /\ Carried(c, d.wire[i].resources)
  <2>1. n + i \in 1..Len(c.wire) /\ d.wire[i] = c.wire[n + i]
        BY WiredNumbers
  <2>2. n + i = Len(c.wire) BY <1>2, <2>1 DEF Registering
  <2>3. i = Len(d.wire) BY <2>2 DEF TakenOff
  <2>. QED BY <1>2, <2>1, <2>3 DEF Registering
<1>. QED BY <1>1, <1>2 DEF Registering

(* The client has nothing to expect of the manager that the calls were for. *)
LEMMA LossAgrees ==
    ASSUME NEW c, NEW d, Wired(c, d), NEW n, Len(c.wire) \in Nat,
           TakenOff(d.wire, c.wire, n), d.wire \in Seq(Call), NEW e, NEW f,
           Agrees(c, e), f.auto = e.auto, f.ok \subseteq e.ok,
           c.life = "live" /\ c.fault = "none" =>
              /\ c.client = "ready" /\ Serving(c, e) => f.gone
              /\ c.client = "connecting" /\ Registering(c, e) =>
                    f.gone \/ c.reqlist[1].reqno \notin e.ok
    PROVE  Agrees(d, f)
<1>. SUFFICES ASSUME d.life # "freed", ~d.revived, d.fault = "none"
              PROVE  Agrees(d, f)
     BY DEF Agrees
<1>1. /\ OneOfAKind(c) /\ Numbered(c, e) /\ (c.life = "live" => Follows(c, e))
      /\ c.fault = "none" /\ d.client = c.client /\ d.reqlist = c.reqlist
      /\ d.life = c.life /\ d.reqno = c.reqno
      BY DEF Agrees, Wired
<1>2. /\ OneOfAKind(d) /\ (Plain(c.wire) => Plain(d.wire))
      /\ Doomed(d) = Doomed(c) /\ UnregisterOut(d) = UnregisterOut(c)
      BY <1>1, WiredNumbers
<1>3. Numbered(d, f)
  <2>1. \A i \in 1..Len(d.wire) :
           n + i \in 1..Len(c.wire) /\ d.wire[i] = c.wire[n + i]
        BY WiredNumbers
  <2>. QED BY <1>1, <2>1 DEF Numbered
<1>4. ASSUME c.life = "live" PROVE Follows(d, f)
  <2>1. ASSUME c.client = "connecting", Registering(c, e) PROVE Registering(d, f)
    <3>1. c.reqlist[1].reqno \in f.ok => d.wire = <<>> /\ f.gone
      <4>. SUFFICES ASSUME c.reqlist[1].reqno \in f.ok
                    PROVE  d.wire = <<>> /\ f.gone
           OBVIOUS
      <4>1. c.reqlist[1].reqno \in e.ok OBVIOUS
      <4>2. c.wire = <<>> BY <2>1, <4>1 DEF Registering
      <4>3. d.wire = <<>>
        <5>1. Len(d.wire) = 0 BY <4>2 DEF TakenOff
        <5>. QED BY <5>1
      <4>. QED BY <1>1, <1>4, <2>1, <4>1, <4>3
    <3>. QED BY <2>1, <3>1, WiredRegisters
  <2>2. ASSUME c.client = "ready", Serving(c, e) PROVE Serving(d, f)
    <3>1. f.gone BY <1>1, <1>4, <2>2
    <3>. QED BY <1>1, <1>2, <2>2, <3>1 DEF Serving
  <2>. QED BY <1>1, <1>2, <1>4, <2>1, <2>2 DEF Follows
<1>. QED BY <1>1, <1>2, <1>3, <1>4 DEF Agrees

LEMMA NothingLeft ==
    ASSUME NEW S, NEW q \in Seq(S), Len(q) = 0 PROVE q = <<>>
OBVIOUS

(* The manager does what the oldest call asks for, and answers. *)
LEMMA HandledAgrees ==
    ASSUME NEW c \in ResourceSetRec, c.wire # <<>>, NEW d, Wired(c, d),
           d.wire = Tail(c.wire), NEW e, NEW f, e.m \in ManagerRec, Agrees(c, e),
           LET call == Head(c.wire)
           IN  /\ (call.msgtyp = "register") # e.m.reg
               /\ f.m = handled(e.m, call) /\ f.ok = e.ok \cup {call.reqno}
               /\ call.msgtyp \notin {"register", "unregister"} =>
                     (e.gone => f.gone),
           f.up, f.auto = e.auto, f.revoked = e.revoked
    PROVE  Agrees(d, f)
<1>. DEFINE call == Head(c.wire)
<1>. SUFFICES ASSUME d.life # "freed", ~d.revived, d.fault = "none"
              PROVE  Agrees(d, f)
     BY DEF Agrees
<1>1. /\ OneOfAKind(c) /\ Numbered(c, e) /\ (c.life = "live" => Follows(c, e))
      /\ d.client = c.client /\ d.reqlist = c.reqlist
      /\ d.life = c.life /\ d.reqno = c.reqno /\ d.acquire = c.acquire
      /\ Wishes(c, d)
      BY DEF Agrees, Wired, Wishes
<1>2. /\ c.wire \in Seq(Call) /\ Len(c.wire) \in Nat /\ call = c.wire[1]
      /\ 1 \in 1..Len(c.wire) /\ call \in Call
      BY DEF ResourceSetRec
<1>3. TakenOff(d.wire, c.wire, 1)
  <2>1. /\ Len(d.wire) = Len(c.wire) - 1
        /\ \A i \in 1..Len(d.wire) : d.wire[i] = c.wire[1 + i]
        BY <1>2
  <2>. QED BY <1>2, <2>1 DEF TakenOff
<1>4. /\ (call.msgtyp = "register") # e.m.reg
      /\ f.m = handled(e.m, call) /\ f.ok = e.ok \cup {call.reqno}
      /\ call.msgtyp \notin {"register", "unregister"} => (e.gone => f.gone)
      OBVIOUS
<1>. HIDE DEF call
<1>5. /\ OneOfAKind(d) /\ (Plain(c.wire) => Plain(d.wire))
      /\ Doomed(d) = Doomed(c) /\ UnregisterOut(d) = UnregisterOut(c)
      BY <1>1, <1>2, <1>3, WiredNumbers
<1>6. Numbered(d, f)
  <2>1. \A i \in 1..Len(d.wire) :
           1 + i \in 1..Len(c.wire) /\ d.wire[i] = c.wire[1 + i]
        BY <1>2, <1>3, WiredNumbers
  <2>. QED BY <1>1, <1>2, <1>4, <2>1 DEF Numbered
<1>7. ASSUME Registering(c, e) PROVE Registering(d, f)
  <2>. DEFINE rq == c.reqlist[1]
  <2>. SUFFICES ASSUME rq.reqno \in f.ok
                PROVE  /\ d.wire = <<>> /\ f.up /\ f.m.reg /\ ~f.m.acquire
                       /\ Carried(c, f.m.resources)
       BY <1>1, <1>2, <1>3, <1>7, WiredRegisters
  <2>1. rq.reqno \notin e.ok BY <1>7 DEF Registering
  <2>2. call.reqno = rq.reqno BY <1>4, <2>1
  <2>3. 1 = Len(c.wire) /\ call.msgtyp = "register" /\ Carried(c, call.resources)
        BY <1>2, <1>7, <2>2 DEF Registering
  <2>4. d.wire = <<>>
    <3>1. d.wire \in Seq(Call) /\ Len(d.wire) = Len(c.wire) - 1 BY <1>2
    <3>2. Len(d.wire) = 0 BY <1>2, <2>3, <3>1
    <3>. QED BY <3>1, <3>2, NothingLeft
  <2>5. f.m = [Unknown EXCEPT !.reg = TRUE, !.resources = call.resources]
        BY <1>4, <2>3 DEF handled
  <2>6. f.m.reg /\ ~f.m.acquire /\ f.m.resources = call.resources
        BY <2>5 DEF Unknown
  <2>. QED BY <2>3, <2>4, <2>6
<1>8. ASSUME Serving(c, e) PROVE Serving(d, f)
  <2>1. call.msgtyp \notin {"register", "unregister"}
        BY <1>2, <1>8 DEF Serving, Plain
  <2>2. e.m.reg BY <1>4, <2>1 DEF ManagerRec
  <2>3. call.msgtyp \in {"update", "audio", "video", "acquire", "release"}
        BY <1>2, <2>1 DEF Call, MsgType
  <2>4. f.m.reg BY <1>4, <2>2, <2>3 DEF handled, ManagerRec
  <2>5. \A a \in Attribute :
           f.m[a] = IF call.msgtyp \in About(a) THEN Says(call, a) ELSE e.m[a]
    <3>1. f.m["resources"] = IF call.msgtyp = "update" THEN call.resources
                                                       ELSE e.m["resources"]
          BY <1>4, <2>3 DEF handled, ManagerRec
    <3>2. f.m["audio"] = IF call.msgtyp = "audio" THEN call.value ELSE e.m["audio"]
          BY <1>4, <2>3 DEF handled, ManagerRec
    <3>3. f.m["video"] = IF call.msgtyp = "video" THEN call.value ELSE e.m["video"]
          BY <1>4, <2>3 DEF handled, ManagerRec
    <3>4. f.m["acquire"] = IF call.msgtyp \in {"acquire", "release"}
                           THEN call.msgtyp = "acquire" ELSE e.m["acquire"]
          BY <1>4, <2>3 DEF handled, ManagerRec
    <3>. QED BY <3>1, <3>2, <3>3, <3>4 DEF Attribute, About, Says
  <2>6. ASSUME Knows(c, e) PROVE Knows(d, f)
    <3>1. ASSUME NEW a \in Attribute, Concerns(d, a)
          PROVE  Told(d, f.m, a) \/ Excused(d, f, a)
      <4>1. Wants(d, a) = Wants(c, a) /\ Concerns(d, a) = Concerns(c, a)
            BY <1>1, SameWishes
      <4>2. Told(c, e.m, a) \/ Excused(c, e, a)
            BY <2>6, <3>1, <4>1 DEF Knows
      <4>3. Hears(e.m, c.wire, a, Wants(c, a)) => Hears(f.m, d.wire, a, Wants(d, a))
        <5>. SUFFICES ASSUME Hears(e.m, c.wire, a, Wants(c, a))
                      PROVE  Hears(f.m, d.wire, a, Wants(c, a))
             BY <4>1
        <5>1. f.m[a] = IF Head(c.wire).msgtyp \in About(a)
                       THEN Says(Head(c.wire), a) ELSE e.m[a]
              BY <2>5 DEF call
        <5>. QED BY <1>2, <5>1, HearsTail
      <4>4. Told(c, e.m, a) => Told(d, f.m, a) BY <1>1, <4>3 DEF Told
      <4>5. Excused(c, e, a) => Excused(d, f, a) BY <1>1 DEF Excused
      <4>. QED BY <4>2, <4>4, <4>5
    <3>. QED BY <2>4, <3>1 DEF Knows
  <2>. QED BY <1>1, <1>4, <1>5, <1>8, <2>1, <2>6 DEF Serving
<1>9. c.life = "live" => Follows(d, f)
      BY <1>1, <1>5, <1>7, <1>8 DEF Follows
<1>. QED BY <1>1, <1>5, <1>6, <1>9 DEF Agrees

(* News of a set are sent, an answer is lost or the manager starts.        *)
LEMMA NewsAgrees ==
    ASSUME NEW c, NEW d, Wired(c, d), d.wire = c.wire, Len(c.wire) \in Nat,
           NEW e, NEW f, Agrees(c, e), f.auto = e.auto, f.ok \subseteq e.ok,
           e.gone => f.gone, e.up => f.up, e.revoked => f.revoked,
           e.m.reg => f.m.reg, f.m.resources = e.m.resources,
           f.m.audio = e.m.audio, f.m.video = e.m.video,
           \/ f.m.acquire = e.m.acquire
           \/ e.m.acquire /\ e.auto /\ f.revoked
    PROVE  Agrees(d, f)
<1>. SUFFICES ASSUME d.life # "freed", ~d.revived, d.fault = "none"
              PROVE  Agrees(d, f)
     BY DEF Agrees
<1>1. /\ OneOfAKind(c) /\ Numbered(c, e) /\ (c.life = "live" => Follows(c, e))
      /\ d.client = c.client /\ d.reqlist = c.reqlist
      /\ d.life = c.life /\ d.reqno = c.reqno /\ d.acquire = c.acquire
      /\ Wishes(c, d)
      BY DEF Agrees, Wired, Wishes
<1>2. TakenOff(d.wire, c.wire, 0)
  <2>1. \A i \in 1..Len(d.wire) : 0 + i = i OBVIOUS
  <2>. QED BY <2>1 DEF TakenOff
<1>3. /\ OneOfAKind(d) /\ (Plain(c.wire) => Plain(d.wire))
      /\ Doomed(d) = Doomed(c) /\ UnregisterOut(d) = UnregisterOut(c)
      BY <1>1, <1>2, WiredNumbers
<1>4. Numbered(d, f) BY <1>1 DEF Numbered
<1>5. ASSUME Registering(c, e) PROVE Registering(d, f)
  <2>1. c.reqlist[1].reqno \in f.ok =>
           /\ d.wire = <<>>
           /\ \/ f.gone
              \/ /\ f.up /\ f.m.reg /\ ~f.m.acquire
                 /\ Carried(c, f.m.resources)
        BY <1>5 DEF Registering
  <2>. QED BY <1>2, <1>5, <2>1, WiredRegisters
<1>6. ASSUME Knows(c, e) PROVE Knows(d, f)
  <2>1. ASSUME NEW a \in Attribute, Concerns(d, a)
        PROVE  Told(d, f.m, a) \/ Excused(d, f, a)
    <3>1. Wants(d, a) = Wants(c, a) /\ Concerns(d, a) = Concerns(c, a)
          BY <1>1, SameWishes
    <3>2. Told(c, e.m, a) \/ Excused(c, e, a) BY <1>6, <2>1, <3>1 DEF Knows
    <3>3. Excused(c, e, a) => Excused(d, f, a) BY <1>1 DEF Excused
    <3>4. CASE f.m[a] = e.m[a]
      <4>1. Hears(e.m, c.wire, a, Wants(c, a)) => Hears(f.m, d.wire, a, Wants(d, a))
            BY <3>1, <3>4 DEF Hears
      <4>2. Told(c, e.m, a) => Told(d, f.m, a) BY <1>1, <4>1 DEF Told
      <4>. QED BY <3>2, <3>3, <4>2
    <3>5. CASE f.m[a] # e.m[a]
      <4>1. a = "acquire" BY <3>5 DEF Attribute
      <4>2. Excused(d, f, a) BY <3>5, <4>1 DEF Excused
      <4>. QED BY <4>2
    <3>. QED BY <3>4, <3>5
  <2>. QED BY <1>6, <2>1 DEF Knows
<1>7. Serving(c, e) => Serving(d, f) BY <1>1, <1>3, <1>6 DEF Serving
<1>8. c.life = "live" => Follows(d, f)
      BY <1>1, <1>3, <1>5, <1>7 DEF Follows
<1>. QED BY <1>1, <1>3, <1>4, <1>8 DEF Agrees

LEMMA AppendHas ==
    ASSUME NEW S, NEW q \in Seq(S), NEW m \in S, NEW s
    PROVE  LET p == Append(q, m)
           IN  /\ Granted(p, s) \subseteq Granted(q, s) \cup
                     (IF m.kind = "answer" /\ m.set = s /\ ~m.err
                      THEN {m.reply.reqno} ELSE {})
               /\ Granted(q, s) \subseteq Granted(p, s)
               /\ m.kind = "answer" /\ m.set = s /\ ~m.err /\ m.reply.reqno \in Nat
                     => m.reply.reqno \in Granted(p, s)
               /\ HasDown(p) = (HasDown(q) \/ m.kind = "down")
               /\ Revoking(p, s) = (Revoking(q, s) \/ (m.kind = "revoke" /\ m.set = s))
<1>. DEFINE n == Len(q)
            p == Append(q, m)
<1>1. /\ n \in Nat /\ Len(p) = n + 1 /\ p[n + 1] = m /\ n + 1 \in 1..Len(p)
      /\ \A i \in 1..n : p[i] = q[i] /\ i \in 1..Len(p)
      /\ \A i \in 1..Len(p) : i \in 1..n \/ i = n + 1
      OBVIOUS
<1>. HIDE DEF n, p
<1>2. /\ Granted(p, s) \subseteq Granted(q, s) \cup
            (IF m.kind = "answer" /\ m.set = s /\ ~m.err
             THEN {m.reply.reqno} ELSE {})
      BY <1>1 DEF Granted, n
<1>3. Granted(q, s) \subseteq Granted(p, s) BY <1>1 DEF Granted, n
<1>4. m.kind = "answer" /\ m.set = s /\ ~m.err /\ m.reply.reqno \in Nat
         => m.reply.reqno \in Granted(p, s)
      BY <1>1 DEF Granted
<1>5. HasDown(p) = (HasDown(q) \/ m.kind = "down") BY <1>1 DEF HasDown, n
<1>6. Revoking(p, s) = (Revoking(q, s) \/ (m.kind = "revoke" /\ m.set = s))
      BY <1>1 DEF Revoking, n
<1>. QED BY <1>2, <1>3, <1>4, <1>5, <1>6 DEF p
-----------------------------------------------------------------------------
(* The bus and the manager.                                                *)
LEMMA WiredSome ==
    ASSUME NEW c \in ResourceSetRec, NEW wire, NEW lost
    PROVE  LET d == [c EXCEPT !.wire = wire, !.lost = lost]
           IN  Wired(c, d) /\ d.wire = wire
BY DEF ResourceSetRec, Wired, Wishes

LEMMA SideNow ==
    ASSUME NEW s
    PROVE  Side(s)' = [m |-> ms'[s], up |-> up',
                       gone |-> ms'[s].passed \/ HasDown(inq'),
                       ok |-> Granted(inq', s), revoked |-> Revoking(inq', s),
                       auto |-> s \in AutoRelease]
BY DEF Side, HasDown, Granted, Revoking

WiredAll == \A z \in Sets : Wired(cs[z], cs'[z])

LEMMA WiredFresh == ASSUME Fresh, WiredAll PROVE Fresh'
BY DEF Fresh, WiredAll, Wired

(* A step of the bus or the manager about one set.                         *)
Concerning(s) ==
    /\ UNCHANGED up
    /\ \A z \in Sets : z # s => cs'[z] = cs[z] /\ ms'[z] = ms[z]
    /\ \/ inq' = inq
       \/ \E m \in Answer \cup Notice :
             inq' = Append(inq, m) /\ m.set = s /\ m.kind # "down"

LEMMA ConcerningAgrees ==
    ASSUME TypeOK, Agreeing, NEW s \in Sets, Concerning(s),
           Agrees(cs'[s], Side(s)')
    PROVE  Agreeing'
<1>1. inq \in Seq(Answer \cup Notice \cup Owner) BY DEF TypeOK
<1>2. ASSUME NEW z \in Sets, z # s PROVE Agrees(cs'[z], Side(z)')
  <2>. DEFINE c == cs[z]
              e == Side(z)
              f == Side(z)'
  <2>1. /\ Granted(inq', z) \subseteq Granted(inq, z)
        /\ HasDown(inq) => HasDown(inq')
        /\ Revoking(inq, z) => Revoking(inq', z)
    <3>1. CASE inq' = inq BY <3>1
    <3>2. CASE inq' # inq
      <4>1. PICK m \in Answer \cup Notice :
               inq' = Append(inq, m) /\ m.set = s /\ m.kind # "down"
            BY <3>2 DEF Concerning
      <4>2. m \in Answer \cup Notice \cup Owner OBVIOUS
      <4>3. /\ Granted(inq', z) \subseteq Granted(inq, z) \cup {}
            /\ HasDown(inq) => HasDown(inq')
            /\ Revoking(inq, z) => Revoking(inq', z)
            BY <1>1, <1>2, <4>1, <4>2, AppendHas
      <4>. QED BY <4>3
    <3>. QED BY <3>1, <3>2
  <2>2. cs'[z] = c /\ ms'[z] = ms[z] /\ up' = up BY <1>2 DEF Concerning
  <2>3. Wired(c, c) /\ Len(c.wire) \in Nat
    <3>1. c \in ResourceSetRec BY DEF TypeOK
    <3>. QED BY <3>1 DEF Wired, Wishes, ResourceSetRec
  <2>4. Agrees(c, e) BY DEF Agreeing
  <2>5. f = [m |-> ms[z], up |-> up, gone |-> ms[z].passed \/ HasDown(inq'),
             ok |-> Granted(inq', z), revoked |-> Revoking(inq', z),
             auto |-> z \in AutoRelease]
        BY <2>2, SideNow
  <2>6. /\ f.m = e.m /\ f.up = e.up /\ f.auto = e.auto
        /\ (e.gone => f.gone) /\ (e.revoked => f.revoked) /\ f.ok \subseteq e.ok
        BY <2>1, <2>5 DEF Side
  <2>. HIDE DEF c, e, f
  <2>7. Agrees(c, f) BY <2>3, <2>4, <2>6, NewsAgrees
  <2>. QED BY <2>2, <2>7 DEF f
<1>3. \A z \in Sets : Agrees(cs'[z], Side(z)') BY <1>2
<1>. QED BY <1>3 DEF Agreeing

LEMMA TakenWire ==
    ASSUME TypeOK, NEW s \in Sets, cs[s].wire # <<>>, NEW answers,
           TakeCall(s, answers)
    PROVE  /\ Wired(cs[s], cs'[s]) /\ cs'[s].wire = Tail(cs[s].wire)
           /\ TakenOff(cs'[s].wire, cs[s].wire, 1)
           /\ cs'[s].wire \in Seq(Call) /\ Head(cs[s].wire) \in Call
           /\ \A z \in Sets : z # s => cs'[z] = cs[z]
<1>. DEFINE c    == cs[s]
            lost == IF answers = <<>> THEN c.lost \cup {Head(c.wire).reqno}
                                      ELSE c.lost
            wire == Tail(c.wire)
<1>1. c \in ResourceSetRec BY DEF TypeOK
<1>2. cs' = [cs EXCEPT ![s] = [c EXCEPT !.wire = wire, !.lost = lost]]
      BY <1>1 DEF TakeCall, TypeOK, ResourceSetRec
<1>. HIDE DEF lost, wire
<1>3. cs'[s] = [c EXCEPT !.wire = wire, !.lost = lost] BY <1>2 DEF TypeOK
<1>4. \A z \in Sets : z # s => cs'[z] = cs[z] BY <1>2 DEF TypeOK
<1>. HIDE DEF c
<1>5. Wired(c, cs'[s]) /\ cs'[s].wire = wire
  <2>. DEFINE d == [c EXCEPT !.wire = wire, !.lost = lost]
  <2>1. Wired(c, d) /\ d.wire = wire BY <1>1, WiredSome
  <2>2. cs'[s] = d BY <1>3
  <2>. HIDE DEF d
  <2>. QED BY <2>1, <2>2
<1>6. c.wire \in Seq(Call) /\ c.wire # <<>> BY <1>1 DEF ResourceSetRec, c
<1>7. /\ wire \in Seq(Call) /\ Head(c.wire) \in Call
      /\ Len(c.wire) \in Nat /\ Len(c.wire) # 0 /\ Len(wire) = Len(c.wire) - 1
      /\ \A i \in 1..Len(wire) : wire[i] = c.wire[1 + i]
      BY <1>6 DEF wire
<1>8. TakenOff(wire, c.wire, 1) BY <1>7 DEF TakenOff
<1>. QED BY <1>4, <1>5, <1>7, <1>8 DEF c, wire

LEMMA WiredOne ==
    ASSUME TypeOK, NEW s \in Sets, Wired(cs[s], cs'[s]),
           \A z \in Sets : z # s => cs'[z] = cs[z]
    PROVE  WiredAll
<1>1. \A z \in Sets : Wired(cs[z], cs[z]) BY DEF Wired, Wishes
<1>. QED BY <1>1 DEF WiredAll

(* A call is lost, refused or finds nobody: the set is not one that the    *)
(* manager serves.                                                         *)
LEMMA UnheardAgrees ==
    ASSUME TypeOK, Agreeing, NEW s \in Sets, cs[s].wire # <<>>,
           NEW answers, TakeCall(s, answers), Concerning(s),
           Side(s)'.ok \subseteq Side(s).ok,
           Serving(cs[s], Side(s)) => Side(s)'.gone
    PROVE  Agreeing' /\ WiredAll
<1>. DEFINE c == cs[s]
            d == cs'[s]
            e == Side(s)
            f == Side(s)'
<1>1. /\ Wired(c, d) /\ d.wire = Tail(c.wire) /\ TakenOff(d.wire, c.wire, 1)
      /\ d.wire \in Seq(Call) /\ \A z \in Sets : z # s => cs'[z] = cs[z]
      BY TakenWire
<1>2. Len(c.wire) \in Nat
  <2>1. c \in ResourceSetRec BY DEF TypeOK
  <2>. QED BY <2>1 DEF ResourceSetRec
<1>3. Agrees(c, e) BY DEF Agreeing
<1>4. f.auto = e.auto BY SideNow DEF Side
<1>5. Registering(c, e) => c.reqlist[1].reqno \notin e.ok BY DEF Registering
<1>6. f.ok \subseteq e.ok /\ (Serving(c, e) => f.gone) OBVIOUS
<1>7. WiredAll BY <1>1, WiredOne
<1>8. Agrees(d, f)
  <2>. HIDE DEF c, d, e, f
  <2>. QED BY <1>1, <1>2, <1>3, <1>4, <1>5, <1>6, LossAgrees
<1>. QED BY <1>7, <1>8, ConcerningAgrees

(* One answer more. *)
LEMMA AnsweredSide ==
    ASSUME TypeOK, NEW s \in Sets, NEW call \in Call, NEW err \in BOOLEAN,
           inq' = inq \o <<answer(s, call, err)>>, UNCHANGED up
    PROVE  /\ err => Granted(inq', s) \subseteq Granted(inq, s)
           /\ ~err => Granted(inq', s) = Granted(inq, s) \cup {call.reqno}
           /\ HasDown(inq') = HasDown(inq)
           /\ Revoking(inq', s) = Revoking(inq, s)
           /\ \E m \in Answer \cup Notice :
                 inq' = Append(inq, m) /\ m.set = s /\ m.kind # "down"
<1>. DEFINE Message == Answer \cup Notice \cup Owner
            m == answer(s, call, err)
<1>1. inq \in Seq(Message) BY DEF TypeOK
<1>2. /\ m \in Answer /\ m.kind = "answer" /\ m.set = s /\ m.err = err
      /\ m.reply.reqno = call.reqno /\ call.reqno \in Nat
      BY DEF answer, Answer, Reply, Call
<1>3. m \in Message BY <1>2
<1>. HIDE DEF Message, m
<1>4. inq' = Append(inq, m) BY <1>1, <1>3 DEF m
<1>5. /\ Granted(inq', s) \subseteq Granted(inq, s) \cup
            (IF m.kind = "answer" /\ m.set = s /\ ~m.err
             THEN {m.reply.reqno} ELSE {})
      /\ Granted(inq, s) \subseteq Granted(inq', s)
      /\ m.kind = "answer" /\ m.set = s /\ ~m.err /\ m.reply.reqno \in Nat
            => m.reply.reqno \in Granted(inq', s)
      /\ HasDown(inq') = (HasDown(inq) \/ m.kind = "down")
      /\ Revoking(inq', s) = (Revoking(inq, s) \/ (m.kind = "revoke" /\ m.set = s))
  <2>. DEFINE p == Append(inq, m)
  <2>1. /\ Granted(p, s) \subseteq Granted(inq, s) \cup
              (IF m.kind = "answer" /\ m.set = s /\ ~m.err
               THEN {m.reply.reqno} ELSE {})
        /\ Granted(inq, s) \subseteq Granted(p, s)
        /\ m.kind = "answer" /\ m.set = s /\ ~m.err /\ m.reply.reqno \in Nat
              => m.reply.reqno \in Granted(p, s)
        /\ HasDown(p) = (HasDown(inq) \/ m.kind = "down")
        /\ Revoking(p, s) = (Revoking(inq, s) \/ (m.kind = "revoke" /\ m.set = s))
        BY <1>1, <1>3, AppendHas
  <2>2. inq' = p BY <1>4
  <2>. HIDE DEF p
  <2>. QED BY <2>1, <2>2
<1>6. HasDown(inq') = HasDown(inq) /\ Revoking(inq', s) = Revoking(inq, s)
      BY <1>2, <1>5 DEF HasDown, Revoking
<1>7. err => Granted(inq', s) \subseteq Granted(inq, s) BY <1>2, <1>5
<1>8. ~err => Granted(inq', s) = Granted(inq, s) \cup {call.reqno}
      BY <1>2, <1>5
<1>. QED BY <1>2, <1>4, <1>6, <1>7, <1>8

LEMMA BounceAgrees ==
    ASSUME TypeOK, Agreeing, NEW s \in Sets, Bounce(s)
    PROVE  Agreeing' /\ WiredAll
<1>. DEFINE call == Head(cs[s].wire)
<1>1. /\ ~up /\ cs[s].wire # <<>> /\ TakeCall(s, <<answer(s, call, TRUE)>>)
      /\ UNCHANGED up /\ UNCHANGED ms
      BY DEF Bounce
<1>2. call \in Call /\ (\A z \in Sets : z # s => cs'[z] = cs[z])
      BY <1>1, TakenWire
<1>. HIDE DEF call
<1>3. inq' = inq \o <<answer(s, call, TRUE)>> BY <1>1 DEF TakeCall
<1>4. /\ Granted(inq', s) \subseteq Granted(inq, s)
      /\ HasDown(inq') = HasDown(inq)
      /\ \E m \in Answer \cup Notice :
            inq' = Append(inq, m) /\ m.set = s /\ m.kind # "down"
      BY <1>1, <1>2, <1>3, AnsweredSide
<1>5. Concerning(s) BY <1>1, <1>2, <1>4 DEF Concerning
<1>6. Side(s)'.ok \subseteq Side(s).ok BY <1>4, SideNow DEF Side
<1>7. Side(s)'.gone = Side(s).gone BY <1>1, <1>4, SideNow DEF Side
<1>8. Serving(cs[s], Side(s)) => Side(s).gone
      BY <1>1 DEF Serving, Knows, Side
<1>. QED BY <1>1, <1>5, <1>6, <1>7, <1>8, UnheardAgrees

LEMMA NoReplyAgrees ==
    ASSUME TypeOK, Agreeing, NEW s \in Sets, NoReply(s)
    PROVE  Agreeing' /\ WiredAll
<1>1. PICK reply \in cs[s].replies :
         /\ inq' = Append(inq, [kind |-> "answer", set |-> s, reply |-> reply,
                                err |-> TRUE])
         /\ cs' = [cs EXCEPT ![s].lost = @ \ {reply.reqno}]
      BY DEF NoReply
<1>. DEFINE m == [kind |-> "answer", set |-> s, reply |-> reply, err |-> TRUE]
            c == cs[s]
            wire == c.wire
            lost == c.lost \ {reply.reqno}
            x == [c EXCEPT !.wire = wire, !.lost = lost]
<1>2. c \in ResourceSetRec /\ UNCHANGED up /\ UNCHANGED ms
      BY DEF TypeOK, NoReply
<1>3. m \in Answer /\ m.kind = "answer" /\ m.err /\ m.set = s
  <2>1. reply \in Reply BY <1>2 DEF ResourceSetRec
  <2>. QED BY <2>1 DEF Answer
<1>4. cs'[s] = x /\ \A z \in Sets : z # s => cs'[z] = cs[z]
  <2>1. [c EXCEPT !.lost = lost] = x BY <1>2 DEF ResourceSetRec
  <2>2. cs' = [cs EXCEPT ![s] = [c EXCEPT !.lost = lost]] BY <1>1
  <2>. HIDE DEF x, lost
  <2>. QED BY <2>1, <2>2 DEF TypeOK
<1>5. Wired(c, x) /\ x.wire = wire
  <2>. HIDE DEF c, wire, lost
  <2>. QED BY <1>2, WiredSome
<1>6. inq' = Append(inq, m) BY <1>1
<1>. HIDE DEF m, x, lost
<1>7. Concerning(s) BY <1>2, <1>3, <1>4, <1>6 DEF Concerning
<1>8. /\ Granted(inq', s) \subseteq Granted(inq, s)
      /\ HasDown(inq) => HasDown(inq')
      /\ Revoking(inq, s) => Revoking(inq', s)
  <2>1. inq \in Seq(Answer \cup Notice \cup Owner) BY DEF TypeOK
  <2>2. m \in Answer \cup Notice \cup Owner BY <1>3
  <2>3. /\ Granted(inq', s) \subseteq Granted(inq, s) \cup
              (IF m.kind = "answer" /\ m.set = s /\ ~m.err
               THEN {m.reply.reqno} ELSE {})
        /\ HasDown(inq') = (HasDown(inq) \/ m.kind = "down")
        /\ Revoking(inq', s) = (Revoking(inq, s) \/ (m.kind = "revoke" /\ m.set = s))
        BY <1>6, <2>1, <2>2, AppendHas
  <2>. QED BY <1>3, <2>3
<1>9. Len(c.wire) \in Nat BY <1>2 DEF ResourceSetRec
<1>10. Agrees(c, Side(s)) BY DEF Agreeing
<1>. DEFINE e == Side(s)
            f == Side(s)'
<1>11. /\ f.m = e.m /\ f.up = e.up /\ f.auto = e.auto
       /\ (e.gone => f.gone) /\ (e.revoked => f.revoked) /\ f.ok \subseteq e.ok
       BY <1>2, <1>8, SideNow DEF Side
<1>12. Agrees(x, f)
  <2>. HIDE DEF e, f, c
  <2>. QED BY <1>5, <1>9, <1>10, <1>11, NewsAgrees DEF e
<1>13. Agreeing' BY <1>4, <1>7, <1>12, ConcerningAgrees
<1>14. WiredAll BY <1>4, <1>5, WiredOne
<1>. QED BY <1>13, <1>14

LEMMA ManagerHandlesAgrees ==
    ASSUME TypeOK, Agreeing, Refused \subseteq {"register", "unregister"},
           NEW s \in Sets, ManagerHandles(s)
    PROVE  Agreeing' /\ WiredAll
<1>. DEFINE c    == cs[s]
            e    == Side(s)
            f    == Side(s)'
            call == Head(c.wire)
<1>1. up /\ c.wire # <<>> /\ UNCHANGED up BY DEF ManagerHandles
<1>2. c \in ResourceSetRec /\ ms \in [Sets -> ManagerRec] BY DEF TypeOK
<1>3. c.wire \in Seq(Call) BY <1>2 DEF ResourceSetRec
<1>4. call = c.wire[1] /\ 1 \in 1..Len(c.wire) /\ call \in Call BY <1>1, <1>3
<1>5. e.m = ms[s] /\ e.m \in ManagerRec BY <1>2 DEF Side
<1>6. Serving(c, e) => call.msgtyp \notin {"register", "unregister"}
      BY <1>4 DEF Serving, Plain
<1>7. CASE (call.msgtyp = "register") = ms[s].reg
  <2>1. TakeCall(s, <<>>) /\ UNCHANGED ms BY <1>7 DEF ManagerHandles
  <2>2. inq' = inq
    <3>1. inq \in Seq(Answer \cup Notice \cup Owner) BY DEF TypeOK
    <3>. QED BY <2>1, <3>1 DEF TakeCall
  <2>3. \A z \in Sets : z # s => cs'[z] = cs[z] BY <1>1, <2>1, TakenWire
  <2>4. Concerning(s) BY <1>1, <2>1, <2>2, <2>3 DEF Concerning
  <2>5. f.ok \subseteq e.ok /\ f.gone = e.gone
        BY <2>1, <2>2, SideNow DEF Side
  <2>6. Serving(c, e) => e.gone
    <3>1. Serving(c, e) => ~e.m.reg BY <1>2, <1>5, <1>6, <1>7 DEF ManagerRec
    <3>. QED BY <3>1 DEF Serving, Knows
  <2>. QED BY <1>1, <2>1, <2>4, <2>5, <2>6, UnheardAgrees
<1>8. CASE (call.msgtyp = "register") # ms[s].reg
  <2>1. PICK err \in {FALSE} \cup {call.msgtyp \in Refused} :
           /\ TakeCall(s, <<answer(s, call, err)>>)
           /\ ms' = [ms EXCEPT ![s] = IF err /\ call.msgtyp # "unregister"
                                      THEN @ ELSE handled(@, call)]
        BY <1>8 DEF ManagerHandles
  <2>2. err \in BOOLEAN /\ (err => call.msgtyp \in {"register", "unregister"})
    <3>1. (call.msgtyp \in Refused) \in BOOLEAN OBVIOUS
    <3>2. call.msgtyp \in Refused => call.msgtyp \in {"register", "unregister"}
          OBVIOUS
    <3>. HIDE DEF call
    <3>. QED BY <3>1, <3>2
  <2>. HIDE DEF call
  <2>3. inq' = inq \o <<answer(s, call, err)>> BY <2>1 DEF TakeCall
  <2>4. /\ err => Granted(inq', s) \subseteq Granted(inq, s)
        /\ ~err => Granted(inq', s) = Granted(inq, s) \cup {call.reqno}
        /\ HasDown(inq') = HasDown(inq)
        /\ Revoking(inq', s) = Revoking(inq, s)
        /\ \E m \in Answer \cup Notice :
              inq' = Append(inq, m) /\ m.set = s /\ m.kind # "down"
        BY <1>1, <1>4, <2>2, <2>3, AnsweredSide
  <2>5. /\ Wired(c, cs'[s]) /\ cs'[s].wire = Tail(c.wire)
        /\ \A z \in Sets : z # s => cs'[z] = cs[z]
        BY <1>1, <2>1, TakenWire
  <2>6. \A z \in Sets : z # s => ms'[z] = ms[z] BY <1>2, <2>1
  <2>7. Concerning(s) BY <1>1, <2>4, <2>5, <2>6 DEF Concerning
  <2>8. CASE err
    <3>1. f.ok \subseteq e.ok BY <2>4, <2>8, SideNow DEF Side
    <3>2. ~Serving(c, e) BY <1>6, <2>2, <2>8
    <3>. QED BY <1>1, <2>1, <2>7, <3>1, <3>2, UnheardAgrees
  <2>9. CASE ~err
    <3>1. ms'[s] = handled(ms[s], call) BY <1>2, <2>1, <2>9
    <3>2. /\ f.m = handled(e.m, call) /\ f.ok = e.ok \cup {call.reqno}
          /\ f.up /\ f.auto = e.auto /\ f.revoked = e.revoked
          BY <1>1, <2>4, <2>9, <3>1, SideNow DEF Side
    <3>3. call.msgtyp \notin {"register", "unregister"} => (e.gone => f.gone)
      <4>. SUFFICES ASSUME call.msgtyp \notin {"register", "unregister"}
                    PROVE  e.gone => f.gone
           OBVIOUS
      <4>1. handled(ms[s], call).passed = ms[s].passed
            BY <1>2 DEF handled, ManagerRec
      <4>2. f.gone = (ms'[s].passed \/ HasDown(inq')) BY SideNow
      <4>3. e.gone = (ms[s].passed \/ HasDown(inq)) BY DEF Side
      <4>. QED BY <2>4, <3>1, <4>1, <4>2, <4>3
    <3>4. Agrees(c, e) BY DEF Agreeing
    <3>5. (call.msgtyp = "register") # e.m.reg BY <1>5, <1>8
    <3>. HIDE DEF c, e, f
    <3>6. Agrees(cs'[s], f)
      <4>. DEFINE d == cs'[s]
      <4>1. Wired(c, d) /\ d.wire = Tail(c.wire) BY <2>5
      <4>2. LET first == Head(c.wire)
            IN  /\ (first.msgtyp = "register") # e.m.reg
                /\ f.m = handled(e.m, first) /\ f.ok = e.ok \cup {first.reqno}
                /\ first.msgtyp \notin {"register", "unregister"} =>
                      (e.gone => f.gone)
            BY <3>2, <3>3, <3>5 DEF call
      <4>. HIDE DEF d
      <4>3. Agrees(d, f) BY <1>1, <1>2, <1>5, <3>2, <3>4, <4>1, <4>2, HandledAgrees
      <4>. QED BY <4>3 DEF d
    <3>7. Agreeing' BY <2>7, <3>6, ConcerningAgrees DEF f
    <3>8. WiredAll BY <2>5, WiredOne DEF c
    <3>. QED BY <3>7, <3>8
  <2>. QED BY <2>8, <2>9
<1>. QED BY <1>7, <1>8

LEMMA ManagerNotifiesAgrees ==
    ASSUME TypeOK, Agreeing, "unregister" \notin Notices,
           NEW s \in Sets, ManagerNotifies(s)
    PROVE  Agreeing' /\ WiredAll
<1>. DEFINE c == cs[s]
            e == Side(s)
            f == Side(s)'
<1>1. PICK kind \in Notices :
         /\ kind \in {"grant", "revoke", "release"} => ms[s].acquire
         /\ inq' = Append(inq, [kind |-> kind, set |-> s])
         /\ ms' = [ms EXCEPT ![s] =
                     CASE kind = "revoke" /\ s \in AutoRelease ->
                              [@ EXCEPT !.acquire = FALSE]
                       [] kind = "unregister" -> Unknown
                       [] OTHER -> @]
      BY DEF ManagerNotifies
<1>. DEFINE m == [kind |-> kind, set |-> s]
<1>2. kind \in NoticeKind /\ kind # "unregister" /\ kind # "down"
  <2>1. kind \in NoticeKind /\ kind # "unregister" BY ChoiceAssumption
  <2>. QED BY <2>1 DEF NoticeKind
<1>3. m \in Notice /\ m.kind = kind /\ m.set = s BY <1>2 DEF Notice
<1>4. inq' = Append(inq, m) BY <1>1
<1>. HIDE DEF m
<1>5. UNCHANGED <<cs, up>> /\ ms[s] \in ManagerRec /\ ms \in [Sets -> ManagerRec]
      BY DEF ManagerNotifies, TypeOK
<1>6. /\ Granted(inq', s) \subseteq Granted(inq, s)
      /\ HasDown(inq) => HasDown(inq')
      /\ Revoking(inq', s) = (Revoking(inq, s) \/ kind = "revoke")
  <2>1. inq \in Seq(Answer \cup Notice \cup Owner) BY DEF TypeOK
  <2>2. m \in Answer \cup Notice \cup Owner BY <1>3
  <2>3. /\ Granted(inq', s) \subseteq Granted(inq, s) \cup
              (IF m.kind = "answer" /\ m.set = s /\ ~m.err
               THEN {m.reply.reqno} ELSE {})
        /\ HasDown(inq') = (HasDown(inq) \/ m.kind = "down")
        /\ Revoking(inq', s) = (Revoking(inq, s) \/ (m.kind = "revoke" /\ m.set = s))
    <3>. DEFINE p == Append(inq, m)
    <3>1. /\ Granted(p, s) \subseteq Granted(inq, s) \cup
                (IF m.kind = "answer" /\ m.set = s /\ ~m.err
                 THEN {m.reply.reqno} ELSE {})
          /\ HasDown(p) = (HasDown(inq) \/ m.kind = "down")
          /\ Revoking(p, s) = (Revoking(inq, s) \/ (m.kind = "revoke" /\ m.set = s))
          BY <2>1, <2>2, AppendHas
    <3>2. inq' = p BY <1>4
    <3>. HIDE DEF p
    <3>. QED BY <3>1, <3>2
  <2>4. m.kind # "answer" BY <1>2, <1>3 DEF NoticeKind
  <2>5. Granted(inq', s) \subseteq Granted(inq, s) BY <2>3, <2>4
  <2>6. HasDown(inq) => HasDown(inq') BY <2>3 DEF HasDown
  <2>7. Revoking(inq', s) = (Revoking(inq, s) \/ kind = "revoke")
        BY <1>3, <2>3 DEF Revoking
  <2>. QED BY <2>5, <2>6, <2>7
<1>7. ms'[s] = IF kind = "revoke" /\ s \in AutoRelease
               THEN [ms[s] EXCEPT !.acquire = FALSE] ELSE ms[s]
      BY <1>1, <1>2, <1>5
<1>8. \A z \in Sets : z # s => ms'[z] = ms[z] BY <1>1, <1>5
<1>9. Concerning(s)
  <2>1. \E n \in Answer \cup Notice :
           inq' = Append(inq, n) /\ n.set = s /\ n.kind # "down"
        BY <1>2, <1>3, <1>4
  <2>. QED BY <1>5, <1>8, <2>1 DEF Concerning
<1>10. /\ ms'[s].reg = ms[s].reg /\ ms'[s].passed = ms[s].passed
       /\ ms'[s].resources = ms[s].resources
       /\ ms'[s].audio = ms[s].audio /\ ms'[s].video = ms[s].video
       /\ \/ ms'[s].acquire = ms[s].acquire
          \/ ms[s].acquire /\ kind = "revoke" /\ s \in AutoRelease
       BY <1>1, <1>5, <1>7 DEF ManagerRec
<1>11. /\ f.auto = e.auto /\ f.ok \subseteq e.ok /\ (e.gone => f.gone)
       /\ (e.up => f.up) /\ (e.revoked => f.revoked)
       /\ (e.m.reg => f.m.reg) /\ f.m.resources = e.m.resources
       /\ f.m.audio = e.m.audio /\ f.m.video = e.m.video
       /\ \/ f.m.acquire = e.m.acquire
          \/ e.m.acquire /\ e.auto /\ f.revoked
  <2>1. /\ e.m = ms[s] /\ e.up = up /\ e.ok = Granted(inq, s)
        /\ e.gone = (ms[s].passed \/ HasDown(inq)) /\ e.revoked = Revoking(inq, s)
        /\ e.auto = (s \in AutoRelease)
        BY DEF Side
  <2>2. /\ f.m = ms'[s] /\ f.up = up' /\ f.ok = Granted(inq', s)
        /\ f.gone = (ms'[s].passed \/ HasDown(inq')) /\ f.revoked = Revoking(inq', s)
        /\ f.auto = (s \in AutoRelease)
        BY SideNow
  <2>. HIDE DEF e, f
  <2>. QED BY <1>5, <1>6, <1>10, <2>1, <2>2
<1>12. Wired(c, c) /\ Len(c.wire) \in Nat /\ Agrees(c, e)
  <2>1. c \in ResourceSetRec BY DEF TypeOK
  <2>. QED BY <2>1 DEF Wired, Wishes, ResourceSetRec, Agreeing
<1>13. Agrees(cs'[s], f)
  <2>1. cs'[s] = c BY <1>5
  <2>. HIDE DEF c, e, f
  <2>2. Agrees(c, f) BY <1>11, <1>12, NewsAgrees
  <2>. QED BY <2>1, <2>2
<1>14. Agreeing' BY <1>9, <1>13, ConcerningAgrees
<1>15. WiredAll BY <1>5 DEF WiredAll, Wired, Wishes
<1>. QED BY <1>14, <1>15
-----------------------------------------------------------------------------
(* The name of the manager.  Clients that are connected, or connecting,    *)
(* have a connection to the bus, so that its end is announced.             *)
LEMMA ConnectedListens ==
    ASSUME NEW c \in ResourceSetRec, QueueInv(c), Sound(c, 0),
           c.fault = "none", c.life = "live", c.client # "created"
    PROVE  c.conn
<1>1. Alive(c) /\ (c.resset => c.conn) /\ (c.reqlist # <<>> => c.resset)
      BY DEF Sound, QueueInv, Settled
<1>2. CASE c.client = "ready" BY <1>1, <1>2 DEF Alive
<1>3. CASE c.client = "connecting"
  <2>1. PICK i \in 1..Len(c.reqlist) : c.reqlist[i].msgtyp = "register"
        BY <1>1, <1>3 DEF Alive, HasRegister
  <2>2. c.reqlist # <<>> BY <2>1
  <2>. QED BY <1>1, <2>2
<1>. QED BY <1>2, <1>3 DEF ResourceSetRec

LEMMA LostWires ==
    ASSUME TypeOK, LostWithManager, NEW z \in Sets
    PROVE  /\ Wired(cs[z], cs'[z]) /\ cs'[z].wire \in Seq(Call)
           /\ \E n : TakenOff(cs'[z].wire, cs[z].wire, n)
<1>1. PICK n \in [Sets -> 0..(MaxTimeouts + 1)] :
         /\ \A s \in Sets : n[s] <= Len(cs[s].wire)
         /\ cs' = [s \in Sets |->
                     [cs[s] EXCEPT !.wire = SubSeq(@, n[s] + 1, Len(@)),
                                   !.lost = @ \cup {cs[s].wire[i].reqno :
                                                       i \in 1..n[s]}]]
      BY DEF LostWithManager
<1>. DEFINE c    == cs[z]
            d    == cs'[z]
            k    == n[z]
            wire == SubSeq(c.wire, k + 1, Len(c.wire))
            lost == c.lost \cup {c.wire[i].reqno : i \in 1..k}
            x    == [c EXCEPT !.wire = wire, !.lost = lost]
<1>2. c \in ResourceSetRec BY DEF TypeOK
<1>3. d = x BY <1>1
<1>4. Wired(c, x) /\ x.wire = wire
  <2>. HIDE DEF c, wire, lost
  <2>. QED BY <1>2, WiredSome
<1>5. /\ c.wire \in Seq(Call) /\ Len(c.wire) \in Nat
      /\ k \in Nat /\ k <= Len(c.wire)
  <2>1. c.wire \in Seq(Call) BY <1>2 DEF ResourceSetRec
  <2>2. k \in 0..(MaxTimeouts + 1) /\ k <= Len(c.wire) BY <1>1
  <2>. QED BY <2>1, <2>2
<1>. HIDE DEF c, d, k, x, lost
<1>6. /\ wire \in Seq(Call) /\ Len(wire) = Len(c.wire) - k
      /\ \A i \in 1..Len(wire) : wire[i] = c.wire[k + i]
  <2>. DEFINE w == c.wire
  <2>1. w \in Seq(Call) /\ Len(w) \in Nat /\ k \in 0..Len(w) BY <1>5
  <2>2. wire = SubSeq(w, k + 1, Len(w)) OBVIOUS
  <2>. HIDE DEF w, wire
  <2>3. Len(SubSeq(w, k + 1, Len(w))) = Len(w) - k BY <2>1
  <2>4. SubSeq(w, k + 1, Len(w)) \in Seq(Call) BY <2>1
  <2>5. \A i \in 1..(Len(w) - k) : SubSeq(w, k + 1, Len(w))[i] = w[k + i]
        BY <2>1
  <2>. QED BY <2>2, <2>3, <2>4, <2>5 DEF w
<1>. HIDE DEF wire
<1>7. TakenOff(wire, c.wire, k) BY <1>5, <1>6 DEF TakenOff
<1>. QED BY <1>3, <1>4, <1>6, <1>7 DEF c, d

LEMMA OwnerLossAgrees ==
    ASSUME Inv, Agreeing, ManagerDies \/ ManagerReplaced
    PROVE  Agreeing' /\ WiredAll
<1>1. LostWithManager /\ TypeOK BY DEF ManagerDies, ManagerReplaced, Inv
<1>2. inq \in Seq(Answer \cup Notice \cup Owner) BY <1>1 DEF TypeOK
<1>3. ASSUME NEW z \in Sets PROVE Agrees(cs'[z], Side(z)')
  <2>. DEFINE c == cs[z]
              d == cs'[z]
              e == Side(z)
              f == Side(z)'
  <2>1. /\ c \in ResourceSetRec /\ QueueInv(c) /\ Sound(c, 0) /\ Agrees(c, e)
        BY DEF Inv, TypeOK, Queues, Sounds, Agreeing
  <2>2. /\ Wired(c, d) /\ d.wire \in Seq(Call)
        /\ \E n : TakenOff(d.wire, c.wire, n)
        BY <1>1, LostWires
  <2>3. /\ f.ok \subseteq e.ok /\ f.auto = e.auto
        /\ c.life = "live" /\ c.fault = "none" /\ c.client # "created" => f.gone
    <3>1. ASSUME NEW m \in Owner, m.kind \in {"up", "down"},
                 inq' = IF \E s \in Sets : cs[s].conn THEN Append(inq, m) ELSE inq
          PROVE  /\ Granted(inq', z) \subseteq Granted(inq, z)
                 /\ m.kind = "down" /\ c.conn => HasDown(inq')
      <4>1. CASE \E s \in Sets : cs[s].conn
        <5>. DEFINE p == Append(inq, m)
        <5>1. inq' = p BY <3>1, <4>1
        <5>2. m \in Answer \cup Notice \cup Owner BY <3>1
        <5>3. /\ Granted(p, z) \subseteq Granted(inq, z) \cup
                    (IF m.kind = "answer" /\ m.set = z /\ ~m.err
                     THEN {m.reply.reqno} ELSE {})
              /\ HasDown(p) = (HasDown(inq) \/ m.kind = "down")
              BY <1>2, <5>2, AppendHas
        <5>. HIDE DEF p
        <5>4. Granted(p, z) \subseteq Granted(inq, z) BY <3>1, <5>3
        <5>5. m.kind = "down" => HasDown(p) BY <5>3 DEF HasDown
        <5>. QED BY <5>1, <5>4, <5>5
      <4>2. CASE ~ \E s \in Sets : cs[s].conn BY <3>1, <4>2
      <4>. QED BY <4>1, <4>2
    <3>2. /\ f.ok = Granted(inq', z) /\ f.auto = (z \in AutoRelease)
          /\ f.gone = (ms'[z].passed \/ HasDown(inq'))
          BY SideNow
    <3>3. e.ok = Granted(inq, z) /\ e.auto = (z \in AutoRelease) BY DEF Side
    <3>4. c.life = "live" /\ c.fault = "none" /\ c.client # "created" => c.conn
          BY <2>1, ConnectedListens
    <3>5. CASE ManagerDies
      <4>. DEFINE m == [kind |-> "down"]
      <4>1. m \in Owner /\ m.kind = "down" BY DEF Owner
      <4>2. inq' = IF \E s \in Sets : cs[s].conn THEN Append(inq, m) ELSE inq
            BY <3>5 DEF ManagerDies, Announce
      <4>. HIDE DEF m, c, d, e, f
      <4>. QED BY <3>1, <3>2, <3>3, <3>4, <4>1, <4>2
    <3>6. CASE ManagerReplaced
      <4>. DEFINE m == [kind |-> "up"]
      <4>1. m \in Owner /\ m.kind = "up" BY DEF Owner
      <4>2. inq' = IF \E s \in Sets : cs[s].conn THEN Append(inq, m) ELSE inq
            BY <3>6 DEF ManagerReplaced, Announce
      <4>3. ms'[z].passed = (c.client # "created")
        <5>1. ms'[z] = [Unknown EXCEPT !.passed = c.client # "created"]
              BY <3>6 DEF ManagerReplaced
        <5>. QED BY <5>1 DEF Unknown
      <4>. HIDE DEF m, c, d, e, f
      <4>. QED BY <3>1, <3>2, <3>3, <4>1, <4>2, <4>3
    <3>. QED BY <3>5, <3>6
  <2>4. Len(c.wire) \in Nat BY <2>1 DEF ResourceSetRec
  <2>. HIDE DEF c, d, e, f
  <2>5. PICK n : TakenOff(d.wire, c.wire, n) BY <2>2
  <2>6. Agrees(d, f) BY <2>1, <2>2, <2>3, <2>4, <2>5, LossAgrees
  <2>. QED BY <2>6 DEF d, f
<1>4. Agreeing' BY <1>3 DEF Agreeing
<1>5. WiredAll BY <1>1, LostWires DEF WiredAll
<1>. QED BY <1>4, <1>5

LEMMA ManagerStartsAgrees ==
    ASSUME TypeOK, Agreeing, ManagerStarts
    PROVE  Agreeing' /\ WiredAll
<1>. DEFINE m == [kind |-> "up"]
<1>1. /\ UNCHANGED <<cs, ms>> /\ up'
      /\ inq' = inq \/ inq' = Append(inq, m)
      BY DEF ManagerStarts, Announce
<1>2. inq \in Seq(Answer \cup Notice \cup Owner) BY DEF TypeOK
<1>3. m \in Answer \cup Notice \cup Owner /\ m.kind = "up" BY DEF Owner
<1>. HIDE DEF m
<1>4. ASSUME NEW z \in Sets PROVE Agrees(cs'[z], Side(z)')
  <2>. DEFINE c == cs[z]
              e == Side(z)
              f == Side(z)'
  <2>1. /\ Granted(inq', z) \subseteq Granted(inq, z)
        /\ HasDown(inq) => HasDown(inq')
        /\ Revoking(inq, z) => Revoking(inq', z)
    <3>1. CASE inq' = inq BY <3>1
    <3>2. CASE inq' # inq
      <4>. DEFINE p == Append(inq, m)
      <4>1. inq' = p BY <1>1, <3>2
      <4>2. /\ Granted(p, z) \subseteq Granted(inq, z) \cup
                  (IF m.kind = "answer" /\ m.set = z /\ ~m.err
                   THEN {m.reply.reqno} ELSE {})
            /\ HasDown(p) = (HasDown(inq) \/ m.kind = "down")
            /\ Revoking(p, z) = (Revoking(inq, z) \/ (m.kind = "revoke" /\ m.set = z))
            BY <1>2, <1>3, AppendHas
      <4>. HIDE DEF p
      <4>3. Granted(p, z) \subseteq Granted(inq, z) BY <1>3, <4>2
      <4>4. HasDown(inq) => HasDown(p) BY <4>2 DEF HasDown
      <4>5. Revoking(inq, z) => Revoking(p, z) BY <4>2 DEF Revoking
      <4>. QED BY <4>1, <4>3, <4>4, <4>5
    <3>. QED BY <3>1, <3>2
  <2>2. Wired(c, c) /\ Len(c.wire) \in Nat /\ Agrees(c, e)
    <3>1. c \in ResourceSetRec BY DEF TypeOK
    <3>. QED BY <3>1 DEF Wired, Wishes, ResourceSetRec, Agreeing
  <2>3. /\ f.m = e.m /\ f.auto = e.auto /\ f.up /\ f.ok \subseteq e.ok
        /\ (e.gone => f.gone) /\ (e.revoked => f.revoked)
        BY <1>1, <2>1, SideNow DEF Side
  <2>4. cs'[z] = c BY <1>1
  <2>. HIDE DEF c, e, f
  <2>5. Agrees(c, f) BY <2>2, <2>3, NewsAgrees
  <2>. QED BY <2>4, <2>5 DEF f
<1>5. Agreeing' BY <1>4 DEF Agreeing
<1>6. WiredAll BY <1>1 DEF WiredAll, Wired, Wishes
<1>. QED BY <1>5, <1>6
-----------------------------------------------------------------------------
(* Every step.                                                             *)
LEMMA LinkDownFresh ==
    ASSUME NEW c \in ResourceSetRec, c.life = "none"
    PROVE  link_down(c).life = "none" /\ link_down(c).revived = c.revived
<1>. DEFINE told == IF c.rset.state = "connected" THEN disconnect_from_manager(c)
                                                  ELSE c
<1>1. /\ told \in ResourceSetRec /\ told.life = "none"
      /\ told.revived = c.revived
      BY DEF disconnect_from_manager, ResourceSetRec
<1>2. link_down(c) = IF resset_find(c.rset)
                     THEN dbus_disconnect_from_manager(told) ELSE c
      BY DEF link_down
<1>. HIDE DEF told
<1>3. LET d == dbus_disconnect_from_manager(told)
      IN  d.life = "none" /\ d.revived = c.revived
      BY <1>1 DEF dbus_disconnect_from_manager, ResourceSetRec
<1>. QED BY <1>2, <1>3

LEMMA MainLoopFresh ==
    ASSUME Inv, Woken, Fresh, MainLoop
    PROVE  Fresh'
<1>1. /\ inq # <<>> /\ inq \in Seq(Answer \cup Notice \cup Owner) /\ TypeOK
      /\ \A z \in Sets : /\ cs[z] \in ResourceSetRec /\ QueueInv(cs[z])
                         /\ Sound(cs[z], 0) /\ cs[z].fault = "none"
      BY DEF Inv, TypeOK, Queues, Sounds, Running, MainLoop, DispatchAnswer,
             DispatchNotice, DispatchUp, DispatchDown, Dispatch
<1>2. ASSUME NEW z \in Sets, cs[z].life = "none"
      PROVE  cs[z].replies = {} /\ ~cs[z].path /\ ~cs[z].revived
  <2>1. cs[z].reqlist = <<>> /\ ~cs[z].path BY <1>1, <1>2 DEF Sound
  <2>2. cs[z].replies = {} BY <1>1, <2>1 DEF QueueInv, Settled
  <2>. QED BY <1>2, <2>1, <2>2 DEF Fresh
<1>3. ASSUME \A z \in Sets : cs[z].life = "none" => cs'[z].revived = cs[z].revived,
             Head(inq).kind # "down"
      PROVE  Fresh'
  <2>1. Head(inq).kind # "unregister"
    <3>1. Len(inq) > 0 /\ Head(inq) = inq[1] BY <1>1
    <3>2. 1 \in 1..Len(inq) BY <1>1, <3>1
    <3>. QED BY <3>1, <3>2 DEF Woken, Lacks
  <2>2. StirsAll BY <1>3, <2>1, MainLoopStirs
  <2>. QED BY <1>2, <1>3, <2>2 DEF StirsAll, Stirs, Fresh
<1>4. CASE DispatchAnswer
  <2>. DEFINE m == Head(inq)
  <2>1. m.kind = "answer" BY <1>4 DEF DispatchAnswer, Dispatch
  <2>2. PICK s \in Sets : m.set = s
    <3>1. m \in Answer BY <1>1, <2>1, InqType
    <3>. QED BY <3>1 DEF Answer
  <2>. DEFINE d == status_method(cs[s], m.reply, m.err)
  <2>3. cs' = IF m.reply \in cs[s].replies THEN [cs EXCEPT ![s] = d] ELSE cs
        BY <1>4, <2>2 DEF DispatchAnswer
  <2>. HIDE DEF m, d
  <2>4. \A z \in Sets : cs[z].life = "none" => cs'[z] = cs[z]
        BY <1>1, <1>2, <2>3 DEF TypeOK
  <2>. QED BY <1>3, <2>1, <2>4 DEF m
<1>5. CASE DispatchNotice
  <2>. DEFINE m == Head(inq)
  <2>1. m.kind \in NoticeKind /\ m.kind # "down"
        BY <1>5 DEF DispatchNotice, Dispatch, NoticeKind
  <2>2. PICK s \in Sets : m.set = s
    <3>1. m \in Notice BY <1>1, <2>1, InqType
    <3>. QED BY <3>1 DEF Notice
  <2>3. cs' = cs \/ (cs[s].path /\ \E d : cs' = [cs EXCEPT ![s] = d])
        BY <1>5, <2>2 DEF DispatchNotice
  <2>. HIDE DEF m
  <2>4. \A z \in Sets : cs[z].life = "none" => cs'[z] = cs[z]
        BY <1>1, <1>2, <2>3 DEF TypeOK
  <2>. QED BY <1>3, <2>1, <2>4 DEF m
<1>6. CASE DispatchUp
  <2>1. Head(inq).kind # "down" BY <1>6 DEF DispatchUp, Dispatch
  <2>2. \A z \in Sets : cs[z].life = "none" => cs'[z] = cs[z]
        BY <1>6 DEF DispatchUp, manager_is_up
  <2>. QED BY <1>3, <2>1, <2>2
<1>7. CASE DispatchDown
  <2>1. \A z \in Sets : cs'[z] = link_down(cs[z]) BY <1>7 DEF DispatchDown
  <2>2. ASSUME NEW z \in Sets PROVE cs'[z].life = cs[z].life
    <3>1. Dozing(cs[z]) => cs[z].conn
          BY <1>7 DEF Woken, Watched, DispatchDown, Dispatch
    <3>. QED BY <1>1, <2>1, <3>1, LinkDownDozes
  <2>. QED BY <1>1, <1>2, <2>1, <2>2, LinkDownFresh DEF Fresh
<1>. QED BY <1>4, <1>5, <1>6, <1>7 DEF MainLoop

LEMMA NextAgreeing ==
    ASSUME "unregister" \notin Notices, Refused \subseteq {"register", "unregister"},
           Inv, Woken, Agreeing, Fresh, [Next]_vars
    PROVE  Agreeing' /\ Fresh'
<1>1. TypeOK /\ Lacks(inq, {"unregister"}) BY DEF Inv, Woken
<1>2. CASE UNCHANGED vars
  <2>1. \A z \in Sets : Side(z)' = Side(z) /\ cs'[z] = cs[z]
        BY <1>2 DEF vars, Side, HasDown, Granted, Revoking
  <2>. QED BY <2>1 DEF Agreeing, Fresh
<1>3. CASE MainLoop BY <1>1, <1>3, MainLoopAgrees, MainLoopFresh
<1>4. CASE ManagerStarts BY <1>1, <1>4, ManagerStartsAgrees, WiredFresh
<1>5. CASE ManagerDies \/ ManagerReplaced BY <1>5, OwnerLossAgrees, WiredFresh
<1>6. ASSUME NEW s \in Sets, App(s) PROVE Agreeing' /\ Fresh'
      BY <1>6, AppAgrees
<1>7. ASSUME NEW s \in Sets, Timeout(s) PROVE Agreeing' /\ Fresh'
      BY <1>7, TimeoutAgrees
<1>8. ASSUME NEW s \in Sets, Bus(s) PROVE Agreeing' /\ Fresh'
  <2>1. CASE ManagerHandles(s) BY <1>1, <2>1, ManagerHandlesAgrees, WiredFresh
  <2>2. CASE Bounce(s) BY <1>1, <2>2, BounceAgrees, WiredFresh
  <2>3. CASE NoReply(s) BY <1>1, <2>3, NoReplyAgrees, WiredFresh
  <2>. QED BY <1>8, <2>1, <2>2, <2>3 DEF Bus
<1>9. ASSUME NEW s \in Sets, ManagerNotifies(s) PROVE Agreeing' /\ Fresh'
      BY <1>1, <1>9, ManagerNotifiesAgrees, WiredFresh
<1>. QED BY <1>2, <1>3, <1>4, <1>5, <1>6, <1>7, <1>8, <1>9 DEF Next

LEMMA InitAgreeing ==
    ASSUME Init
    PROVE  Agreeing /\ Fresh
<1>1. Len(<<>>) = 0 /\ 1..0 = {} OBVIOUS
<1>2. /\ NoSet.life = "none" /\ NoSet.configs = <<>> /\ NoSet.wire = <<>>
      /\ ~NoSet.revived
      BY DEF NoSet
<1>3. ASSUME NEW s \in Sets PROVE Agrees(NoSet, Side(s))
  <2>. DEFINE e == Side(s)
  <2>1. e.ok = {} BY <1>1 DEF Side, Granted, Init
  <2>. HIDE DEF e
  <2>2. OneOfAKind(NoSet) /\ Numbered(NoSet, e)
        BY <1>1, <1>2, <2>1 DEF OneOfAKind, Numbered
  <2>3. Agrees(NoSet, e) BY <1>2, <2>2 DEF Agrees
  <2>. QED BY <2>3 DEF e
<1>. QED BY <1>2, <1>3 DEF Init, Agreeing, Fresh

(* With nothing under way, what the client is told about is what it wants. *)
LEMMA ToldAtRest ==
    ASSUME NEW c, c.reqlist = <<>>, c.wire = <<>>, NEW m, NEW a, Told(c, m, a)
    PROVE  m[a] = Wants(c, a)
<1>1. Len(<<>>) = 0 /\ 1..0 = {} /\ 0..0 = {0} OBVIOUS
<1>2. ~Waits(c.reqlist, a, c.acquire) BY <1>1 DEF Waits
<1>3. Hears(m, c.wire, a, Wants(c, a)) BY <1>2 DEF Told
<1>. QED BY <1>1, <1>3 DEF Hears

LEMMA QuietAgrees ==
    ASSUME Inv, Agreeing, Running, NEW s \in Sets, Quiet(s),
           cs[s].client = "ready", cs[s].life = "live", ~cs[s].revived,
           ~ms[s].passed
    PROVE  Agree(s)
<1>. DEFINE c == cs[s]
            e == Side(s)
<1>1. c.reqlist = <<>> /\ c.wire = <<>> BY DEF Quiet
<1>2. Serving(c, e)
  <2>1. c.fault = "none" /\ Agrees(c, e) BY DEF Running, Agreeing
  <2>2. Follows(c, e) BY <2>1 DEF Agrees
  <2>. QED BY <1>1, <2>2 DEF Follows, UnregisterOut
<1>3. ~HasDown(inq) /\ ~Revoking(inq, s)
  <2>1. DOMAIN inq = 1..Len(inq) BY DEF Inv, TypeOK
  <2>. QED BY <2>1 DEF Quiet, HasDown, Revoking
<1>4. e.m = ms[s] /\ ~e.gone /\ ~e.revoked /\ e.auto = (s \in AutoRelease)
      BY <1>3 DEF Side
<1>5. Knows(c, e) BY <1>2, <1>4 DEF Serving
<1>. HIDE DEF c, e
<1>6. ASSUME NEW a \in Attribute, Concerns(c, a)
      PROVE  \/ ms[s][a] = Wants(c, a)
             \/ a = "acquire" /\ s \in AutoRelease /\ ~c.acquire
  <2>1. Told(c, ms[s], a) \/ Excused(c, e, a) BY <1>4, <1>5, <1>6 DEF Knows
  <2>2. Told(c, ms[s], a) => ms[s][a] = Wants(c, a) BY <1>1, ToldAtRest
  <2>3. Excused(c, e, a) => a = "acquire" /\ s \in AutoRelease /\ ~c.acquire
        BY <1>4 DEF Excused
  <2>. QED BY <2>1, <2>2, <2>3
<1>7. ms[s].reg BY <1>4, <1>5 DEF Knows
<1>8. ms[s].resources = c.resources
      BY <1>6 DEF Attribute, Concerns, Kind, Wants
<1>9. /\ configured(c, "audio") => ms[s].audio = config_value(c, "audio")
      /\ configured(c, "video") => ms[s].video = config_value(c, "video")
      BY <1>6 DEF Attribute, Concerns, Wants
<1>10. \/ ms[s].acquire = c.acquire
       \/ s \in AutoRelease /\ ~c.acquire
       BY <1>6 DEF Attribute, Concerns, Kind, Wants
<1>11. /\ c.acquire => ms[s].acquire
       /\ s \notin AutoRelease => c.acquire = ms[s].acquire
       BY <1>10
<1>. QED BY <1>7, <1>8, <1>9, <1>11 DEF Agree, c

(* The queue of requests, the answers of the manager and the reconnections *)
(* after its loss keep the two ends together: whenever nothing is under    *)
(* way, the manager has the acquisition, the resources and the             *)
(* configurations that a ready client has been given by its application.   *)
(* It needs a manager that does not unregister sets of its own accord, and *)
(* that refuses nothing but REGISTER and UNREGISTER: status_cb drops a     *)
(* request that fails and does not try again.                              *)
THEOREM AgreementAlways ==
    ASSUME "unregister" \notin Notices, Refused \subseteq {"register", "unregister"}
    PROVE  Spec => []Agreement
<1>1. Init => Woken /\ Agreeing /\ Fresh BY InitWoken, InitAgreeing
<1>2. Inv /\ Woken /\ [Next]_vars => Woken' BY NextWoken
<1>3. Inv /\ Woken /\ Agreeing /\ Fresh /\ [Next]_vars => Agreeing' /\ Fresh'
      BY NextAgreeing
<1>4. Inv /\ Agreeing => Agreement BY QuietAgrees DEF Agreement
<1>. QED BY <1>1, <1>2, <1>3, <1>4, InvAlways, PTL DEF Spec
=============================================================================
