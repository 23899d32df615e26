---------------------------- MODULE MsgPathProofs ----------------------------
(***************************************************************************)
(* The way of a message, proved for every message a program may send and   *)
(* every answer: what was put together at one end is what is taken apart   *)
(* at the other (Returned), and so exactly the legal messages arrive, with *)
(* every field they were sent with, and the answer that comes back is the  *)
(* handler's own.                                                          *)
(***************************************************************************)
EXTENDS MsgPath, SequenceTheorems, TLAPS

(* A message has the fields of its type. *)
Whole(m) ==
    LET asked == fields(m.type)
    IN  /\ m.type \in MsgType \cup {"status"}
        /\ m = [f \in {asked[i][2] : i \in DOMAIN asked} |-> m[f]]

(* What a field is when it has been a D-Bus argument. *)
wired(m, f) == IF f \in strings(m.type) THEN text(m[f]) ELSE m[f]

(* The arguments of a method call, or of an answer. *)
arguments(m) == IF m.type = "status" THEN reply_message(m) ELSE compose_message(m)

(* Arguments that are read with the same list they were written with.      *)
Matches(m, args, asked) ==
    /\ DOMAIN args = DOMAIN asked /\ Len(args) = Len(asked)
    /\ \A i \in DOMAIN asked : /\ args[i].type = asked[i][1]
                               /\ args[i].value = wired(m, asked[i][2])
    /\ \A i, j \in DOMAIN asked : asked[i][2] = asked[j][2] => i = j
-----------------------------------------------------------------------------
(* Sequences put together from a head of three and a rest.                 *)
LEMMA Joined ==
    ASSUME NEW S, NEW a \in S, NEW b \in S, NEW c \in S, NEW s \in Seq(S)
    PROVE  LET t == <<a, b, c>> \o s
           IN  /\ t \in Seq(S) /\ Len(t) = 3 + Len(s)
               /\ t[1] = a /\ t[2] = b /\ t[3] = c
               /\ \A i \in 1..Len(t) : i > 3 => i - 3 \in 1..Len(s) /\ t[i] = s[i - 3]
<1>. DEFINE h == <<a, b, c>>
            t == h \o s
<1>1. h \in Seq(S) /\ Len(h) = 3 /\ h[1] = a /\ h[2] = b /\ h[3] = c
      /\ Len(s) \in Nat
      OBVIOUS
<1>. HIDE DEF h
<1>2. /\ t \in Seq(S) /\ Len(t) = Len(h) + Len(s)
      /\ \A i \in 1..(Len(h) + Len(s)) :
            t[i] = IF i <= Len(h) THEN h[i] ELSE s[i - Len(h)]
      BY <1>1, ConcatProperties
<1>. HIDE DEF t
<1>3. t[1] = h[1] /\ t[2] = h[2] /\ t[3] = h[3] BY <1>1, <1>2
<1>4. ASSUME NEW i \in 1..Len(t), i > 3
      PROVE  i - 3 \in 1..Len(s) /\ t[i] = s[i - 3]
      BY <1>1, <1>2, <1>4
<1>. QED BY <1>1, <1>2, <1>3, <1>4 DEF t, h

LEMMA Lead ==
    ASSUME NEW m
    PROVE  /\ Matches(m, Common(m), Head3)
           /\ Head3[1] = <<"int32", "type">> /\ Len(Head3) = 3 /\ DOMAIN Head3 = 1..3
           /\ {Head3[i][2] : i \in DOMAIN Head3} = {"type", "id", "reqno"}
<1>1. \A f \in {"type", "id", "reqno"} : wired(m, f) = m[f]
      BY DEF wired, strings
<1>2. /\ Common(m)[1] = Int32(m.type) /\ Common(m)[2] = UInt32(m.id)
      /\ Common(m)[3] = UInt32(m.reqno) /\ DOMAIN Common(m) = 1..3
      /\ Len(Common(m)) = 3
      BY DEF Common
<1>3. /\ Head3[1] = <<"int32", "type">> /\ Head3[2] = <<"uint32", "id">>
      /\ Head3[3] = <<"uint32", "reqno">> /\ DOMAIN Head3 = 1..3
      /\ Len(Head3) = 3
      BY DEF Head3
<1>4. Matches(m, Common(m), Head3)
      BY <1>1, <1>2, <1>3 DEF Matches, Int32, UInt32
<1>5. Len(Head3) = 3 BY DEF Head3
<1>. QED BY <1>3, <1>4, <1>5

(* What is put together as a message of some type is what is asked for.    *)
Tables(m, args, asked) ==
    /\ Matches(m, args, asked)
    /\ \A i \in 1..3 : asked[i] = Head3[i]
    /\ \E n \in Nat : n >= 3 /\ DOMAIN asked = 1..n /\ Len(asked) = n

Agreed(m) == Tables(m, arguments(m), fields(m.type))

(* What a message has beyond the first three fields. *)
Rests(m, n, args, asked) ==
    /\ Matches(m, args, asked) /\ DOMAIN args = 1..n /\ DOMAIN asked = 1..n
    /\ args \in Seq({args[i] : i \in 1..n})
    /\ asked \in Seq({asked[i] : i \in 1..n})
    /\ \A i \in 1..n : asked[i][2] \notin {"type", "id", "reqno"}

LEMMA Extended ==
    ASSUME NEW m, NEW n \in Nat, NEW args, NEW asked, Rests(m, n, args, asked)
    PROVE  Tables(m, Common(m) \o args, Head3 \o asked)
<1>0. /\ Matches(m, args, asked) /\ DOMAIN args = 1..n /\ DOMAIN asked = 1..n
      /\ args \in Seq({args[i] : i \in 1..n})
      /\ asked \in Seq({asked[i] : i \in 1..n})
      /\ \A i \in 1..n : asked[i][2] \notin {"type", "id", "reqno"}
      BY DEF Rests
<1>. DEFINE S == {args[i] : i \in 1..n} \cup {Int32(m.type), UInt32(m.id), UInt32(m.reqno)}
            T == {asked[i] : i \in 1..n} \cup
                    {<<"int32", "type">>, <<"uint32", "id">>, <<"uint32", "reqno">>}
            u == Common(m) \o args
            w == Head3 \o asked
<1>1. args \in Seq(S) /\ asked \in Seq(T) /\ Len(args) = n /\ Len(asked) = n
      BY <1>0
<1>2. /\ Int32(m.type) \in S /\ UInt32(m.id) \in S /\ UInt32(m.reqno) \in S
      /\ <<"int32", "type">> \in T /\ <<"uint32", "id">> \in T
      /\ <<"uint32", "reqno">> \in T
      OBVIOUS
<1>3. /\ u = <<Int32(m.type), UInt32(m.id), UInt32(m.reqno)>> \o args
      /\ w = <<<<"int32", "type">>, <<"uint32", "id">>, <<"uint32", "reqno">>>> \o asked
      BY DEF Common, Head3
<1>. HIDE DEF S, T, u, w
<1>4. /\ u \in Seq(S) /\ Len(u) = 3 + n
      /\ u[1] = Int32(m.type) /\ u[2] = UInt32(m.id) /\ u[3] = UInt32(m.reqno)
      /\ \A i \in 1..Len(u) : i > 3 => i - 3 \in 1..n /\ u[i] = args[i - 3]
      BY <1>1, <1>2, <1>3, Joined
<1>5. /\ w \in Seq(T) /\ Len(w) = 3 + n
      /\ w[1] = <<"int32", "type">> /\ w[2] = <<"uint32", "id">>
      /\ w[3] = <<"uint32", "reqno">>
      /\ \A i \in 1..Len(w) : i > 3 => i - 3 \in 1..n /\ w[i] = asked[i - 3]
      BY <1>1, <1>2, <1>3, Joined
<1>6. DOMAIN u = 1..(3 + n) /\ DOMAIN w = 1..(3 + n) BY <1>4, <1>5
<1>7. \A f \in {"type", "id", "reqno"} : wired(m, f) = m[f]
      BY DEF wired, strings
<1>8. ASSUME NEW i \in 1..(3 + n)
      PROVE  u[i].type = w[i][1] /\ u[i].value = wired(m, w[i][2])
  <2>1. CASE i > 3
    <3>. DEFINE j == i - 3
    <3>1. j \in 1..n /\ u[i] = args[j] /\ w[i] = asked[j] BY <1>4, <1>5, <2>1
    <3>. HIDE DEF j
    <3>. QED BY <1>0, <3>1 DEF Matches
  <2>2. CASE i \in {1, 2, 3} BY <1>4, <1>5, <1>7, <2>2 DEF Int32, UInt32
  <2>. QED BY <2>1, <2>2
<1>9. ASSUME NEW i \in 1..(3 + n), NEW j \in 1..(3 + n), w[i][2] = w[j][2]
      PROVE  i = j
  <2>1. CASE i > 3 /\ j > 3
    <3>. DEFINE k == i - 3
                l == j - 3
    <3>1. k \in 1..n /\ l \in 1..n /\ w[i] = asked[k] /\ w[j] = asked[l]
          BY <1>5, <2>1
    <3>2. k = l => i = j OBVIOUS
    <3>. HIDE DEF k, l
    <3>. QED BY <1>0, <1>9, <3>1, <3>2 DEF Matches
  <2>2. ASSUME NEW k \in 1..(3 + n)
        PROVE  w[k][2] \in {"type", "id", "reqno"} <=> k \in {1, 2, 3}
    <3>1. CASE k > 3
      <4>. DEFINE l == k - 3
      <4>1. l \in 1..n /\ w[k] = asked[l] /\ k \notin {1, 2, 3} BY <1>5, <3>1
      <4>. HIDE DEF l
      <4>. QED BY <1>0, <4>1
    <3>2. CASE k \in {1, 2, 3} BY <1>5, <3>2
    <3>. QED BY <3>1, <3>2
  <2>3. CASE i \in {1, 2, 3} /\ j \in {1, 2, 3} BY <1>5, <1>9, <2>3
  <2>4. CASE (i > 3 /\ j \in {1, 2, 3}) \/ (i \in {1, 2, 3} /\ j > 3)
        BY <1>9, <2>2, <2>4
  <2>. QED BY <2>1, <2>2, <2>3, <2>4
<1>10. Matches(m, u, w) BY <1>4, <1>5, <1>6, <1>8, <1>9 DEF Matches
<1>11. \A i \in 1..3 : w[i] = Head3[i]
  <2>1. /\ Head3[1] = <<"int32", "type">> /\ Head3[2] = <<"uint32", "id">>
        /\ Head3[3] = <<"uint32", "reqno">>
        BY DEF Head3
  <2>2. 1..3 = {1, 2, 3} OBVIOUS
  <2>. QED BY <1>5, <2>1, <2>2
<1>12. 3 + n \in Nat /\ 3 + n >= 3 OBVIOUS
<1>13. Tables(m, u, w) BY <1>5, <1>6, <1>10, <1>11, <1>12 DEF Tables
<1>. QED BY <1>13 DEF u, w

LEMMA Tabulated ==
    ASSUME NEW m, NEW n \in Nat, NEW args, NEW asked, Rests(m, n, args, asked),
           arguments(m) = Common(m) \o args, fields(m.type) = Head3 \o asked
    PROVE  Agreed(m)
<1>1. Tables(m, Common(m) \o args, Head3 \o asked) BY Extended
<1>. QED BY <1>1 DEF Agreed

(* The two parts of an argument. *)
LEMMA Parts ==
    ASSUME NEW v
    PROVE  /\ Int32(v).type = "int32" /\ Int32(v).value = v
           /\ UInt32(v).type = "uint32" /\ UInt32(v).value = v
           /\ String(v).type = "string" /\ String(v).value = text(v)
BY DEF Int32, UInt32, String, text

LEMMA RecordAgreed == ASSUME NEW m, m.type \in Record PROVE Agreed(m)
<1>. DEFINE args  == <<UInt32(m.all), UInt32(m.opt), UInt32(m.share),
                       UInt32(m.mask), String(m.app_id), String(m.klass),
                       UInt32(m.mode)>>
            asked == <<<<"uint32", "all">>, <<"uint32", "opt">>,
                       <<"uint32", "share">>, <<"uint32", "mask">>,
                       <<"string", "app_id">>, <<"string", "klass">>,
                       <<"uint32", "mode">>>>
<1>1. /\ m.type \notin Possess /\ m.type \notin Notify
      /\ m.type # "audio" /\ m.type # "video" /\ m.type # "status"
      BY DEF Record, Possess, Notify
<1>2. arguments(m) = Common(m) \o args BY <1>1 DEF arguments, compose_message
<1>3. fields(m.type) = Head3 \o asked BY <1>1 DEF fields
<1>4. strings(m.type) = {"app_id", "klass"} BY <1>1 DEF strings
<1>5. DOMAIN args = 1..7 /\ DOMAIN asked = 1..7 OBVIOUS
<1>6. Matches(m, args, asked)
      BY <1>4, <1>5, Parts DEF Matches, wired
<1>7. \A i \in 1..7 : asked[i][2] \notin {"type", "id", "reqno"} OBVIOUS
<1>8. args \in Seq({args[i] : i \in 1..7}) /\ asked \in Seq({asked[i] : i \in 1..7})
      OBVIOUS
<1>9. Rests(m, 7, args, asked) /\ 7 \in Nat
      BY <1>5, <1>6, <1>7, <1>8 DEF Rests
<1>. HIDE DEF args, asked
<1>. QED BY <1>2, <1>3, <1>9, Tabulated

LEMMA PossessAgreed == ASSUME NEW m, m.type \in Possess PROVE Agreed(m)
<1>1. /\ m.type \notin Record /\ m.type \notin Notify
      /\ m.type # "audio" /\ m.type # "video" /\ m.type # "status"
      BY DEF Record, Possess, Notify
<1>2. arguments(m) = Common(m) BY <1>1 DEF arguments, compose_message
<1>3. fields(m.type) = Head3 BY <1>1 DEF fields
<1>4. 3 \in Nat /\ 3 >= 3 OBVIOUS
<1>. QED BY <1>2, <1>3, <1>4, Lead DEF Agreed, Tables

LEMMA NotifyAgreed == ASSUME NEW m, m.type \in Notify PROVE Agreed(m)
<1>. DEFINE args  == <<UInt32(m.resrc)>>
            asked == <<<<"uint32", "resrc">>>>
<1>1. /\ m.type \notin Record /\ m.type \notin Possess
      /\ m.type # "audio" /\ m.type # "video" /\ m.type # "status"
      BY DEF Record, Possess, Notify
<1>2. arguments(m) = Common(m) \o args BY <1>1 DEF arguments, compose_message
<1>3. fields(m.type) = Head3 \o asked BY <1>1 DEF fields
<1>4. strings(m.type) = {} BY <1>1 DEF strings
<1>5. DOMAIN args = 1..1 /\ DOMAIN asked = 1..1 OBVIOUS
<1>6. Matches(m, args, asked) BY <1>4, <1>5, Parts DEF Matches, wired
<1>7. \A i \in 1..1 : asked[i][2] \notin {"type", "id", "reqno"} OBVIOUS
<1>8. args \in Seq({args[i] : i \in 1..1}) /\ asked \in Seq({asked[i] : i \in 1..1})
      OBVIOUS
<1>9. Rests(m, 1, args, asked) /\ 1 \in Nat
      BY <1>5, <1>6, <1>7, <1>8 DEF Rests
<1>. HIDE DEF args, asked
<1>. QED BY <1>2, <1>3, <1>9, Tabulated

LEMMA AudioAgreed == ASSUME NEW m, m.type = "audio" PROVE Agreed(m)
<1>. DEFINE args  == <<String(m.group), String(m.app_id), String(m.name),
                       Int32(m.method), String(m.pattern)>>
            asked == <<<<"string", "group">>, <<"string", "app_id">>,
                       <<"string", "name">>, <<"int32", "method">>,
                       <<"string", "pattern">>>>
<1>1. m.type \notin Record /\ m.type \notin Possess /\ m.type \notin Notify
      BY DEF Record, Possess, Notify
<1>2. arguments(m) = Common(m) \o args BY <1>1 DEF arguments, compose_message
<1>3. fields(m.type) = Head3 \o asked BY <1>1 DEF fields
<1>4. strings(m.type) = {"group", "app_id", "name", "pattern"} BY <1>1 DEF strings
<1>5. DOMAIN args = 1..5 /\ DOMAIN asked = 1..5 OBVIOUS
<1>6. Matches(m, args, asked)
      BY <1>4, <1>5, Parts DEF Matches, wired
<1>7. \A i \in 1..5 : asked[i][2] \notin {"type", "id", "reqno"} OBVIOUS
<1>8. args \in Seq({args[i] : i \in 1..5}) /\ asked \in Seq({asked[i] : i \in 1..5})
      OBVIOUS
<1>9. Rests(m, 5, args, asked) /\ 5 \in Nat
      BY <1>5, <1>6, <1>7, <1>8 DEF Rests
<1>. HIDE DEF args, asked
<1>. QED BY <1>2, <1>3, <1>9, Tabulated

LEMMA VideoAgreed == ASSUME NEW m, m.type = "video" PROVE Agreed(m)
<1>. DEFINE args  == <<UInt32(m.pid)>>
            asked == <<<<"uint32", "pid">>>>
<1>1. m.type \notin Record /\ m.type \notin Possess /\ m.type \notin Notify
      BY DEF Record, Possess, Notify
<1>2. arguments(m) = Common(m) \o args BY <1>1 DEF arguments, compose_message
<1>3. fields(m.type) = Head3 \o asked BY <1>1 DEF fields
<1>4. strings(m.type) = {} BY <1>1 DEF strings
<1>5. DOMAIN args = 1..1 /\ DOMAIN asked = 1..1 OBVIOUS
<1>6. Matches(m, args, asked) BY <1>4, <1>5, Parts DEF Matches, wired
<1>7. \A i \in 1..1 : asked[i][2] \notin {"type", "id", "reqno"} OBVIOUS
<1>8. args \in Seq({args[i] : i \in 1..1}) /\ asked \in Seq({asked[i] : i \in 1..1})
      OBVIOUS
<1>9. Rests(m, 1, args, asked) /\ 1 \in Nat
      BY <1>5, <1>6, <1>7, <1>8 DEF Rests
<1>. HIDE DEF args, asked
<1>. QED BY <1>2, <1>3, <1>9, Tabulated

LEMMA StatusAgreed == ASSUME NEW m, m.type = "status" PROVE Agreed(m)
<1>. DEFINE args  == <<Int32(m.errcod), String(m.errmsg)>>
            asked == <<<<"int32", "errcod">>, <<"string", "errmsg">>>>
<1>1. m.type \notin Record /\ m.type \notin Possess /\ m.type \notin Notify
      BY DEF Record, Possess, Notify
<1>2. arguments(m) = Common(m) \o args BY DEF arguments, reply_message
<1>3. fields(m.type) = Head3 \o asked BY <1>1 DEF fields
<1>4. strings(m.type) = {"errmsg"} BY <1>1 DEF strings
<1>5. DOMAIN args = 1..2 /\ DOMAIN asked = 1..2 OBVIOUS
<1>6. Matches(m, args, asked)
      BY <1>4, <1>5, Parts DEF Matches, wired
<1>7. \A i \in 1..2 : asked[i][2] \notin {"type", "id", "reqno"} OBVIOUS
<1>8. args \in Seq({args[i] : i \in 1..2}) /\ asked \in Seq({asked[i] : i \in 1..2})
      OBVIOUS
<1>9. Rests(m, 2, args, asked) /\ 2 \in Nat
      BY <1>5, <1>6, <1>7, <1>8 DEF Rests
<1>. HIDE DEF args, asked
<1>. QED BY <1>2, <1>3, <1>9, Tabulated

LEMMA AllAgreed ==
    ASSUME NEW m, m.type \in MsgType \cup {"status"} PROVE Agreed(m)
<1>1. m.type \in Record \cup Possess \cup Notify \cup {"audio", "video", "status"}
      BY DEF MsgType
<1>. QED BY <1>1, RecordAgreed, PossessAgreed, NotifyAgreed, AudioAgreed,
            VideoAgreed, StatusAgreed
-----------------------------------------------------------------------------
(* What is sent is what is read.                                           *)
Arrived(m) == [f \in DOMAIN m |-> wired(m, f)]

LEMMA WholeFields ==
    ASSUME NEW m, Whole(m)
    PROVE  /\ DOMAIN m = {fields(m.type)[i][2] : i \in DOMAIN fields(m.type)}
           /\ m = [f \in DOMAIN m |-> m[f]]
           /\ "type" \in DOMAIN m /\ "id" \in DOMAIN m /\ "reqno" \in DOMAIN m
<1>. DEFINE asked == fields(m.type)
<1>1. /\ DOMAIN m = {asked[i][2] : i \in DOMAIN asked}
      /\ m = [f \in DOMAIN m |-> m[f]]
      BY DEF Whole
<1>2. /\ \A i \in 1..3 : asked[i] = Head3[i]
      /\ \E n \in Nat : n >= 3 /\ DOMAIN asked = 1..n
      BY AllAgreed DEF Whole, Agreed, Tables
<1>. HIDE DEF asked
<1>3. \A i \in 1..3 : i \in DOMAIN asked /\ asked[i][2] = Head3[i][2] BY <1>2
<1>4. {Head3[i][2] : i \in 1..3} = {"type", "id", "reqno"} BY Lead
<1>. QED BY <1>1, <1>3, <1>4 DEF asked

LEMMA Returned ==
    ASSUME NEW m, Whole(m)
    PROVE  parse_message(arguments(m)) = Arrived(m)
<1>. DEFINE args  == arguments(m)
            asked == fields(m.type)
            at(f) == CHOOSE i \in DOMAIN asked : asked[i][2] = f
            names == {asked[i][2] : i \in DOMAIN asked}
<1>1. /\ Matches(m, args, asked) /\ asked[1] = Head3[1]
      /\ \E n \in Nat : n >= 3 /\ DOMAIN asked = 1..n /\ Len(asked) = n
      BY AllAgreed DEF Whole, Agreed, Tables
<1>2. 1 \in DOMAIN asked BY <1>1
<1>3. args[1].type = "int32" /\ args[1].value = m.type
  <2>1. wired(m, "type") = m.type BY DEF wired, strings
  <2>. QED BY <1>1, <1>2, <2>1, Lead DEF Matches
<1>4. get_args(args, <<Head3[1]>>)
  <2>1. Len(args) >= 1 BY <1>1 DEF Matches
  <2>. QED BY <1>3, <2>1, Lead DEF get_args
<1>5. get_args(args, asked) BY <1>1 DEF get_args, Matches
<1>6. parse_message(args) = [f \in names |-> args[at(f)].value]
      BY <1>3, <1>4, <1>5 DEF parse_message, Whole
<1>7. names = DOMAIN m BY DEF Whole
<1>8. ASSUME NEW f \in names PROVE args[at(f)].value = wired(m, f)
  <2>1. at(f) \in DOMAIN asked /\ asked[at(f)][2] = f BY <1>8
  <2>. HIDE DEF at
  <2>. QED BY <1>1, <2>1 DEF Matches
<1>. HIDE DEF args, asked, at, names
<1>. QED BY <1>6, <1>7, <1>8 DEF Arrived, args

LEMMA ArrivedWhole ==
    ASSUME NEW m, Whole(m)
    PROVE  /\ DOMAIN Arrived(m) = DOMAIN m
           /\ \A f \in DOMAIN m : Arrived(m)[f] = wired(m, f)
           /\ Arrived(m).type = m.type /\ Arrived(m).id = m.id
           /\ Arrived(m).reqno = m.reqno
           /\ Arrived(m) # NoMessage /\ m # NoMessage
<1>1. /\ DOMAIN Arrived(m) = DOMAIN m
      /\ \A f \in DOMAIN m : Arrived(m)[f] = wired(m, f)
      BY DEF Arrived
<1>2. \A f \in {"type", "id", "reqno"} : wired(m, f) = m[f]
      BY DEF wired, strings
<1>3. m.type # "none" BY DEF Whole, MsgType, Record, Possess, Notify
<1>4. NoMessage.type = "none" BY DEF NoMessage
<1>. QED BY <1>1, <1>2, <1>3, <1>4, WholeFields

-----------------------------------------------------------------------------
(* The invariant.                                                          *)

(* What may be sent, and how: the other submissions are refused.           *)
Proper(m, way) ==
    \/ way = "connect" /\ m.type = "register" /\ role = "client"
    \/ way = "send" /\ m.type \notin {"register", "unregister"} /\ m.id = SetId
    \/ way = "disconnect" /\ m.type = "unregister" /\ m.id = SetId

(* A message as the handler gets it. *)
Handed(m) == IF transport = "dbus" THEN Arrived(m) ELSE m

(* The answer of a handler, as a message. *)
StatusMessage(errcod, errmsg) ==
    [type |-> "status", id |-> set_id, reqno |-> sent.msg.reqno,
     errcod |-> errcod, errmsg |-> errmsg]

Outset ==
    /\ transport \in {"dbus", "internal"} /\ role \in {"client", "manager"}
    /\ stage \in {"idle", "flying", "handled", "dropped", "refused", "answered", "done"}
    /\ stage # "idle" => Whole(sent.msg)
    /\ stage = "refused" => ~legal(sent.msg, sent.way)
    /\ stage \notin {"idle", "refused"} => Proper(sent.msg, sent.way)

Underway ==
    /\ stage = "flying" /\ transport = "dbus" =>
          /\ sent.msg.type \in MsgType
          /\ flight.kind = "call" /\ flight.member = sent.msg.type
          /\ flight.args = arguments(sent.msg)
    /\ stage = "flying" /\ transport = "internal" =>
          flight.kind = "queued" /\ flight.msg = sent.msg
    /\ stage = "dropped" => ~heard(sent.msg)
    /\ stage \in {"handled", "answered", "done"} =>
          heard(sent.msg) /\ got = Handed(sent.msg)
    /\ stage \notin {"handled", "answered", "done"} => got = NoMessage

Answering ==
    /\ stage = "answered" /\ transport = "dbus" =>
          /\ flight.kind = "return"
          /\ flight.args = arguments(StatusMessage(replied.errcod, replied.errmsg))
    /\ stage = "answered" /\ transport = "internal" =>
          /\ flight.kind = "answer" /\ flight.errcod = replied.errcod
          /\ flight.errmsg = text(replied.errmsg)
    /\ stage # "done" => told = Nothing
    /\ AnswerIsTheHandlers

References ==
    /\ held \in {0, 1}
    /\ held = 1 => /\ stage \in {"handled", "dropped"}
                   /\ transport = "dbus" /\ receiver = "manager"
    /\ stage = "handled" /\ transport = "dbus" /\ receiver = "manager" => held = 1

(* Each kind of undefined behaviour, and where it can come from.           *)
Faults ==
    /\ fault = "null" =>
          /\ \E f \in strings(sent.msg.type) : sent.msg[f] = NULL
          /\ sent.msg.type = "register" \/ flight.kind = "queued"
    /\ fault = "dangling" => sent.msg.type = "audio" /\ flight.kind = "queued"
    /\ fault = "released" => transport = "dbus" /\ receiver = "client"

Inv == Outset /\ Underway /\ Answering /\ References /\ Faults

LEMMA InitInv == Init => Inv
<1>. SUFFICES ASSUME Init PROVE Inv OBVIOUS
<1>1. /\ stage = "idle" /\ told = Nothing /\ got = NoMessage /\ held = 0
      /\ fault = "none"
      BY DEF Init
<1>2. Outset BY <1>1 DEF Init, Outset
<1>3. Underway BY <1>1 DEF Underway
<1>4. Answering BY <1>1 DEF Answering, AnswerIsTheHandlers
<1>5. References BY <1>1 DEF References
<1>6. Faults BY <1>1 DEF Faults
<1>. QED BY <1>2, <1>3, <1>4, <1>5, <1>6 DEF Inv

LEMMA ValidTypes ==
    ASSUME NEW r PROVE valid(r) \subseteq MsgType
BY DEF valid, MsgType, Record, Possess, Notify

LEMMA LegalHeard ==
    ASSUME NEW m, NEW way, Proper(m, way)
    PROVE  legal(m, way) <=> heard(m)
<1>1. CASE way = "connect" /\ m.type = "register" /\ role = "client"
      BY <1>1, ValidTypes DEF legal, heard
<1>2. CASE way = "disconnect" /\ m.type = "unregister"
      BY <1>2, ValidTypes DEF legal, heard
<1>3. CASE way = "send" /\ m.type \notin {"register", "unregister"}
      BY <1>3, ValidTypes DEF legal, heard
<1>. QED BY <1>1, <1>2, <1>3 DEF Proper

LEMMA WithId ==
    ASSUME NEW m, Whole(m), NEW id
    PROVE  LET n == [m EXCEPT !.id = id]
           IN  Whole(n) /\ n.id = id /\ n.type = m.type
<1>. DEFINE n == [m EXCEPT !.id = id]
<1>1. /\ m = [f \in DOMAIN m |-> m[f]] /\ "type" \in DOMAIN m /\ "id" \in DOMAIN m
      /\ DOMAIN m = {fields(m.type)[i][2] : i \in DOMAIN fields(m.type)}
      BY WholeFields
<1>2. /\ DOMAIN n = DOMAIN m /\ n = [f \in DOMAIN n |-> n[f]]
      /\ n.id = id /\ n.type = m.type
      BY <1>1
<1>. HIDE DEF n
<1>3. Whole(n) BY <1>1, <1>2 DEF Whole
<1>. QED BY <1>2, <1>3 DEF n

(* The three functions that send, and what they may do.                    *)
Unset(m, way, wants) ==
    /\ fault' = "null" /\ sent' = [msg |-> m, way |-> way, wants |-> wants]
    /\ m.type = "register" /\ (m.app_id = NULL \/ m.klass = NULL)
    /\ UNCHANGED <<transport, role, stage, flight, gone, held, got, replied, told>>

LEMMA Submitted ==
    ASSUME NEW s \in Messages, NEW wants \in BOOLEAN, role \in {"client", "manager"},
           Connect(s, wants) \/ Send(s, wants) \/ Disconnect(s, wants)
    PROVE  /\ At("idle")
           /\ \E m, way :
                 /\ Whole(m)
                 /\ \/ Refuses(m, way, wants) /\ ~legal(m, way)
                    \/ Sends(m, way, wants) /\ Proper(m, way)
                    \/ Unset(m, way, wants)
<1>0. Whole(s) BY MessageAssumption DEF Whole
<1>1. CASE Connect(s, wants)
  <2>1. At("idle") BY <1>1 DEF Connect
  <2>2. CASE role # "client" \/ s.type # "register"
    <3>1. Refuses(s, "connect", wants) BY <1>1, <2>2 DEF Connect
    <3>2. ~legal(s, "connect") BY <2>2 DEF legal, valid, receiver
    <3>. QED BY <1>0, <2>1, <3>1, <3>2
  <2>3. CASE role = "client" /\ s.type = "register" /\ s.app_id # NULL /\ s.klass # NULL
    <3>1. Sends(s, "connect", wants) /\ Proper(s, "connect")
          BY <1>1, <2>3 DEF Connect, Proper
    <3>. QED BY <1>0, <2>1, <3>1
  <2>4. CASE role = "client" /\ s.type = "register" /\ ~(s.app_id # NULL /\ s.klass # NULL)
    <3>1. Unset(s, "connect", wants) BY <1>1, <2>4 DEF Connect, Unset
    <3>. QED BY <1>0, <2>1, <3>1
  <2>. QED BY <2>2, <2>3, <2>4
<1>2. CASE Send(s, wants)
  <2>1. At("idle") BY <1>2 DEF Send
  <2>2. CASE s.type \in {"register", "unregister"}
    <3>1. Refuses(s, "send", wants) BY <1>2, <2>2 DEF Send
    <3>2. ~legal(s, "send") BY <2>2 DEF legal
    <3>. QED BY <1>0, <2>1, <3>1, <3>2
  <2>3. CASE s.type \notin {"register", "unregister"}
    <3>. DEFINE m == [s EXCEPT !.id = SetId]
    <3>1. Whole(m) /\ m.id = SetId /\ m.type = s.type BY <1>0, WithId
    <3>2. Sends(m, "send", wants) BY <1>2, <2>3 DEF Send
    <3>. HIDE DEF m
    <3>3. Proper(m, "send") BY <2>3, <3>1 DEF Proper
    <3>. QED BY <2>1, <3>1, <3>2, <3>3
  <2>. QED BY <2>2, <2>3
<1>3. CASE Disconnect(s, wants)
  <2>1. At("idle") BY <1>3 DEF Disconnect
  <2>2. CASE s.type # "unregister"
    <3>1. Refuses(s, "disconnect", wants) BY <1>3, <2>2 DEF Disconnect
    <3>2. ~legal(s, "disconnect") BY <2>2 DEF legal
    <3>. QED BY <1>0, <2>1, <3>1, <3>2
  <2>3. CASE s.type = "unregister"
    <3>1. Sends(s, "disconnect", wants) /\ Proper(s, "disconnect")
          BY <1>3, <2>3 DEF Disconnect, Proper
    <3>. QED BY <1>0, <2>1, <3>1
  <2>. QED BY <2>2, <2>3
<1>. QED BY <1>1, <1>2, <1>3

(* What an operator says about a message stays what it is.                 *)
LEMMA Kept ==
    ASSUME transport' = transport, role' = role, NEW m, m = sent'.msg
    PROVE  /\ heard(sent.msg)' <=> heard(m)
           /\ legal(sent.msg, sent.way)' <=> legal(m, sent'.way)
           /\ Proper(sent.msg, sent.way)' <=> Proper(m, sent'.way)
           /\ Handed(sent.msg)' = Handed(m)
           /\ receiver' = receiver
<1>1. receiver' = receiver BY DEF receiver
<1>. QED BY <1>1 DEF heard, legal, Proper, Handed

LEMMA SharedStrings ==
    ASSUME NEW type
    PROVE  /\ duplicated(type) \subseteq strings(type)
           /\ \A f \in shared(type) : type = "audio"
<1>1. CASE type \in Record
  <2>1. type # "audio" /\ type # "status" BY <1>1 DEF Record
  <2>. QED BY <1>1, <2>1 DEF duplicated, strings, shared
<1>2. CASE type \notin Record /\ type = "audio"
      BY <1>2 DEF duplicated, strings
<1>3. CASE type \notin Record /\ type = "status"
      BY <1>3 DEF duplicated, strings, shared
<1>4. CASE type \notin Record /\ type # "audio" /\ type # "status"
      BY <1>4 DEF duplicated, strings, shared
<1>. QED BY <1>1, <1>2, <1>3, <1>4

LEMMA SendInv ==
    ASSUME Inv, At("idle"), NEW m, NEW way, NEW wants, Whole(m), Proper(m, way),
           Sends(m, way, wants)
    PROVE  Inv'
<1>1. /\ stage = "idle" /\ fault = "none" /\ got = NoMessage /\ told = Nothing
      /\ held = 0
      /\ transport \in {"dbus", "internal"} /\ role \in {"client", "manager"}
      BY DEF At, Inv, Outset, Underway, Answering, References
<1>2. /\ transport' = transport /\ role' = role /\ told' = told /\ held' = held
      /\ sent'.msg = m /\ sent'.way = way
      BY DEF Sends
<1>3. /\ heard(sent.msg)' <=> heard(m)
      /\ legal(sent.msg, sent.way)' <=> legal(m, way)
      /\ Proper(sent.msg, sent.way)' <=> Proper(m, way)
      /\ Handed(sent.msg)' = Handed(m)
      /\ receiver' = receiver
      BY <1>2, Kept
<1>0. legal(m, way) <=> heard(m) BY LegalHeard
<1>4. \/ stage' = "refused" /\ ~legal(m, way) /\ got' = got /\ fault' = fault
      \/ /\ stage' = "flying" /\ transport = "dbus" /\ m.type \in MsgType
         /\ flight'.kind = "call" /\ flight'.member = m.type
         /\ flight'.args = arguments(m)
         /\ got' = got /\ fault' = fault
      \/ /\ stage' = "flying" /\ transport = "internal"
         /\ flight'.kind = "queued" /\ flight'.msg = m /\ got' = got
         /\ fault' = IF copyable(m) THEN fault ELSE "null"
      \/ /\ stage' = "handled" /\ transport = "internal" /\ heard(m) /\ got' = m
         /\ fault' = fault
      \/ /\ stage' = "dropped" /\ transport = "internal" /\ ~heard(m) /\ got' = got
         /\ fault' = fault
  <2>1. CASE DbusSend(m, wants)
    <3>1. CASE m.type \in MsgType
      <4>1. method_name(m.type) = m.type /\ m.type # NULL
            BY <3>1 DEF method_name, MsgType, NULL, Record, Possess, Notify
      <4>2. arguments(m) = compose_message(m)
            BY <3>1 DEF arguments, MsgType, Record, Possess, Notify
      <4>3. compose_message(m) # <<>>
        <5>1. \E n \in Nat : n >= 3 /\ Len(arguments(m)) = n
              BY <3>1, AllAgreed DEF Agreed, Tables, Matches
        <5>2. Len(<<>>) = 0 OBVIOUS
        <5>. QED BY <4>2, <5>1, <5>2
      <4>. QED BY <2>1, <3>1, <4>1, <4>2, <4>3 DEF DbusSend
    <3>2. CASE m.type \notin MsgType
      <4>1. stage' = "refused" /\ got' = got /\ fault' = fault
            BY <2>1, <3>2 DEF DbusSend, method_name
      <4>2. ~heard(m) BY <3>2 DEF heard
      <4>. QED BY <1>0, <4>1, <4>2
    <3>. QED BY <3>1, <3>2
  <2>2. CASE InternalSend(m, wants)
        BY <2>2 DEF InternalSend, HandlerCalled
  <2>. QED BY <2>1, <2>2 DEF Sends
<1>5. Outset'
  <2>1. stage' # "refused" \/ ~legal(m, way) BY <1>4
  <2>2. stage' \in {"refused", "flying", "handled", "dropped"} BY <1>4
  <2>. QED BY <1>1, <1>2, <1>3, <2>1, <2>2 DEF Outset
<1>6. Underway'
  <2>1. transport = "internal" => Handed(m) = m BY DEF Handed
  <2>. QED BY <1>1, <1>2, <1>3, <1>4, <2>1 DEF Underway
<1>7. Answering' BY <1>1, <1>2, <1>4 DEF Answering, AnswerIsTheHandlers
<1>8. References' BY <1>1, <1>2, <1>4 DEF References
<1>9. Faults'
  <2>1. ASSUME ~copyable(m) PROVE \E f \in strings(m.type) : m[f] = NULL
        BY <2>1, SharedStrings DEF copyable
  <2>. QED BY <1>1, <1>2, <1>4, <2>1 DEF Faults
<1>. QED BY <1>5, <1>6, <1>7, <1>8, <1>9 DEF Inv

LEMMA SubmitInv ==
    ASSUME Inv, NEW s \in Messages, NEW wants \in BOOLEAN,
           Connect(s, wants) \/ Send(s, wants) \/ Disconnect(s, wants)
    PROVE  Inv'
<1>0. role \in {"client", "manager"} BY DEF Inv, Outset
<1>1. At("idle") BY <1>0, Submitted
<1>2. PICK m, way :
         /\ Whole(m)
         /\ \/ Refuses(m, way, wants) /\ ~legal(m, way)
            \/ Sends(m, way, wants) /\ Proper(m, way)
            \/ Unset(m, way, wants)
      BY <1>0, Submitted
<1>3. /\ stage = "idle" /\ fault = "none" /\ got = NoMessage /\ told = Nothing
      /\ held = 0
      /\ transport \in {"dbus", "internal"} /\ role \in {"client", "manager"}
      BY <1>1 DEF At, Inv, Outset, Underway, Answering, References
<1>4. CASE Refuses(m, way, wants) /\ ~legal(m, way)
  <2>1. /\ stage' = "refused" /\ sent'.msg = m /\ sent'.way = way
        /\ transport' = transport /\ role' = role /\ held' = held /\ got' = got
        /\ told' = told /\ fault' = fault
        BY <1>4 DEF Refuses
  <2>2. ~legal(sent.msg, sent.way)' BY <1>4, <2>1, Kept
  <2>3. Outset' BY <1>2, <1>3, <2>1, <2>2 DEF Outset
  <2>4. Underway' /\ Answering' /\ References' /\ Faults'
        BY <1>3, <2>1 DEF Underway, Answering, AnswerIsTheHandlers, References, Faults
  <2>. QED BY <2>3, <2>4 DEF Inv
<1>5. CASE Sends(m, way, wants) /\ Proper(m, way)
      BY <1>1, <1>2, <1>5, SendInv
<1>6. CASE Unset(m, way, wants)
  <2>1. /\ stage' = stage /\ sent'.msg = m
        /\ transport' = transport /\ role' = role /\ held' = held /\ got' = got
        /\ told' = told /\ fault' = "null"
        /\ m.type = "register" /\ (m.app_id = NULL \/ m.klass = NULL)
        BY <1>6 DEF Unset
  <2>2. strings(m.type) = {"app_id", "klass"}
        BY <2>1 DEF strings, Record
  <2>3. Outset' /\ Underway' /\ Answering' /\ References'
        BY <1>3, <2>1 DEF Outset, Underway, Answering, AnswerIsTheHandlers, References
  <2>4. Faults' BY <2>1, <2>2 DEF Faults
  <2>. QED BY <2>3, <2>4 DEF Inv
<1>. QED BY <1>2, <1>4, <1>5, <1>6

LEMMA SetIdSent ==
    ASSUME Outset, stage \notin {"idle", "refused"}
    PROVE  Whole(sent.msg) /\ set_id = sent.msg.id
BY DEF Outset, Proper, set_id

LEMMA CalledInv == ASSUME Inv, MethodCalled PROVE Inv'
<1>. DEFINE m == sent.msg
            a == Arrived(m)
<1>1. /\ stage = "flying" /\ fault = "none" /\ flight.kind = "call"
      /\ transport' = transport /\ role' = role /\ sent' = sent
      /\ replied' = replied /\ told' = told /\ fault' = fault
      BY DEF MethodCalled, At
<1>2. /\ transport = "dbus" /\ flight.member = m.type /\ m.type \in MsgType
      /\ flight.args = arguments(m)
      BY <1>1 DEF Inv, Outset, Underway
<1>3. Whole(m) /\ set_id = m.id BY <1>1, SetIdSent DEF Inv
<1>4. /\ a # NoMessage /\ a.type = m.type /\ a.id = m.id
      /\ parse_message(flight.args) = a
      BY <1>2, <1>3, ArrivedWhole, Returned
<1>. HIDE DEF a
<1>5. method_name(a.type) = flight.member BY <1>2, <1>4 DEF method_name
<1>6. HandlerCalled(a) /\ held' = IF receiver = "manager" THEN 1 ELSE 0
      BY <1>3, <1>4, <1>5 DEF MethodCalled
<1>7. heard(a) <=> heard(m) BY <1>4 DEF heard
<1>8. /\ stage' = IF heard(m) THEN "handled" ELSE "dropped"
      /\ got' = IF heard(m) THEN a ELSE got
      BY <1>6, <1>7 DEF HandlerCalled
<1>9. /\ heard(sent.msg)' <=> heard(m)
      /\ legal(sent.msg, sent.way)' <=> legal(m, sent.way)
      /\ Proper(sent.msg, sent.way)' <=> Proper(m, sent.way)
      /\ Handed(sent.msg)' = Handed(m)
      /\ receiver' = receiver
      BY <1>1, Kept
<1>10. Handed(m) = a BY <1>2 DEF Handed, a
<1>11. got = NoMessage /\ told = Nothing BY <1>1 DEF Inv, Underway, Answering
<1>12. Outset' BY <1>1, <1>8, <1>9 DEF Inv, Outset
<1>13. Underway' BY <1>1, <1>8, <1>9, <1>10, <1>11 DEF Underway
<1>14. Answering' BY <1>1, <1>8, <1>11 DEF Answering, AnswerIsTheHandlers
<1>15. References' BY <1>1, <1>2, <1>6, <1>8, <1>9 DEF References
<1>16. Faults' BY <1>1 DEF Faults
<1>. QED BY <1>12, <1>13, <1>14, <1>15, <1>16 DEF Inv

LEMMA DequeuedInv == ASSUME Inv, Dequeued PROVE Inv'
<1>. DEFINE m == sent.msg
<1>1. /\ stage = "flying" /\ fault = "none" /\ flight.kind = "queued"
      /\ transport' = transport /\ role' = role /\ sent' = sent /\ flight' = flight
      /\ replied' = replied /\ told' = told /\ held' = held
      BY DEF Dequeued, At
<1>2. transport = "internal" /\ flight.msg = m
      BY <1>1 DEF Inv, Outset, Underway
<1>3. /\ stage' = IF heard(m) THEN "handled" ELSE "dropped"
      /\ got' = IF heard(m) THEN m ELSE got
      /\ fault' = fault \/ (fault' = "dangling" /\ \E f \in shared(m.type) : TRUE)
  <2>1. HandlerCalled(m) BY <1>2 DEF Dequeued
  <2>2. \/ fault' = fault
        \/ fault' = "dangling" /\ \E f \in shared(m.type) : TRUE
        BY <1>2 DEF Dequeued
  <2>. QED BY <2>1, <2>2 DEF HandlerCalled
<1>4. /\ heard(sent.msg)' <=> heard(m)
      /\ legal(sent.msg, sent.way)' <=> legal(m, sent.way)
      /\ Proper(sent.msg, sent.way)' <=> Proper(m, sent.way)
      /\ Handed(sent.msg)' = Handed(m)
      /\ receiver' = receiver
      BY <1>1, Kept
<1>5. Handed(m) = m BY <1>2 DEF Handed
<1>6. got = NoMessage /\ told = Nothing /\ held = 0
      BY <1>1 DEF Inv, Underway, Answering, References
<1>7. Outset' BY <1>1, <1>3, <1>4 DEF Inv, Outset
<1>8. Underway' BY <1>1, <1>3, <1>4, <1>5, <1>6 DEF Underway
<1>9. Answering' BY <1>1, <1>3, <1>6 DEF Answering, AnswerIsTheHandlers
<1>10. References' BY <1>1, <1>2, <1>3, <1>6 DEF References
<1>11. Faults' BY <1>1, <1>3, SharedStrings DEF Faults
<1>. QED BY <1>7, <1>8, <1>9, <1>10, <1>11 DEF Inv

LEMMA ForgetInv == ASSUME Inv, Forget PROVE Inv'
<1>1. UNCHANGED <<transport, role, stage, sent, flight, held, got, replied, told, fault>>
      BY DEF Forget
<1>2. /\ heard(sent.msg)' <=> heard(sent.msg)
      /\ legal(sent.msg, sent.way)' <=> legal(sent.msg, sent.way)
      /\ Proper(sent.msg, sent.way)' <=> Proper(sent.msg, sent.way)
      /\ Handed(sent.msg)' = Handed(sent.msg)
      /\ receiver' = receiver
      BY <1>1, Kept
<1>3. Answering'
  <2>1. \A e, t : StatusMessage(e, t)' = StatusMessage(e, t)
        BY <1>1 DEF StatusMessage, set_id
  <2>. QED BY <1>1, <2>1 DEF Inv, Answering, AnswerIsTheHandlers, StatusMessage, set_id
<1>4. Outset' /\ Underway' /\ References' /\ Faults'
      BY <1>1, <1>2 DEF Inv, Outset, Underway, References, Faults
<1>. QED BY <1>3, <1>4 DEF Inv

(* The answer is a message like others. *)
LEMMA StatusWhole ==
    ASSUME NEW errcod, NEW errmsg
    PROVE  LET s == StatusMessage(errcod, errmsg)
           IN  /\ Whole(s) /\ s.type = "status"
               /\ Arrived(s).type = "status" /\ Arrived(s).id = set_id
               /\ Arrived(s).reqno = sent.msg.reqno
               /\ Arrived(s).errcod = errcod /\ Arrived(s).errmsg = text(errmsg)
<1>. DEFINE s == StatusMessage(errcod, errmsg)
            w == <<<<"int32", "errcod">>, <<"string", "errmsg">>>>
<1>1. /\ s.type = "status" /\ s.id = set_id /\ s.reqno = sent.msg.reqno
      /\ s.errcod = errcod /\ s.errmsg = errmsg
      /\ DOMAIN s = {"type", "id", "reqno", "errcod", "errmsg"}
      /\ s = [f \in DOMAIN s |-> s[f]]
      BY DEF StatusMessage
<1>2. "status" \notin Record /\ "status" \notin Possess /\ "status" \notin Notify
      BY DEF Record, Possess, Notify
<1>3. fields("status") = Head3 \o w /\ strings("status") = {"errmsg"}
      BY <1>2 DEF fields, strings
<1>4. {fields("status")[i][2] : i \in DOMAIN fields("status")} = DOMAIN s
  <2>. DEFINE T == {<<"int32", "type">>, <<"uint32", "id">>, <<"uint32", "reqno">>,
                    <<"int32", "errcod">>, <<"string", "errmsg">>}
              g == Head3 \o w
  <2>0. g = <<<<"int32", "type">>, <<"uint32", "id">>, <<"uint32", "reqno">>>> \o w
        BY DEF Head3
  <2>1. fields("status") = g BY <1>3
  <2>10. w \in Seq(T) OBVIOUS
  <2>2. /\ Len(w) = 2
        /\ w[1] = <<"int32", "errcod">> /\ w[2] = <<"string", "errmsg">>
        OBVIOUS
  <2>3. <<"int32", "type">> \in T /\ <<"uint32", "id">> \in T /\ <<"uint32", "reqno">> \in T
        OBVIOUS
  <2>. HIDE DEF T, w, g
  <2>4. /\ g \in Seq(T) /\ Len(g) = 3 + Len(w)
        /\ g[1] = <<"int32", "type">> /\ g[2] = <<"uint32", "id">>
        /\ g[3] = <<"uint32", "reqno">>
        /\ \A i \in 1..Len(g) : i > 3 => i - 3 \in 1..Len(w) /\ g[i] = w[i - 3]
        BY <2>0, <2>10, <2>3, Joined
  <2>5. DOMAIN g = 1..5 /\ g[4] = w[4 - 3] /\ g[5] = w[5 - 3] BY <2>2, <2>4
  <2>6. DOMAIN g = {1, 2, 3, 4, 5} BY <2>5
  <2>7. /\ g[1][2] = "type" /\ g[2][2] = "id" /\ g[3][2] = "reqno"
        /\ g[4][2] = "errcod" /\ g[5][2] = "errmsg"
        BY <2>2, <2>4, <2>5
  <2>8. {g[i][2] : i \in {1, 2, 3, 4, 5}} = {"type", "id", "reqno", "errcod", "errmsg"}
    <3>1. \A i \in {1, 2, 3, 4, 5} :
             g[i][2] \in {"type", "id", "reqno", "errcod", "errmsg"}
          BY <2>7
    <3>2. \A f \in {"type", "id", "reqno", "errcod", "errmsg"} :
             \E i \in {1, 2, 3, 4, 5} : g[i][2] = f
          BY <2>7
    <3>. QED BY <3>1, <3>2
  <2>9. {g[i][2] : i \in DOMAIN g} = DOMAIN s BY <1>1, <2>6, <2>8
  <2>. QED BY <2>1, <2>9
<1>. HIDE DEF s
<1>5. Whole(s) BY <1>1, <1>4 DEF Whole
<1>6. /\ Arrived(s).type = "status" /\ Arrived(s).id = set_id
      /\ Arrived(s).reqno = sent.msg.reqno
      BY <1>1, <1>5, ArrivedWhole
<1>7. /\ Arrived(s).errcod = wired(s, "errcod")
      /\ Arrived(s).errmsg = wired(s, "errmsg")
      BY <1>1, <1>5, ArrivedWhole
<1>8. wired(s, "errcod") = errcod /\ wired(s, "errmsg") = text(errmsg)
      BY <1>1, <1>3 DEF wired
<1>. QED BY <1>1, <1>5, <1>6, <1>7, <1>8 DEF s

LEMMA ReplyInv == ASSUME Inv, Reply PROVE Inv'
<1>. DEFINE m == sent.msg
<1>1. /\ stage = "handled" /\ fault = "none"
      /\ transport' = transport /\ role' = role /\ sent' = sent
      /\ got' = got /\ told' = told /\ held' = 0
      /\ fault' = IF transport = "dbus" /\ held = 0 THEN "released" ELSE fault
      BY DEF Reply, At
<1>2. /\ transport \in {"dbus", "internal"} /\ role \in {"client", "manager"}
      /\ heard(m) /\ got = Handed(m) /\ told = Nothing
      BY <1>1 DEF Inv, Outset, Underway, Answering
<1>3. got.reqno = m.reqno
  <2>1. Whole(m) BY <1>1, SetIdSent DEF Inv
  <2>. QED BY <1>2, <2>1, ArrivedWhole DEF Handed
<1>4. PICK r \in Replies :
         LET status == [type |-> "status", id |-> set_id, reqno |-> got.reqno,
                        errcod |-> r.errcod, errmsg |-> r.errmsg]
         IN  /\ replied' = [kind |-> "reply", errcod |-> r.errcod, errmsg |-> r.errmsg]
             /\ stage' = IF flight.reply THEN "answered" ELSE "done"
             /\ flight' =
                   CASE ~flight.reply -> Nothing
                     [] flight.reply /\ transport = "dbus" ->
                            [kind |-> "return", args |-> reply_message(status)]
                     [] OTHER ->
                            [kind |-> "answer", errcod |-> r.errcod,
                             errmsg |-> IF r.errmsg = NULL THEN "" ELSE r.errmsg]
      BY DEF Reply
<1>. DEFINE s == StatusMessage(r.errcod, r.errmsg)
<1>5. replied'.errcod = r.errcod /\ replied'.errmsg = r.errmsg BY <1>4
<1>6. arguments(s) = reply_message(s) BY StatusWhole DEF arguments
<1>7. s = [type |-> "status", id |-> set_id, reqno |-> got.reqno,
           errcod |-> r.errcod, errmsg |-> r.errmsg]
      BY <1>3 DEF StatusMessage
<1>8. StatusMessage(replied.errcod, replied.errmsg)' = s
      BY <1>1, <1>5 DEF StatusMessage, set_id
<1>. HIDE DEF s
<1>9. /\ stage' \in {"answered", "done"}
      /\ stage' = "answered" /\ transport = "dbus" =>
            flight'.kind = "return" /\ flight'.args = arguments(s)
      /\ stage' = "answered" /\ transport = "internal" =>
            /\ flight'.kind = "answer" /\ flight'.errcod = r.errcod
            /\ flight'.errmsg = text(r.errmsg)
  <2>1. CASE ~flight.reply BY <1>4, <2>1
  <2>2. CASE flight.reply /\ transport = "dbus"
    <3>1. flight' = [kind |-> "return", args |-> reply_message(s)]
          BY <1>4, <1>7, <2>2
    <3>. QED BY <1>4, <1>6, <2>2, <3>1
  <2>3. CASE flight.reply /\ transport = "internal"
    <3>1. flight' = [kind |-> "answer", errcod |-> r.errcod,
                     errmsg |-> IF r.errmsg = NULL THEN "" ELSE r.errmsg]
          BY <1>4, <2>3
    <3>2. /\ flight'.kind = "answer" /\ flight'.errcod = r.errcod
          /\ flight'.errmsg = text(r.errmsg)
          BY <3>1 DEF text
    <3>3. stage' = "answered" BY <1>4, <2>3
    <3>. QED BY <2>3, <3>2, <3>3
  <2>. QED BY <1>2, <2>1, <2>2, <2>3
<1>10. /\ heard(sent.msg)' <=> heard(m)
       /\ legal(sent.msg, sent.way)' <=> legal(m, sent.way)
       /\ Proper(sent.msg, sent.way)' <=> Proper(m, sent.way)
       /\ Handed(sent.msg)' = Handed(m)
       /\ receiver' = receiver
       BY <1>1, Kept
<1>11. Outset' BY <1>1, <1>9, <1>10 DEF Inv, Outset
<1>12. Underway' BY <1>1, <1>2, <1>9, <1>10 DEF Underway
<1>13. Answering'
       BY <1>1, <1>2, <1>5, <1>8, <1>9 DEF Answering, AnswerIsTheHandlers
<1>14. References' BY <1>1, <1>9 DEF References
<1>15. Faults'
  <2>1. fault' = "released" => transport = "dbus" /\ receiver = "client"
        BY <1>1, <1>2 DEF Inv, References, receiver
  <2>. QED BY <1>1, <1>10, <2>1 DEF Faults
<1>. QED BY <1>11, <1>12, <1>13, <1>14, <1>15 DEF Inv

LEMMA StatusInv == ASSUME Inv, Status PROVE Inv'
<1>. DEFINE m == sent.msg
            s == StatusMessage(replied.errcod, replied.errmsg)
<1>1. /\ stage = "answered" /\ stage' = "done" /\ fault = "none"
      /\ transport' = transport /\ role' = role /\ sent' = sent /\ held' = held
      /\ got' = got /\ replied' = replied /\ fault' = fault
      BY DEF Status, At
<1>2. /\ transport \in {"dbus", "internal"} /\ heard(m) /\ got = Handed(m)
      /\ told = Nothing
      BY <1>1 DEF Inv, Outset, Underway, Answering
<1>3. told' = Told(m.reqno, replied.errcod, text(replied.errmsg))
  <2>1. CASE transport = "dbus"
    <3>1. flight.kind = "return" /\ flight.args = arguments(s)
          BY <1>1, <2>1 DEF Inv, Answering
    <3>. DEFINE a == Arrived(s)
    <3>2. Whole(s) /\ a.type = "status" /\ a.id = set_id /\ a.reqno = m.reqno
          /\ a.errcod = replied.errcod /\ a.errmsg = text(replied.errmsg)
          BY StatusWhole
    <3>. HIDE DEF s
    <3>3. parse_message(flight.args) = a BY <3>1, <3>2, Returned
    <3>. HIDE DEF a
    <3>. QED BY <3>1, <3>2, <3>3 DEF Status
  <2>2. CASE transport = "internal"
    <3>1. /\ flight.kind = "answer" /\ flight.errcod = replied.errcod
          /\ flight.errmsg = text(replied.errmsg)
          BY <1>1, <2>2 DEF Inv, Answering
    <3>. QED BY <3>1 DEF Status
  <2>. QED BY <1>2, <2>1, <2>2
<1>4. /\ heard(sent.msg)' <=> heard(m)
      /\ legal(sent.msg, sent.way)' <=> legal(m, sent.way)
      /\ Proper(sent.msg, sent.way)' <=> Proper(m, sent.way)
      /\ Handed(sent.msg)' = Handed(m)
      /\ receiver' = receiver
      BY <1>1, Kept
<1>5. Outset' BY <1>1, <1>4 DEF Inv, Outset
<1>6. Underway' BY <1>1, <1>2, <1>4 DEF Underway
<1>7. Answering'
  <2>1. told' # Nothing => /\ told'.reqno = m.reqno
                           /\ told'.errcod = replied.errcod
                           /\ told'.errmsg = text(replied.errmsg)
        BY <1>2, <1>3 DEF Told
  <2>. QED BY <1>1, <2>1 DEF Answering, AnswerIsTheHandlers
<1>8. References' BY <1>1 DEF Inv, References
<1>9. Faults' BY <1>1 DEF Faults
<1>. QED BY <1>5, <1>6, <1>7, <1>8, <1>9 DEF Inv

LEMMA NextInv == ASSUME Inv, [Next]_vars PROVE Inv'
<1>1. CASE UNCHANGED vars
  <2>1. /\ transport' = transport /\ role' = role /\ stage' = stage /\ sent' = sent
        /\ flight' = flight /\ held' = held /\ got' = got /\ replied' = replied
        /\ told' = told /\ fault' = fault
        BY <1>1 DEF vars
  <2>. QED BY <2>1 DEF Inv, Outset, Underway, Answering, References, Faults,
                       AnswerIsTheHandlers, StatusMessage, set_id, heard, legal,
                       Proper, Handed, receiver
<1>. QED BY <1>1, SubmitInv, ForgetInv, CalledInv, DequeuedInv, ReplyInv, StatusInv
         DEF Next

LEMMA InvAlways == Spec => []Inv
BY InitInv, NextInv, PTL DEF Spec
-----------------------------------------------------------------------------
(* The handler is called with what was sent, field by field, whichever     *)
(* transport took it: composing and parsing agree for every message, and   *)
(* the copy of one that waits is complete.                                 *)
THEOREM HandedOverIntactAlways == Spec => []HandedOverIntact
<1>1. Inv => HandedOverIntact
  <2>. SUFFICES ASSUME Inv, got # NoMessage PROVE HandedOverIntact
       BY DEF HandedOverIntact
  <2>. DEFINE m == sent.msg
  <2>1. Whole(m) /\ got = Handed(m) BY DEF Inv, Outset, Underway
  <2>2. CASE transport = "dbus"
    <3>1. got = Arrived(m) BY <2>1, <2>2 DEF Handed
    <3>2. DOMAIN got = DOMAIN m /\ got.type = m.type
          /\ \A f \in DOMAIN m : got[f] = wired(m, f)
          BY <2>1, <3>1, ArrivedWhole
    <3>. QED BY <2>2, <3>2 DEF HandedOverIntact, wired
  <2>3. CASE transport # "dbus"
    <3>1. got = m BY <2>1, <2>3 DEF Handed
    <3>. QED BY <2>3, <3>1 DEF HandedOverIntact
  <2>. QED BY <2>2, <2>3
<1>. QED BY <1>1, InvAlways, PTL

(* Exactly the legal messages reach a handler, over both transports: the   *)
(* tables of valid messages, method names and arguments agree on every     *)
(* type, and what is not legal is refused or dropped.                      *)
THEOREM ExactlyTheLegalArriveAlways == Spec => []ExactlyTheLegalArrive
<1>1. Inv => ExactlyTheLegalArrive
  <2>. SUFFICES ASSUME Inv PROVE ExactlyTheLegalArrive OBVIOUS
  <2>1. stage \in {"handled", "dropped", "answered", "done"} =>
           (legal(sent.msg, sent.way) <=> heard(sent.msg))
        BY LegalHeard DEF Inv, Outset
  <2>. QED BY <2>1 DEF Inv, Outset, Underway, ExactlyTheLegalArrive
<1>. QED BY <1>1, InvAlways, PTL

(* The status callback is told what the handler of its own message         *)
(* answered, for every answer, over both transports.                       *)
THEOREM AnswerIsTheHandlersAlways == Spec => []AnswerIsTheHandlers
<1>1. Inv => AnswerIsTheHandlers BY DEF Inv, Answering
<1>. QED BY <1>1, InvAlways, PTL

(* Undefined behaviour comes from nowhere but the places named: a missing  *)
(* string that is copied, app_id of an AUDIO message that waits, a client  *)
(* that answers its manager over D-Bus; and a reference to a D-Bus call    *)
(* outlives it only in a manager that had no handler for it.               *)
THEOREM FaultsAreKnownAlways == Spec => []FaultsAreKnown
<1>1. Inv => FaultsAreKnown
  <2>. SUFFICES ASSUME Inv PROVE FaultsAreKnown OBVIOUS
  <2>1. held > 0 => held = 1 BY DEF Inv, References
  <2>. QED BY <2>1 DEF Inv, Underway, References, Faults, FaultsAreKnown
<1>. QED BY <1>1, InvAlways, PTL
=============================================================================
