-------------------------- MODULE DbusManagerProofs --------------------------
(***************************************************************************)
(* The safety properties of DbusManager hold for any clients, ids and      *)
(* bounds.  The inductive invariant adds to them that the manager's        *)
(* records are never merely "created", that the end of a living client is  *)
(* never announced, and that a client is followed as long as any record of *)
(* it is in the list, also a killed one: that is what the search after an  *)
(* UNREGISTER looks for.                                                   *)
(***************************************************************************)
EXTENDS DbusManager, TLAPS, SequenceTheorems

Accounted(r, pending) ==
    /\ r.state # "created"
    /\ r.refcnt = 2 * pending + (IF r.state = "connected" THEN 1 ELSE 0)
    /\ (r.state = "freed") = (r.refcnt = 0)

(* What the operations of res-set.c do to a record, given by its fields.   *)
LEMMA Fields ==
    ASSUME NEW r \in Rset
    PROVE  /\ r = [state |-> r.state, refcnt |-> r.refcnt]
           /\ r.state \in RsetState /\ r.refcnt \in Nat
BY DEF Rset

LEMMA UnrefFields ==
    ASSUME NEW r \in Rset
    PROVE  /\ r.refcnt <= 1 => resset_unref(r) = Freed
           /\ r.refcnt > 1 => resset_unref(r) = [state |-> r.state,
                                                refcnt |-> r.refcnt - 1]
           /\ resset_unref(r) \in Rset
<1>1. r = [state |-> r.state, refcnt |-> r.refcnt]
      /\ r.state \in RsetState /\ r.refcnt \in Nat
      BY Fields
<1>2. [r EXCEPT !.refcnt = @ - 1] = [state |-> r.state, refcnt |-> r.refcnt - 1]
      BY <1>1
<1>3. Freed \in Rset BY DEF Freed, Rset, RsetState
<1>4. CASE r.refcnt <= 1 BY <1>1, <1>3, <1>4 DEF resset_unref
<1>5. CASE r.refcnt > 1
  <2>1. resset_unref(r) = [state |-> r.state, refcnt |-> r.refcnt - 1]
        BY <1>1, <1>2, <1>5 DEF resset_unref
  <2>2. r.refcnt - 1 \in Nat BY <1>1, <1>5
  <2>. QED BY <1>1, <1>5, <2>1, <2>2 DEF Rset
<1>. QED BY <1>1, <1>4, <1>5

(* ... and to an accounted one: resset_create, resset_destroy, a message   *)
(* with a callback, and its answer.                                        *)
LEMMA CreateAccounted ==
    /\ resset_create("connected") \in Rset
    /\ Accounted(resset_create("connected"), 0)
    /\ resset_create("connected").state = "connected"
BY DEF resset_create, Rset, RsetState, Accounted

LEMMA DestroyAccounted ==
    ASSUME NEW r \in Rset, NEW n \in Nat, Accounted(r, n)
    PROVE  /\ resset_destroy(r) \in Rset
           /\ Accounted(resset_destroy(r), n)
           /\ resset_destroy(r).state \in {"freed", "killed"}
<1>1. r.state \in RsetState /\ r.refcnt \in Nat BY Fields
<1>2. CASE r.state = "killed" BY <1>2 DEF resset_destroy
<1>3. CASE r.state # "killed"
  <2>. DEFINE k == [r EXCEPT !.state = "killed"]
  <2>1. k \in Rset /\ k.state = "killed" /\ k.refcnt = r.refcnt
        BY DEF Rset, RsetState
  <2>2. resset_destroy(r) = resset_unref(k) BY <1>3 DEF resset_destroy
  <2>. HIDE DEF k
  <2>3. CASE r.refcnt <= 1
    <3>1. n = 0 BY <1>1, <1>3, <2>3 DEF Accounted
    <3>2. resset_destroy(r) = Freed BY <2>1, <2>2, <2>3, UnrefFields
    <3>. QED BY <3>1, <3>2 DEF Freed, Accounted, Rset, RsetState
  <2>4. CASE r.refcnt > 1
    <3>1. resset_destroy(r) = [state |-> "killed", refcnt |-> r.refcnt - 1]
          BY <2>1, <2>2, <2>4, UnrefFields
    <3>2. r.state = "connected" /\ r.refcnt = 2 * n + 1
          BY <1>1, <1>3, <2>4 DEF Accounted, RsetState
    <3>3. r.refcnt - 1 = 2 * n /\ 2 * n # 0 /\ 2 * n \in Nat BY <2>4, <3>2
    <3>. QED BY <3>1, <3>3 DEF Accounted, Rset, RsetState
  <2>. QED BY <1>1, <2>3, <2>4
<1>. QED BY <1>2, <1>3

LEMMA SendAccounted ==
    ASSUME NEW r \in Rset, NEW n \in Nat, Accounted(r, n), r.state = "connected"
    PROVE  /\ resset_ref(resset_ref(r)) \in Rset
           /\ Accounted(resset_ref(resset_ref(r)), n + 1)
           /\ resset_ref(resset_ref(r)).state = "connected"
<1>. DEFINE b == resset_ref(resset_ref(r))
<1>1. r.refcnt \in Nat /\ r.refcnt = 2 * n + 1 BY Fields DEF Accounted
<1>2. ASSUME NEW q \in Rset
      PROVE  /\ resset_ref(q) \in Rset
             /\ resset_ref(q).state = q.state
             /\ resset_ref(q).refcnt = q.refcnt + 1
      BY DEF resset_ref, Rset
<1>3. b \in Rset /\ b.state = "connected" /\ b.refcnt = (r.refcnt + 1) + 1
      BY <1>2
<1>. HIDE DEF b
<1>4. b.refcnt = 2 * (n + 1) + 1 /\ b.refcnt # 0 BY <1>1, <1>3
<1>5. Accounted(b, n + 1) BY <1>3, <1>4 DEF Accounted
<1>. QED BY <1>3, <1>5 DEF b

LEMMA AnswerAccounted ==
    ASSUME NEW r \in Rset, NEW n \in Nat, n > 0, Accounted(r, n)
    PROVE  /\ resset_unref(resset_unref(r)) \in Rset
           /\ Accounted(resset_unref(resset_unref(r)), n - 1)
           /\ (resset_unref(resset_unref(r)).state = "connected")
                 = (r.state = "connected")
           /\ r.state # "freed"
<1>. DEFINE a == resset_unref(r)
            b == resset_unref(a)
<1>1. r.state \in RsetState /\ r.refcnt \in Nat BY Fields
<1>2. r.refcnt >= 2 * n /\ r.refcnt <= 2 * n + 1 BY <1>1 DEF Accounted
<1>3. a = [state |-> r.state, refcnt |-> r.refcnt - 1] /\ a \in Rset
      BY <1>1, <1>2, UnrefFields
<1>4. a.state = r.state /\ a.refcnt = r.refcnt - 1 BY <1>3
<1>5. r.state # "freed" /\ n - 1 \in Nat BY <1>1, <1>2 DEF Accounted
<1>6. b \in Rset /\ (a.refcnt <= 1 => b = Freed)
      /\ (a.refcnt > 1 => b = [state |-> a.state, refcnt |-> a.refcnt - 1])
      BY <1>3, UnrefFields
<1>. HIDE DEF a, b
<1>7. CASE a.refcnt <= 1
  <2>1. n = 1 /\ r.refcnt = 2 /\ r.state # "connected"
        BY <1>1, <1>2, <1>4, <1>7 DEF Accounted
  <2>2. b = Freed BY <1>6, <1>7
  <2>. QED BY <1>5, <1>6, <2>1, <2>2 DEF Freed, Accounted, a, b
<1>8. CASE a.refcnt > 1
  <2>1. b.state = r.state /\ b.refcnt = r.refcnt - 2
        BY <1>1, <1>4, <1>6, <1>8
  <2>2. r.refcnt - 2 = 2 * (n - 1) + (IF r.state = "connected" THEN 1 ELSE 0)
        BY <1>1 DEF Accounted
  <2>3. r.refcnt - 2 # 0 BY <1>1, <1>4, <1>8
  <2>. QED BY <1>5, <1>6, <2>1, <2>2, <2>3 DEF Accounted, a, b
<1>. QED BY <1>1, <1>4, <1>7, <1>8
-----------------------------------------------------------------------------
(* The parts of the invariant, by the variables they speak of.             *)
RecordsInv ==
    /\ rsets \in [Clients -> [Ids -> Rset]]
    /\ replies \in [Clients -> [Ids -> Nat]]
    /\ \A c \in Clients, i \in Ids : Accounted(rsets[c][i], replies[c][i])

FollowedInv == \A c \in alive \ refused : found(rsets[c]) => watch[c] > 0

InqInv ==
    /\ inq \in Seq(Call \cup Gone)
    /\ \A k \in 1..Len(inq) : inq[k].kind = "gone" => inq[k].peer \notin alive

RestType ==
    /\ watch \in [Clients -> Nat] /\ alive \subseteq Clients
    /\ policy \subseteq Clients \X Ids
    /\ calls \in Nat /\ sends \in Nat
    /\ unseen \subseteq Clients /\ refused \subseteq Clients

ManagerInv == RecordsInv /\ PolicyInStep /\ FollowedInv /\ InqInv /\ RestType

LEMMA InitManager == Init => ManagerInv
<1>. SUFFICES ASSUME Init PROVE ManagerInv
     OBVIOUS
<1>1. Freed \in Rset /\ Accounted(Freed, 0) /\ Freed.state = "freed"
      BY DEF Freed, Rset, RsetState, Accounted
<1>2. RecordsInv BY <1>1 DEF Init, RecordsInv
<1>3. PolicyInStep BY <1>1 DEF Init, PolicyInStep
<1>4. FollowedInv BY <1>1 DEF Init, FollowedInv, found, resset_find
<1>5. InqInv BY DEF Init, InqInv
<1>6. RestType BY DEF Init, RestType
<1>. QED BY <1>2, <1>3, <1>4, <1>5, <1>6 DEF ManagerInv

(* The message that is dispatched, and those that remain.                  *)
LEMMA DispatchInq ==
    ASSUME InqInv, NEW kind, Dispatch(kind)
    PROVE  /\ InqInv'
           /\ kind = "gone" => /\ Head(inq) \in Gone
                               /\ Head(inq).peer \in Clients \ alive
           /\ kind # "gone" => /\ Head(inq) \in Call
                               /\ Head(inq).peer \in Clients
                               /\ Head(inq).id \in Ids
<1>1. inq # <<>> /\ inq \in Seq(Call \cup Gone) /\ Head(inq).kind = kind
      /\ inq' = Tail(inq) /\ alive' = alive
      BY DEF Dispatch, InqInv
<1>2. Head(inq) \in Call \cup Gone /\ Head(inq) = inq[1] /\ 1 \in 1..Len(inq)
      BY <1>1
<1>3. inq' \in Seq(Call \cup Gone) /\ Len(inq') = Len(inq) - 1
      /\ \A k \in 1..Len(inq') : inq'[k] = inq[k + 1] /\ k + 1 \in 1..Len(inq)
      BY <1>1, HeadTailProperties
<1>4. InqInv' BY <1>1, <1>3 DEF InqInv
<1>5. \A m \in Call : m.kind # "gone" /\ m.peer \in Clients /\ m.id \in Ids
      BY DEF Call
<1>6. \A m \in Gone : m.kind = "gone" /\ m.peer \in Clients BY DEF Gone
<1>. QED BY <1>1, <1>2, <1>4, <1>5, <1>6 DEF InqInv

LEMMA RegisterStep ==
    ASSUME ManagerInv, Register
    PROVE  ManagerInv'
<1>. DEFINE c == Head(inq).peer
            i == Head(inq).id
            r == resset_create("connected")
<1>1. c \in Clients /\ i \in Ids /\ InqInv'
      BY DispatchInq DEF Register, ManagerInv
<1>2. r \in Rset /\ Accounted(r, 0) /\ r.state = "connected"
      BY CreateAccounted
<1>3. alive' = alive /\ calls' = calls /\ sends' = sends
      BY DEF Register, Dispatch
<1>4. CASE resset_find(rsets[c][i])
  <2>1. UNCHANGED <<rsets, replies, watch, policy, unseen, refused>>
        BY <1>4 DEF Register
  <2>. QED BY <1>1, <1>3, <2>1
           DEF ManagerInv, RecordsInv, PolicyInStep, FollowedInv, RestType
<1>5. CASE ~resset_find(rsets[c][i])
  <2>. HIDE DEF c, i, r
  <2>1. /\ rsets' = [rsets EXCEPT ![c][i] = r]
        /\ replies' = replies
        /\ unseen' = IF c \in alive \/ gone_queued(c)
                     THEN unseen ELSE unseen \cup {c}
        BY <1>5 DEF Register, c, i, r
  <2>2. PICK ok \in IF found(rsets[c]) THEN {TRUE} ELSE MatchOutcome :
           /\ watch' = IF ok /\ ~found(rsets[c])
                       THEN [watch EXCEPT ![c] = @ + 1] ELSE watch
           /\ policy' = IF ok THEN policy \cup {<<c, i>>} ELSE policy
           /\ refused' = IF ok THEN refused ELSE refused \cup {c}
        BY <1>5 DEF Register, c, i
  <2>3. replies[c][i] = 0
    <3>1. rsets[c][i] \in Rset /\ Accounted(rsets[c][i], replies[c][i])
          /\ replies[c][i] \in Nat
          BY <1>1 DEF ManagerInv, RecordsInv
    <3>. QED BY <1>5, <3>1 DEF Accounted, resset_find
  <2>4. /\ \A d \in Clients, j \in Ids :
              rsets'[d][j] = IF d = c /\ j = i THEN r ELSE rsets[d][j]
        /\ \A d \in Clients \ {c} : rsets'[d] = rsets[d]
        BY <1>1, <2>1 DEF ManagerInv, RecordsInv
  <2>5. RecordsInv'
    <3>1. rsets' \in [Clients -> [Ids -> Rset]]
          BY <1>1, <1>2, <2>1 DEF ManagerInv, RecordsInv
    <3>. QED BY <1>2, <2>1, <2>3, <2>4, <3>1 DEF ManagerInv, RecordsInv
  <2>6. PolicyInStep'
    <3>. SUFFICES ASSUME NEW d \in Clients \ refused', NEW j \in Ids
                  PROVE  (<<d, j>> \in policy') = (rsets'[d][j].state = "connected")
         BY DEF PolicyInStep
    <3>1. d \notin refused BY <2>2
    <3>2. CASE d = c /\ j = i BY <1>2, <2>2, <2>4, <3>2
    <3>3. CASE ~(d = c /\ j = i)
          BY <2>2, <2>4, <3>1, <3>3 DEF ManagerInv, PolicyInStep
    <3>. QED BY <3>2, <3>3
  <2>7. FollowedInv'
    <3>. SUFFICES ASSUME NEW d \in alive \ refused', found(rsets'[d])
                  PROVE  watch'[d] > 0
         BY <1>3 DEF FollowedInv
    <3>1. d \in Clients /\ d \notin refused /\ watch \in [Clients -> Nat]
          BY <2>2 DEF ManagerInv, RestType
    <3>2. CASE d = c BY <2>2, <3>1, <3>2 DEF ManagerInv, FollowedInv
    <3>3. CASE d # c BY <2>2, <2>4, <3>1, <3>3 DEF ManagerInv, FollowedInv
    <3>. QED BY <3>2, <3>3
  <2>8. RestType'
        BY <1>1, <1>3, <2>1, <2>2, ManagerAssumption DEF ManagerInv, RestType
  <2>. QED BY <1>1, <2>5, <2>6, <2>7, <2>8 DEF ManagerInv
<1>. QED BY <1>4, <1>5

LEMMA RuleRemoved ==
    ASSUME NEW w \in [Clients -> Nat], NEW c \in Clients
    PROVE  [w EXCEPT ![c] = rule_removed(@)] \in [Clients -> Nat]
BY DEF rule_removed

LEMMA UnregisterStep ==
    ASSUME ManagerInv, Unregister
    PROVE  ManagerInv'
<1>. DEFINE c == Head(inq).peer
            i == Head(inq).id
            left == [rsets[c] EXCEPT ![i] = resset_destroy(@)]
            r == resset_destroy(rsets[c][i])
<1>1. c \in Clients /\ i \in Ids /\ InqInv'
      BY DispatchInq DEF Unregister, ManagerInv
<1>2. /\ alive' = alive /\ calls' = calls /\ sends' = sends
      /\ replies' = replies /\ unseen' = unseen /\ refused' = refused
      BY DEF Unregister, Dispatch
<1>3. CASE ~resset_find(rsets[c][i])
  <2>1. policy' = policy /\ rsets' = rsets /\ watch' = watch
        BY <1>3 DEF Unregister
  <2>. QED BY <1>1, <1>2, <2>1
           DEF ManagerInv, RecordsInv, PolicyInStep, FollowedInv, RestType
<1>4. CASE resset_find(rsets[c][i])
  <2>1. /\ policy' = policy \ {<<c, i>>}
        /\ rsets' = [rsets EXCEPT ![c] = left]
        /\ watch' = watch_without(c, left)
        BY <1>4 DEF Unregister
  <2>2. /\ r \in Rset /\ Accounted(r, replies[c][i])
        /\ r.state \in {"freed", "killed"}
        BY <1>1, DestroyAccounted DEF ManagerInv, RecordsInv
  <2>3. /\ left \in [Ids -> Rset]
        /\ \A j \in Ids : left[j] = IF j = i THEN r ELSE rsets[c][j]
        BY <1>1, <2>2 DEF ManagerInv, RecordsInv
  <2>. HIDE DEF c, i, left, r
  <2>4. /\ \A d \in Clients, j \in Ids :
              rsets'[d][j] = IF d = c /\ j = i THEN r ELSE rsets[d][j]
        /\ \A d \in Clients \ {c} : rsets'[d] = rsets[d]
        /\ rsets'[c] = left
        BY <1>1, <2>1, <2>3 DEF ManagerInv, RecordsInv
  <2>5. RecordsInv'
        BY <1>1, <1>2, <2>1, <2>2, <2>3, <2>4 DEF ManagerInv, RecordsInv
  <2>6. PolicyInStep'
    <3>. SUFFICES ASSUME NEW d \in Clients \ refused, NEW j \in Ids
                  PROVE  (<<d, j>> \in policy') = (rsets'[d][j].state = "connected")
         BY <1>2 DEF PolicyInStep
    <3>1. CASE d = c /\ j = i BY <2>1, <2>2, <2>4, <3>1
    <3>2. CASE ~(d = c /\ j = i)
          BY <2>1, <2>4, <3>2 DEF ManagerInv, PolicyInStep
    <3>. QED BY <3>1, <3>2
  <2>7. watch' \in [Clients -> Nat]
        BY <1>1, <2>1, RuleRemoved DEF watch_without, ManagerInv, RestType
  <2>8. FollowedInv'
    <3>. SUFFICES ASSUME NEW d \in alive \ refused, found(rsets'[d])
                  PROVE  watch'[d] > 0
         BY <1>2 DEF FollowedInv
    <3>1. d \in Clients /\ watch \in [Clients -> Nat]
          BY DEF ManagerInv, RestType
    <3>2. CASE d = c
      <4>1. watch' = watch BY <2>1, <2>4, <3>2 DEF watch_without
      <4>2. found(rsets[c]) BY <1>1, <1>4 DEF found, c, i
      <4>. QED BY <3>2, <4>1, <4>2 DEF ManagerInv, FollowedInv
    <3>3. CASE d # c
      <4>1. watch'[d] = watch[d] BY <2>1, <3>1, <3>3 DEF watch_without
      <4>. QED BY <2>4, <3>1, <3>3, <4>1 DEF ManagerInv, FollowedInv
    <3>. QED BY <3>2, <3>3
  <2>9. RestType' BY <1>2, <2>1, <2>7 DEF ManagerInv, RestType
  <2>. QED BY <1>1, <2>5, <2>6, <2>8, <2>9 DEF ManagerInv
<1>. QED BY <1>3, <1>4

LEMMA NameChangedStep ==
    ASSUME ManagerInv, NameChanged
    PROVE  ManagerInv'
<1>. DEFINE c == Head(inq).peer
            left == link_down(rsets[c])
<1>1. c \in Clients /\ c \notin alive /\ InqInv'
      BY DispatchInq DEF NameChanged, ManagerInv
<1>2. /\ alive' = alive /\ calls' = calls /\ sends' = sends
      /\ replies' = replies /\ unseen' = unseen /\ refused' = refused
      BY DEF NameChanged, Dispatch
<1>3. /\ rsets' = [rsets EXCEPT ![c] = left]
      /\ policy' = policy \ told(c)
      /\ watch' = IF found(rsets[c])
                  THEN [watch EXCEPT ![c] = rule_removed(@)] ELSE watch
      BY DEF NameChanged
<1>4. \A j \in Ids : /\ left[j] \in Rset
                     /\ Accounted(left[j], replies[c][j])
                     /\ left[j].state \in {"freed", "killed"}
      BY <1>1, DestroyAccounted DEF ManagerInv, RecordsInv, link_down
<1>5. left \in [Ids -> Rset] BY <1>4 DEF link_down
<1>. HIDE DEF c, left
<1>6. rsets'[c] = left /\ \A d \in Clients \ {c} : rsets'[d] = rsets[d]
      BY <1>1, <1>3 DEF ManagerInv, RecordsInv
<1>7. RecordsInv'
      BY <1>1, <1>2, <1>3, <1>4, <1>5, <1>6 DEF ManagerInv, RecordsInv
<1>8. PolicyInStep'
  <2>. SUFFICES ASSUME NEW d \in Clients \ refused, NEW j \in Ids
                PROVE  (<<d, j>> \in policy') = (rsets'[d][j].state = "connected")
       BY <1>2 DEF PolicyInStep
  <2>1. CASE d = c
    <3>1. rsets'[d][j].state # "connected" BY <1>4, <1>6, <2>1
    <3>2. <<d, j>> \in policy => <<d, j>> \in told(c)
          BY <2>1 DEF ManagerInv, PolicyInStep, told, connected
    <3>. QED BY <1>3, <3>1, <3>2
  <2>2. CASE d # c
    <3>1. <<d, j>> \notin told(c) BY <2>2 DEF told
    <3>. QED BY <1>3, <1>6, <2>2, <3>1 DEF ManagerInv, PolicyInStep
  <2>. QED BY <2>1, <2>2
<1>9. FollowedInv'
  <2>. SUFFICES ASSUME NEW d \in alive \ refused, found(rsets'[d])
                PROVE  watch'[d] > 0
       BY <1>2 DEF FollowedInv
  <2>1. d \in Clients /\ d # c /\ watch \in [Clients -> Nat]
        BY <1>1 DEF ManagerInv, RestType
  <2>2. watch'[d] = watch[d] BY <1>3, <2>1
  <2>. QED BY <1>6, <2>1, <2>2 DEF ManagerInv, FollowedInv
<1>10. RestType'
       BY <1>1, <1>2, <1>3, RuleRemoved DEF ManagerInv, RestType
<1>. QED BY <1>1, <1>7, <1>8, <1>9, <1>10 DEF ManagerInv

LEMMA OtherCallStep ==
    ASSUME ManagerInv, OtherCall
    PROVE  ManagerInv'
<1>1. InqInv' BY DispatchInq DEF OtherCall, ManagerInv
<1>. QED BY <1>1 DEF OtherCall, Dispatch, ManagerInv, RecordsInv, PolicyInStep,
                     FollowedInv, RestType

LEMMA ClientStep ==
    ASSUME ManagerInv, NEW c \in Clients, ClientCalls(c) \/ ClientDies(c)
    PROVE  ManagerInv'
<1>1. ASSUME NEW m \in Call \cup Gone, m.kind = "gone" => m.peer \notin alive',
             alive' \subseteq alive, inq' = Append(inq, m)
      PROVE  InqInv'
  <2>1. /\ inq' \in Seq(Call \cup Gone) /\ Len(inq') = Len(inq) + 1
        /\ inq'[Len(inq) + 1] = m
        /\ \A k \in 1..Len(inq) : inq'[k] = inq[k]
        BY <1>1, AppendProperties DEF ManagerInv, InqInv
  <2>2. Len(inq) \in Nat BY LenProperties DEF ManagerInv, InqInv
  <2>. SUFFICES ASSUME NEW k \in 1..Len(inq'), inq'[k].kind = "gone"
                PROVE  inq'[k].peer \notin alive'
       BY <2>1 DEF InqInv
  <2>3. CASE k = Len(inq) + 1 BY <1>1, <2>1, <2>3
  <2>4. CASE k \in 1..Len(inq) BY <1>1, <2>1, <2>4 DEF ManagerInv, InqInv
  <2>. QED BY <2>1, <2>2, <2>3, <2>4
<1>2. CASE ClientCalls(c)
  <2>1. PICK kind \in {"register", "unregister", "acquire"}, i \in Ids :
           inq' = Append(inq, [kind |-> kind, peer |-> c, id |-> i])
        BY <1>2 DEF ClientCalls
  <2>2. [kind |-> kind, peer |-> c, id |-> i] \in Call BY DEF Call
  <2>3. InqInv' BY <1>1, <1>2, <2>1, <2>2 DEF ClientCalls
  <2>. QED BY <1>2, <2>3 DEF ClientCalls, ManagerInv, RecordsInv, PolicyInStep,
                             FollowedInv, RestType
<1>3. CASE ClientDies(c)
  <2>1. [kind |-> "gone", peer |-> c] \in Gone BY DEF Gone
  <2>2. alive' = alive \ {c} BY <1>3 DEF ClientDies
  <2>3. InqInv'
    <3>1. CASE watch[c] > 0 BY <1>1, <1>3, <2>1, <2>2, <3>1 DEF ClientDies
    <3>2. CASE ~(watch[c] > 0)
      <4>1. inq' = inq BY <1>3, <3>2 DEF ClientDies
      <4>. QED BY <2>2, <4>1 DEF ManagerInv, InqInv
    <3>. QED BY <3>1, <3>2
  <2>. QED BY <1>3, <2>3 DEF ClientDies, ManagerInv, RecordsInv, PolicyInStep,
                             FollowedInv, RestType
<1>. QED BY <1>2, <1>3

(* A step that changes one record, keeps its state or frees a killed one,  *)
(* and leaves clients, rules, messages and policy alone.                   *)
LEMMA ReplyStep ==
    ASSUME ManagerInv, NEW c \in Clients, NEW i \in Ids, NEW r \in Rset,
           NEW n \in Nat, Accounted(r, n),
           (r.state = "connected") = (rsets[c][i].state = "connected"),
           rsets[c][i].state # "freed",
           rsets' = [rsets EXCEPT ![c][i] = r],
           replies' = [replies EXCEPT ![c][i] = n],
           UNCHANGED <<watch, alive, inq, policy, calls, unseen, refused>>,
           sends' \in Nat
    PROVE  ManagerInv'
<1>1. /\ \A d \in Clients, j \in Ids :
            /\ rsets'[d][j] = IF d = c /\ j = i THEN r ELSE rsets[d][j]
            /\ replies'[d][j] = IF d = c /\ j = i THEN n ELSE replies[d][j]
      /\ rsets' \in [Clients -> [Ids -> Rset]]
      /\ replies' \in [Clients -> [Ids -> Nat]]
      BY DEF ManagerInv, RecordsInv
<1>2. RecordsInv' BY <1>1 DEF ManagerInv, RecordsInv
<1>3. PolicyInStep'
  <2>1. ASSUME NEW d \in Clients, NEW j \in Ids
        PROVE  (rsets'[d][j].state = "connected") = (rsets[d][j].state = "connected")
    <3>1. CASE d = c /\ j = i BY <1>1, <3>1
    <3>2. CASE ~(d = c /\ j = i) BY <1>1, <3>2
    <3>. QED BY <3>1, <3>2
  <2>2. policy' = policy /\ refused' = refused OBVIOUS
  <2>3. \A d \in Clients \ refused, j \in Ids :
           (<<d, j>> \in policy') = (rsets'[d][j].state = "connected")
    <3>. TAKE d \in Clients \ refused, j \in Ids
    <3>1. (<<d, j>> \in policy) = (rsets[d][j].state = "connected")
          BY DEF ManagerInv, PolicyInStep
    <3>. QED BY <2>1, <2>2, <3>1
  <2>. QED BY <2>2, <2>3 DEF PolicyInStep
<1>4. ASSUME NEW d \in Clients, found(rsets'[d]) PROVE found(rsets[d])
      BY <1>1, <1>4 DEF found, resset_find
<1>5. FollowedInv' BY <1>4 DEF ManagerInv, FollowedInv, RestType
<1>6. InqInv' /\ RestType' BY DEF ManagerInv, InqInv, RestType
<1>. QED BY <1>2, <1>3, <1>5, <1>6 DEF ManagerInv

LEMMA SendStep ==
    ASSUME ManagerInv, NEW c \in Clients, NEW i \in Ids, Send(c, i)
    PROVE  ManagerInv'
<1>. DEFINE r == resset_ref(resset_ref(rsets[c][i]))
            n == replies[c][i] + 1
<1>1. /\ rsets[c][i] \in Rset /\ replies[c][i] \in Nat
      /\ Accounted(rsets[c][i], replies[c][i])
      /\ rsets[c][i].state = "connected"
      BY DEF ManagerInv, RecordsInv, Send
<1>2. r \in Rset /\ Accounted(r, n) /\ r.state = "connected" /\ n \in Nat
      BY <1>1, SendAccounted
<1>3. /\ rsets' = [rsets EXCEPT ![c][i] = r]
      /\ replies' = [replies EXCEPT ![c][i] = n]
      /\ UNCHANGED <<watch, alive, inq, policy, calls, unseen, refused>>
      BY DEF Send
<1>4. sends' \in Nat BY DEF Send, ManagerInv, RestType
<1>. HIDE DEF r, n
<1>. QED BY <1>1, <1>2, <1>3, <1>4, ReplyStep

LEMMA AnsweredStep ==
    ASSUME ManagerInv, NEW c \in Clients, NEW i \in Ids, Answered(c, i)
    PROVE  ManagerInv'
<1>. DEFINE r == resset_unref(resset_unref(rsets[c][i]))
            n == replies[c][i] - 1
<1>1. /\ rsets[c][i] \in Rset /\ replies[c][i] \in Nat
      /\ Accounted(rsets[c][i], replies[c][i]) /\ replies[c][i] > 0
      BY DEF ManagerInv, RecordsInv, Answered
<1>2. /\ r \in Rset /\ Accounted(r, n) /\ rsets[c][i].state # "freed"
      /\ (r.state = "connected") = (rsets[c][i].state = "connected")
      BY <1>1, AnswerAccounted
<1>3. /\ rsets' = [rsets EXCEPT ![c][i] = r]
      /\ replies' = [replies EXCEPT ![c][i] = n]
      /\ UNCHANGED <<watch, alive, inq, policy, calls, unseen, refused>>
      /\ sends' \in Nat
      BY DEF Answered, ManagerInv, RestType
<1>4. n \in Nat BY <1>1
<1>. HIDE DEF r, n
<1>. QED BY <1>2, <1>3, <1>4, ReplyStep

LEMMA ManagerInductive == ManagerInv /\ [Next]_vars => ManagerInv'
<1>. SUFFICES ASSUME ManagerInv, [Next]_vars PROVE ManagerInv'
     OBVIOUS
<1>1. CASE UNCHANGED vars
      BY <1>1 DEF vars, ManagerInv, RecordsInv, PolicyInStep, FollowedInv, InqInv,
                  RestType
<1>2. CASE MainLoop
      BY <1>2, RegisterStep, UnregisterStep, OtherCallStep, NameChangedStep
         DEF MainLoop
<1>3. CASE \E c \in Clients : ClientCalls(c) \/ ClientDies(c)
      BY <1>3, ClientStep
<1>4. CASE \E c \in Clients, i \in Ids : Send(c, i) \/ Answered(c, i)
      BY <1>4, SendStep, AnsweredStep
<1>. QED BY <1>1, <1>2, <1>3, <1>4 DEF Next

LEMMA ManagerInvariant == Spec => []ManagerInv
<1>. QED BY InitManager, ManagerInductive, PTL DEF Spec
-----------------------------------------------------------------------------
(* Variables keep their types; no reference count becomes negative.        *)
THEOREM TypeCorrect == Spec => []TypeOK
<1>1. ManagerInv => TypeOK
      BY DEF ManagerInv, RecordsInv, InqInv, RestType, TypeOK
<1>. QED BY <1>1, ManagerInvariant, PTL

(* The manager's reference counts: one for a connected set, two for each   *)
(* outstanding answer, and the record is freed with the last of them,      *)
(* whatever clients call and whenever they die.                            *)
THEOREM RefsAccountedAlways == Spec => []RefsAccounted
<1>1. ManagerInv => RefsAccounted
      BY DEF ManagerInv, RecordsInv, Accounted, RefsAccounted
<1>. QED BY <1>1, ManagerInvariant, PTL

(* What the policy has been told is what the transport has connected, for  *)
(* every client whose match rule was not refused.                          *)
THEOREM PolicyInStepAlways == Spec => []PolicyInStep
<1>1. ManagerInv => PolicyInStep BY DEF ManagerInv
<1>. QED BY <1>1, ManagerInvariant, PTL

(* A living client with registered sets has a match rule for its end,      *)
(* unless the daemon refused one: watch_client(FALSE) is never called too  *)
(* early.                                                                  *)
THEOREM RegisteredAreWatchedAlways == Spec => []RegisteredAreWatched
<1>1. ManagerInv => RegisteredAreWatched
  <2>. SUFFICES ASSUME ManagerInv, NEW c \in alive \ refused,
                       connected(rsets[c]) # {}
                PROVE  watch[c] > 0
       BY DEF RegisteredAreWatched
  <2>1. found(rsets[c]) BY DEF connected, found, resset_find
  <2>. QED BY <2>1 DEF ManagerInv, FollowedInv
<1>. QED BY <1>1, ManagerInvariant, PTL
=============================================================================
