----------------------------- MODULE DbusManager -----------------------------
(***************************************************************************)
(* The manager's side of the D-Bus transport: manager_method, manager_     *)
(* name_changed and watch_client of dbus-proto.c and manager_link_handler  *)
(* of res-conn.c.  The manager keeps a resset_t for every set a client has *)
(* registered and follows a client's life with a match rule on its unique  *)
(* bus name, from its first set to its last.                               *)
(*                                                                         *)
(* The clients and the daemon are the environment.  Clients call what and  *)
(* when they like and may die at any time; unique names are never used     *)
(* again.  Match rules live in the daemon, which counts equal ones: the    *)
(* death of a client is announced if there is one at that moment.  The     *)
(* policy behind the transport is reduced to the sets it has been told of. *)
(***************************************************************************)
EXTENDS ResSet, Sequences, FiniteSets

CONSTANTS
    Clients,        \* unique bus names
    Ids,            \* ids of resource sets, chosen by each client
    MatchOutcome,   \* whether the daemon accepts a match rule: {TRUE}, BOOLEAN
    MaxCalls,       \* bound: calls the clients make
    MaxSends        \* bound: messages the policy sends with a status callback

ASSUME ManagerAssumption ==
    MatchOutcome \subseteq BOOLEAN /\ MaxCalls \in Nat /\ MaxSends \in Nat

VARIABLES
    rsets,      \* rsets[c][i]: the resset_t of peer c and id i
    replies,    \* replies[c][i]: reply records that hold it
    watch,      \* watch[c]: match rules for the end of c, in the daemon
    alive,      \* clients that are connected to the bus
    inq,        \* what the manager has not dispatched yet, oldest first
    policy,     \* pairs <<c, i>> the policy has registered
    calls,      \* calls made so far
    sends,      \* messages sent with a callback so far
    unseen,     \* history: clients that were registered after they had died
    refused     \* history: clients for whom the daemon refused a match rule

vars == <<rsets, replies, watch, alive, inq, policy, calls, sends, unseen, refused>>

Call    == [kind: {"register", "unregister", "acquire"}, peer: Clients, id: Ids]
Gone    == [kind: {"gone"}, peer: Clients]

TypeOK ==
    /\ rsets \in [Clients -> [Ids -> Rset]]
    /\ replies \in [Clients -> [Ids -> Nat]]
    /\ watch \in [Clients -> Nat]
    /\ alive \subseteq Clients
    /\ inq \in Seq(Call \cup Gone)
    /\ policy \subseteq Clients \X Ids
    /\ calls \in Nat /\ sends \in Nat
    /\ unseen \subseteq Clients /\ refused \subseteq Clients

Init ==
    /\ rsets = [c \in Clients |-> [i \in Ids |-> Freed]]
    /\ replies = [c \in Clients |-> [i \in Ids |-> 0]]
    /\ watch = [c \in Clients |-> 0]
    /\ alive = Clients
    /\ inq = <<>> /\ policy = {} /\ calls = 0 /\ sends = 0
    /\ unseen = {} /\ refused = {}
-----------------------------------------------------------------------------
(* A resset_t of the peer is in the list, in whatever state.               *)
found(sets) == \E i \in Ids : resset_find(sets[i])

(* The daemon ignores the removal of a rule it does not have.              *)
rule_removed(n) == IF n = 0 THEN 0 ELSE n - 1

(* Mutant of watch_without: another set of the sender does not count.      *)
watch_without_search(c, sets) == [watch EXCEPT ![c] = rule_removed(@)]

(* After an UNREGISTER: watch_client(FALSE) if none of its sets is left.   *)
watch_without(c, sets) ==
    IF found(sets) THEN watch ELSE [watch EXCEPT ![c] = rule_removed(@)]

gone_queued(c) == \E k \in DOMAIN inq : inq[k] = [kind |-> "gone", peer |-> c]
-----------------------------------------------------------------------------
(* The clients.                                                            *)

ClientCalls(c) ==
    /\ c \in alive /\ calls < MaxCalls
    /\ calls' = calls + 1
    /\ \E kind \in {"register", "unregister", "acquire"}, i \in Ids :
          inq' = Append(inq, [kind |-> kind, peer |-> c, id |-> i])
    /\ UNCHANGED <<rsets, replies, watch, alive, policy, sends, unseen, refused>>

ClientDies(c) ==
    /\ c \in alive
    /\ alive' = alive \ {c}
    /\ inq' = IF watch[c] > 0 THEN Append(inq, [kind |-> "gone", peer |-> c]) ELSE inq
    /\ UNCHANGED <<rsets, replies, watch, policy, calls, sends, unseen, refused>>
-----------------------------------------------------------------------------
(* manager_method.                                                         *)

Dispatch(kind) ==
    /\ inq # <<>> /\ Head(inq).kind = kind
    /\ inq' = Tail(inq)
    /\ UNCHANGED <<alive, calls, sends>>

(* A set that is in the list already, killed or not: nothing happens, not  *)
(* even an answer.  The first set of a client has the client followed; if  *)
(* that fails the policy does not hear of the set, which stays in the list.*)
Register ==
    /\ Dispatch("register")
    /\ LET c == Head(inq).peer
           i == Head(inq).id
       IN  IF resset_find(rsets[c][i])
           THEN UNCHANGED <<rsets, replies, watch, policy, unseen, refused>>
           ELSE /\ rsets' = [rsets EXCEPT ![c][i] = resset_create("connected")]
                /\ \E ok \in IF found(rsets[c]) THEN {TRUE} ELSE MatchOutcome :
                      /\ watch' = IF ok /\ ~found(rsets[c])
                                  THEN [watch EXCEPT ![c] = @ + 1] ELSE watch
                      /\ policy' = IF ok THEN policy \cup {<<c, i>>} ELSE policy
                      /\ refused' = IF ok THEN refused ELSE refused \cup {c}
                /\ unseen' = IF c \in alive \/ gone_queued(c)
                             THEN unseen ELSE unseen \cup {c}
                /\ UNCHANGED replies

Unregister ==
    /\ Dispatch("unregister")
    /\ LET c == Head(inq).peer
           i == Head(inq).id
           left == [rsets[c] EXCEPT ![i] = resset_destroy(@)]
       IN  IF resset_find(rsets[c][i])
           THEN /\ policy' = policy \ {<<c, i>>}
                /\ rsets' = [rsets EXCEPT ![c] = left]
                /\ watch' = watch_without(c, left)
           ELSE UNCHANGED <<policy, rsets, watch>>
    /\ UNCHANGED <<replies, unseen, refused>>

(* Any other call is passed to the policy, or dropped: nothing changes in  *)
(* this layer.                                                             *)
OtherCall ==
    /\ Dispatch("acquire")
    /\ UNCHANGED <<rsets, replies, watch, policy, unseen, refused>>
-----------------------------------------------------------------------------
(* manager_link_handler: every set of the peer goes; the policy is told of *)
(* those that were connected.                                              *)
connected(sets) == {i \in Ids : sets[i].state = "connected"}

(* Mutant of link_down: the search ends at a killed set.                   *)
link_down_stops(sets) ==
    IF \E i \in Ids : sets[i].state = "killed"
    THEN sets ELSE [i \in Ids |-> resset_destroy(sets[i])]

link_down(sets) == [i \in Ids |-> resset_destroy(sets[i])]

(* Mutant of told: the policy hears of one set only.                       *)
told_of_one(c) ==
    {<<c, i>> : i \in {j \in connected(rsets[c]) :
                         j = CHOOSE k \in Ids : k \in connected(rsets[c])}}

told(c) == {<<c, i>> : i \in connected(rsets[c])}

(* manager_name_changed.                                                   *)
NameChanged ==
    /\ Dispatch("gone")
    /\ LET c == Head(inq).peer
       IN  /\ rsets' = [rsets EXCEPT ![c] = link_down(@)]
           /\ policy' = policy \ told(c)
           /\ watch' = IF found(rsets[c])
                       THEN [watch EXCEPT ![c] = rule_removed(@)]
                       ELSE watch
    /\ UNCHANGED <<replies, unseen, refused>>
-----------------------------------------------------------------------------
(* resproto_send_message with a status callback, and its answer, which may *)
(* be an error of the daemon or of the timer.                              *)
Send(c, i) ==
    /\ rsets[c][i].state = "connected" /\ sends < MaxSends
    /\ sends' = sends + 1
    /\ rsets' = [rsets EXCEPT ![c][i] = resset_ref(resset_ref(@))]
    /\ replies' = [replies EXCEPT ![c][i] = @ + 1]
    /\ UNCHANGED <<watch, alive, inq, policy, calls, unseen, refused>>

Answered(c, i) ==
    /\ replies[c][i] > 0
    /\ replies' = [replies EXCEPT ![c][i] = @ - 1]
    /\ rsets' = [rsets EXCEPT ![c][i] = resset_unref(resset_unref(@))]
    /\ UNCHANGED <<watch, alive, inq, policy, calls, sends, unseen, refused>>
-----------------------------------------------------------------------------
MainLoop == Register \/ Unregister \/ OtherCall \/ NameChanged

Next ==
    \/ MainLoop
    \/ \E c \in Clients : ClientCalls(c) \/ ClientDies(c)
    \/ \E c \in Clients, i \in Ids : Send(c, i) \/ Answered(c, i)

Spec == Init /\ [][Next]_vars

(* The main loop does not stop, and every call is answered or times out.   *)
FairSpec == Spec /\ WF_vars(MainLoop)
                 /\ \A c \in Clients, i \in Ids : WF_vars(Answered(c, i))
-----------------------------------------------------------------------------
(* Reference counts of the manager: one for the registration, two for each *)
(* answer that is awaited; the record is freed with the last of them.      *)
RefsAccounted ==
    \A c \in Clients, i \in Ids :
        LET r == rsets[c][i]
        IN  /\ r.refcnt = 2 * replies[c][i]
                            + (IF r.state = "connected" THEN 1 ELSE 0)
            /\ (r.state = "freed") = (r.refcnt = 0)

(* The policy's registrations are the connected sets of the transport,     *)
(* except those of clients whose match rule was refused.                   *)
PolicyInStep ==
    \A c \in Clients \ refused, i \in Ids :
        (<<c, i>> \in policy) = (rsets[c][i].state = "connected")

(* A client that has registered sets is followed: there is a match rule    *)
(* for its end, unless the daemon refused one, or its end is on its way or *)
(* past.                                                                   *)
RegisteredAreWatched ==
    \A c \in alive \ refused : connected(rsets[c]) # {} => watch[c] > 0

(* A client that dies is forgotten, with all its sets, unless its first    *)
(* REGISTER was handled after its death or its match rule was refused.     *)
DeadAreForgotten ==
    \A c \in Clients :
        c \notin alive ~> (~found(rsets[c]) \/ c \in unseen \cup refused)

(* "We either were already following the client or otherwise we set up a   *)
(* D-Bus match string successfully" (dbus-proto.c:692): whenever the       *)
(* policy is told of a set, a living client is followed.                   *)
ToldAreFollowed ==
    \A c \in alive : (\E i \in Ids : <<c, i>> \in policy) => watch[c] > 0

(* "This was the last resource set from this D-Bus client -> stop          *)
(* listening for its NameOwnerChanged events" (dbus-proto.c:650): without  *)
(* a set there is no match rule left.                                      *)
ListensForSetsOnly ==
    \A c \in Clients : ~found(rsets[c]) => watch[c] = 0
=============================================================================
