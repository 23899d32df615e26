--------------------------- MODULE ResourceClient ---------------------------
(***************************************************************************)
(* A process that uses libresource over D-Bus: its resource sets, the bus  *)
(* and the resource manager.                                               *)
(*                                                                         *)
(* The process is single threaded.  A step of it is one call of the public *)
(* interface, or the handling of one message by the main loop, run to      *)
(* completion: the handlers of resource.c, res-conn.c and dbus-proto.c are *)
(* operators of modules ResourceSet and ResConn.                           *)
(*                                                                         *)
(* The bus and the manager are the environment.  The daemon delivers to    *)
(* the process in order (inq); calls of a set reach the manager in order   *)
(* (wire).  When the manager dies the daemon first announces that the name *)
(* has no owner and then answers for it, call by call, with NoReply        *)
(* errors; a call that was still with the daemon goes to the next owner of *)
(* the name, or is bounced when there is none.  A manager that was waiting *)
(* for the name gets it at once.  A pending call may time out while its    *)
(* answer is on the way; the late answer is ignored.                       *)
(***************************************************************************)
EXTENDS ResourceSet

CONSTANTS
    Sets,           \* resource sets the process may create
    AutoRelease,    \* those created with RESOURCE_AUTO_RELEASE
    ConnChoice,     \* whether get_manager finds a bus connection: {TRUE}, ...
    FlagChoice,     \* pairs [mandatory, optional] the application asks for
    ConfigChoice,   \* calls [kind, given] that configure a stream
    Refused,        \* messages the manager may answer with an error
    Notices,        \* kinds of notification the manager may send
    MaxOps,         \* bound: calls of the public interface
    MaxStarts,      \* bound: starts of the manager
    MaxDeaths,      \* bound: deaths of the manager
    MaxNotices,     \* bound: notifications
    MaxTimeouts     \* bound: calls that time out although an answer is due

NoticeKind == {"grant", "revoke", "advice", "release", "unregister"}

ASSUME SetsAssumption == AutoRelease \subseteq Sets

ASSUME ChoiceAssumption ==
    /\ ConnChoice \subseteq BOOLEAN
    /\ FlagChoice \subseteq [mandatory: SUBSET Resource, optional: SUBSET Resource]
    /\ ConfigChoice \subseteq [kind: Kind, given: ConfigValue]
    /\ Refused \subseteq MsgType
    /\ Notices \subseteq NoticeKind

ASSUME BoundAssumption ==
    /\ MaxOps \in Nat /\ MaxStarts \in Nat /\ MaxDeaths \in Nat
    /\ MaxNotices \in Nat /\ MaxTimeouts \in Nat

VARIABLES
    cs,     \* cs[s]: the record of set s in the process (module ResourceSet)
    inq,    \* messages the process has not dispatched yet, oldest first
    up,     \* the manager owns its name
    ms,     \* ms[s]: what the manager knows of set s
    used    \* how much of each bound is used up

vars == <<cs, inq, up, ms, used>>

(* What a manager knows of a set; passed is history: the manager took the  *)
(* name over without a gap while the client took the set for connected, or *)
(* was connecting it, and has not had a REGISTER since.                    *)
Unknown == [reg |-> FALSE, passed |-> FALSE, acquire |-> FALSE,
            resources |-> NoFlags, audio |-> NoSettings, video |-> NoSettings]

ManagerRec == [reg: BOOLEAN, passed: BOOLEAN, acquire: BOOLEAN,
               resources: ResourceFlags,
               audio: ConfigValue \cup {NoSettings},
               video: ConfigValue \cup {NoSettings}]

Answer == [kind: {"answer"}, set: Sets, reply: Reply, err: BOOLEAN]
Notice == [kind: NoticeKind, set: Sets]
Owner  == [kind: {"up", "down"}]

Counter == {"ops", "starts", "deaths", "notices", "timeouts"}

TypeOK ==
    /\ cs \in [Sets -> ResourceSetRec]
    /\ inq \in Seq(Answer \cup Notice \cup Owner)
    /\ up \in BOOLEAN
    /\ ms \in [Sets -> ManagerRec]
    /\ used \in [Counter -> Nat]

Init ==
    /\ cs = [s \in Sets |-> NoSet]
    /\ inq = <<>>
    /\ up \in BOOLEAN
    /\ ms = [s \in Sets |-> Unknown]
    /\ used = [k \in Counter |-> 0]

(* A process that spins or has read freed memory does nothing more.        *)
Running == \A s \in Sets : cs[s].fault = "none"

Use(counter, bound) ==
    /\ used[counter] < bound
    /\ used' = [used EXCEPT ![counter] = @ + 1]
-----------------------------------------------------------------------------
(* The application.                                                        *)

CallAPI(s, after) ==
    /\ Running
    /\ Use("ops", MaxOps)
    /\ cs' = [cs EXCEPT ![s] = after]
    /\ UNCHANGED <<inq, up, ms>>

Create(s) ==
    /\ cs[s].life = "none"
    /\ \E conn \in ConnChoice, f \in FlagChoice :
          CallAPI(s, resource_set_create(conn, f.mandatory, f.optional))

Destroy(s) == cs[s].held /\ CallAPI(s, resource_set_destroy(cs[s]))

Acquire(s) ==
    cs[s].held /\ ~cs[s].acquire /\ CallAPI(s, resource_set_acquire(cs[s]))

Release(s) ==
    cs[s].held /\ cs[s].acquire /\ CallAPI(s, resource_set_release(cs[s]))

ConfigureResources(s) ==
    /\ cs[s].held
    /\ \E f \in FlagChoice :
          CallAPI(s, resource_set_configure_resources(cs[s], f.mandatory,
                                                      f.optional))

Configure(s) ==
    /\ cs[s].held
    /\ \E call \in ConfigChoice :
          /\ call.kind \in cs[s].resources.all
          /\ CallAPI(s, configure(cs[s], call.kind, call.given))
-----------------------------------------------------------------------------
(* The main loop dispatches the oldest message.                            *)

Dispatch(kinds) ==
    /\ Running
    /\ inq # <<>> /\ Head(inq).kind \in kinds
    /\ inq' = Tail(inq)
    /\ UNCHANGED <<up, ms, used>>

(* libdbus drops the answer to a call that is not pending any more.        *)
DispatchAnswer ==
    /\ Dispatch({"answer"})
    /\ LET m == Head(inq)
       IN  cs' = IF m.reply \in cs[m.set].replies
                 THEN [cs EXCEPT ![m.set] = status_method(@, m.reply, m.err)]
                 ELSE cs

(* client_method and message_receive.  Without the object path libdbus     *)
(* answers that there is no such object.                                   *)
DispatchNotice ==
    /\ Dispatch(NoticeKind)
    /\ LET m == Head(inq)
           c == cs[m.set]
       IN  cs' = IF c.path /\ resset_find(c.rset)
                 THEN [cs EXCEPT ![m.set] =
                         CASE m.kind = "grant"   ->
                                  receive_grant_message(c, TRUE, m.set \in AutoRelease)
                           [] m.kind = "revoke"  ->
                                  receive_grant_message(c, FALSE, m.set \in AutoRelease)
                           [] m.kind = "release" -> receive_release_message(c)
                           [] m.kind = "unregister" -> disconnect_from_manager(c)
                           [] OTHER -> receive_advice_message(c)]
                 ELSE cs

(* client_name_changed: NameOwnerChanged of the manager's name.            *)
DispatchUp ==
    /\ Dispatch({"up"})
    /\ cs' = [s \in Sets |-> manager_is_up(cs[s])]

DispatchDown ==
    /\ Dispatch({"down"})
    /\ cs' = [s \in Sets |-> link_down(cs[s])]

(* A call that has waited 25 seconds fails inside the process.             *)
Timeout(s) ==
    /\ Running
    /\ Use("timeouts", MaxTimeouts)
    /\ \E reply \in cs[s].replies :
          cs' = [cs EXCEPT ![s] = status_method(@, reply, TRUE)]
    /\ UNCHANGED <<inq, up, ms>>
-----------------------------------------------------------------------------
(* The bus and the manager.                                                *)

answer(s, call, err) ==
    [kind |-> "answer", set |-> s, err |-> err,
     reply |-> [msgtyp |-> call.msgtyp, reqno |-> call.reqno]]

(* The oldest call of s is taken off the wire; answers is what is sent     *)
(* back, and a call without an answer is lost.                             *)
TakeCall(s, answers) ==
    /\ cs' = [cs EXCEPT ![s].wire = Tail(@),
                        ![s].lost = IF answers = <<>>
                                    THEN @ \cup {Head(cs[s].wire).reqno} ELSE @]
    /\ inq' = inq \o answers

(* What a call that is granted does to the manager's record.               *)
handled(m, call) ==
    CASE call.msgtyp = "register"   -> [Unknown EXCEPT !.reg = TRUE,
                                                       !.resources = call.resources]
      [] call.msgtyp = "unregister" -> Unknown
      [] call.msgtyp = "update"     -> [m EXCEPT !.resources = call.resources]
      [] call.msgtyp = "audio"      -> [m EXCEPT !.audio = call.value]
      [] call.msgtyp = "video"      -> [m EXCEPT !.video = call.value]
      [] call.msgtyp = "acquire"    -> [m EXCEPT !.acquire = TRUE]
      [] OTHER                      -> [m EXCEPT !.acquire = FALSE]

(* manager_method: a REGISTER of a known set, or another call of an        *)
(* unknown one, is silently dropped.  UNREGISTER removes the set whatever  *)
(* the answer.                                                             *)
ManagerHandles(s) ==
    /\ up /\ cs[s].wire # <<>>
    /\ LET call == Head(cs[s].wire)
       IN  IF (call.msgtyp = "register") = ms[s].reg
           THEN TakeCall(s, <<>>) /\ UNCHANGED ms
           ELSE \E err \in {FALSE} \cup {call.msgtyp \in Refused} :
                   /\ TakeCall(s, <<answer(s, call, err)>>)
                   /\ ms' = [ms EXCEPT ![s] =
                               IF err /\ call.msgtyp # "unregister" THEN @
                                                      ELSE handled(@, call)]
    /\ UNCHANGED <<up, used>>

(* The daemon has no owner of the name to pass the call to.                *)
Bounce(s) ==
    /\ ~up /\ cs[s].wire # <<>>
    /\ TakeCall(s, <<answer(s, Head(cs[s].wire), TRUE)>>)
    /\ UNCHANGED <<up, ms, used>>

(* NoReply, from the daemon or from the timer of the pending call.         *)
NoReply(s) ==
    /\ \E reply \in cs[s].replies :
          /\ reply.reqno \in cs[s].lost
          /\ inq' = Append(inq, [kind |-> "answer", set |-> s, reply |-> reply,
                                 err |-> TRUE])
          /\ cs' = [cs EXCEPT ![s].lost = @ \ {reply.reqno}]
    /\ UNCHANGED <<up, ms, used>>

(* NameOwnerChanged reaches the process once get_manager has asked for it, *)
(* which the creation of the first set does.                               *)
Announce(kind) ==
    inq' = IF \E s \in Sets : cs[s].conn THEN Append(inq, [kind |-> kind]) ELSE inq

ManagerStarts ==
    /\ ~up
    /\ Use("starts", MaxStarts)
    /\ up' = TRUE
    /\ Announce("up")
    /\ UNCHANGED <<cs, ms>>

(* The calls routed to it, the first n[s] of each wire, are lost with it;  *)
(* a wire holds the pending call and calls that have timed out.            *)
LostWithManager ==
    \E n \in [Sets -> 0..(MaxTimeouts + 1)] :
       /\ \A s \in Sets : n[s] <= Len(cs[s].wire)
       /\ cs' = [s \in Sets |->
                   [cs[s] EXCEPT !.wire = SubSeq(@, n[s] + 1, Len(@)),
                                 !.lost = @ \cup {cs[s].wire[i].reqno :
                                                     i \in 1..n[s]}]]

ManagerDies ==
    /\ up
    /\ Use("deaths", MaxDeaths)
    /\ up' = FALSE
    /\ ms' = [s \in Sets |-> Unknown]
    /\ Announce("down")
    /\ LostWithManager

(* A manager that dies while another waits for the name: request_name does *)
(* not ask the daemon not to queue it.  Only the new owner is announced.   *)
ManagerReplaced ==
    /\ up
    /\ Use("deaths", MaxDeaths)
    /\ ms' = [s \in Sets |-> [Unknown EXCEPT !.passed = cs[s].client # "created"]]
    /\ Announce("up")
    /\ LostWithManager
    /\ UNCHANGED up

(* A set that the manager takes the resources from, or tells to release    *)
(* them, no longer holds them; one it unregisters is unknown to it.        *)
ManagerNotifies(s) ==
    /\ up /\ ms[s].reg
    /\ Use("notices", MaxNotices)
    /\ \E kind \in Notices :
          /\ kind \in {"grant", "revoke", "release"} => ms[s].acquire
          /\ inq' = Append(inq, [kind |-> kind, set |-> s])
          /\ ms' = [ms EXCEPT ![s] =
                      CASE kind = "revoke" /\ s \in AutoRelease ->
                               [@ EXCEPT !.acquire = FALSE]
                        [] kind = "unregister" -> Unknown
                        [] OTHER -> @]
    /\ UNCHANGED <<cs, up>>
-----------------------------------------------------------------------------
App(s) == \/ Create(s) \/ Destroy(s) \/ Acquire(s) \/ Release(s)
          \/ ConfigureResources(s) \/ Configure(s)

MainLoop == DispatchAnswer \/ DispatchNotice \/ DispatchUp \/ DispatchDown

Bus(s) == ManagerHandles(s) \/ Bounce(s) \/ NoReply(s)

Next ==
    \/ MainLoop
    \/ ManagerStarts \/ ManagerDies \/ ManagerReplaced
    \/ \E s \in Sets : App(s) \/ Timeout(s) \/ Bus(s) \/ ManagerNotifies(s)

Spec == Init /\ [][Next]_vars

(* The main loop takes the oldest message, the daemon delivers and the     *)
(* manager handles calls.  Nothing obliges the application to call, or the *)
(* manager to notify, die or start.  (Only a step of MainLoop shortens     *)
(* inq, so the first conjunct is the weak fairness of MainLoop.)           *)
Takes == Running /\ inq # <<>> /\ inq' = Tail(inq)

FairSpec == Spec /\ WF_inq(Takes)
                 /\ \A s \in Sets : WF_vars(Bus(s))
-----------------------------------------------------------------------------
(* One request at a time.  Between two steps of a healthy process the      *)
(* oldest request of a set, and no other, has been sent; its reply record  *)
(* is the only one that refers to the set's resset_t; requests wait in the *)
(* order in which they were made.  So answers cannot be mistaken for one   *)
(* another, and a queue that is not empty has an answer to wait for.       *)
QueueDiscipline(c) ==
    /\ \A i \in DOMAIN c.reqlist :
          /\ c.reqlist[i].busy = (i = 1)
          /\ c.reqlist[i].reqno <= c.reqno
          /\ \A j \in 1..(i - 1) : c.reqlist[j].reqno < c.reqlist[i].reqno
    /\ c.replies = IF c.reqlist = <<>> THEN {}
                   ELSE {[msgtyp |-> Head(c.reqlist).msgtyp,
                          reqno  |-> Head(c.reqlist).reqno]}

OneOutstanding == Running => \A s \in Sets : QueueDiscipline(cs[s])

(* Reference counts.  A pending answer holds two references to the         *)
(* resset_t and its creator one, until the set is destroyed.  So, as long  *)
(* as no killed set came back to life, the memory is never freed while an  *)
(* answer may still be delivered to it, and no reference is dropped twice. *)
Referenced(c) ==
    LET pending == IF c.replies = {} THEN 0 ELSE 2
    IN  /\ c.rset.refcnt \in {pending, pending + 1}
        /\ (c.rset.state = "freed") = (c.rset.refcnt = 0)
        /\ c.rset.state \in {"created", "connected"}
              => c.rset.refcnt = pending + 1

RefsAccounted == Running => \A s \in Sets : ~cs[s].revived => Referenced(cs[s])

(* rs->resset and rset->userdata are never cleared, yet freed memory is    *)
(* only ever read after a killed set has come back to life: an UNREGISTER  *)
(* answered with an error, or a REGISTER answered after the link was lost. *)
StaleNeedsRevival == \A s \in Sets : cs[s].fault = "stale" => cs[s].revived

(* client_ready means what it says: the set's resset_t is connected and    *)
(* the manager can reach its object path, unless the set is about to go.   *)
ReadyIsReachable ==
    Running => \A s \in Sets :
        LET c == cs[s]
        IN  c.life = "live" /\ c.client = "ready" /\ ~c.revived
            => \/ c.rset.state = "connected" /\ c.path
               \/ \E reply \in c.replies : reply.msgtyp = "unregister"

(* Nothing about s is under way. *)
Quiet(s) ==
    /\ cs[s].reqlist = <<>> /\ cs[s].wire = <<>>
    /\ \A i \in DOMAIN inq : inq[i].kind \notin {"up", "down"} => inq[i].set # s
    /\ \A i \in DOMAIN inq : inq[i].kind \notin {"up", "down"}

(* No lost wake-up: when the manager is there and nothing is under way, a  *)
(* set that is not being connected is one whose last REGISTER failed.      *)
AsleepOnlyIfDenied ==
    Running /\ up => \A s \in Sets :
        Quiet(s) /\ cs[s].life = "live" /\ cs[s].client = "created" => cs[s].denied

(* When nothing is under way, the manager agrees with a ready client on    *)
(* what it wants: acquisition, resources and configurations.  An auto-     *)
(* release set may have lost an acquisition to a revocation that was on    *)
(* its way when the application acquired again, and a manager that took    *)
(* the name over from another without a gap is told nothing of sets that   *)
(* were connected to that one.                                             *)
Agree(s) ==
    LET c == cs[s]
        m == ms[s]
    IN  /\ m.reg
        /\ c.acquire => m.acquire
        /\ s \notin AutoRelease => c.acquire = m.acquire
        /\ m.resources = c.resources
        /\ configured(c, "audio") => m.audio = config_value(c, "audio")
        /\ configured(c, "video") => m.video = config_value(c, "video")

Agreement ==
    Running => \A s \in Sets :
        Quiet(s) /\ cs[s].client = "ready" /\ cs[s].life = "live" /\ ~cs[s].revived
        /\ ~ms[s].passed
        => Agree(s)

(* As long as the manager does not go away or unregister a set, send_      *)
(* request hangs only when the REGISTER of a set has failed with other     *)
(* requests behind it, and no freed memory is read.                        *)
HangNeedsDenial == ~Running => \E s \in Sets : cs[s].denied /\ cs[s].fault = "spin"

(* Requests leave the queue at its front only, and new ones join at the    *)
(* back: none overtakes another, none is sent twice.                       *)
Advances(old, new) ==
    \E n \in 0..Len(old) :
       LET kept == SubSeq(old, n + 1, Len(old))
       IN  /\ Len(kept) <= Len(new)
           /\ \A i \in 1..Len(kept) : kept[i].reqno = new[i].reqno
           /\ \A i \in (Len(kept) + 1)..Len(new), j \in 1..Len(old) :
                 old[j].reqno < new[i].reqno

FifoRequests == [][\A s \in Sets : Advances(cs[s].reqlist, cs'[s].reqlist)]_vars

(* The queue of every set implements the abstract pipe of RequestPipe:     *)
(* nothing is sent while something is out, nothing waits with nothing out, *)
(* and what a reconnection or a failed answer drops is dropped only on a   *)
(* set that is not ready.  A pipe is broken once the process is at fault   *)
(* in its set.                                                             *)
PipeOf(c) ==
    [queue  |-> [i \in DOMAIN c.reqlist |-> [msgtyp |-> c.reqlist[i].msgtyp,
                                             reqno  |-> c.reqlist[i].reqno]],
     out    |-> {reply.reqno : reply \in c.replies},
     last   |-> c.reqno,
     ready  |-> c.client = "ready",
     broken |-> c.fault # "none"]

Pipe == INSTANCE RequestPipe WITH pipe <- [s \in Sets |-> PipeOf(cs[s])]

ImplementsPipe == Pipe!Spec

(* Whatever becomes of the manager, no request waits for ever: its answer  *)
(* or an error gets it out of the queue, unless the process hangs.         *)
RequestsComplete ==
    \A s \in Sets : cs[s].reqlist # <<>> ~> (cs[s].reqlist = <<>> \/ ~Running)

(* While the manager does not go away, a set whose UNREGISTER is queued is *)
(* freed.  (A set destroyed with client_created never is: nothing is       *)
(* queued then, and the set registers again when a manager starts.)        *)
DestroyedIsFreed ==
    \A s \in Sets :
        (\E i \in DOMAIN cs[s].reqlist : cs[s].reqlist[i].msgtyp = "unregister")
        ~> (cs[s].life = "freed" \/ ~Running)
=============================================================================
