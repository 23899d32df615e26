# A verification project for libresource

libresource lets an application ask a *resource manager* (the policy daemon of
the device) for audio, video and other resources. This directory models the
library in TLA+, model-checks it with TLC and proves properties of it with
TLAPS. Paths below are relative to the repository.

## 1. Inventory

### Components

| component | source | state it keeps | operations |
|---|---|---|---|
| resource set client | `src/resource.c` | list of `resource_set_t`: connection state (`created`, `connecting`, `ready`), `acquire`, resources, configurations, request queue, pointer to the `resset_t` | `resource_set_create/destroy/acquire/release/configure_*`; callbacks `manager_is_up`, `status_cb`, `receive_*`, `disconnect_from_manager` |
| connection layer | `src/res-conn.c` | list of connections, each with its `resset_t`s and pending reply records | `resconn_connect`, `resconn_disconnect`, reply records, link handlers of client and manager |
| resource set record | `src/res-set.c` | `resset_t`: state `CREATED`/`CONNECTED`/`KILLED`, reference count, list of a connection | create, ref, unref, destroy, find, update flags |
| D-Bus transport, client role | `src/dbus-proto.c` | object paths, pending calls, match on the manager's name | connect, send, `status_method`, `client_method`, `client_name_changed` |
| D-Bus transport, manager role | `src/dbus-proto.c` | sets of all clients, watches on the clients' names | `manager_method`, `manager_name_changed`, `watch_client` |
| protocol dispatch | `src/res-proto.c` | handler table per connection | `resproto_send_message`, `resproto_reply_message`, `message_receive` |
| internal transport | `src/internal-proto.c`, `src/internal-msg.c` | message queue per connection, reply timers | send, delayed delivery, timeouts |
| D-Bus marshalling | `src/dbus-msg.c` | none | compose and parse messages |
| message utilities | `src/res-msg.c` | none | dump, names of types and resources, matching |
| GLib glue | `src/resource-glib-glue.c` | none | attaches the bus connection to the main loop |
| command line client | `client/client.c`, `client/time-stat.c` | one set, table of request types | commands `acquire`, `release`, `update`, `audio`, `video`, `flood` |
| examples, tests | `examples/`, `tests/` | | use the interface |

### Interaction

An API call on a `resource_set_t` changes its fields and pushes a request on its
queue. `send_request` sends the head of the queue, if it has not been sent,
through `res-conn.c`/`res-proto.c` to a transport. The answer comes back from the
main loop through a pending call: `status_method` (`dbus-proto.c`) updates the
`resset_t`, calls `status_cb` (`resource.c`), which pops the request, completes
it and sends the next, and drops two references. Notifications of the manager
enter through `client_method` and the handler table; the appearance and
disappearance of the manager's bus name through `client_name_changed`, which
calls `manager_is_up` or `client_link_handler`. The two records of a set point
to each other (`rs->resset`, `rset->userdata`) and neither pointer is ever
cleared.

### What is hard here, and what correctness means

The process is single threaded, so the interleavings are those of API calls,
dispatched messages, timeouts and the life of the manager. The hard parts are

* the request queue: one request outstanding, answers matched to the right
  request, nothing overtaken, no request waiting for ever;
* the life of a `resset_t`: reference counts shared by the creator, reply
  records and running handlers, and pointers to it that are never cleared;
* reconnection: a manager that dies in the middle of anything must, once it is
  back, know again what the application asked for;
* timeouts and late answers; errors to REGISTER and UNREGISTER;
* on the manager's side, the watches of clients that may die at any time;
* in process, handlers that call each other through the transport, and copies of
  messages that share memory with their sender;
* two ends that must agree on the words of a message, listed in three places;
* in the command line client, answers looked up in a table that comes round.

`PROJECT.json` lists each hazard at its line ("hazards") with the properties
that would catch it going wrong.

## 2. Modules

```
ResSet            res-set.c: state and reference count of one resset_t
  ResConn         res-conn.c, client half of dbus-proto.c: connect, send, answer
    ResourceSet   resource.c: operations, request queue, callbacks of one set
      ResourceClient      the process, the bus and the manager: the state machine
        MCResourceClient        constants for TLC
        RequestPipe           the abstract request queue it implements
        ResourceClientProofs      records are well formed, one request is out
          SetStateProofs            references and life of a set, who sleeps, the refinement
            AgreementProofs           what the manager believes of a set
    ResourceCli     client/client.c: commands, answers, notifications
      MCResourceCli         constants for TLC
      ResourceCliProofs     all its safety properties
  DbusManager     manager half of dbus-proto.c, manager_link_handler: state machine
    DbusManagerProofs     all its safety properties
  InternalProto   internal-proto.c: both sides of the in-process transport
    MCInternalProto       symmetry and a set-up state for TLC
    InternalProtoProofs   all its safety properties
DbusMsg         dbus-msg.c: messages as typed arguments, and back
  InternalMsg     internal-msg.c: the copy of a waiting message
  ResMsg          res-msg.c: printing into a buffer
    MsgPath         res-proto.c over both transports: the way of one message
      MCMsgPath           messages of all types for TLC
      MsgPathProofs       its properties, printing apart
CliInput        client/client.c: the input buffer
  CliInputProofs  its properties
```

The two sides of the D-Bus transport are separate state machines: `ResourceClient` sees
the manager through the bus as an environment, `DbusManager` sees clients so.
`InternalProto` has both sides, since they share one process. All use the same
`ResSet`. `ResourceCli` is another client of the same connection layer
(`ResConn`), one that sends several requests at a time. `MsgPath` looks at what
the others leave out: the contents of messages.

`ResSet`, `ResConn` and `ResourceSet` have no variables. Their operators are the
functions of the C files and carry their names; each maps the record of one set
to the record after the function has run to completion, *including every call
it makes*. A record joins what the C code keeps in a `resource_set_t`, its
`resset_t`, the reply records that refer to it and its object path. Module
`ResourceClient` has one action per API function and per message the main loop
can dispatch, and models bus and manager as the environment:

| variable | meaning |
|---|---|
| `cs[s]` | the record of set `s`, see the comments of `ResourceSet` and `ResConn` |
| `inq` | what the daemon has sent to the process and the main loop has not dispatched |
| `up` | the manager's name has an owner |
| `ms[s]` | what the manager has recorded for `s` |
| `used` | how much of each bound is used up |

| action | code |
|---|---|
| `Create` ... `Configure` | the functions of `resource.h` |
| `DispatchAnswer` | `status_method` -> `status_cb` -> `send_request`, `resconn_reply_destroy` |
| `DispatchNotice` | `client_method` -> `message_receive` -> `receive_*` |
| `DispatchUp`, `DispatchDown` | `client_name_changed` -> `manager_is_up` / `client_link_handler` |
| `Timeout` | libdbus fails a pending call: `status_method` with an error |
| `ManagerHandles` | `manager_method` and the policy behind it |
| `Bounce`, `NoReply`, `ManagerStarts`, `ManagerDies`, `ManagerNotifies` | daemon and manager |
| `ManagerReplaced` | a manager that waited for the name (`request_name` lets it queue) gets it: only the new owner is announced |

A configuration of a stream has the settings `group`, `pid` and `stream`. A call
gives some of them (`ConfigChoice`); `configure` creates or merges as
`audio_config_create`, `audio_config_update` and their video twins do.

`RequestPipe` says what the request queues promise: jobs join at the back,
numbered; exactly one, the front one, is out as long as there are any; it leaves
when it has come back, and jobs behind it are dropped unsent only on a set that is
not ready, or if they are about a stream, or all together behind an UNREGISTER. The
refinement mapping `PipeOf` of `ResourceClient` takes the queue without its busy
flags, and `out` from the reply records, so that it is the pending calls, not the
flags, that must be one at a time. A pipe is broken when the process is at fault.

`DbusManager` has the manager's list of sets for any number of clients:

| variable | meaning |
|---|---|
| `rsets[c][i]` | the `resset_t` of client `c` and id `i`, "freed" when it is not in the list |
| `replies[c][i]` | reply records that hold it |
| `watch[c]` | match rules for the end of `c`; the daemon counts equal ones |
| `inq` | calls and announcements the manager has not dispatched |
| `policy` | the sets the policy behind the transport has been told of |
| `unseen`, `refused` | history: who was registered after its death; for whom a match rule was refused |

| action | code |
|---|---|
| `Register`, `Unregister`, `OtherCall` | `manager_method` with `watch_client`, `disconn` and the search for other sets of the sender |
| `NameChanged` | `manager_name_changed` -> `manager_link_handler` -> `watch_client` |
| `Send`, `Answered` | `send_message` with a status callback, `status_method`, `resconn_reply_destroy` |
| `ClientCalls`, `ClientDies` | the environment: clients and daemon |

`InternalProto` has small steps, because a send runs the receiver's handler, which
may send again before it returns:

| variable | meaning |
|---|---|
| `up`, `notify`, `inited`, `told` | the manager's connection, its timer for the clients' `mgrup`, the clients' connections, who was called |
| `rset[x][k]` | the `resset_t` connection `x` keeps for set `k` |
| `busy`, `queue[x]`, `dequeues[x]` | the flag of `send_message`, waiting messages, timers of `receive_message_dequeue` |
| `stack` | handlers that were entered and have not returned |
| `replies`, `timers` | reply records, their ten second timers |
| `owed`, `answers` | serials a handler may still answer, timers of `send_error_complete` with an answer |
| `msgs`, `seen`, `dismissed`, `revived` | messages sent, the last one handed to each; history |

| action | code |
|---|---|
| `manager_init`, `client_init`, `notify_clients_about_manager_up` | the initialisation functions and the manager's timer |
| `resconn_connect`, `resproto_send_message`, `resconn_disconnect` | the calls of both roles, with `send_message` and `receive_message_init`, up to the entry of the receiver's handler |
| `handler_returns` | the rest of `receive_message_complete`, `send_message` and `resconn_disconnect` |
| `receive_message_dequeue` | that timer, up to the entry of the handler |
| `send_error_init` | `resproto_reply_message` |
| `send_error_complete`, `reply_timeout` | `send_error_complete` called by the timer of an answer, and by the ten second timer |

`ResourceCli` has one set and uses `ResConn` without a request queue:

| variable | meaning |
|---|---|
| `cl` | the `resset_t` and its replies as in `ResConn`, `client.c`'s variables (`accept`, `flood`, `count`, `reqno`, `reqtyp`), the word last printed; history, of which `asked` (the flags of the last UPDATE) and `renewed` (a REGISTER was sent since) |
| `inq`, `up`, `used` | as in `ResourceClient` |
| `known` | whether the manager has the set, and its flags |

| action | code |
|---|---|
| `Send`, `Update`, `Disconnect`, `Flood`, `Stop`, `Quit` | the branches of `parse_input` |
| `DispatchAnswer`, `Timeout` | `status_method` -> `manager_status` |
| `DispatchNotice` | `client_method` -> `manager_receive_message` |
| `DispatchUp`, `DispatchDown` | `client_name_changed` -> `connect_to_manager`, `client_link_handler` -> `disconnect_from_manager` |
| `Ignores`, `Refuses`, `Grants`, `Bounce`, `NoReply`, `Manager...` | daemon and manager |

`CliInput` has the buffer byte by byte (`buf`, `len`, `accept`), the bytes that wait to be
read (`pending`), what was read and what was parsed (`stream`, `lines`). A call of
`input_cb` runs two loops, one that reads and one that takes lines out, and `at` says
which; each turn is a step, and nothing else runs until both are over:

| action | code |
|---|---|
| `input_cb` | `input_cb` is called, and throws the input away or begins to read |
| `read_part`, `read_all` | a turn of the loop around `read`, and its end |
| `parse_line`, `parse_all` | a turn of the loop around `strchr`, and its end |
| `accept_input` | `accept_input`, as the set is registered or the manager goes |

`MsgPath` follows one message:

| variable | meaning |
|---|---|
| `transport`, `role` | the connection and the sender's role |
| `stage` | how far the message has come |
| `sent`, `got` | the message as it was sent, and as the handler got it |
| `flight`, `gone` | the D-Bus call, queued copy, or answer under way; whether the sender has given its strings back |
| `replied`, `told` | what the handler answered, what the status callback heard |
| `held` | references of the receiver to the D-Bus call |
| `fault` | `strdup` of NULL, a string read that is gone, or a D-Bus call released once too often |

| action | code |
|---|---|
| `Connect`, `Send`, `Disconnect` | `resconn_connect`, `resproto_send_message`, `resconn_disconnect` with the send function of either transport |
| `MethodCalled` | `manager_method`, `client_method`: parsed, checked against the method's name and the set |
| `Dequeued` | `receive_message_dequeue` |
| `Reply`, `Status` | `resproto_reply_message`; `status_method` or `send_error_complete` |
| `Forget` | the sender frees its strings |

### Abstractions

* `malloc`, `strdup` and the send functions of libdbus succeed, and the bus
  connection itself is never lost. `get_manager` may find no connection at all
  (`ConnChoice`).
* Identifiers and texts (application id, class, mode) are data nobody decides
  on; they appear in `MsgPath` only. The settings of a stream have values of
  `StreamValue`. Resource masks are sets.
* In `ResMsg` a character is the number of the piece of text it belongs to: what
  matters is where pieces end in the buffer, not what they say.
* The command line client is modelled with tracing on (option `-t`); tracing
  decides which messages want an answer.
* The request counter is global in the code. Only the order of numbers within a
  set is ever used, so each record counts for itself.
* `connect_to_manager` queues its requests one `push_request` at a time; after
  REGISTER is sent all but appending is a no-op, so the model appends them
  together.
* Two faults freeze the process: `fault = "spin"` (`send_request` never leaves
  its loop) and `fault = "stale"` (freed memory is read). What a process does
  after reading freed memory is undefined; the model stops there, and every
  property speaks about running processes or about the fault.
* The link-up and link-down loops visit all sets in one step. Their bodies
  touch one set each.
* Callbacks of the application that call the API again are tail calls of the
  handlers, or commute with what follows, so they are separate steps.
* The application uses no set after it destroyed it, as the interface demands.
* `pid`s of calls in flight: `wire` keeps the calls of a set in order. Calls of
  different sets may overtake each other in the model; the code never relies
  on their order.

### Facts about the environment

From the daemon: messages to one receiver stay in order; when a name loses its
owner the announcement comes before the errors for the calls that owner had not
answered; a call not yet handed over goes to the next owner or is bounced. From
`manager_method`: a REGISTER of a set it knows, and any other call about a set
it does not know, get no answer at all, so that the call ends with NoReply. A
manager drops a set on UNREGISTER whatever it answers.

For `DbusManager`: a unique bus name is never used again; the daemon announces
the end of a client if there is a match rule for it at that moment, behind the
calls the client has made; it ignores the removal of a rule it does not have. The
policy registers what it is told to register, forgets what it is told has gone,
and may send messages that want an answer to connected sets.

For `InternalProto`: a handler sends on its own connection only and calls no main
loop; timers fire when no handler runs, in any order, since the main loop is the
application's. Whoever was given a serial answers at most once, with or without
an error, as long as its record of the set exists. Status callbacks that call the
library again are separate steps.

`Spec` has no fairness; safety is checked with it. `FairSpec` adds weak fairness
of the main loop (it never stops dispatching while messages wait; only a
dispatch shortens `inq`, so this is stated as fairness of `Takes`) and of the
daemon and manager for each set: a call is handled, bounced or answered with
NoReply (libdbus itself gives every pending call a timeout). Nothing is assumed
of the application, nor of the manager's notifications, deaths and starts.
`FairSpec` of `DbusManager` adds weak fairness of its main loop and of each
answer (libdbus gives every pending call a timeout), nothing of the clients.
`FairSpec` of `InternalProto` has weak fairness of returning handlers and of each
timer: both are the application's duty to the library. Nobody has to answer.

## 3. What is checked

The constants of each run are in the `.cfg` of its name. All runs set
`CHECK_DEADLOCK FALSE`: the bounds run out, and a process in a fault stops.

| run | bounds | properties |
|---|---|---|
| `lifecycle` | 1 auto-release set, 4 API calls, all notices, errors to register, unregister and acquire, 1 notice, timeout, death or handover, start | `TypeOK`, `OneOutstanding`, `RefsAccounted`, `StaleNeedsRevival`, `ReadyIsReachable`, `FifoRequests`, `ImplementsPipe`, `RequestsComplete` |
| `agreement` | 1 set, two choices of resources, streams told of in parts, 5 API calls, 1 notice, timeout, death or handover, start | `Agreement`, `AsleepOnlyIfDenied` |
| `steady` | 2 sets, 5 API calls, 1 release notice, timeout, start, no death | `HangNeedsDenial`, `DestroyedIsFreed` |
| `watches` | 2 clients with 2 ids, 4 calls, 1 message with a callback, match rules may be refused | `TypeOK`, `RefsAccounted`, `PolicyInStep`, `RegisteredAreWatched`, `DeadAreForgotten` |
| `followed` (violated) | 1 client, 2 ids, 3 calls | `ToldAreFollowed` |
| `listening` (violated) | 1 client, 2 ids, 3 calls, no rule refused | `ListensForSetsOnly` |
| `internal` | 2 clients (symmetric) with a set each, 4 messages, all connections set up | `TypeOK`, `NotReentered`, `InOrder`, `TimerPerReply`, `RefsAccounted`, `KnownToManager` |
| `delivery` | 1 client, 2 ids, 3 messages, set-up included | `AllDelivered`, `AllAnswered`, `EarlyAreTold` |
| `messages` | messages of all types, every choice of missing and empty strings, both transports, roles and ids, buffers of 1 to 22 characters | `HandedOverIntact`, `ExactlyTheLegalArrive`, `AnswerIsTheHandlers`, `FaultsAreKnown`, `PrintedAsFits` |
| `cli` | 2 commands (floods of 1 and 2), a table of 6 entries, up to 10 requests, 1 notice or denial, timeout, death or handover, start | `TypeOK`, `LabelsTrue`, `StaleNeedsRevival`, `AcceptingIsConnected`, `SilentOnlyIfDenied`, `FlagsAgree`, `FloodGoesOn` |
| `input` | 2 letters, a buffer of 2 bytes, 3 reads of up to 3 bytes | `LinesFaithful`, `Terminated` |
| `wording` (violated) | the table of 64 entries, one flood of 33, 1 notice | `ServerMeansLost` |

The manager is up or down at the start, so one start and one death give the
sequences up-down-up and down-up-down around a set's life. Four or five API
calls are enough to create a set, configure it, acquire, and destroy it with
answers outstanding; one timeout is enough to have a late answer, one death to
have a call lost, bounced, or handed to the next manager. Sets share nothing but
the process and its message queue, so one set shows what happens to a set and
two (`steady`) show that sets do not block each other. Larger bounds for
`lifecycle` (5 calls, 2 starts and deaths, 2.4 million states) gave nothing new.

On the manager's side clients meet only in the search of `manager_method` for
sets of the same sender, which two clients with two sets exercise; four calls
register two sets and unregister and register one again, and one message with a
callback is enough for a set that is killed but not freed.

In `internal` three messages already close a circle (a client registers, the
manager's handler sends to it, its handler to the manager), and three make a set
that is connected again while its UNREGISTER is unanswered; the fourth lets a
second client into either. Setting up commutes with the traffic, so `internal`
starts behind it (`AllSetUp`, a state `Init` reaches) and `delivery` before it.
`internal` was also run once from `Init` (5.4 million states).

In `cli` a table of six entries comes round after six requests, as the one of 64
does after 64: two floods of two with a REGISTER before them are longer. One death is a
handover, too, so an "update" before it shows the two sides with different flags; with
two deaths and two starts (a table of nine, 11 million states) `FlagsAgree` holds as well.
The longest message of `messages` is printed in 20 characters, so every place where a buffer can
end is among the 22. In `input` three bytes a read are more than the buffer holds,
so it grows, once or twice, within a read and between reads.

What the properties say:

* `OneOutstanding`: in a healthy process the head of the queue, and only the
  head, has been sent; the only reply record is its own; numbers ascend.
* `FifoRequests` (action property): requests leave at the front and join at the
  back, so none is overtaken and none sent twice.
* `RefsAccounted`: a pending answer holds two references, the creator one until
  the set is killed. It holds for a set that was never *revived*.
* `StaleNeedsRevival`: freed memory is read only after a killed set came back
  to life, which happens in two ways (below). Everything else that looks
  dangerous about the pointers that are never cleared is safe.
* `ReadyIsReachable`: a ready client's set is connected and has its object path.
* `Agreement`: when nothing is under way, the manager's record of a ready set is
  what the application asked for, the settings of streams given in several calls
  included, whatever deaths came before; except when the name passed from one
  manager to another without a gap (below).
* `AsleepOnlyIfDenied`: no wake-up is lost. With the manager there and nothing
  under way, a set that is not connected is one whose last REGISTER failed.
* `HangNeedsDenial`: under a manager that stays, the process hangs only when a
  REGISTER failed with other requests behind it, and never reads freed memory.
* `ImplementsPipe`: the queue of every set is a `RequestPipe`.
* `RequestsComplete`, `DestroyedIsFreed` (liveness): every request leaves the
  queue; a set whose UNREGISTER is queued is freed.

Of `DbusManager`:

* `RefsAccounted`: two references for each awaited answer, one for a connected
  set, and the record is freed with the last.
* `PolicyInStep`: the policy's registrations are exactly the connected sets, for
  every client whose match rule was not refused.
* `RegisteredAreWatched`: a living client with connected sets is followed.
* `DeadAreForgotten` (liveness): a client that has died is forgotten with all its
  sets, unless its first REGISTER was handled after its death (the match rule
  comes too late) or the rule was refused.

Of `InternalProto`:

* `NotReentered`: however handlers call each other, none is entered while it
  runs, although the busy flag is one bit and is cleared by the innermost send.
* `InOrder`: nothing overtakes, neither by direct delivery nor in the queue.
* `TimerPerReply`: ten second timers and reply records come and go together, so
  no timer uses data that an answer has freed.
* `RefsAccounted`: one reference per reply record and the creator's, on both
  sides and for either value of the uninitialised error code, except for a set
  that was connected again while its UNREGISTER was unanswered.
* `KnownToManager`: the manager's record of a set exists, connected, as long as
  the client's does, unless the manager disconnected it.
* `AllDelivered`, `AllAnswered`, `EarlyAreTold` (liveness): no queued message is
  left without a timer, no request without an end, and clients that were there
  before the manager hear of it.

Of `MsgPath`:

* `HandedOverIntact`: what the handler gets is what was sent, field by field,
  though over D-Bus it is put together and taken apart in different functions. A
  missing string arrives as an empty one over D-Bus, and as missing in process.
* `ExactlyTheLegalArrive`: the table of valid messages, the names of methods, the
  checks of the three sending functions and the checks of the receiver together
  let through exactly what may be sent to that end, over both transports.
* `AnswerIsTheHandlers`: the status callback hears the handler's own answer.
* `FaultsAreKnown`: where a missing string or one given back too early does harm,
  and where the reference to a D-Bus call is given back too often or never.
* `PrintedAsFits`: text cut to the buffer, terminated, without the last newline;
  memory behind the buffer is looked at only when the text did not fit.

Of the command line client:

* `LabelsTrue`: the word for a loss of resources ("lost", "denied", "released") is
  true, unless request numbers share an entry of the table or the request had
  timed out.
* `AcceptingIsConnected`: a client that accepts commands can reach the manager,
  and `SilentOnlyIfDenied`: no wake-up is lost.
* `StaleNeedsRevival`: the pointer `rset` dangles only after a revival, or after
  an answer to "disconnect" that the table did not recognise.
* `FlagsAgree`: with nothing under way the manager and the client's `resset_t` have
  the flags the user asked for last, in spite of reconnections and updates under way,
  unless a REGISTER was sent since (`renewed`). It carries the options of the start,
  which the manager then has; the set has them, too, or, if it was still registered
  when the manager's name passed on, what the user asked for.
* `FloodGoesOn`: a flood whose requests all succeed neither stalls nor overruns.
* `LinesFaithful`, `Terminated`: the lines executed are the lines typed, however
  they are cut into reads, and the search for their end stays inside the buffer.

Each property has a mutant: a definition changed as a plausible bug would
change it ("Mutant of" comments in the modules), on which TLC finds the
property violated.

### What modelling showed about the code

The properties are stated around three behaviours of the code that a reader
should know; the exceptions in the formulas are these, and nothing else.

1. *Endless loop* (`src/resource.c:800`). `send_request` does `continue` without
   any change when the client is `created` and a request is waiting. A REGISTER
   that fails (error or timeout) with other requests queued behind it gets
   there: e.g. create a set, acquire at once, and the manager refuses.
2. *Revival* (`src/dbus-proto.c:320-331`). An UNREGISTER answered with an error
   takes a new reference and marks the set connected although `resource.c` has
   freed its `resource_set_t`; a REGISTER answered after the link went down
   marks a killed set connected. Afterwards a link change, notification or
   answer may read freed memory.
3. *Forgotten destroy* (`src/resource.c:970`). `resource_set_destroy` queues
   nothing while the client is `created`; such a set stays in the list and
   registers again when a manager starts.

Three more are disagreements between the code and its own comments; they are the
properties of the three runs that are violated.

4. *Not followed* (`src/dbus-proto.c:690-694`). "We either were already following
   the client or otherwise we set up a D-Bus match string successfully." When the
   match rule of a client's first REGISTER is refused, its new set stays in the
   list; the next REGISTER finds it, skips `watch_client`, and reaches the policy
   although nobody follows the client.
5. *Followed for ever* (`src/dbus-proto.c:641-654`). "This was the last resource
   set from this D-Bus client -> stop listening." If an answer to the manager is
   outstanding, the set just unregistered is still in the list, killed; the search
   finds it and keeps the match rule, also after the record is freed.

6. *Not lost* (`client/client.c:717`). "Server initiated message" is the comment on
   the branch that prints "lost". Such a message has request number 0 and is told by
   entry 0 of the table, which request 64 fills in: after a flood of 33 a grant the
   manager takes away on its own is printed as the answer to a request.

Behaviour without a comment or doc that says otherwise, so that there is nothing to
be violated; the models do the same as the code:

* *Handover* (`src/dbus-proto.c:578`). When the manager's name passes to another
  owner without a gap, `manager_is_up` skips sets that are connected. The new
  manager never hears of them; `Agreement` excepts such sets (`passed`). The command
  line client does register, with the options of the start (`client/client.c:602`), but
  the set it still has keeps its flags (`src/dbus-proto.c:133`): after an "update" the
  two sides differ from then on (`renewed` in `FlagsAgree`).
* *A process alone* (`src/resource.c:855`). The first `resource_set_configure_audio`
  of a set that names only a pid is forgotten and returns TRUE: the condition asks
  for `!pid`.
* *Missing strings*. `src/res-msg.h` calls the class, the group and the error text
  optional. Over D-Bus a NULL is replaced. The copy of a message that waits in
  process and the `resset_t` of a REGISTER pass it to `strdup`
  (`src/internal-msg.c:43`, `src/res-set.c:54`).
* *Borrowed string* (`src/internal-msg.c:64`). The copy of a waiting AUDIO message
  goes on using the sender's `app_id`.
* *Released twice* (`src/dbus-proto.c:734`). `client_method` gives back the reference
  to the D-Bus call that it took for the handler; `send_error` gives it back, too,
  when the handler answers. A client that answers a message of the manager thus
  releases memory of libdbus. `manager_method` does not, and so keeps a call for
  ever that it has no handler for. No client of the repository answers.
* *Past the buffer* (`src/res-msg.c:132`). The search for the last newline uses a
  pointer that has advanced by what would have been printed.
* *Two REGISTERs* (`client/client.c:602`). If the manager's name appears while the
  first REGISTER of the command line client is pending, a second is sent, which the
  manager ignores; the NoReply error kills the set while the prompt accepts commands.
* *Dangling `rset`* (`client/client.c:633`). After "disconnect" and 64 more requests
  the answer to UNREGISTER is not recognised: the set is freed, the prompt goes on.
* *Refused updates*. `resproto_send_message` keeps the flags of an UPDATE before it
  is answered; a refused one stays in the `resset_t`. A REGISTER after a restart of
  the manager carries the options of the start, not of the last update.
* *Share mask* (`client/client.c:365`). "update" does not check that the mask is a
  subset of all resources, which `src/res-msg.h:79` says it is.
* *Half a line* (`client/client.c:520`). After a read that ends inside a line the
  search for its end runs on into old contents of the buffer (`partial`).

Of the internal transport a reader should know three things that its properties
allow for. The manager's record of a set outlives the client's UNREGISTER: unlike
`manager_method` nothing here calls `disconn`, so only a manager that calls
`resconn_disconnect` ever drops it. After `resconn_disconnect` messages still
reach the handler of the killed set until its UNREGISTER is answered
(`src/internal-proto.c:409`). And `src/internal-proto.c:295` reads the error code
of a message that is filled in later, so that a successful UNREGISTER may leave
the client's set connected for ever.

## 4. What is proved

`ResourceClientProofs!TypeCorrect` states `Spec => []TypeOK` for every set of
resource sets, every configuration value and every bound, from the named
assumptions of `ResourceClient` (`SetsAssumption`, `ChoiceAssumption`,
`BoundAssumption`). `TypeOK` is inductive as it stands. Its contents are less
obvious than they look: all operators are total functions on
`ResourceSetRec`, though `config_value`, `pop_request` and `send_first` choose
an index; the first lemmas of the module show for each function of
`resource.c` that the index exists where the function uses it, and
`resset_unref` stays above zero for any record.

`ResourceClientProofs!OneOutstandingAlways` states `Spec => []OneOutstanding` from the
same assumptions. `OneOutstanding` is not inductive: that the head of the queue is
sent leans on two facts about other parts of the record. `QueueInv` adds them: as
long as the object path exists the `resset_t` is in the list and has one reference
more than its pending answer accounts for (otherwise `register_client_object`
fails on a path that is in use and REGISTER "succeeds" without being sent), and
`rs->resset` is set only on a set with a connection. The argument follows the code:
`send_request` is only ever entered with nothing outstanding (`Idle`) or with a
busy head, and from `Idle` it ends `Settled` (`SendRequestSettles`);
`push_request` appends behind a busy head or starts an idle queue;
`status_method` takes off the head it was called for (`PopHead`), hands an `Idle`
set to `send_request`, and then drops the old reply record, which is not that of
the new head because numbers ascend (`ReplyDoneSettles`). The environment touches
nothing but `wire` and `lost`.

`DbusManagerProofs` proves `TypeOK`, `RefsAccounted`, `PolicyInStep` and
`RegisteredAreWatched` of `DbusManager` for any clients, ids and bounds, from
`ManagerAssumption`. The invariant `ManagerInv` adds that the manager's records are
never merely "created", that the end of a living client is never announced (names
are not used again), and, in place of `RegisteredAreWatched`, that a client is
followed as long as *any* record of it is in the list, killed ones included: the
search after an UNREGISTER looks for those, so the weaker statement would not
carry over it.

`SetStateProofs` proves `RefsAccounted`, `StaleNeedsRevival` and `ReadyIsReachable` of
`ResourceClient`, all three at once, since each leans on the others: a dispatched
answer gives back two references that its request must have taken, a request takes
them only on a set that is connected, and a client is ready only while its set is.
The invariant is `Sound(c, k)`: outside of handlers `k` is 0, and in `status_method`,
which still holds the references of the answered request when it runs `status_cb`,
it is 2. Its parts are the count of references per queue and life state (`Counted`;
the creator's is there as long as the object path is), that UNREGISTER is queued only
when the application has given its pointer up (`Kept`), and that a connecting client
has a REGISTER to wait for and a ready one a connected set (`Alive`). A set that was
revived is excepted from the counts, never from the rest. The lemmas follow the
functions of `resource.c` from the inside out and say of each, besides, what it does
to the queue (`Moves`): leave it, append requests, or take off its front.

It goes on to prove `AsleepOnlyIfDenied` and `HangNeedsDenial` of `ResourceClient`
on top of that. Both are about the ways back into `client_created`, so the lemmas say
of every function of `resource.c` that it puts no set to sleep without a failed
REGISTER (`Stirs`) and, under a manager that stays, leaves no request queued on a
sleeping one, and keeps the object path of a `resset_t` until UNREGISTER is sent
(`Calm`, `Placed`), so that no answer brings a killed set back to life. The invariant of the first theorem, `Woken`, speaks about the
queue of announcements: only sets with a bus connection sleep, so that somebody hears
of the manager; while it is there, each announcement that it is gone has one that it
is back behind it, and as long as a set sleeps that one is still to come. That of the
second, `Steady`, is `Calm` for every set and a queue without bad news.

Their hypotheses are those of the properties. Both need that the manager does not
unregister a set of its own accord (`"unregister" \notin Notices`): a client that it
unregisters goes to `client_created`, is not announced to again and sleeps, and with a
request outstanding the answer finds it there with others behind it, and
`send_request` hangs. `HangNeedsDenial` also needs `MaxDeaths = 0`, for a death does the
same. The runs `agreement` and `steady` are instances; everything else about them,
numbers of sets, calls, notices, starts and time-outs, is arbitrary.

`SetStateProofs` also proves the refinement, `Spec => ImplementsPipe`, and
`FifoRequests`. Every step of `ResourceClient` moves each queue in one of the three ways of
`Moves`; each is translated into `Rest`, `Submit` or `Finish` of `RequestPipe`.
What the pipe calls `out` comes from the reply records, and `QueueInv` says that
they are those of the front of the queue. That requests are dropped unsent on a
ready set only if they are about a stream comes from `Sound`: a ready set can send.

`AgreementProofs` proves `Agreement` of `ResourceClient`: when nothing is under way the
manager agrees with a ready client. The invariant, `Agreeing`, says of every moment
where the value is that the client wants of each attribute of the set (resources,
audio, video, acquisition): the manager has it, or a call on the wire says it behind
which no other call is about the attribute, or a request about it waits in the queue
and will be the last (`Told`). `send_request` moves it from the queue to the wire,
`ManagerHandles` from the wire to the manager, and an operation of the application
puts a request at the back. What makes the invariant long are the exceptions:

* While REGISTER is out the manager knows nothing yet, or something old, so what it
  does not carry must wait behind it (`Registering`); and REGISTER itself carries the
  resources of the moment at which it was *sent*, which an UPDATE behind it corrects.
  Numbers tell a late call or answer of an earlier REGISTER from the present one
  (`Numbered`).
* A manager that is gone, or was replaced, knows nothing, while the client still
  believes it is ready: until the announcement is dispatched (`e.gone`) only the queue
  matters. That the announcement comes at all needs a set with a bus connection.
* A revocation under way will end the acquisition of an auto-release set, on which
  the two disagree until it is dispatched (`Excused`).
* A killed set without its object path takes no part any more, unless it is revived
  (`Doomed`), and UNREGISTER ends everything (`UnregisterOut`).

The theorem has two hypotheses on the constants; the run `agreement` satisfies them.
`Refused \subseteq {"register", "unregister"}`: `status_cb` drops a request that fails
and does not try again, so a manager that refuses an ACQUIRE is left in disagreement
for good. `"unregister" \notin Notices`: without it TLC finds the property violated. A
first REGISTER times out and is handled late, while a second one is on its way; the
manager unregisters the set in between, which puts the client back to
`client_created`; an acquisition made then is only remembered, for the next
connection; and the answer to the second REGISTER makes the client ready without it.
Everything else is arbitrary: the sets, the flags and configurations, the number of
calls, time-outs, deaths and replacements of the manager.

`InternalProtoProofs` proves all six invariants of `InternalProto` for any clients,
set ids and number of messages, from `ConnAssumption`. None but `TypeOK` is
inductive. What they need, in the order in which each uses those before it:

* `Chained`: the stack of handlers is a path of connections on which each sends to
  the next, no connection is on it twice, and those busy are the ones on it that
  wait for a send to return. `NotReentered` needs it because `send_message` clears
  the flag when the *innermost* send returns: that this is the flag it set follows
  from the path having no circle, and that from the flag.
* `Numbered`: a queue is in the order of numbers and above the last message handed
  over, for `InOrder`.
* `Timed`: a serial names one reply record; an answer frees that one and its timer.
* `Accounted`: the references. An awaited UNREGISTER has already killed its set, or it
  is being delivered by a `resconn_disconnect` that will kill it when the handler
  returns (`Killing`); only then does the error branch of `send_error_complete` leave
  the counts right.
* `Known`: the manager's record of a set it has not dismissed is connected or gone,
  and connected if the client has one.

The theorems are about `Spec`, from `Init`; the run `internal` starts later, behind
the set-up, so here the proofs say more than the run even on its constants.

`MsgPathProofs` proves `HandedOverIntact`, `ExactlyTheLegalArrive`,
`AnswerIsTheHandlers` and `FaultsAreKnown` of `MsgPath` for any set of messages, ids and
answers, from `MessageAssumption`: a message has one of the types of `resmsg_type_t`
and the fields of that type, as the union `resmsg_t` has. The lemma that carries it
is `Returned`: for every message, what the parsing function of its type makes of the
arguments that the composing function wrote is the message with text for missing
strings. It is proved type by type from the lists of arguments (`AllAgreed`). The
invariant adds to the properties what is in flight at each stage, so that `got` and
`told` can be traced back to `sent` and `replied`, and how many references to the
D-Bus call the receiver holds.

`ResourceCliProofs` proves `TypeOK`, `StaleNeedsRevival`, `AcceptingIsConnected` and
`LabelsTrue` of `ResourceCli`, from `CliAssumption`. Here any number of requests may be pending, so the
invariant counts: `Named` says that every number stands for one request, on the wire, as
a reply record, in an answer or a grant under way, so that an answer finds its own
record. On it rest `Kept`, that the set has two references per reply record and the
creator's as long as it is not dead, and `Noted`, that the table still says of each
pending request what it was, up to the point where it comes round (`Wrapped`). That an
accepting client is connected is carried through answers by `Noted`, for it is the
table's type by which `manager_status` decides; and that a freed set is not used by
`Kept` together with `AcceptingIsConnected`, for commands are taken only while accepted.
`LabelsTrue`
has an invariant of its own, `Table`, that also holds behind that point: an entry says
what each call on the wire and each grant under way was, unless it is shared or the
call timed out (`Looked`). Nothing else clears it, because the manager sees each call
once (`OnceSent`, `OnceGranted`) and a call that failed is not granted (`Apart`); a
successful answer clears only the entry of a REGISTER. The length of the table is
arbitrary.

The other three ask what holds when nothing is under way, so their invariants say of
every moment what is still under way:

* `SilentOnlyIfDenied`, as long as the table has not come round. `Wakes`: a client that
  does not accept commands was refused or dismissed, or waits for a REGISTER, or for
  the announcement that the manager is there. It leans on `Returned`, the order of
  announcements: behind one that the manager is gone there is one that it is back, if it
  is.
* `FlagsAgree`, if `"update" \notin Refused`; for the flags of an UPDATE are kept before it
  is answered. `Carries` says that the calls on the wire turn the flags that the manager
  has into others, and `Lands` that these are the flags of the `resset_t` or, since a
  REGISTER was sent, the options of the start. `Flagged` says that this is so for a client
  that accepts commands and waits for no REGISTER (`InForce`), for one whose REGISTER has
  been granted but not answered yet (`Welcomed`), both as long as no news of the manager is
  queued (`Unbroken`), and for one whose REGISTER is on the wire (`Applied`). `Wished`
  relates the `resset_t` to what the user asked for. A handover without a gap is where
  the two alternatives of `Lands` part.
* `FloodGoesOn`, if `"none" \notin Outcomes`: the policy must grant something, full or
  empty, in answer to each request, since it is the grant that sends the next. `Moving`
  says that an ACQUIRE or RELEASE is unanswered or a grant is on its way to a set that
  has a path to hear it. It is kept because a grant stands behind each positive answer
  (`Followed`), a call is answered once and its reply awaited until then (`Answered`,
  `Pending`), and a set that has lost its path hears that it is registered again before
  it hears of anything it did under that registration (`Introduced`). A call that timed
  out breaks `Pending`: a manager that handles a REGISTER late grants what the client
  asks for under it, and the client, which has just lost its set, drops the grant. The
  flood then stalls without any request of it having failed, so the property excepts
  calls that have timed out (`overdue`), and a table that has come round. `Bounded` is
  the second half of the property and has no exceptions.

The run `cli` satisfies both hypotheses on the constants.

`CliInputProofs` proves `LinesFaithful` and `Terminated` of `CliInput`, and its types, from
`InputAssumption`, for lines, reads and buffers of any size. `Roomy`, that the last byte of
the buffer is a NUL that is not in use, holds because the buffer grows as soon as it is
full and the new half is cleared. `Whole` is that nothing is lost: the lines executed, the
bytes in use and those that wait to be read are what was to be read. That `strchr` does
not run past the bytes in use is the hard part, for no NUL is written behind them:
either they end with a newline, or a NUL happens to be there (`Fenced`), because nothing
was ever behind them (`Fresh`, `Coming`) or `parse_line` has just put it there. After a
read that ends inside a line neither need be so; that is the exception (`partial`).

Apart from the hypotheses named above, what the theorems assume of the constants is
only that sets are sets and bounds numbers, that the connection `Manager` is not a client, and the shape of messages;
bounds may be as large as one likes, so a property proved with them holds of any
number of calls, messages and deaths of the manager.

Only model-checked:

* liveness and everything else with ENABLED, which is beyond the provers used:
  `RequestsComplete`, `DestroyedIsFreed`, `DeadAreForgotten`, `AllDelivered`,
  `AllAnswered`, `EarlyAreTold`;
* `PrintedAsFits`, a fold over pieces of text: an induction over data, which these
  provers cannot use.

## 5. Not modelled

* the GLib glue, which hands the bus connection to a main loop: the main loop is
  the scheduling of the models;
* memory exhaustion, failing sends of libdbus, and the loss of the bus itself,
  which ends the process;
* `resource_set_use_dbus` and the connection that `get_dbus` keeps: one connection
  serves all sets;
* `resmsg_generate_app_id`, which reads `/proc`, and the tables of names in
  `src/res-msg.c`;
* of the command line client the parsing of options and arguments, printing, the
  measurement of time, and the end of its input;
* examples and tests.
