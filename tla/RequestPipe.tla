----------------------------- MODULE RequestPipe -----------------------------
(***************************************************************************)
(* What the request queues of resource.c promise, without saying how: a    *)
(* pipe per resource set.  Jobs go in at the back, numbered in order, and  *)
(* leave at the front.  One job at a time, the front one, is out with the  *)
(* manager, and as long as there are jobs one is out.  A job leaves the    *)
(* pipe when it has come back; jobs behind it may then be dropped without  *)
(* having been out, but on a set that is ready only those about a stream,  *)
(* and all of them when the set is unregistered.                           *)
(*                                                                         *)
(* A pipe that is broken promises nothing, and stays broken.               *)
(***************************************************************************)
EXTENDS Naturals, Sequences

CONSTANT Sets

VARIABLE pipe   \* pipe[s]: queue, number that is out, last number, see Empty

JobType == {"register", "unregister", "update", "acquire", "release",
            "audio", "video"}

Empty == [queue |-> <<>>, out |-> {}, last |-> 0, ready |-> FALSE,
          broken |-> FALSE]

Init == pipe = [s \in Sets |-> Empty]

(* The jobs numbered from the one after last. *)
Jobs(types, last) ==
    [i \in DOMAIN types |-> [msgtyp |-> types[i], reqno |-> last + i]]

(* The first of the jobs q goes out, behind any that are dropped. *)
Served(new, q) ==
    \E k \in 0..Len(q) :
        /\ new.queue = SubSeq(q, k + 1, Len(q))
        /\ new.out = IF k = Len(q) THEN {} ELSE {q[k + 1].reqno}
        /\ new.ready => \A i \in 1..k : q[i].msgtyp \in {"audio", "video"}

(* New jobs: one, or those of a reconnection behind a REGISTER.            *)
Submit(old, new) ==
    /\ new.last > old.last
    /\ \E types \in [1..(new.last - old.last) -> JobType] :
          LET all == old.queue \o Jobs(types, old.last)
          IN  /\ Len(types) > 1 => types[1] = "register"
              /\ IF old.out = {} THEN Served(new, all)
                 ELSE new.queue = all /\ new.out = old.out

(* The job that was out has come back. *)
Finish(old, new) ==
    /\ old.out # {}
    /\ new.last = old.last
    /\ \/ Served(new, Tail(old.queue))
       \/ /\ Head(old.queue).msgtyp = "unregister"
          /\ new.queue = <<>> /\ new.out = {}

Rest(old, new) ==
    new.queue = old.queue /\ new.out = old.out /\ new.last = old.last

Evolves(old, new) ==
    \/ new.broken
    \/ ~old.broken /\ (Rest(old, new) \/ Submit(old, new) \/ Finish(old, new))

Next == \A s \in Sets : Evolves(pipe[s], pipe'[s])

Spec == Init /\ [][Next]_pipe
=============================================================================
