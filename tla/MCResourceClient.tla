-------------------------- MODULE MCResourceClient --------------------------
(* Constants for model checking ResourceClient. *)
EXTENDS ResourceClient

(* A set of audio and one more resource that can later be changed to video. *)
TwoFlags == {[mandatory |-> {"audio"}, optional |-> {"other"}],
             [mandatory |-> {"video"}, optional |-> {}]}

PlainFlags == {[mandatory |-> {"other"}, optional |-> {}]}

AudioFlags == {[mandatory |-> {"audio"}, optional |-> {}]}

(* An audio stream is told of in parts, one call names its process only; a *)
(* video stream has a process.                                             *)
Only(f, v) == [x \in Setting |-> IF x = f THEN v ELSE NoValue]

OneStream == {[kind |-> "audio", given |-> Only("group", v)] : v \in StreamValue}

Streams ==
    OneStream \cup {[kind |-> k, given |-> Only("pid", v)] : k \in Kind, v \in StreamValue}
=============================================================================
