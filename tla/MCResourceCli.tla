---------------------------- MODULE MCResourceCli ----------------------------
(* Constants for model checking ResourceCli. *)
EXTENDS ResourceCli

flags(all, opt, share, mask) ==
    [all |-> all, opt |-> opt, share |-> share, mask |-> mask]

(* Two resources, one of them optional, one shared. *)
Both == flags({"a", "b"}, {"a"}, {"b"}, {"b"})

(* An update to one resource. *)
One == {flags({"a"}, {}, {}, {})}
=============================================================================
