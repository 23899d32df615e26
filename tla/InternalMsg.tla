----------------------------- MODULE InternalMsg -----------------------------
(***************************************************************************)
(* internal-msg.c: the copy of a message that has to wait in the queue of  *)
(* the in-process transport.                                               *)
(***************************************************************************)
EXTENDS DbusMsg

(* Mutant of duplicated: the class of a REGISTER or UPDATE is shared. *)
duplicated_but_klass(type) ==
    CASE type \in Record  -> {"app_id"}
      [] type = "audio"   -> {"group", "name", "pattern"}
      [] type = "status"  -> {"errmsg"}
      [] OTHER            -> {}

(* The strings that get memory of their own. *)
duplicated(type) ==
    CASE type \in Record  -> {"app_id", "klass"}
      [] type = "audio"   -> {"group", "name", "pattern"}
      [] type = "status"  -> {"errmsg"}
      [] OTHER            -> {}

strings(type) ==
    CASE type \in Record  -> {"app_id", "klass"}
      [] type = "audio"   -> {"group", "app_id", "name", "pattern"}
      [] type = "status"  -> {"errmsg"}
      [] OTHER            -> {}

(* The copy goes on using the sender's memory for the others. *)
shared(type) == strings(type) \ duplicated(type)

(* strdup of a missing string is undefined. *)
copyable(m) == \A f \in duplicated(m.type) : m[f] # NULL
=============================================================================
