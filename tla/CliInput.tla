------------------------------ MODULE CliInput ------------------------------
(***************************************************************************)
(* client/client.c: the input buffer of the command line client.  input_cb *)
(* reads whatever the terminal or pipe has into a buffer that doubles when *)
(* it is full, and hands every complete line to parse_input.  The bytes    *)
(* are searched as a C string, and no byte is written behind what was read,*)
(* so what earlier lines left in the buffer matters.  Each turn of its two *)
(* loops is a step; nothing else runs in between.                          *)
(*                                                                         *)
(* End of file and read errors are not modelled.                           *)
(***************************************************************************)
EXTENDS Naturals, Sequences

CONSTANTS
    Letter,         \* what lines are made of
    InitialSize,    \* 256 bytes in create_input
    MaxChunk,       \* bound: bytes that can be read at once
    MaxReads        \* bound: calls of input_cb

ASSUME InputAssumption ==
    /\ InitialSize \in Nat \ {0}
    /\ MaxChunk \in Nat /\ MaxReads \in Nat
    /\ {"nl", "nul"} \cap Letter = {}

VARIABLES
    buf,        \* input.buf, a sequence of input.buf_size bytes
    len,        \* input.len, bytes of it in use
    accept,     \* input.accept
    at,         \* the loop of input_cb that is running, "main" outside of it
    pending,    \* bytes that wait to be read
    lines,      \* the lines handed to parse_input so far, each with its newline
    stream,     \* history: the bytes to read since input was accepted
    reads,      \* calls of input_cb so far
    partial     \* history: a read after the first ended inside a line

vars == <<buf, len, accept, at, pending, lines, stream, reads, partial>>

Byte == Letter \cup {"nl"}

Nul(n) == [i \in 1..n |-> "nul"]

(* Each variable has its type, and len stays inside the buffer. *)
TypeOK ==
    /\ buf \in Seq(Byte \cup {"nul"})
    /\ len \in 0..Len(buf)
    /\ accept \in BOOLEAN
    /\ at \in {"main", "read", "parse"}
    /\ pending \in Seq(Byte)
    /\ lines \in Seq(Byte)
    /\ stream \in Seq(Byte)
    /\ reads \in 0..MaxReads
    /\ partial \in BOOLEAN

Init ==
    /\ buf = Nul(InitialSize)
    /\ len = 0
    /\ accept = FALSE
    /\ at = "main"
    /\ pending = <<>>
    /\ lines = <<>>
    /\ stream = <<>>
    /\ reads = 0
    /\ partial = FALSE
-----------------------------------------------------------------------------
(* b with chunk written behind its first n bytes. *)
written(b, n, chunk) ==
    [i \in 1..Len(b) |-> IF i \in (n + 1)..(n + Len(chunk)) THEN chunk[i - n] ELSE b[i]]

(* Mutant of resize_input: the memory that is added is not cleared. *)
resize_input_uncleared(b, n) ==
    IF Len(b) <= n THEN b \o [i \in 1..Len(b) |-> CHOOSE l \in Letter : TRUE] ELSE b

(* The buffer once n bytes of it are in use: never full. *)
resize_input(b, n) == IF Len(b) <= n THEN b \o Nul(Len(b)) ELSE b

(* strchr(buf, '\n'): where the search ends, at the first newline or at a  *)
(* NUL in front of it.                                                     *)
Stop(b) ==
    {i \in 1..Len(b) : b[i] \in {"nl", "nul"} /\ \A j \in 1..(i - 1) : b[j] \notin {"nl", "nul"}}

(* Mutant of shifted: the line's own bytes stay in the count. *)
shifted_all(b, n, p) ==
    LET rest == IF n > p THEN n - p ELSE 0
        cut  == [b EXCEPT ![p] = "nul"]
    IN  [buf |-> [written(cut, 0, SubSeq(cut, p + 1, p + rest)) EXCEPT ![rest + 1] = "nul"],
         len |-> n]

(* The newline at p becomes a NUL, the bytes behind it move to the front,  *)
(* and a NUL ends them.                                                    *)
shifted(b, n, p) ==
    LET rest == IF n > p THEN n - p ELSE 0
        cut  == [b EXCEPT ![p] = "nul"]
    IN  [buf |-> [written(cut, 0, SubSeq(cut, p + 1, p + rest)) EXCEPT ![rest + 1] = "nul"],
         len |-> rest]

Chunks == UNION {[1..n -> Byte] : n \in 1..MaxChunk}

(* Called when there is something to read: thrown away unless the client   *)
(* accepts input.                                                          *)
input_cb ==
    /\ at = "main"
    /\ reads < MaxReads /\ reads' = reads + 1
    /\ \E chunk \in Chunks :
          IF accept
          THEN /\ at' = "read"
               /\ pending' = chunk /\ stream' = stream \o chunk
               /\ partial' = (partial \/ (reads > 0 /\ chunk[Len(chunk)] # "nl"))
          ELSE UNCHANGED <<at, pending, stream, partial>>
    /\ UNCHANGED <<buf, len, accept, lines>>

(* One turn of the first loop: as much is read as there is room for. *)
read_part ==
    /\ at = "read" /\ pending # <<>>
    /\ LET room == Len(buf) - len
           n    == IF Len(pending) < room THEN Len(pending) ELSE room
       IN  /\ buf' = resize_input(written(buf, len, SubSeq(pending, 1, n)), len + n)
           /\ len' = len + n
           /\ pending' = SubSeq(pending, n + 1, Len(pending))
    /\ UNCHANGED <<accept, at, lines, stream, reads, partial>>

(* Nothing is left to read: EAGAIN. *)
read_all ==
    /\ at = "read" /\ pending = <<>>
    /\ at' = "parse"
    /\ UNCHANGED <<buf, len, accept, pending, lines, stream, reads, partial>>

(* One turn of the second loop: the line in front is executed. *)
parse_line ==
    /\ at = "parse"
    /\ \E p \in Stop(buf) :
          /\ buf[p] = "nl"
          /\ lines' = lines \o SubSeq(buf, 1, p)
          /\ buf' = shifted(buf, len, p).buf
          /\ len' = shifted(buf, len, p).len
    /\ UNCHANGED <<accept, at, pending, stream, reads, partial>>

(* strchr finds no newline any more. *)
parse_all ==
    /\ at = "parse" /\ \E p \in Stop(buf) : buf[p] = "nul"
    /\ at' = "main"
    /\ UNCHANGED <<buf, len, accept, pending, lines, stream, reads, partial>>

(* The set is registered, or the manager is gone. *)
accept_input ==
    /\ at = "main"
    /\ accept' = ~accept
    /\ buf' = IF accept THEN buf ELSE [buf EXCEPT ![1] = "nul"]
    /\ len' = IF accept THEN len ELSE 0
    /\ stream' = IF accept THEN stream ELSE <<>>
    /\ lines' = IF accept THEN lines ELSE <<>>
    /\ UNCHANGED <<at, pending, reads, partial>>

Next == input_cb \/ read_part \/ read_all \/ parse_line \/ parse_all \/ accept_input

Spec == Init /\ [][Next]_vars
-----------------------------------------------------------------------------
(* What the user types is what the client executes, line by line, however  *)
(* the bytes are cut into reads and however often the buffer grows: the    *)
(* lines executed, and behind them the beginning of one that is not        *)
(* complete, are what was read.  The exception is input of which a read,   *)
(* other than the first, has ended inside a line: the search for its end   *)
(* runs on into what earlier lines have left in the buffer.  From then on  *)
(* nothing is said, also when the line is completed by the next read.      *)
LinesFaithful ==
    at = "main" /\ ~partial =>
        /\ lines \o SubSeq(buf, 1, len) = stream
        /\ \A i \in 1..len : buf[i] \in Letter

(* The searches for the end of a line stay inside the buffer. *)
Terminated == \E i \in 1..Len(buf) : i > len /\ buf[i] = "nul"
=============================================================================
