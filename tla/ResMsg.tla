------------------------------- MODULE ResMsg -------------------------------
(***************************************************************************)
(* res-msg.c: messages and sets of flags as text, printed piece by piece   *)
(* into a buffer that may be too small.  What a piece says is left out: a  *)
(* character is the number of the piece it belongs to, or one of those     *)
(* below.  mem is the buffer, p and len are the function's: where the next *)
(* piece goes, and how much room it believes to have.                      *)
(***************************************************************************)
EXTENDS DbusMsg, Integers, SequencesExt

NUL == 0
NL  == -1
Sep == -2
Old == -3       \* what the buffer held before

Start(size) ==
    [mem |-> [i \in 0..(size - 1) |-> IF i = 0 THEN NUL ELSE Old],
     p |-> 0, len |-> size]

(* snprintf: writes what fits and a NUL, returns what it would have        *)
(* written.                                                                *)
snprintf(t, text) ==
    LET n    == Len(text)
        last == IF n < t.len THEN t.p + n ELSE t.p + t.len - 1
    IN  [mem |-> [i \in DOMAIN t.mem |->
                    IF i \in t.p..(last - 1) THEN text[i - t.p + 1]
                    ELSE IF i = last THEN NUL ELSE t.mem[i]],
         p   |-> t.p + n,
         len |-> t.len - n]

(* Mutant of print: the room left is not counted. *)
print_uncounted(t, text) ==
    IF t.len > 0 THEN [snprintf(t, text) EXCEPT !.len = t.len] ELSE t

print(t, text) == IF t.len > 0 THEN snprintf(t, text) ELSE t

printed(texts, size) == FoldLeft(print, Start(size), texts)

(* The lines of a message: type, id and reqno, and what its type has.      *)
line_count(m) ==
    3 + CASE m.type \in Record  -> 7
          [] m.type \in Notify  -> 1
          [] m.type = "audio"   -> 7
          [] m.type = "video"   -> 1
          [] m.type = "status"  -> 2
          [] OTHER              -> 0

lines(m) == [i \in 1..line_count(m) |-> <<i, NL>>]

(* The newline at the end is taken away when there is one, through the     *)
(* pointer that has gone on over what was cut off: what it then reads is   *)
(* not in the buffer.                                                      *)
resmsg_dump_message(m, size) ==
    LET t == printed(lines(m), size)
        q == t.p - 1
    IN  [mem     |-> IF q > 0 /\ q < size /\ t.mem[q] = NL
                     THEN [t.mem EXCEPT ![q] = NUL] ELSE t.mem,
         outside |-> q >= size]

(* resmsg_res_str and resmsg_mod_str for n flags with a name: the names,   *)
(* separated, and the number.                                              *)
flag_texts(n) ==
    [i \in 1..(n + 1) |-> IF i = 1 THEN <<i>> ELSE <<Sep, i>>]

resmsg_res_str(n, size) == printed(flag_texts(n), size).mem

(* The string a buffer holds. *)
string_in(mem) ==
    LET end == CHOOSE i \in DOMAIN mem :
                   mem[i] = NUL /\ \A j \in 0..(i - 1) : mem[j] # NUL
    IN  [i \in 1..end |-> mem[i - 1]]

Terminates(mem) == \E i \in DOMAIN mem : mem[i] = NUL

(* What of a text fits into a buffer, with the NUL. *)
cut(text, size) ==
    IF Len(text) < size THEN text ELSE SubSeq(text, 1, size - 1)
=============================================================================
