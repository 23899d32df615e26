--------------------------- MODULE CliInputProofs ---------------------------
(***************************************************************************)
(* The input buffer of the command line client, for every length of a      *)
(* line, of a chunk and of the buffer, and for any number of reads: the    *)
(* search for a newline never leaves the buffer, and the lines executed    *)
(* are the lines read.                                                     *)
(***************************************************************************)
EXTENDS CliInput, SequenceTheorems, TLAPS

Char == Byte \cup {"nul"}

(* A function on 1..n is a sequence of length n. *)
LEMMA TableSeq ==
    ASSUME NEW S, NEW n \in Nat, NEW f \in [1..n -> S]
    PROVE  f \in Seq(S) /\ Len(f) = n
OBVIOUS

(* Bytes copied into a sequence, inside of it: its length stays, and only  *)
(* their places change.                                                    *)
LEMMA WrittenSeq ==
    ASSUME NEW b \in Seq(Char), NEW n \in Nat, NEW chunk \in Seq(Char),
           n + Len(chunk) <= Len(b)
    PROVE  /\ written(b, n, chunk) \in Seq(Char)
           /\ Len(written(b, n, chunk)) = Len(b)
           /\ \A i \in 1..Len(b) : written(b, n, chunk)[i] =
                  IF i \in (n + 1)..(n + Len(chunk)) THEN chunk[i - n] ELSE b[i]
<1> DEFINE w == [i \in 1..Len(b) |->
                    IF i \in (n + 1)..(n + Len(chunk)) THEN chunk[i - n] ELSE b[i]]
<1>1. Len(b) \in Nat /\ Len(chunk) \in Nat
    BY LenProperties
<1>2. ASSUME NEW i \in 1..Len(b)
      PROVE  (IF i \in (n + 1)..(n + Len(chunk)) THEN chunk[i - n] ELSE b[i]) \in Char
    <2>1. CASE i \in (n + 1)..(n + Len(chunk))
        <3>1. i - n \in 1..Len(chunk)
            BY <1>1, <2>1
        <3>2. chunk[i - n] \in Char
            BY <3>1, ElementOfSeq
        <3> QED BY <2>1, <3>2
    <2>2. CASE i \notin (n + 1)..(n + Len(chunk))
        <3>1. b[i] \in Char
            BY ElementOfSeq
        <3> QED BY <2>2, <3>1
    <2> QED BY <2>1, <2>2
<1>3. w \in [1..Len(b) -> Char]
    BY <1>2
<1>4. w \in Seq(Char) /\ Len(w) = Len(b)
    BY <1>1, <1>3, TableSeq
<1>5. written(b, n, chunk) = w
    BY DEF written
<1> QED BY <1>4, <1>5

(* Cleared memory holds NULs only. *)
LEMMA NulSeq ==
    ASSUME NEW n \in Nat
    PROVE  Nul(n) \in Seq(Char) /\ Len(Nul(n)) = n /\ \A i \in 1..n : Nul(n)[i] = "nul"
<1>1. Nul(n) \in [1..n -> Char]
    BY DEF Nul, Char
<1>2. Nul(n) \in Seq(Char) /\ Len(Nul(n)) = n
    BY <1>1, TableSeq
<1> QED BY <1>2 DEF Nul

(* A buffer that ends with a NUL, of which n bytes are in use: resized, it *)
(* has room for one more, keeps its bytes and ends with a NUL.             *)
LEMMA ResizedSeq ==
    ASSUME NEW b \in Seq(Char), NEW n \in 1..Len(b), n < Len(b) => b[Len(b)] = "nul"
    PROVE  /\ resize_input(b, n) \in Seq(Char)
           /\ n < Len(resize_input(b, n)) /\ Len(b) <= Len(resize_input(b, n))
           /\ \A i \in 1..Len(b) : resize_input(b, n)[i] = b[i]
           /\ \A i \in (Len(b) + 1)..Len(resize_input(b, n)) : resize_input(b, n)[i] = "nul"
           /\ resize_input(b, n)[Len(resize_input(b, n))] = "nul"
<1>1. Len(b) \in Nat
    BY LenProperties
<1>2. CASE Len(b) <= n
    <2> DEFINE z == Nul(Len(b))
    <2>1. z \in Seq(Char) /\ Len(z) = Len(b) /\ \A i \in 1..Len(b) : z[i] = "nul"
        BY <1>1, NulSeq
    <2> HIDE DEF z
    <2>2. /\ b \o z \in Seq(Char) /\ Len(b \o z) = Len(b) + Len(z)
          /\ \A i \in 1..(Len(b) + Len(z)) :
                 (b \o z)[i] = IF i <= Len(b) THEN b[i] ELSE z[i - Len(b)]
        BY <2>1, ConcatProperties
    <2>3. resize_input(b, n) = b \o z
        BY <1>2 DEF resize_input, z
    <2>4. \A i \in (Len(b) + 1)..Len(b \o z) : (b \o z)[i] = "nul"
        <3> TAKE i \in (Len(b) + 1)..Len(b \o z)
        <3>1. i - Len(b) \in 1..Len(b) /\ i \in 1..(Len(b) + Len(z)) /\ ~(i <= Len(b))
            BY <1>1, <2>1, <2>2
        <3> QED BY <2>1, <2>2, <3>1
    <2>5. Len(b \o z) \in (Len(b) + 1)..Len(b \o z)
        BY <1>1, <2>1, <2>2
    <2>6. \A i \in 1..Len(b) : (b \o z)[i] = b[i]
        BY <1>1, <2>1, <2>2
    <2>7. n < Len(b \o z) /\ Len(b) <= Len(b \o z)
        BY <1>1, <2>1, <2>2
    <2> QED BY <2>2, <2>3, <2>4, <2>5, <2>6, <2>7
<1>3. CASE ~(Len(b) <= n)
    <2>1. resize_input(b, n) = b
        BY <1>3 DEF resize_input
    <2> QED BY <1>1, <1>3, <2>1
<1> QED BY <1>2, <1>3

(* The line that ends at p taken out of a buffer of which n bytes are in   *)
(* use: what is left of them stands in front, and a NUL behind it.         *)
LEMMA ShiftedSeq ==
    ASSUME NEW b \in Seq(Char), NEW n \in Nat, n < Len(b), NEW p \in 1..Len(b),
           b[Len(b)] = "nul",
           NEW rest, rest = IF n > p THEN n - p ELSE 0
    PROVE  /\ shifted(b, n, p).len = rest
           /\ shifted(b, n, p).buf \in Seq(Char) /\ Len(shifted(b, n, p).buf) = Len(b)
           /\ \A i \in 1..rest : shifted(b, n, p).buf[i] = b[p + i]
           /\ shifted(b, n, p).buf[rest + 1] = "nul"
           /\ shifted(b, n, p).buf[Len(b)] = "nul"
<1> DEFINE cut == [b EXCEPT ![p] = "nul"]
           tail == SubSeq(cut, p + 1, p + rest)
           w == written(cut, 0, tail)
           r == [w EXCEPT ![rest + 1] = "nul"]
<1>1. Len(b) \in Nat /\ rest \in Nat /\ p \in Nat /\ "nul" \in Char
    BY LenProperties DEF Char
<1>2. p + rest <= Len(b) /\ rest + 1 \in 1..Len(b) /\ (rest > 0 => p + rest = n)
    BY <1>1
<1>3. cut \in Seq(Char) /\ Len(cut) = Len(b)
      /\ \A j \in 1..Len(b) : cut[j] = IF j = p THEN "nul" ELSE b[j]
    BY <1>1, ExceptSeq
<1> HIDE DEF cut
<1>4. tail \in Seq(Char) /\ Len(tail) = rest /\ \A i \in 1..rest : tail[i] = cut[p + i]
    <2>1. \A i \in (p + 1)..(p + rest) : cut[i] \in Char
        BY <1>1, <1>2, <1>3, ElementOfSeq
    <2>2. /\ tail \in Seq(Char)
          /\ Len(tail) = IF p + 1 <= p + rest THEN (p + rest) - (p + 1) + 1 ELSE 0
          /\ \A i \in 1..((p + rest) - (p + 1) + 1) : tail[i] = cut[(p + 1) + i - 1]
        BY <1>1, <2>1, SubSeqProperties, p + 1 \in Int, p + rest \in Int
    <2> HIDE DEF tail
    <2>3. (p + rest) - (p + 1) + 1 = rest
        BY <1>1
    <2>4. Len(tail) = rest
        BY <1>1, <2>2
    <2>5. ASSUME NEW i \in 1..rest PROVE tail[i] = cut[p + i]
        <3>1. (p + 1) + i - 1 = p + i
            BY <1>1
        <3> QED BY <2>2, <2>3, <3>1
    <2> QED BY <2>2, <2>4, <2>5
<1> HIDE DEF tail
<1>5. /\ w \in Seq(Char) /\ Len(w) = Len(cut)
      /\ \A i \in 1..Len(cut) : w[i] = IF i \in (0 + 1)..(0 + Len(tail)) THEN tail[i - 0] ELSE cut[i]
    <2>1. 0 + Len(tail) <= Len(cut) /\ 0 \in Nat
        BY <1>1, <1>2, <1>3, <1>4
    <2> QED BY <1>3, <1>4, <2>1, WrittenSeq
<1> HIDE DEF w
<1>6. /\ r \in Seq(Char) /\ Len(r) = Len(w)
      /\ \A j \in 1..Len(w) : r[j] = IF j = rest + 1 THEN "nul" ELSE w[j]
    <2>1. rest + 1 \in 1..Len(w)
        BY <1>2, <1>3, <1>5
    <2> QED BY <1>1, <1>5, <2>1, ExceptSeq
<1> HIDE DEF r
<1>7. shifted(b, n, p) = [buf |-> r, len |-> rest]
    BY DEF shifted, r, w, tail, cut
<1>8. ASSUME NEW i \in 1..rest PROVE r[i] = b[p + i]
    <2>1. i \in 1..Len(b) /\ i # rest + 1 /\ p + i \in 1..Len(b) /\ p + i # p /\ i - 0 = i
          /\ i \in (0 + 1)..(0 + Len(tail))
        BY <1>1, <1>2, <1>4
    <2>2. r[i] = w[i]
        BY <1>3, <1>5, <1>6, <2>1
    <2>3. w[i] = tail[i]
        BY <1>3, <1>5, <2>1
    <2>4. tail[i] = cut[p + i] /\ cut[p + i] = b[p + i]
        BY <1>3, <1>4, <2>1
    <2> QED BY <2>2, <2>3, <2>4
<1>9. r[rest + 1] = "nul"
    BY <1>2, <1>3, <1>5, <1>6
<1>10. r[Len(b)] = "nul"
    <2>1. CASE Len(b) = rest + 1
        BY <1>9, <2>1
    <2>2. CASE Len(b) # rest + 1
        <3>1. Len(b) \in 1..Len(b) /\ Len(b) \notin (0 + 1)..(0 + Len(tail))
            BY <1>1, <1>2, <1>4
        <3>2. r[Len(b)] = w[Len(b)]
            BY <1>3, <1>5, <1>6, <2>2, <3>1
        <3>3. w[Len(b)] = cut[Len(b)]
            BY <1>3, <1>5, <3>1
        <3> QED BY <1>3, <3>1, <3>2, <3>3
    <2> QED BY <2>1, <2>2
<1> QED BY <1>3, <1>5, <1>6, <1>7, <1>8, <1>9, <1>10
-----------------------------------------------------------------------------
LEMMA CharIsByteOrNul == Char = Byte \cup {"nul"}
BY DEF Char

(* A chunk is a sequence of at least one byte. *)
LEMMA ChunkSeq ==
    ASSUME NEW chunk \in Chunks
    PROVE  chunk \in Seq(Byte) /\ Len(chunk) > 0
<1>1. PICK n \in 1..MaxChunk : chunk \in [1..n -> Byte]
    BY DEF Chunks
<1>2. n \in Nat /\ n > 0
    BY <1>1, InputAssumption
<1> QED BY <1>1, <1>2, TableSeq

(* The places of buf behind the bytes in use hold NULs only. *)
Cleared == \A i \in (len + 1)..Len(buf) : buf[i] = "nul"

(* The buffer has room for one more byte, and its last byte is a NUL: it   *)
(* grows as soon as it is full, and what is added is cleared.              *)
Roomy == len < Len(buf) /\ buf[Len(buf)] = "nul"

(* Bytes wait to be read only while the first loop runs. *)
Idle == at # "read" => pending = <<>>

(* Before the first read the buffer is as create_input made it. *)
Fresh == reads = 0 => at = "main" /\ len = 0 /\ Cleared

(* The bytes in use were read. *)
Clean == \A i \in 1..len : buf[i] \in Byte

(* Nothing read is lost, repeated or out of its place. *)
Whole == ~partial => (lines \o SubSeq(buf, 1, len)) \o pending = stream

(* No complete line is left behind. *)
Drained == ~partial /\ at = "main" => \A i \in 1..len : buf[i] \in Letter

(* What will be in use when the read is over ends with a newline, or       *)
(* nothing is behind it.                                                   *)
Coming ==
    ~partial /\ at = "read" =>
        \/ Cleared
        \/ pending # <<>> /\ pending[Len(pending)] = "nl"
        \/ pending = <<>> /\ len > 0 /\ buf[len] = "nl"

(* While lines are taken out, the search for a newline does not get past   *)
(* the bytes in use.                                                       *)
Fenced ==
    ~partial /\ at = "parse" =>
        (len > 0 /\ buf[len] = "nl") \/ buf[len + 1] = "nul"

Inv ==
    /\ TypeOK /\ Roomy /\ Idle /\ Fresh /\ Clean
    /\ Whole /\ Drained /\ Coming /\ Fenced

LEMMA InvInit == Init => Inv
<1> SUFFICES ASSUME Init PROVE Inv
    OBVIOUS
<1>1. InitialSize \in Nat /\ InitialSize > 0
    BY InputAssumption
<1>2. buf \in Seq(Char) /\ Len(buf) = InitialSize /\ \A i \in 1..InitialSize : buf[i] = "nul"
    BY <1>1, NulSeq DEF Init
<1>3. TypeOK
    <2>1. buf \in Seq(Byte \cup {"nul"})
        BY <1>2 DEF Char
    <2>2. <<>> \in Seq(Byte)
        BY EmptySeq
    <2>3. len \in 0..Len(buf) /\ reads \in 0..MaxReads
        BY <1>1, <1>2, InputAssumption DEF Init
    <2> QED BY <2>1, <2>2, <2>3 DEF Init, TypeOK
<1>4. Roomy /\ Cleared /\ Clean
    BY <1>1, <1>2 DEF Init, Roomy, Cleared, Clean
<1>5. Idle /\ Fresh /\ Drained /\ Coming /\ Fenced
    BY <1>4 DEF Init, Idle, Fresh, Drained, Coming, Fenced
<1>6. Whole
    <2>1. SubSeq(buf, 1, len) = <<>>
        BY SubSeqEmpty DEF Init
    <2> QED BY <2>1 DEF Init, Whole
<1> QED BY <1>3, <1>4, <1>5, <1>6 DEF Inv

(* What the steps' proofs read off the invariant. *)
LEMMA BufferFacts ==
    ASSUME TypeOK, Roomy
    PROVE  /\ buf \in Seq(Char) /\ Len(buf) \in Nat /\ len \in Nat /\ len < Len(buf)
           /\ buf[Len(buf)] = "nul"
           /\ pending \in Seq(Byte) /\ lines \in Seq(Byte) /\ stream \in Seq(Byte)
           /\ reads \in Nat /\ partial \in BOOLEAN
BY LenProperties, InputAssumption DEF TypeOK, Roomy, Char

(* Concatenation is associative. *)
LEMMA ConcatMoves ==
    ASSUME NEW s \in Seq(Byte), NEW t \in Seq(Byte), NEW u \in Seq(Byte)
    PROVE  (s \o t) \o u = s \o (t \o u)
BY ConcatAssociative

(* The bytes in use are a sequence of bytes. *)
LEMMA UsedSeq ==
    ASSUME NEW b, NEW n \in Nat, \A i \in 1..n : b[i] \in Byte
    PROVE  /\ SubSeq(b, 1, n) \in Seq(Byte)
           /\ Len(SubSeq(b, 1, n)) = n
           /\ \A i \in 1..n : SubSeq(b, 1, n)[i] = b[i]
<1> DEFINE u == SubSeq(b, 1, n)
<1>1. /\ u \in Seq(Byte) /\ Len(u) = IF 1 <= n THEN n - 1 + 1 ELSE 0
      /\ \A i \in 1..(n - 1 + 1) : u[i] = b[1 + i - 1]
    BY SubSeqProperties, 1 \in Int, n \in Int
<1> HIDE DEF u
<1>2. u \in Seq(Byte) /\ Len(u) = n
    BY <1>1
<1>3. \A i \in 1..n : u[i] = b[i]
    <2> TAKE i \in 1..n
    <2>1. n - 1 + 1 = n /\ 1 + i - 1 = i
        OBVIOUS
    <2> QED BY <1>1, <2>1
<1>4. SUFFICES u \in Seq(Byte) /\ Len(u) = n /\ \A i \in 1..n : u[i] = b[i]
    BY DEF u
<1> QED BY <1>2, <1>3
-----------------------------------------------------------------------------
LEMMA InputKeeps == ASSUME Inv, input_cb PROVE Inv'
<1>1. PICK chunk \in Chunks :
          IF accept
          THEN /\ at' = "read"
               /\ pending' = chunk /\ stream' = stream \o chunk
               /\ partial' = (partial \/ (reads > 0 /\ chunk[Len(chunk)] # "nl"))
          ELSE UNCHANGED <<at, pending, stream, partial>>
    BY DEF input_cb
<1>2. at = "main" /\ reads < MaxReads /\ reads' = reads + 1
      /\ buf' = buf /\ len' = len /\ accept' = accept /\ lines' = lines
    BY DEF input_cb
<1>3. chunk \in Seq(Byte) /\ Len(chunk) > 0 /\ chunk # <<>>
    BY ChunkSeq
<1>4. reads' \in 0..MaxReads /\ reads' # 0
    BY <1>2, InputAssumption DEF Inv, TypeOK
<1>5. TypeOK'
    BY <1>1, <1>2, <1>3, <1>4, ConcatProperties DEF Inv, TypeOK
<1>6. Roomy' /\ Clean' /\ (Cleared' <=> Cleared)
    BY <1>2 DEF Inv, Roomy, Clean, Cleared
<1>7. Fresh'
    BY <1>4 DEF Fresh
<1>8. CASE accept
    <2>1. Idle' /\ Drained' /\ Fenced'
        BY <1>1, <1>8 DEF Idle, Drained, Fenced
    <2>2. Coming'
        <3>1. CASE reads = 0
            BY <1>6, <3>1 DEF Inv, Fresh, Coming
        <3>2. CASE reads # 0
            <4>1. reads > 0
                BY <3>2, InputAssumption DEF Inv, TypeOK
            <4> QED BY <1>1, <1>3, <1>8, <4>1 DEF Coming
        <3> QED BY <3>1, <3>2
    <2>3. Whole'
        <3>1. SUFFICES ASSUME ~partial'
                       PROVE  (lines \o SubSeq(buf, 1, len)) \o chunk = stream \o chunk
            BY <1>1, <1>2, <1>8 DEF Whole
        <3>2. ~partial
            BY <1>1, <1>8, <3>1
        <3>3. pending = <<>>
            BY <1>2 DEF Inv, Idle
        <3>4. SubSeq(buf, 1, len) \in Seq(Byte)
            BY UsedSeq, BufferFacts DEF Inv, Clean
        <3>5. lines \o SubSeq(buf, 1, len) \in Seq(Byte)
            BY <3>4, ConcatProperties, BufferFacts DEF Inv
        <3>6. lines \o SubSeq(buf, 1, len) = stream
            BY <3>2, <3>3, <3>5, ConcatEmptySeq DEF Inv, Whole
        <3> QED BY <3>6
    <2> QED BY <1>5, <1>6, <1>7, <2>1, <2>2, <2>3 DEF Inv
<1>9. CASE ~accept
    <2>1. at' = at /\ pending' = pending /\ stream' = stream /\ partial' = partial
        BY <1>1, <1>9
    <2>2. Idle' /\ Whole' /\ Drained' /\ Coming' /\ Fenced'
        BY <1>2, <2>1 DEF Inv, Idle, Whole, Drained, Coming, Fenced
    <2> QED BY <1>5, <1>6, <1>7, <2>2 DEF Inv
<1> QED BY <1>8, <1>9

LEMMA ReadAllKeeps == ASSUME Inv, read_all PROVE Inv'
<1>1. /\ at = "read" /\ pending = <<>> /\ at' = "parse"
      /\ buf' = buf /\ len' = len /\ accept' = accept /\ pending' = pending /\ lines' = lines
      /\ stream' = stream /\ reads' = reads /\ partial' = partial
    BY DEF read_all
<1>2. TypeOK' /\ Roomy' /\ Idle' /\ Clean' /\ Whole'
    BY <1>1 DEF Inv, TypeOK, Roomy, Idle, Clean, Whole
<1>3. Fresh'
    BY <1>1 DEF Inv, Fresh
<1>4. Drained' /\ Coming'
    BY <1>1 DEF Drained, Coming
<1>5. Fenced'
    <2>1. len + 1 \in (len + 1)..Len(buf)
        BY BufferFacts DEF Inv
    <2>2. Cleared => buf[len + 1] = "nul"
        BY <2>1 DEF Cleared
    <2> QED BY <1>1, <2>2 DEF Inv, Coming, Fenced
<1> QED BY <1>2, <1>3, <1>4, <1>5 DEF Inv

LEMMA ParseAllKeeps == ASSUME Inv, parse_all PROVE Inv'
<1>1. /\ at = "parse" /\ at' = "main"
      /\ buf' = buf /\ len' = len /\ accept' = accept /\ pending' = pending /\ lines' = lines
      /\ stream' = stream /\ reads' = reads /\ partial' = partial
    BY DEF parse_all
<1>2. TypeOK' /\ Roomy' /\ Idle' /\ Clean' /\ Whole'
    BY <1>1 DEF Inv, TypeOK, Roomy, Idle, Clean, Whole
<1>3. Fresh'
    BY <1>1 DEF Inv, Fresh
<1>4. Coming' /\ Fenced'
    BY <1>1 DEF Coming, Fenced
<1>5. Drained'
    <2>1. PICK p \in Stop(buf) : buf[p] = "nul"
        BY DEF parse_all
    <2>2. /\ p \in 1..Len(buf)
          /\ \A j \in 1..(p - 1) : buf[j] \notin {"nl", "nul"}
        BY <2>1 DEF Stop
    <2>3. "nul" \notin Byte
        BY InputAssumption DEF Byte
    <2>4. p > len
        BY <2>1, <2>2, <2>3, BufferFacts DEF Inv, Clean
    <2>5. ASSUME NEW i \in 1..len PROVE buf[i] \in Letter
        <3>1. i \in 1..(p - 1)
            BY <2>2, <2>4, BufferFacts DEF Inv
        <3> QED BY <2>2, <3>1 DEF Inv, Clean, Byte
    <2> QED BY <1>1, <2>5 DEF Drained
<1> QED BY <1>2, <1>3, <1>4, <1>5 DEF Inv

LEMMA AcceptKeeps == ASSUME Inv, accept_input PROVE Inv'
<1>1. /\ at = "main" /\ accept' = ~accept
      /\ at' = at /\ pending' = pending /\ reads' = reads /\ partial' = partial
    BY DEF accept_input
<1>2. CASE accept
    <2>1. buf' = buf /\ len' = len /\ stream' = stream /\ lines' = lines
        BY <1>2 DEF accept_input
    <2>2. TypeOK' /\ Roomy' /\ Idle' /\ Clean' /\ Whole'
        BY <1>1, <2>1 DEF Inv, TypeOK, Roomy, Idle, Clean, Whole
    <2>3. Fresh' /\ Drained' /\ Coming' /\ Fenced'
        BY <1>1, <2>1 DEF Inv, Fresh, Cleared, Drained, Coming, Fenced
    <2> QED BY <2>2, <2>3 DEF Inv
<1>3. CASE ~accept
    <2>1. buf' = [buf EXCEPT ![1] = "nul"] /\ len' = 0 /\ stream' = <<>> /\ lines' = <<>>
        BY <1>3 DEF accept_input
    <2>2. 1 \in 1..Len(buf) /\ "nul" \in Char
        BY BufferFacts DEF Inv, Char
    <2>3. /\ buf' \in Seq(Char) /\ Len(buf') = Len(buf)
          /\ \A j \in 1..Len(buf) : buf'[j] = IF j = 1 THEN "nul" ELSE buf[j]
        BY <2>1, <2>2, ExceptSeq, BufferFacts DEF Inv
    <2>4. TypeOK'
        BY <1>1, <2>1, <2>3, BufferFacts DEF Inv, TypeOK, Char
    <2>5. Roomy'
        BY <2>1, <2>3, BufferFacts DEF Inv, Roomy
    <2>6. Idle' /\ Clean' /\ Drained' /\ Coming' /\ Fenced'
        BY <1>1, <2>1 DEF Inv, Idle, Clean, Drained, Coming, Fenced
    <2>7. Fresh'
        BY <1>1, <2>1, <2>3, BufferFacts DEF Inv, Fresh, Cleared
    <2>8. Whole'
        <3>1. pending' = <<>>
            BY <1>1 DEF Inv, Idle
        <3>2. SubSeq(buf', 1, len') = <<>>
            BY <2>1, SubSeqEmpty
        <3> QED BY <2>1, <3>1, <3>2 DEF Whole
    <2> QED BY <2>4, <2>5, <2>6, <2>7, <2>8 DEF Inv
<1> QED BY <1>2, <1>3

LEMMA ReadPartKeeps == ASSUME Inv, read_part PROVE Inv'
<1> DEFINE room == Len(buf) - len
           n == IF Len(pending) < room THEN Len(pending) ELSE room
           head == SubSeq(pending, 1, n)
           rest == SubSeq(pending, n + 1, Len(pending))
           w == written(buf, len, head)
<1>1. /\ at = "read" /\ pending # <<>>
      /\ buf' = resize_input(w, len + n) /\ len' = len + n /\ pending' = rest
      /\ at' = at /\ accept' = accept /\ lines' = lines /\ stream' = stream
      /\ reads' = reads /\ partial' = partial
    BY DEF read_part
<1>2. /\ buf \in Seq(Char) /\ Len(buf) \in Nat /\ len \in Nat /\ len < Len(buf)
      /\ buf[Len(buf)] = "nul" /\ pending \in Seq(Byte) /\ lines \in Seq(Byte)
      /\ Len(pending) \in Nat /\ Len(pending) > 0
    BY <1>1, BufferFacts, LenProperties, EmptySeq DEF Inv
<1>3. n \in 1..Len(pending) /\ n \in Nat /\ len + n <= Len(buf) /\ n + 1 \in Nat
    BY <1>2
<1> HIDE DEF n
<1>4. head \in Seq(Byte) /\ Len(head) = n /\ \A i \in 1..n : head[i] = pending[i]
    <2>1. \A i \in 1..n : pending[i] \in Byte
        BY <1>2, <1>3, ElementOfSeq
    <2> QED BY <1>3, <2>1, UsedSeq
<1>5. /\ rest \in Seq(Byte) /\ Len(rest) = Len(pending) - n
      /\ \A i \in 1..(Len(pending) - n) : rest[i] = pending[n + i]
    <2>1. \A i \in (n + 1)..Len(pending) : pending[i] \in Byte
        BY <1>2, <1>3, ElementOfSeq
    <2>2. /\ rest \in Seq(Byte)
          /\ Len(rest) = IF n + 1 <= Len(pending) THEN Len(pending) - (n + 1) + 1 ELSE 0
          /\ \A i \in 1..(Len(pending) - (n + 1) + 1) : rest[i] = pending[(n + 1) + i - 1]
        BY <1>2, <1>3, <2>1, SubSeqProperties, n + 1 \in Int, Len(pending) \in Int
    <2> HIDE DEF rest
    <2>3. Len(rest) = Len(pending) - n /\ Len(pending) - (n + 1) + 1 = Len(pending) - n
        BY <1>2, <1>3, <2>2
    <2>4. ASSUME NEW i \in 1..(Len(pending) - n) PROVE rest[i] = pending[n + i]
        <3>1. (n + 1) + i - 1 = n + i
            BY <1>3
        <3> QED BY <2>2, <2>3, <3>1
    <2> QED BY <2>2, <2>3, <2>4
<1>6. head \o rest = pending
    <2> HIDE DEF head, rest
    <2>1. /\ head \o rest \in Seq(Byte) /\ Len(head \o rest) = Len(head) + Len(rest)
          /\ \A i \in 1..(Len(head) + Len(rest)) :
                 (head \o rest)[i] = IF i <= Len(head) THEN head[i] ELSE rest[i - Len(head)]
        BY <1>4, <1>5, ConcatProperties
    <2>2. Len(head \o rest) = Len(pending)
        BY <1>2, <1>3, <1>4, <1>5, <2>1
    <2>3. ASSUME NEW i \in 1..Len(pending) PROVE (head \o rest)[i] = pending[i]
        <3>1. i \in 1..(Len(head) + Len(rest))
            BY <1>2, <1>3, <1>4, <1>5
        <3>2. CASE i <= n
            BY <1>3, <1>4, <2>1, <3>1, <3>2
        <3>3. CASE ~(i <= n)
            <4>1. i - n \in 1..(Len(pending) - n) /\ n + (i - n) = i
                BY <1>2, <1>3, <3>3
            <4> QED BY <1>4, <1>5, <2>1, <3>1, <3>3, <4>1
        <3> QED BY <3>2, <3>3
    <2> QED BY <1>2, <2>1, <2>2, <2>3, SeqEqual
<1> HIDE DEF head, rest
<1>7. /\ w \in Seq(Char) /\ Len(w) = Len(buf)
      /\ \A i \in 1..Len(buf) : w[i] = IF i \in (len + 1)..(len + n) THEN head[i - len] ELSE buf[i]
    <2>1. head \in Seq(Char)
        BY <1>4, SeqMonotonic, Byte \subseteq Char DEF Char
    <2> QED BY <1>2, <1>3, <1>4, <2>1, WrittenSeq
<1> HIDE DEF w
<1>8. len + n \in 1..Len(w) /\ (len + n < Len(w) => w[Len(w)] = "nul")
    BY <1>2, <1>3, <1>7
<1>9. /\ buf' \in Seq(Char) /\ len + n < Len(buf') /\ Len(buf) <= Len(buf')
      /\ \A i \in 1..Len(buf) : buf'[i] = w[i]
      /\ \A i \in (Len(buf) + 1)..Len(buf') : buf'[i] = "nul"
      /\ buf'[Len(buf')] = "nul" /\ Len(buf') \in Nat
    BY <1>1, <1>7, <1>8, ResizedSeq, LenProperties
<1>10. ASSUME NEW i \in 1..len PROVE buf'[i] = buf[i]
    BY <1>2, <1>3, <1>7, <1>9
<1>11. ASSUME NEW i \in 1..n PROVE buf'[len + i] = head[i]
    <2>1. len + i \in 1..Len(buf) /\ len + i \in (len + 1)..(len + n) /\ (len + i) - len = i
        BY <1>2, <1>3
    <2> QED BY <1>7, <1>9, <2>1
<1>12. TypeOK'
    BY <1>1, <1>2, <1>3, <1>5, <1>9 DEF Inv, TypeOK, Char
<1>13. Roomy'
    BY <1>1, <1>9 DEF Roomy
<1>14. Idle' /\ Drained' /\ Fenced'
    BY <1>1 DEF Idle, Drained, Fenced
<1>15. Fresh'
    BY <1>1 DEF Inv, Fresh
<1>16. ASSUME NEW i \in 1..(len + n) PROVE buf'[i] \in Byte
    <2>1. CASE i <= len
        BY <1>2, <1>3, <1>10, <2>1 DEF Inv, Clean
    <2>2. CASE ~(i <= len)
        <3>1. i - len \in 1..n /\ len + (i - len) = i
            BY <1>2, <1>3, <2>2
        <3>2. head[i - len] \in Byte
            BY <1>4, <3>1, ElementOfSeq
        <3> QED BY <1>11, <3>1, <3>2
    <2> QED BY <2>1, <2>2
<1>17. Clean'
    BY <1>1, <1>16 DEF Clean
<1>18. Coming'
    <2>1. SUFFICES ASSUME ~partial, ~Cleared'
                   PROVE  \/ rest # <<>> /\ rest[Len(rest)] = "nl"
                          \/ rest = <<>> /\ len + n > 0 /\ buf'[len + n] = "nl"
        BY <1>1 DEF Coming
    <2>2. ~Cleared
        <3>1. SUFFICES ASSUME Cleared PROVE Cleared'
            BY <2>1
        <3>2. ASSUME NEW i \in (len + n + 1)..Len(buf') PROVE buf'[i] = "nul"
            <4>1. CASE i <= Len(buf)
                <5>1. i \in 1..Len(buf) /\ i \notin (len + 1)..(len + n) /\ i \in (len + 1)..Len(buf)
                    BY <1>2, <1>3, <1>9, <4>1
                <5> QED BY <1>7, <1>9, <3>1, <5>1 DEF Cleared
            <4>2. CASE ~(i <= Len(buf))
                BY <1>2, <1>3, <1>9, <4>2
            <4> QED BY <4>1, <4>2
        <3> QED BY <1>1, <3>2 DEF Cleared
    <2>3. pending[Len(pending)] = "nl"
        BY <1>1, <2>1, <2>2 DEF Inv, Coming
    <2>4. CASE rest = <<>>
        <3>1. n = Len(pending)
            BY <1>2, <1>3, <1>5, <2>4
        <3>2. buf'[len + n] = pending[n]
            BY <1>3, <1>4, <1>11
        <3> QED BY <1>2, <1>3, <2>3, <2>4, <3>1, <3>2
    <2>5. CASE rest # <<>>
        <3>1. Len(rest) \in 1..(Len(pending) - n) /\ n + Len(rest) = Len(pending)
            BY <1>2, <1>3, <1>5, <2>5, EmptySeq
        <3> QED BY <1>5, <2>3, <2>5, <3>1
    <2> QED BY <2>4, <2>5
<1>19. Whole'
    <2> DEFINE used == SubSeq(buf, 1, len)
               more == SubSeq(buf', 1, len + n)
    <2>1. SUFFICES ASSUME ~partial PROVE (lines \o more) \o rest = stream
        BY <1>1 DEF Whole
    <2>2. used \in Seq(Byte) /\ Len(used) = len /\ \A i \in 1..len : used[i] = buf[i]
        BY <1>2, UsedSeq DEF Inv, Clean
    <2>3. more \in Seq(Byte) /\ Len(more) = len + n /\ \A i \in 1..(len + n) : more[i] = buf'[i]
        BY <1>2, <1>3, <1>16, UsedSeq, len + n \in Nat
    <2>4. (lines \o used) \o pending = stream
        BY <2>1 DEF Inv, Whole
    <2> HIDE DEF used, more
    <2>5. more = used \o head
        <3>1. /\ used \o head \in Seq(Byte) /\ Len(used \o head) = Len(used) + Len(head)
              /\ \A i \in 1..(Len(used) + Len(head)) :
                     (used \o head)[i] = IF i <= Len(used) THEN used[i] ELSE head[i - Len(used)]
            BY <1>4, <2>2, ConcatProperties
        <3>2. ASSUME NEW i \in 1..(len + n) PROVE more[i] = (used \o head)[i]
            <4>1. CASE i <= len
                <5>1. i \in 1..len
                    BY <1>2, <4>1
                <5> QED BY <1>4, <1>10, <2>2, <2>3, <3>1, <5>1, <4>1
            <4>2. CASE ~(i <= len)
                <5>1. i - len \in 1..n /\ len + (i - len) = i
                    BY <1>2, <1>3, <4>2
                <5>2. more[i] = head[i - len]
                    BY <1>11, <2>3, <5>1
                <5> QED BY <1>4, <2>2, <3>1, <4>2, <5>2
            <4> QED BY <4>1, <4>2
        <3> QED BY <1>4, <2>2, <2>3, <3>1, <3>2, SeqEqual
    <2>6. lines \o more = (lines \o used) \o head
        <3>1. lines \in Seq(Byte) /\ used \in Seq(Byte) /\ head \in Seq(Byte)
            BY <1>2, <1>4, <2>2
        <3>2. (lines \o used) \o head = lines \o (used \o head)
            BY <3>1, ConcatMoves, Zenon
        <3> QED BY <2>5, <3>2, Zenon
    <2>7. lines \o used \in Seq(Byte)
        BY <1>2, <2>2, ConcatProperties
    <2>8. ((lines \o used) \o head) \o rest = (lines \o used) \o (head \o rest)
        <3>1. head \in Seq(Byte) /\ rest \in Seq(Byte)
            BY <1>4, <1>5
        <3> QED BY <2>7, <3>1, ConcatMoves, Zenon
    <2> QED BY <1>6, <2>4, <2>6, <2>8
<1> QED BY <1>12, <1>13, <1>14, <1>15, <1>17, <1>18, <1>19 DEF Inv

LEMMA ParseLineKeeps == ASSUME Inv, parse_line PROVE Inv'
<1>1. PICK p \in Stop(buf) :
          /\ buf[p] = "nl"
          /\ lines' = lines \o SubSeq(buf, 1, p)
          /\ buf' = shifted(buf, len, p).buf
          /\ len' = shifted(buf, len, p).len
    BY DEF parse_line
<1>2. /\ at = "parse" /\ at' = at /\ accept' = accept /\ pending' = pending
      /\ stream' = stream /\ reads' = reads /\ partial' = partial
    BY DEF parse_line
<1>3. /\ p \in 1..Len(buf) /\ p \in Nat
      /\ \A j \in 1..(p - 1) : buf[j] \notin {"nl", "nul"}
    BY <1>1 DEF Stop
<1>4. /\ buf \in Seq(Char) /\ Len(buf) \in Nat /\ len \in Nat /\ len < Len(buf)
      /\ buf[Len(buf)] = "nul" /\ pending = <<>> /\ lines \in Seq(Byte)
    BY <1>2, BufferFacts DEF Inv, Idle
<1> DEFINE rest == IF len > p THEN len - p ELSE 0
<1>5. /\ len' = rest
      /\ buf' \in Seq(Char) /\ Len(buf') = Len(buf)
      /\ \A i \in 1..rest : buf'[i] = buf[p + i]
      /\ buf'[rest + 1] = "nul" /\ buf'[Len(buf)] = "nul"
    <2>1. rest = IF len > p THEN len - p ELSE 0
        OBVIOUS
    <2> HIDE DEF rest
    <2> DEFINE s == shifted(buf, len, p)
    <2>2. /\ s.len = rest
          /\ s.buf \in Seq(Char) /\ Len(s.buf) = Len(buf)
          /\ \A i \in 1..rest : s.buf[i] = buf[p + i]
          /\ s.buf[rest + 1] = "nul" /\ s.buf[Len(buf)] = "nul"
        BY <1>3, <1>4, <2>1, ShiftedSeq
    <2> HIDE DEF s
    <2>3. buf' = s.buf /\ len' = s.len
        BY <1>1 DEF s
    <2> QED BY <2>2, <2>3
<1>6. rest \in Nat /\ rest < Len(buf) /\ (rest > 0 => p + rest = len)
      /\ \A i \in 1..rest : p + i \in 1..len
    BY <1>3, <1>4
<1>7. ASSUME NEW i \in 1..p PROVE buf[i] \in Byte
    <2>1. CASE i = p
        BY <1>1, <2>1 DEF Byte
    <2>2. CASE i # p
        <3>1. i \in 1..(p - 1) /\ i \in 1..Len(buf)
            BY <1>3, <1>4, <2>2
        <3> QED BY <1>3, <1>4, <3>1, ElementOfSeq DEF Char
    <2> QED BY <2>1, <2>2
<1> DEFINE line == SubSeq(buf, 1, p)
<1>8. line \in Seq(Byte) /\ Len(line) = p /\ \A i \in 1..p : line[i] = buf[i]
    BY <1>3, <1>7, UsedSeq
<1> HIDE DEF line, rest
<1>9. lines' = lines \o line
    BY <1>1 DEF line
<1>10. TypeOK'
    <2>1. lines' \in Seq(Byte)
        BY <1>4, <1>8, <1>9, ConcatProperties
    <2> QED BY <1>2, <1>4, <1>5, <1>6, <2>1 DEF Inv, TypeOK, Char
<1>11. Roomy' /\ Fenced'
    BY <1>5, <1>6 DEF Roomy, Fenced
<1>12. Idle' /\ Drained' /\ Coming'
    BY <1>2, <1>4 DEF Idle, Drained, Coming
<1>13. Fresh'
    BY <1>2 DEF Inv, Fresh
<1>14. ASSUME NEW i \in 1..rest PROVE buf'[i] \in Byte
    BY <1>5, <1>6 DEF Inv, Clean
<1>15. Clean'
    BY <1>5, <1>14 DEF Clean
<1>16. Whole'
    <2> DEFINE used == SubSeq(buf, 1, len)
               left == SubSeq(buf', 1, rest)
    <2>1. SUFFICES ASSUME ~partial PROVE ((lines \o line) \o left) \o <<>> = stream
        BY <1>2, <1>4, <1>5, <1>9 DEF Whole
    <2>2. p <= len
        <3>1. CASE len > 0 /\ buf[len] = "nl"
            BY <1>3, <1>4, <3>1
        <3>2. CASE buf[len + 1] = "nul"
            BY <1>1, <1>3, <1>4, <3>2
        <3> QED BY <1>2, <2>1, <3>1, <3>2 DEF Inv, Fenced
    <2>3. used \in Seq(Byte) /\ Len(used) = len /\ \A i \in 1..len : used[i] = buf[i]
        BY <1>4, UsedSeq DEF Inv, Clean
    <2>4. left \in Seq(Byte) /\ Len(left) = rest /\ \A i \in 1..rest : left[i] = buf'[i]
        BY <1>6, <1>14, UsedSeq
    <2>5. (lines \o used) \o pending = stream
        BY <2>1 DEF Inv, Whole
    <2>6. lines \o used \in Seq(Byte)
        BY <1>4, <2>3, ConcatProperties
    <2>7. lines \o used = stream
        BY <1>4, <2>5, <2>6, ConcatEmptySeq
    <2>8. p + rest = len
        BY <1>3, <1>4, <1>6, <2>2 DEF rest
    <2> HIDE DEF used, left
    <2>9. used = line \o left
        <3>1. /\ line \o left \in Seq(Byte) /\ Len(line \o left) = Len(line) + Len(left)
              /\ \A i \in 1..(Len(line) + Len(left)) :
                     (line \o left)[i] = IF i <= Len(line) THEN line[i] ELSE left[i - Len(line)]
            BY <1>8, <2>4, ConcatProperties
        <3>2. ASSUME NEW i \in 1..len PROVE used[i] = (line \o left)[i]
            <4>1. CASE i <= p
                <5>1. i \in 1..p /\ i \in 1..(p + rest)
                    BY <1>3, <2>8, <4>1
                <5> QED BY <1>8, <2>3, <2>4, <3>1, <4>1, <5>1
            <4>2. CASE ~(i <= p)
                <5>1. i - p \in 1..rest /\ p + (i - p) = i /\ i \in 1..(p + rest)
                    BY <1>3, <1>4, <1>6, <2>8, <4>2
                <5>2. left[i - p] = buf[i]
                    BY <1>5, <2>4, <5>1
                <5> QED BY <1>8, <2>3, <2>4, <3>1, <4>2, <5>1, <5>2
            <4> QED BY <4>1, <4>2
        <3> QED BY <1>8, <2>3, <2>4, <2>8, <3>1, <3>2, SeqEqual
    <2>10. (lines \o line) \o left = lines \o (line \o left)
        <3>1. lines \in Seq(Byte) /\ line \in Seq(Byte) /\ left \in Seq(Byte)
            BY <1>4, <1>8, <2>4
        <3> QED BY <3>1, ConcatMoves, Zenon
    <2> QED BY <2>6, <2>7, <2>9, <2>10, ConcatEmptySeq
<1> QED BY <1>10, <1>11, <1>12, <1>13, <1>15, <1>16 DEF Inv

LEMMA InvStep == Inv /\ [Next]_vars => Inv'
<1> SUFFICES ASSUME Inv, [Next]_vars PROVE Inv'
    OBVIOUS
<1>1. CASE input_cb BY <1>1, InputKeeps
<1>2. CASE read_part BY <1>2, ReadPartKeeps
<1>3. CASE read_all BY <1>3, ReadAllKeeps
<1>4. CASE parse_line BY <1>4, ParseLineKeeps
<1>5. CASE parse_all BY <1>5, ParseAllKeeps
<1>6. CASE accept_input BY <1>6, AcceptKeeps
<1>7. CASE UNCHANGED vars
    BY <1>7 DEF vars, Inv, TypeOK, Roomy, Idle, Fresh, Cleared, Clean, Whole, Drained,
       Coming, Fenced
<1> QED BY <1>1, <1>2, <1>3, <1>4, <1>5, <1>6, <1>7 DEF Next

(* The state of the input buffer keeps its types, input.len never passing  *)
(* the end of the buffer.                                                  *)
THEOREM InputTypesAlways == Spec => []TypeOK
<1>1. Inv => TypeOK
    BY DEF Inv
<1> QED BY <1>1, InvInit, InvStep, PTL DEF Spec

(* The searches strchr makes for the end of a line stay inside the buffer, *)
(* because the last byte of it is always a NUL and never in use.           *)
THEOREM TerminatedAlways == Spec => []Terminated
<1>1. Inv => Terminated
    <2> SUFFICES ASSUME Inv PROVE Terminated
        OBVIOUS
    <2>1. Len(buf) \in 1..Len(buf) /\ Len(buf) > len
        BY BufferFacts DEF Inv
    <2> QED BY <2>1 DEF Inv, Roomy, Terminated
<1> QED BY <1>1, InvInit, InvStep, PTL DEF Spec

(* What was read is what was executed, line by line, and behind it the     *)
(* beginning of a line: for every way the bytes are cut into reads, unless *)
(* a read after the first one ended inside a line.                         *)
THEOREM LinesFaithfulAlways == Spec => []LinesFaithful
<1>1. Inv => LinesFaithful
    <2> SUFFICES ASSUME Inv, at = "main", ~partial
                 PROVE  /\ lines \o SubSeq(buf, 1, len) = stream
                        /\ \A i \in 1..len : buf[i] \in Letter
        BY DEF LinesFaithful
    <2>1. pending = <<>> /\ lines \in Seq(Byte)
        BY BufferFacts DEF Inv, Idle
    <2>2. SubSeq(buf, 1, len) \in Seq(Byte)
        BY UsedSeq, BufferFacts DEF Inv, Clean
    <2>3. lines \o SubSeq(buf, 1, len) \in Seq(Byte)
        BY <2>1, <2>2, ConcatProperties
    <2>4. lines \o SubSeq(buf, 1, len) = stream
        BY <2>1, <2>3, ConcatEmptySeq DEF Inv, Whole
    <2> QED BY <2>4 DEF Inv, Drained
<1> QED BY <1>1, InvInit, InvStep, PTL DEF Spec
=============================================================================
