---------------------------- MODULE StreamProofs ----------------------------
(***************************************************************************)
(* Proofs about streams of bytes: the connection of SocketIo for every     *)
(* size of read, every data written and any room in it, and the messages   *)
(* of MsgStream, of any length, for any processes and any capacity of the  *)
(* deque.                                                                  *)
(***************************************************************************)
EXTENDS SocketIo, MsgStream, FiniteSetTheorems, SequenceTheorems, TLAPS

-----------------------------------------------------------------------------
(* The connection, its bytes and the loops that move them. *)

(* A connection carries the bytes of the writes. *)
Bytes == UNION {ToSet(w) : w \in Writes}
Text  == Seq(Bytes)

WriteNames == {"none", "sio_writen", "ioutils_writen"}
ReadNames  == {"none"} \cup Counted \cup Lines

SioTypes ==
  /\ wire \in Text /\ put \in Text /\ took \in Text /\ before \in Text
  /\ shut \in BOOLEAN
  /\ wr \in [fn : WriteNames, data : Text, rest : Text, sent : Text]
  /\ wrote \in [fn : WriteNames, data : Text, value : Int, sent : Text]
  /\ rd \in [fn : ReadNames, size : Nat, left : Nat, buf : Text, total : Nat]
  /\ done \in [fn : ReadNames, size : Nat, value : Int, buf : Text, took : Text]

(* A read in progress: sio_readn and its like hold what they took and ask  *)
(* for the rest; a line loop leaves room for the end of the string and has *)
(* met no newline yet.  sio_readline counts the bytes it has by left, true *)
(* until it runs on at the end of the connection.                          *)
Reading ==
  /\ rd.fn \in Counted => rd.buf = took /\ Len(took) + rd.left = rd.size
  /\ rd.fn \in Lines => /\ Len(took) + rd.left < rd.size
                        /\ \A i \in 1 .. Len(took) : took[i] # Newline
  /\ rd.fn = "sio_readline" => /\ rd.buf = took
                               /\ Len(took) + rd.left + 1 = rd.size \/ (shut /\ wire = <<>>)
  /\ rd.fn = "ioutils_readln" => Plain(rd.buf, took)

(* A connection that was shut has no write in progress. *)
ShutInv == shut => wr.rest = <<>>

SioIInv == SioTypes /\ Conserved /\ Delivered /\ Reported /\ Reading /\ ShutInv

(* ConcatAssociative in a form that SMT instantiates. *)
LEMMA Assoc == \A S, s, t, u : s \in Seq(S) /\ t \in Seq(S) /\ u \in Seq(S) => (s \o t) \o u = s \o (t \o u)
  BY ConcatAssociative

(* The front of z, a, goes behind y. *)
LEMMA Shift ==
  \A S, x, y, a, b : x \in Seq(S) /\ y \in Seq(S) /\ a \in Seq(S) /\ b \in Seq(S)
                      => x \o y \o (a \o b) = x \o (y \o a) \o b
<1>0. SUFFICES ASSUME NEW S, NEW x, NEW y, NEW a, NEW b,
                       x \in Seq(S) /\ y \in Seq(S) /\ a \in Seq(S) /\ b \in Seq(S)
                PROVE  x \o y \o (a \o b) = x \o (y \o a) \o b
  OBVIOUS
<1>1. PICK p : p = x \o y
  OBVIOUS
<1>2. p \o (a \o b) = (p \o a) \o b
  <2>1. p \in Seq(S) /\ a \in Seq(S) /\ b \in Seq(S)
    BY <1>0, <1>1, ConcatProperties
  <2> QED BY <2>1, Assoc, SMTT(60)
<1>3. (x \o y) \o a = x \o (y \o a)
  <2>1. x \in Seq(S) /\ y \in Seq(S) /\ a \in Seq(S)
    BY <1>0
  <2> QED BY <2>1, Assoc, SMTT(60)
<1> QED BY <1>1, <1>2, <1>3, Zenon

(* The first k bytes of z, and the others. *)
LEMMA Split ==
  ASSUME NEW S, NEW z \in Seq(S), NEW k \in 0 .. Len(z)
  PROVE  /\ SubSeq(z, 1, k) \in Seq(S) /\ SubSeq(z, k + 1, Len(z)) \in Seq(S)
         /\ Len(SubSeq(z, 1, k)) = k
         /\ \A i \in 1 .. k : SubSeq(z, 1, k)[i] = z[i]
         /\ z = SubSeq(z, 1, k) \o SubSeq(z, k + 1, Len(z))
<1>0. Len(z) \in Nat /\ \A i \in 1 .. Len(z) : z[i] \in S
  BY LenProperties, ElementOfSeq
<1>a. PICK a : a = SubSeq(z, 1, k)
  OBVIOUS
<1>b. PICK b : b = SubSeq(z, k + 1, Len(z))
  OBVIOUS
<1>1. /\ a \in Seq(S) /\ Len(a) = IF 1 <= k THEN k - 1 + 1 ELSE 0
      /\ \A i \in 1 .. k - 1 + 1 : a[i] = z[1 + i - 1]
  BY <1>0, <1>a, SubSeqProperties
<1>2. b \in Seq(S)
  BY <1>0, <1>b, SubSeqProperties
<1>3. a \o b = z
  <2>1. 1 \in 1 .. Len(z) + 1 /\ k \in (1 - 1) .. Len(z) /\ Len(z) \in k .. Len(z)
    BY <1>0
  <2>2. a \o b = SubSeq(z, 1, Len(z))
    BY <1>a, <1>b, <2>1, ConcatAdjacentSubSeq
  <2> QED BY <2>2, SubSeqFull
<1>4. Len(a) = k /\ \A i \in 1 .. k : a[i] = z[i]
  BY <1>0, <1>1
<1> QED BY <1>a, <1>b, <1>1, <1>2, <1>3, <1>4

(* A byte taken off the front of z goes behind y. *)
LEMMA MoveOne ==
  ASSUME NEW S, NEW y \in Seq(S), NEW z \in Seq(S), z # <<>>
  PROVE  /\ Head(z) \in S /\ Tail(z) \in Seq(S) /\ <<Head(z)>> \in Seq(S)
         /\ Append(y, Head(z)) \in Seq(S) /\ Append(y, Head(z)) = y \o <<Head(z)>>
         /\ z = <<Head(z)>> \o Tail(z)
<1>0. Len(z) \in Nat \ {0}
  BY EmptySeq
<1>1. Head(z) \in S /\ Tail(z) \in Seq(S)
  BY HeadTailProperties
<1>2. Append(y, Head(z)) \in Seq(S) /\ Append(y, Head(z)) = y \o <<Head(z)>>
  BY <1>1, AppendProperties, AppendIsConcat
<1>3. z = <<Head(z)>> \o Tail(z)
  <2>1. 1 \in 1 .. Len(z) /\ Len(z) \in 1 .. Len(z)
    BY <1>0
  <2>2. SubSeq(z, 1, Len(z)) = <<z[1]>> \o SubSeq(z, 1 + 1, Len(z))
    BY <2>1, SubSeqRecursiveFirst
  <2>3. SubSeq(z, 1, Len(z)) = z
    BY SubSeqFull
  <2>4. z[1] = Head(z)
    BY <1>0 DEF Head
  <2>5. Tail(z) = SubSeq(z, 1 + 1, Len(z))
    BY TailIsSubSeq
  <2> QED BY <2>2, <2>3, <2>4, <2>5
<1>4. <<Head(z)>> \in Seq(S)
  BY <1>1
<1> QED BY <1>1, <1>2, <1>3, <1>4

(* A kept byte goes behind those that are there. *)
LEMMA PlainAppend ==
  ASSUME NEW S, NEW buf \in Seq(S), NEW s \in Seq(S), NEW e \in S, Plain(buf, s)
  PROVE  Plain(IF e \in {Newline, Return} THEN buf ELSE Append(buf, e), Append(s, e))
<1> PICK n : n = Len(s)
  OBVIOUS
<1> PICK t : t = Append(s, e)
  OBVIOUS
<1>0. n \in Nat /\ Len(buf) \in Nat
  BY LenProperties
<1>1. Len(t) = n + 1 /\ t[n + 1] = e /\ \A i \in 1 .. n : t[i] = s[i]
  BY AppendProperties
<1>2. IsFiniteSet(Kept(s)) /\ Kept(s) \subseteq 1 .. n
  <2>1. IsFiniteSet(1 .. n)
    BY <1>0, FS_Interval
  <2>2. Kept(s) \subseteq 1 .. n
    BY DEF Kept
  <2> QED BY <2>1, <2>2, FS_Subset
<1>3. /\ Len(buf) = Cardinality(Kept(s))
      /\ \A i \in Kept(s) : buf[Cardinality({k \in Kept(s) : k <= i})] = s[i]
  BY DEF Plain
<1>4. CASE e \in {Newline, Return}
  <2>1. Kept(t) = Kept(s)
    BY <1>0, <1>1, <1>4 DEF Kept
  <2>2. Plain(buf, t)
    BY <1>1, <1>2, <1>3, <2>1 DEF Plain
  <2> QED BY <1>4, <2>2
<1>5. CASE e \notin {Newline, Return}
  <2> PICK c : c = Append(buf, e)
    OBVIOUS
  <2>1. Kept(t) = Kept(s) \cup {n + 1} /\ n + 1 \notin Kept(s)
    BY <1>0, <1>1, <1>2, <1>5 DEF Kept
  <2>2. Cardinality(Kept(t)) = Cardinality(Kept(s)) + 1 /\ IsFiniteSet(Kept(t))
    BY <1>2, <2>1, FS_AddElement
  <2>3. Len(c) = Len(buf) + 1 /\ c[Len(buf) + 1] = e /\ \A i \in 1 .. Len(buf) : c[i] = buf[i]
    BY AppendProperties
  <2>4. ASSUME NEW i \in Kept(s)
        PROVE  c[Cardinality({k \in Kept(t) : k <= i})] = t[i]
    <3>1. {k \in Kept(t) : k <= i} = {k \in Kept(s) : k <= i}
      BY <1>0, <1>2, <2>1
    <3> PICK K : K = {k \in Kept(s) : k <= i}
      OBVIOUS
    <3>2. K \subseteq Kept(s) /\ i \in K
      BY <1>0, <1>2
    <3>3. IsFiniteSet(K) /\ Cardinality(K) <= Cardinality(Kept(s)) /\ Cardinality(K) \in Nat
      BY <1>2, <3>2, FS_Subset, FS_CardinalityType
    <3>4. Cardinality(K) # 0
      BY <3>2, <3>3, FS_EmptySet
    <3>5. c[Cardinality(K)] = buf[Cardinality(K)]
      BY <1>0, <1>3, <2>3, <3>3, <3>4
    <3> QED BY <1>1, <1>2, <1>3, <3>1, <3>5
  <2>5. c[Cardinality({k \in Kept(t) : k <= n + 1})] = t[n + 1]
    <3>1. {k \in Kept(t) : k <= n + 1} = Kept(t)
      BY <1>0, <1>2, <2>1
    <3> QED BY <1>1, <1>3, <2>2, <2>3, <3>1
  <2>6. Plain(c, t)
    BY <1>3, <2>1, <2>2, <2>3, <2>4, <2>5 DEF Plain
  <2> QED BY <1>5, <2>6
<1> QED BY <1>4, <1>5

(* What is written is made of bytes. *)
LEMMA WritesAreText == \A w \in Writes : w \in Text
<1> SUFFICES ASSUME NEW w \in Writes PROVE w \in Text
  OBVIOUS
<1>1. w \in Seq(ToSet(w))
  BY SocketIoAssumption
<1>2. ToSet(w) \subseteq Bytes
  BY DEF Bytes
<1> QED BY <1>1, <1>2, SeqMonotonic DEF Text

(* Nothing was written or read yet. *)
LEMMA SioInitIInv == SioInit => SioIInv
<1> SUFFICES ASSUME SioInit PROVE SioIInv
  OBVIOUS
<1>1. <<>> \in Text
  BY DEF Text
<1>2. SioTypes
  <2>1. /\ wr \in [fn : WriteNames, data : Text, rest : Text, sent : Text]
        /\ wrote \in [fn : WriteNames, data : Text, value : Int, sent : Text]
    BY <1>1 DEF SioInit, NoWr, NoWrote, WriteNames
  <2>2. rd \in [fn : ReadNames, size : Nat, left : Nat, buf : Text, total : Nat]
    BY <1>1 DEF SioInit, NoRd, ReadNames
  <2>3. done \in [fn : ReadNames, size : Nat, value : Int, buf : Text, took : Text]
    BY <1>1 DEF SioInit, Nothing, ReadNames
  <2> QED BY <1>1, <2>1, <2>2, <2>3 DEF SioInit, SioTypes
<1>3. Conserved
  <2>1. <<>> \o <<>> = <<>>
    BY <1>1, ConcatEmptySeq DEF Text
  <2> QED BY <2>1 DEF SioInit, Conserved, NoWr
<1>4. Reported /\ Delivered
  BY DEF SioInit, Reported, Nothing, Counted, Lines, Delivered, NoWrote
<1>5. Reading /\ ShutInv
  BY DEF SioInit, Reading, NoRd, Counted, Lines, ShutInv, NoWr
<1> QED BY <1>2, <1>3, <1>4, <1>5 DEF SioIInv

(* The bytes of a write that ends join those of the writes before it, and  *)
(* its value is right.                                                     *)
LEMMA WroteStep ==
  ASSUME SioIInv, NEW value \in {Len(wr.data), -1}, Wrote(value),
         value = -1 <=> wr.rest # <<>>,
         UNCHANGED <<wire, shut, rd, done, took, before>>
  PROVE  SioIInv'
<1> USE DEF SioIInv
<1>a. PICK d, s, z : d = wr.data /\ s = wr.sent /\ z = wr.rest
  OBVIOUS
<1>1. d \in Seq(Bytes) /\ s \in Seq(Bytes) /\ z \in Seq(Bytes) /\ s \o z = d /\ put \in Seq(Bytes)
  BY <1>a DEF SioTypes, Conserved, Text
<1>2. Len(d) = Len(s) + Len(z) /\ Len(d) \in Nat /\ Len(s) \in Nat /\ Len(z) \in Nat
  BY <1>1, ConcatProperties, LenProperties
<1>3. value = -1 => Len(s) < Len(d) /\ s = SubSeq(d, 1, Len(s))
  <2> SUFFICES ASSUME value = -1 PROVE Len(s) < Len(d) /\ s = SubSeq(d, 1, Len(s))
    OBVIOUS
  <2>1. Len(z) # 0
    BY <1>1, <1>a, EmptySeq
  <2>2. Len(s) < Len(d)
    BY <1>2, <2>1
  <2> PICK t : t = SubSeq(d, 1, Len(s))
    OBVIOUS
  <2>3. t \in Seq(Bytes) /\ Len(t) = Len(s) /\ \A i \in 1 .. Len(s) : t[i] = d[i]
    <3>1. Len(s) \in 0 .. Len(d)
      BY <1>2, <2>2
    <3> QED BY <1>1, <3>1, Split
  <2>4. \A i \in 1 .. Len(s) : d[i] = s[i]
    BY <1>1, ConcatProperties
  <2>5. s = t
    BY <1>1, <2>3, <2>4, SeqEqual
  <2> QED BY <2>2, <2>5
<1>4. value # -1 => value = Len(d) /\ s = d
  BY <1>1, <1>a, ConcatEmptySeq
<1>5. put' = put \o s
  BY <1>4, <1>a DEF Wrote
<1>6. /\ wrote' = [fn |-> wr.fn, data |-> d, value |-> value, sent |-> s]
      /\ wr' = [fn |-> "none", data |-> <<>>, rest |-> <<>>, sent |-> <<>>]
  BY <1>a DEF Wrote, NoWr
<1>7. put' \in Seq(Bytes) /\ <<>> \in Seq(Bytes)
  BY <1>1, <1>5, ConcatProperties
<1>8. SioTypes'
  <2>1. wrote' \in [fn : WriteNames, data : Text, value : Int, sent : Text]
    <3>1. wr.fn \in WriteNames
      BY DEF SioTypes
    <3>2. value \in Int
      BY <1>2, <1>4
    <3> QED BY <1>1, <1>6, <3>1, <3>2 DEF Text
  <2>2. wr' \in [fn : WriteNames, data : Text, rest : Text, sent : Text]
    BY <1>6, <1>7 DEF WriteNames, Text
  <2> QED BY <1>7, <2>1, <2>2 DEF SioTypes, Text
<1>9. Conserved'
  <2>1. put' \o <<>> = put' /\ <<>> \o <<>> = <<>>
    BY <1>7, ConcatEmptySeq
  <2>2. wr'.sent = <<>> /\ wr'.rest = <<>> /\ wr'.data = <<>>
    BY <1>6
  <2>3. put' = before \o took \o wire
    BY <1>5, <1>a DEF Conserved
  <2>4. UNCHANGED <<before, took, wire>>
    OBVIOUS
  <2> QED BY <2>1, <2>2, <2>3, <2>4 DEF Conserved
<1>10. Delivered'
  <2>1. wrote'.value = value /\ wrote'.sent = s /\ wrote'.data = d
    BY <1>6
  <2>2. value >= 0 => value # -1
    OBVIOUS
  <2>3. value < 0 => value = -1
    BY <1>2, <1>a
  <2> QED BY <1>3, <1>4, <2>1, <2>2, <2>3 DEF Delivered
<1>11. Reported' /\ Reading' /\ ShutInv'
  <2>1. wr'.rest = <<>>
    BY <1>6
  <2> QED BY <2>1 DEF Reported, Reading, ShutInv
<1> QED BY <1>8, <1>9, <1>10, <1>11

(* A step that only a counter or wild sees. *)
LEMMA StillStep ==
  ASSUME SioIInv, UNCHANGED <<rd, wire, shut, wr, wrote, done, put, took, before>>
  PROVE  SioIInv'
<1>1. SioTypes' /\ ShutInv'
  BY DEF SioIInv, SioTypes, ShutInv
<1>2. Conserved' /\ Delivered'
  BY DEF SioIInv, Conserved, Delivered
<1>3. Reported'
  BY DEF SioIInv, Reported
<1>4. Reading'
  BY DEF SioIInv, Reading
<1> QED BY <1>1, <1>2, <1>3, <1>4 DEF SioIInv

(* The writer's calls. *)
LEMMA WriterStep ==
  ASSUME SioIInv,
         \/ \E fn \in {"sio_writen", "ioutils_writen"}, w \in Writes : StartWrite(fn, w)
         \/ \E k \in 1 .. SockRoom : write(k)
         \/ WriteDone
         \/ WriteFails
         \/ Shutdown
  PROVE  SioIInv'
<1> USE DEF SioIInv
<1>1. ASSUME NEW fn \in {"sio_writen", "ioutils_writen"}, NEW w \in Writes, StartWrite(fn, w)
      PROVE  SioIInv'
  <2>1. w \in Text /\ <<>> \in Text
    BY WritesAreText DEF Text
  <2>2. /\ wr = NoWr /\ ~shut /\ wr' = [fn |-> fn, data |-> w, rest |-> w, sent |-> <<>>]
        /\ UNCHANGED <<wire, shut, wrote, rd, done, put, took, before>>
    BY <1>1 DEF StartWrite, NoWr
  <2>3. SioTypes'
    BY <2>1, <2>2 DEF SioTypes, WriteNames
  <2>4. Conserved'
    <3>1. <<>> \o w = w
      BY <2>1, ConcatEmptySeq DEF Text
    <3>2. wr.sent = <<>> /\ wr'.sent = <<>> /\ wr'.rest = w /\ wr'.data = w
      BY <2>2 DEF NoWr
    <3> QED BY <2>2, <3>1, <3>2 DEF Conserved
  <2>5. Delivered' /\ Reported' /\ Reading' /\ ShutInv'
    BY <2>2 DEF Delivered, Reported, Reading, ShutInv
  <2> QED BY <2>3, <2>4, <2>5
<1>2. ASSUME NEW k \in 1 .. SockRoom, write(k)
      PROVE  SioIInv'
  <2>a. PICK z, s, x : z = wr.rest /\ s = wr.sent /\ x = before \o took
    OBVIOUS
  <2>b. PICK a, b : a = SubSeq(z, 1, k) /\ b = SubSeq(z, k + 1, Len(z))
    OBVIOUS
  <2>1. /\ z # <<>> /\ k <= Len(z) /\ wire' = wire \o a
        /\ wr' = [wr EXCEPT !.rest = b, !.sent = s \o a]
        /\ UNCHANGED <<shut, wrote, rd, done, put, took, before>>
    BY <1>2, <2>a, <2>b DEF write
  <2>2. /\ z \in Seq(Bytes) /\ s \in Seq(Bytes) /\ x \in Seq(Bytes) /\ wire \in Seq(Bytes)
        /\ put \in Seq(Bytes) /\ k \in 0 .. Len(z)
    <3>1. /\ z \in Seq(Bytes) /\ s \in Seq(Bytes) /\ wire \in Seq(Bytes) /\ put \in Seq(Bytes)
          /\ before \in Seq(Bytes) /\ took \in Seq(Bytes)
      BY <2>a DEF SioTypes, Text
    <3>2. x \in Seq(Bytes)
      BY <2>a, <3>1, ConcatProperties
    <3>3. k \in 0 .. Len(z)
      BY <2>1, <3>1, LenProperties, SocketIoAssumption
    <3> QED BY <3>1, <3>2, <3>3
  <2>3. a \in Seq(Bytes) /\ b \in Seq(Bytes) /\ z = a \o b
    BY <2>2, <2>b, Split
  <2>4. wire \o a \in Seq(Bytes) /\ s \o a \in Seq(Bytes)
    BY <2>2, <2>3, ConcatProperties
  <2>5. /\ wr' \in [fn : WriteNames, data : Text, rest : Text, sent : Text]
        /\ wr'.rest = b /\ wr'.sent = s \o a /\ wr'.data = wr.data
    BY <2>1, <2>3, <2>4 DEF SioTypes, Text
  <2>6. SioTypes'
    BY <2>1, <2>4, <2>5 DEF SioTypes, Text
  <2>7. Conserved'
    <3>1. put \o s = x \o wire /\ s \o z = wr.data
      BY <2>a DEF Conserved
    <3>0. (put \o s) \o a = put \o (s \o a)
      BY <2>2, <2>3, Assoc, SMTT(60)
    <3>2. (x \o wire) \o a = x \o (wire \o a)
      BY <2>2, <2>3, Assoc, SMTT(60)
    <3>3. (s \o a) \o b = s \o (a \o b)
      BY <2>2, <2>3, Assoc, SMTT(60)
    <3>4. put \o (s \o a) = x \o (wire \o a) /\ (s \o a) \o b = wr.data
      BY <2>3, <3>0, <3>1, <3>2, <3>3
    <3> QED BY <2>1, <2>5, <2>a, <3>4 DEF Conserved
  <2>8. ~shut
    BY <2>1, <2>a DEF ShutInv
  <2>9. Delivered' /\ Reported' /\ Reading' /\ ShutInv'
    BY <2>1, <2>8 DEF Delivered, Reported, Reading, ShutInv
  <2> QED BY <2>6, <2>7, <2>9
<1>3. ASSUME WriteDone
      PROVE  SioIInv'
  <2>1. /\ wr.rest = <<>> /\ Wrote(Len(wr.data))
        /\ UNCHANGED <<wire, shut, rd, done, took, before>>
    BY <1>3 DEF WriteDone
  <2>2. Len(wr.data) # -1
    BY LenProperties DEF SioTypes, Text
  <2> QED BY <2>1, <2>2, WroteStep
<1>4. ASSUME WriteFails
      PROVE  SioIInv'
  <2>1. wr.rest # <<>> /\ UNCHANGED <<wire, shut, rd, done, took, before>>
    BY <1>4 DEF WriteFails
  <2>2. ASSUME Wrote(-1) PROVE SioIInv'
    BY <2>1, <2>2, WroteStep
  <2>3. ASSUME UNCHANGED <<wr, wrote, put>> PROVE SioIInv'
    BY <2>1, <2>3, StillStep
  <2> QED BY <1>4, <2>2, <2>3 DEF WriteFails
<1>5. ASSUME Shutdown
      PROVE  SioIInv'
  <2>1. /\ wr = NoWr /\ ~shut /\ shut' = TRUE
        /\ UNCHANGED <<wire, wr, wrote, rd, done, put, took, before>>
    BY <1>5 DEF Shutdown
  <2>2. SioTypes'
    BY <2>1 DEF SioTypes
  <2>3. ShutInv'
    BY <2>1 DEF ShutInv, NoWr
  <2>4. Conserved' /\ Delivered'
    BY <2>1 DEF Conserved, Delivered
  <2>5. Reading'
    BY <2>1 DEF Reading
  <2>6. Reported'
    BY <2>1 DEF Reported
  <2> QED BY <2>2, <2>3, <2>4, <2>5, <2>6
<1> QED BY <1>1, <1>2, <1>3, <1>4, <1>5

(* A call of a read function begins. *)
LEMMA StartReadStep ==
  ASSUME SioIInv, NEW fn \in Counted \cup Lines, NEW n \in ReadSizes, StartRead(fn, n)
  PROVE  SioIInv'
<1> USE DEF SioIInv
<1>a. PICK left : left = IF fn \in Counted THEN n ELSE n - 1
  OBVIOUS
<1>1. n \in Nat \ {0} /\ left \in Nat
  BY <1>a, SocketIoAssumption
<1>2. /\ rd' = [NoRd EXCEPT !.fn = fn, !.size = n, !.left = left]
      /\ took' = <<>> /\ before' = before \o took
      /\ UNCHANGED <<wire, shut, wr, wrote, done, put>>
  BY <1>a DEF StartRead
<1>3. rd' = [fn |-> fn, size |-> n, left |-> left, buf |-> <<>>, total |-> 0]
  BY <1>2 DEF NoRd
<1>4. <<>> \in Text /\ before \o took \in Text
  BY ConcatProperties DEF SioTypes, Text
<1>5. SioTypes'
  <2>1. rd' \in [fn : ReadNames, size : Nat, left : Nat, buf : Text, total : Nat]
    BY <1>1, <1>3, <1>4 DEF ReadNames
  <2> QED BY <1>2, <1>4, <2>1 DEF SioTypes
<1>6. Conserved'
  <2>1. before \o took \o <<>> = before \o took
    BY <1>4, ConcatEmptySeq DEF Text
  <2> QED BY <1>2, <2>1 DEF Conserved
<1>7. Reading'
  <2>1. rd'.fn = fn /\ rd'.size = n /\ rd'.left = left /\ rd'.buf = <<>>
    BY <1>3
  <2>2. Len(took') = 0
    BY <1>2
  <2>3. Plain(<<>>, <<>>)
    <3>1. Kept(<<>>) = {}
      BY DEF Kept
    <3> QED BY <3>1, FS_EmptySet DEF Plain
  <2>4. ASSUME fn \in Counted PROVE Reading'
    <3>1. fn \notin Lines /\ fn \notin {"sio_readline", "ioutils_readln"}
      BY <2>4 DEF Counted, Lines
    <3> QED BY <1>1, <1>2, <1>a, <2>1, <2>2, <2>4, <3>1 DEF Reading
  <2>5. ASSUME fn \in Lines PROVE Reading'
    <3>1. fn \notin Counted
      BY <2>5 DEF Counted, Lines
    <3>2. Len(took') + left < n /\ Len(took') + left + 1 = n
      BY <1>1, <1>a, <2>2, <3>1
    <3>3. \A i \in 1 .. Len(took') : took'[i] # Newline
      BY <2>2
    <3> QED BY <1>2, <2>1, <2>3, <3>1, <3>2, <3>3 DEF Reading
  <2> QED BY <2>4, <2>5
<1>8. Reported'
  BY <1>2 DEF Reported
<1> QED BY <1>2, <1>5, <1>6, <1>7, <1>8 DEF Delivered, ShutInv

(* A read that ends forgets the call and leaves what it returned.          *)
LEMMA ReturnsStep ==
  ASSUME SioIInv, NEW value \in Int, Returns(value, rd.buf, took),
         rd.fn \in Counted /\ value >= 0 => value = Len(took) /\ (value < rd.size => shut),
         UNCHANGED <<wire, shut, wr, wrote, put, took, before>>
  PROVE  SioIInv'
<1> USE DEF SioIInv
<1>1. /\ done' = [fn |-> rd.fn, size |-> rd.size, value |-> value, buf |-> rd.buf, took |-> took]
      /\ rd' = NoRd
  BY DEF Returns
<1>2. /\ done'.fn = rd.fn /\ done'.size = rd.size /\ done'.value = value
      /\ done'.buf = rd.buf /\ done'.took = took
  BY <1>1
<1>3. SioTypes'
  <2>1. rd' \in [fn : ReadNames, size : Nat, left : Nat, buf : Text, total : Nat]
    BY <1>1 DEF NoRd, ReadNames, Text
  <2>2. done' \in [fn : ReadNames, size : Nat, value : Int, buf : Text, took : Text]
    BY <1>1 DEF SioTypes
  <2> QED BY <2>1, <2>2 DEF SioTypes
<1>4. Conserved' /\ Delivered' /\ ShutInv'
  BY DEF Conserved, Delivered, ShutInv
<1>5. Reading'
  BY <1>1 DEF Reading, NoRd, Counted, Lines
<1>6. Reported'
  <2>1. rd.fn \in Counted => rd.buf = took
    BY DEF Reading
  <2>2. CASE rd.fn \in Lines
    <3>1. Len(took) \in Nat /\ rd.left \in Nat /\ rd.size \in Nat
      BY LenProperties DEF SioTypes, Text
    <3>2. Len(took) < rd.size /\ \A i \in 1 .. Len(took) : took[i] # Newline
      BY <2>2, <3>1 DEF Reading
    <3>3. \A i \in 1 .. (Len(took) - 1) : took[i] # Newline
      BY <3>1, <3>2
    <3>4. took # <<>> => Last(took) # Newline
      <4>1. took # <<>> => Len(took) \in 1 .. Len(took)
        BY <3>1, EmptySeq DEF SioTypes, Text
      <4> QED BY <3>2, <4>1 DEF Last
    <3>5. IF rd.fn = "sio_readline" THEN rd.buf = took ELSE Plain(rd.buf, took)
      BY <2>2 DEF Reading, Lines
    <3>6. rd.fn \notin Counted
      BY <2>2 DEF Lines, Counted
    <3> QED BY <1>2, <3>2, <3>3, <3>4, <3>5, <3>6 DEF Reported
  <2>3. CASE rd.fn \notin Lines
    BY <1>2, <2>1, <2>3 DEF Reported
  <2> QED BY <2>2, <2>3
<1> QED BY <1>3, <1>4, <1>5, <1>6

(* The calls that end without a byte, and those that a signal interrupts.  *)
LEMMA QuietStep ==
  ASSUME SioIInv, ReadDone \/ ReadEof \/ WouldBlock \/ ReadFails \/ Signalled
  PROVE  SioIInv'
<1>1. /\ rd.left \in Nat /\ rd.size \in Nat /\ rd.total \in Nat /\ Len(took) \in Nat
  BY LenProperties DEF SioIInv, SioTypes, Text
<1>2. rd.fn \in Counted => Len(took) + rd.left = rd.size
  BY DEF SioIInv, Reading
<1>3. ASSUME ReadDone PROVE SioIInv'
  <2>a. PICK value : value = IF rd.fn = "ioutils_readln" THEN rd.total ELSE rd.size
    OBVIOUS
  <2>1. rd.left = 0 /\ Returns(value, rd.buf, took) /\ UNCHANGED <<wire, shut, wr, wrote, put, took, before>>
    BY <1>3, <2>a DEF ReadDone
  <2>2. value \in Int
    BY <1>1, <2>a
  <2>3. ASSUME rd.fn \in Counted PROVE value = Len(took) /\ ~(value < rd.size)
    <3>1. rd.fn # "ioutils_readln"
      BY <2>3 DEF Counted
    <3>2. value = rd.size
      BY <2>a, <3>1
    <3> QED BY <1>1, <1>2, <2>1, <2>3, <3>2
  <2> QED BY <2>1, <2>2, <2>3, ReturnsStep
<1>4. ASSUME ReadEof PROVE SioIInv'
  <2>1. rd.left > 0 /\ wire = <<>> /\ shut /\ UNCHANGED <<wire, shut, wr, wrote, put, took, before>>
    BY <1>4 DEF ReadEof
  <2>2. ASSUME rd.fn \in Counted, Returns(rd.size - rd.left, rd.buf, took) PROVE SioIInv'
    <3>1. rd.size - rd.left \in Int /\ rd.size - rd.left = Len(took)
      BY <1>1, <1>2, <2>2
    <3> QED BY <2>1, <2>2, <3>1, ReturnsStep
  <2>3. ASSUME rd.fn = "ioutils_readln", Returns(rd.total, rd.buf, took) PROVE SioIInv'
    <3>1. rd.fn \notin Counted /\ rd.total \in Int
      BY <1>1, <2>3 DEF Counted
    <3> QED BY <2>1, <2>3, <3>1, ReturnsStep
  <2>4. ASSUME rd.fn = "sio_readline", Returns(0, rd.buf, took) PROVE SioIInv'
    <3>1. rd.fn \notin Counted
      BY <2>4 DEF Counted
    <3> QED BY <2>1, <2>4, <3>1, ReturnsStep
  <2>5. ASSUME rd.fn = "sio_readline", rd' = [rd EXCEPT !.left = rd.left - 1], UNCHANGED done
        PROVE  SioIInv'
    <3>1. rd.left - 1 \in Nat
      BY <1>1, <2>1
    <3>2. /\ rd' \in [fn : ReadNames, size : Nat, left : Nat, buf : Text, total : Nat]
          /\ rd'.fn = rd.fn /\ rd'.size = rd.size /\ rd'.left = rd.left - 1 /\ rd'.buf = rd.buf
      BY <2>5, <3>1 DEF SioIInv, SioTypes
    <3>3. SioTypes'
      BY <2>1, <2>5, <3>2 DEF SioIInv, SioTypes
    <3>4. Conserved' /\ Delivered' /\ Reported' /\ ShutInv'
      BY <2>1, <2>5 DEF SioIInv, Conserved, Delivered, Reported, ShutInv
    <3>5. rd.fn \in Lines /\ rd.fn \notin Counted /\ rd.fn # "ioutils_readln"
      BY <2>5 DEF Lines, Counted
    <3>6. Len(took) + (rd.left - 1) < rd.size
      <4>1. Len(took) + rd.left < rd.size
        BY <3>5 DEF SioIInv, Reading
      <4> QED BY <1>1, <4>1
    <3>7. Reading'
      BY <2>1, <3>2, <3>5, <3>6 DEF SioIInv, Reading
    <3> QED BY <3>3, <3>4, <3>7 DEF SioIInv
  <2> QED BY <1>4, <2>2, <2>3, <2>4, <2>5 DEF ReadEof
<1>5. ASSUME WouldBlock PROVE SioIInv'
  <2>a. PICK value : value = IF rd.fn = "sio_readn" THEN -2 ELSE -1
    OBVIOUS
  <2>1. Returns(value, rd.buf, took) /\ UNCHANGED <<wire, shut, wr, wrote, put, took, before>>
    BY <1>5, <2>a DEF WouldBlock
  <2>2. value \in Int /\ ~(value >= 0)
    BY <2>a
  <2> QED BY <2>1, <2>2, ReturnsStep
<1>6. ASSUME Signalled PROVE SioIInv'
  <2>1. UNCHANGED <<rd, wire, shut, wr, wrote, done, put, took, before>>
    BY <1>6 DEF Signalled, Interrupted
  <2> QED BY <2>1, StillStep
<1>7. ASSUME ReadFails PROVE SioIInv'
  <2>1. UNCHANGED <<wire, shut, wr, wrote, put, took, before>>
    BY <1>7 DEF ReadFails
  <2>2. ASSUME Returns(-1, rd.buf, took) PROVE SioIInv'
    <3>1. ~(-1 >= 0) /\ -1 \in Int
      OBVIOUS
    <3> QED BY <2>1, <2>2, <3>1, ReturnsStep
  <2>3. ASSUME UNCHANGED <<rd, done>> PROVE SioIInv'
    BY <2>1, <2>3, StillStep
  <2> QED BY <1>7, <2>2, <2>3 DEF ReadFails
<1> QED BY <1>3, <1>4, <1>5, <1>6, <1>7

(* read by sio_readn and ioutils_readn. *)
LEMMA ReadStep ==
  ASSUME SioIInv, NEW k \in 1 .. SockRoom, Read(k)
  PROVE  SioIInv'
<1> USE DEF SioIInv
<1>a. PICK a, b : a = SubSeq(wire, 1, k) /\ b = SubSeq(wire, k + 1, Len(wire))
  OBVIOUS
<1>1. /\ rd.fn \in Counted /\ k <= rd.left /\ k <= Len(wire)
      /\ wire' = b /\ took' = took \o a
      /\ rd' = [rd EXCEPT !.left = rd.left - k, !.buf = rd.buf \o a]
      /\ UNCHANGED <<shut, wr, wrote, done, put, before>>
  BY <1>a DEF Read
<1>2. /\ rd.left \in Nat /\ rd.size \in Nat /\ Len(took) \in Nat /\ Len(wire) \in Nat
      /\ k \in Nat
  BY LenProperties, SocketIoAssumption DEF SioTypes, Text
<1>3. k \in 0 .. Len(wire)
  BY <1>1, <1>2
<1>4. a \in Text /\ b \in Text /\ Len(a) = k /\ wire = a \o b
  BY <1>3, <1>a, Split DEF SioTypes, Text
<1>5. took \o a \in Text /\ Len(took \o a) = Len(took) + k /\ rd.buf \o a \in Text
  BY <1>4, ConcatProperties DEF SioTypes, Text
<1>6. /\ rd' \in [fn : ReadNames, size : Nat, left : Nat, buf : Text, total : Nat]
      /\ rd'.fn = rd.fn /\ rd'.size = rd.size /\ rd'.left = rd.left - k /\ rd'.buf = rd.buf \o a
  <2>1. rd.left - k \in Nat
    BY <1>1, <1>2
  <2> QED BY <1>1, <1>5, <2>1 DEF SioTypes
<1>7. SioTypes'
  BY <1>1, <1>4, <1>5, <1>6 DEF SioTypes
<1>8. Conserved'
  <2>1. before \o took \o (a \o b) = before \o (took \o a) \o b
    <3>1. before \in Seq(Bytes) /\ took \in Seq(Bytes) /\ a \in Seq(Bytes) /\ b \in Seq(Bytes)
      BY <1>4 DEF SioTypes, Text
    <3> QED BY <3>1, Shift, SMTT(60)
  <2>2. before \o took \o wire = before' \o took' \o wire'
    BY <1>1, <1>4, <2>1
  <2> QED BY <1>1, <2>2 DEF Conserved
<1>9. Reading'
  <2>1. rd.buf = took /\ Len(took) + rd.left = rd.size
    BY <1>1 DEF Reading
  <2>2. rd'.buf = took' /\ Len(took') + rd'.left = rd'.size
    BY <1>1, <1>2, <1>5, <1>6, <2>1
  <2>3. rd'.fn \notin Lines /\ rd'.fn \notin {"sio_readline", "ioutils_readln"}
    BY <1>1, <1>6 DEF Counted, Lines
  <2> QED BY <2>2, <2>3 DEF Reading
<1> QED BY <1>1, <1>7, <1>8, <1>9 DEF Delivered, Reported, ShutInv

(* read by a line loop, of one byte. *)
LEMMA ReadByteStep ==
  ASSUME SioIInv, ReadByte
  PROVE  SioIInv'
<1> USE DEF SioIInv
<1>a. PICK c : c = Head(wire)
  OBVIOUS
<1>b. PICK kept : kept = IF rd.fn = "ioutils_readln" /\ c \in {Newline, Return} THEN rd.buf
                         ELSE Append(rd.buf, c)
  OBVIOUS
<1>c. PICK u : u = IF c \in {Newline, Return} THEN 1 ELSE 2
  OBVIOUS
<1>t. PICK taken : taken = Append(took, c)
  OBVIOUS
<1>1. /\ rd.fn \in Lines /\ rd.left > 0 /\ wire # <<>>
      /\ wire' = Tail(wire) /\ took' = taken
      /\ UNCHANGED <<shut, wr, wrote, put, before>>
  BY <1>a, <1>t DEF ReadByte
<1>2. IF c = Newline
      THEN Returns(IF rd.fn = "sio_readline" THEN rd.size - rd.left ELSE rd.total + u, kept, taken)
      ELSE UNCHANGED done /\ rd' = [rd EXCEPT !.left = rd.left - 1, !.buf = kept, !.total = rd.total + u]
  BY <1>a, <1>b, <1>c, <1>t DEF ReadByte
<1>3. /\ rd.left \in Nat /\ rd.size \in Nat /\ rd.total \in Nat /\ Len(took) \in Nat /\ u \in Nat
  BY <1>c, LenProperties DEF SioTypes, Text
<1>4. /\ c \in Bytes /\ Tail(wire) \in Text /\ taken \in Text
      /\ before \o took \o wire = before \o taken \o Tail(wire)
  <2>a. PICK f, r : f = <<Head(wire)>> /\ r = Tail(wire)
    OBVIOUS
  <2>1. before \in Seq(Bytes) /\ took \in Seq(Bytes) /\ wire \in Seq(Bytes)
    BY DEF SioTypes, Text
  <2>2. /\ c \in Bytes /\ r \in Seq(Bytes) /\ f \in Seq(Bytes)
        /\ taken \in Seq(Bytes) /\ taken = took \o f /\ wire = f \o r
    BY <1>1, <1>a, <1>t, <2>a, <2>1, MoveOne
  <2>3. before \o took \o (f \o r) = before \o (took \o f) \o r
    BY <2>1, <2>2, Shift, SMTT(60)
  <2> QED BY <2>a, <2>2, <2>3 DEF Text
<1>5. /\ Len(taken) = Len(took) + 1 /\ taken[Len(took) + 1] = c
      /\ \A i \in 1 .. Len(took) : taken[i] = took[i]
  BY <1>4, <1>t, AppendProperties DEF SioTypes, Text
<1>6. kept \in Text
  BY <1>4, <1>b, AppendProperties DEF SioTypes, Text
<1>7. rd.fn \notin Counted /\ (rd.fn = "sio_readline" \/ rd.fn = "ioutils_readln")
  BY <1>1 DEF Counted, Lines
<1>8. /\ Len(took) + rd.left < rd.size
      /\ \A i \in 1 .. Len(took) : took[i] # Newline
  BY <1>1 DEF Reading
<1>9. rd.fn = "sio_readline" => kept = taken /\ Len(took) + rd.left + 1 = rd.size
  BY <1>1, <1>b, <1>t DEF Reading
<1>10. rd.fn = "ioutils_readln" => Plain(kept, taken)
  <2> SUFFICES ASSUME rd.fn = "ioutils_readln" PROVE Plain(kept, taken)
    OBVIOUS
  <2>1. rd.buf \in Text /\ took \in Text /\ Plain(rd.buf, took)
    BY DEF SioTypes, Reading
  <2>2. kept = IF c \in {Newline, Return} THEN rd.buf ELSE Append(rd.buf, c)
    BY <1>b
  <2> QED BY <1>4, <1>t, <2>1, <2>2, PlainAppend DEF Text
<1>11. Conserved'
  BY <1>1, <1>4 DEF Conserved
<1>12. CASE c = Newline
  <2>a. PICK value : value = IF rd.fn = "sio_readline" THEN rd.size - rd.left ELSE rd.total + u
    OBVIOUS
  <2>1. /\ done' = [fn |-> rd.fn, size |-> rd.size, value |-> value, buf |-> kept, took |-> taken]
        /\ rd' = NoRd
    BY <1>12, <1>2, <2>a DEF Returns
  <2>2. value \in Int
    BY <1>3, <2>a
  <2>3. rd' \in [fn : ReadNames, size : Nat, left : Nat, buf : Text, total : Nat]
    BY <2>1 DEF NoRd, ReadNames, Text
  <2>4. /\ done' \in [fn : ReadNames, size : Nat, value : Int, buf : Text, took : Text]
        /\ done'.fn = rd.fn /\ done'.size = rd.size /\ done'.value = value
        /\ done'.buf = kept /\ done'.took = taken
    BY <1>4, <1>6, <2>1, <2>2 DEF SioTypes
  <2>5. SioTypes'
    BY <1>1, <1>4, <2>3, <2>4 DEF SioTypes
  <2>6. Reading'
    BY <2>1 DEF Reading, NoRd, Counted, Lines
  <2>7. Reported'
    <3>1. Len(taken) < rd.size
      BY <1>1, <1>3, <1>5, <1>8
    <3>2. \A i \in 1 .. (Len(taken) - 1) : taken[i] # Newline
      BY <1>3, <1>5, <1>8
    <3>3. rd.fn = "sio_readline" => value = Len(taken)
      BY <1>3, <1>5, <1>9, <2>a
    <3>4. IF rd.fn = "sio_readline" THEN kept = taken ELSE Plain(kept, taken)
      BY <1>7, <1>9, <1>10
    <3> QED BY <1>7, <2>4, <3>1, <3>2, <3>3, <3>4 DEF Reported
  <2> QED BY <1>1, <1>11, <2>5, <2>6, <2>7 DEF Delivered, ShutInv
<1>13. CASE c # Newline
  <2>1. UNCHANGED done /\ rd' = [rd EXCEPT !.left = rd.left - 1, !.buf = kept, !.total = rd.total + u]
    BY <1>13, <1>2
  <2>2. rd.left - 1 \in Nat /\ rd.total + u \in Nat
    BY <1>1, <1>3
  <2>3. /\ rd' \in [fn : ReadNames, size : Nat, left : Nat, buf : Text, total : Nat]
        /\ rd'.fn = rd.fn /\ rd'.size = rd.size /\ rd'.left = rd.left - 1 /\ rd'.buf = kept
    BY <1>6, <2>1, <2>2 DEF SioTypes
  <2>4. SioTypes'
    BY <1>1, <1>4, <2>1, <2>3 DEF SioTypes
  <2>5. Reading'
    <3>1. Len(taken) + (rd.left - 1) < rd.size
      BY <1>1, <1>3, <1>5, <1>8
    <3>2. \A i \in 1 .. Len(taken) : taken[i] # Newline
      BY <1>3, <1>5, <1>8, <1>13
    <3>3. rd.fn = "sio_readline" => Len(taken) + (rd.left - 1) + 1 = rd.size
      <4>1. ASSUME Len(took) + rd.left + 1 = rd.size PROVE Len(taken) + (rd.left - 1) + 1 = rd.size
        <5>1. PICK m, l \in Nat : m = Len(took) /\ l = rd.left
          BY <1>3
        <5>2. Len(taken) = m + 1
          BY <1>5, <5>1
        <5>3. (m + 1) + (l - 1) + 1 = m + l + 1
          BY <5>1
        <5> QED BY <4>1, <5>1, <5>2, <5>3
      <4> QED BY <1>9, <4>1
    <3> QED BY <1>1, <1>7, <1>9, <1>10, <2>3, <3>1, <3>2, <3>3 DEF Reading
  <2> QED BY <1>1, <1>11, <2>1, <2>4, <2>5 DEF Delivered, Reported, ShutInv
<1> QED BY <1>12, <1>13

(* However the system calls split the bytes, wherever signals interrupt    *)
(* the loops of socketio.c and wherever a system call of theirs fails, no  *)
(* byte of a write is lost, doubled or moved: a write that says so put all *)
(* of its bytes into the connection, a failed one the first of them; and a *)
(* read returns the bytes it took, a line loop one line at most.           *)
THEOREM ConnectionSafe == SioSpec => []SioInv
<1>1. SioInit => SioIInv
  BY SioInitIInv
<1>2. SioIInv /\ [SioNext]_sio_vars => SioIInv'
  <2> SUFFICES ASSUME SioIInv, [SioNext]_sio_vars PROVE SioIInv'
    OBVIOUS
  <2>1. CASE UNCHANGED sio_vars
    BY <2>1, StillStep DEF sio_vars
  <2>2. CASE SioNext
    BY <2>2, WriterStep, StartReadStep, QuietStep, ReadStep, ReadByteStep DEF SioNext
  <2> QED BY <2>1, <2>2
<1>3. SioIInv => SioInv
  BY DEF SioIInv, SioInv
<1> QED BY <1>1, <1>2, <1>3, PTL DEF SioSpec

-----------------------------------------------------------------------------
(* The frames of a sequence of messages. *)

(* The places of the bytes of the frames before the i-th. *)
Places(ms, j)    == {j} \X DOMAIN Frame(ms[j])
AllBefore(ms, i) == UNION {Places(ms, j) : j \in 1 .. i - 1}

(* A frame is four bytes and the message. *)
LEMMA FrameFacts ==
  ASSUME NEW m \in Seq(Byte)
  PROVE  /\ Frame(m) \in Seq(Byte) /\ Len(Frame(m)) = 4 + Len(m) /\ Len(m) \in Nat
         /\ DOMAIN Frame(m) = 1 .. 4 + Len(m)
         /\ \A k \in 1 .. 4 : Frame(m)[k] = encode_uint(Len(m))[k]
         /\ \A k \in 1 .. Len(m) : Frame(m)[4 + k] = m[k]
<1>1. Len(m) \in Nat
  BY LenProperties
<1>a. PICK e : e = encode_uint(Len(m))
  OBVIOUS
<1>2. e \in Seq(Byte) /\ Len(e) = 4
  <2>1. \A n \in Nat : n % 256 \in Byte
    BY DEF Byte
  <2>2. PICK n \in Nat : n = Len(m)
    BY <1>1
  <2>3. n \div 256 \in Nat /\ n \div 65536 \in Nat /\ n \div 16777216 \in Nat
    OBVIOUS
  <2>4. e = <<n % 256, (n \div 256) % 256, (n \div 65536) % 256, (n \div 16777216) % 256>>
    BY <1>a, <2>2 DEF encode_uint
  <2>5. PICK a, b, c, d : a = n % 256 /\ b = (n \div 256) % 256 /\ c = (n \div 65536) % 256
                          /\ d = (n \div 16777216) % 256
    OBVIOUS
  <2>6. a \in Byte /\ b \in Byte /\ c \in Byte /\ d \in Byte
    BY <2>1, <2>3, <2>5
  <2>7. e = <<a, b, c, d>>
    BY <2>4, <2>5
  <2> QED BY <2>6, <2>7
<1>3. Frame(m) = e \o m
  BY <1>a DEF Frame
<1>4. /\ e \o m \in Seq(Byte) /\ Len(e \o m) = Len(e) + Len(m)
      /\ \A i \in 1 .. Len(e) + Len(m) : (e \o m)[i] = IF i <= Len(e) THEN e[i] ELSE m[i - Len(e)]
  BY <1>2, ConcatProperties
<1>5. DOMAIN (e \o m) = 1 .. 4 + Len(m)
  BY <1>2, <1>4, LenProperties
<1>6. \A k \in 1 .. 4 : (e \o m)[k] = e[k]
  BY <1>1, <1>2, <1>4
<1>7. \A k \in 1 .. Len(m) : (e \o m)[4 + k] = m[k]
  BY <1>1, <1>2, <1>4
<1> QED BY <1>1, <1>2, <1>3, <1>4, <1>5, <1>6, <1>7, <1>a

(* A finite number of bytes is before each frame. *)
LEMMA BeforeFinite ==
  ASSUME NEW ms \in Seq(Seq(Byte)), NEW i \in 1 .. Len(ms) + 1
  PROVE  IsFiniteSet(AllBefore(ms, i)) /\ Before(ms, i) = Cardinality(AllBefore(ms, i))
         /\ Before(ms, i) \in Nat
<1>0. Len(ms) \in Nat
  BY LenProperties
<1>1. \A j \in 1 .. i - 1 : ms[j] \in Seq(Byte)
  BY <1>0, ElementOfSeq
<1>2. \A j \in 1 .. i - 1 : IsFiniteSet(Places(ms, j))
  <2> TAKE j \in 1 .. i - 1
  <2>1. DOMAIN Frame(ms[j]) = 1 .. 4 + Len(ms[j]) /\ Len(ms[j]) \in Nat
    BY <1>1, FrameFacts
  <2>2. PICK n \in Nat : n = 4 + Len(ms[j])
    BY <2>1
  <2>3. IsFiniteSet(1 .. n)
    BY FS_Interval
  <2>4. IsFiniteSet({j})
    BY FS_Singleton
  <2>5. IsFiniteSet({j} \X (1 .. n))
    BY <2>3, <2>4, FS_Product
  <2> QED BY <2>1, <2>2, <2>5 DEF Places
<1>3. IsFiniteSet({Places(ms, j) : j \in 1 .. i - 1})
  <2> DEFINE f == [j \in 1 .. i - 1 |-> Places(ms, j)]
             T == {Places(ms, j) : j \in 1 .. i - 1}
  <2>1. f \in Surjection(1 .. i - 1, T)
    BY DEF Surjection
  <2>2. IsFiniteSet(1 .. i - 1)
    BY <1>0, FS_Interval
  <2> HIDE DEF f, T
  <2>3. IsFiniteSet(T)
    BY <2>1, <2>2, FS_Surjection
  <2> QED BY <2>3 DEF T
<1>4. IsFiniteSet(AllBefore(ms, i))
  BY <1>2, <1>3, FS_UNION DEF AllBefore
<1>5. Before(ms, i) = Cardinality(AllBefore(ms, i))
  BY DEF Before, AllBefore, Places
<1> QED BY <1>4, <1>5, FS_CardinalityType

(* No byte is before the first frame. *)
LEMMA BeforeFirst ==
  ASSUME NEW ms \in Seq(Seq(Byte))
  PROVE  Before(ms, 1) = 0
<1>1. AllBefore(ms, 1) = {}
  BY DEF AllBefore
<1>2. Before(ms, 1) = Cardinality(AllBefore(ms, 1))
  BY DEF Before, AllBefore, Places
<1> QED BY <1>1, <1>2, FS_EmptySet

(* A frame moves the next one by its bytes. *)
LEMMA BeforeNext ==
  ASSUME NEW ms \in Seq(Seq(Byte)), NEW i \in 1 .. Len(ms)
  PROVE  /\ Before(ms, i) \in Nat /\ Len(ms[i]) \in Nat
         /\ Before(ms, i + 1) = Before(ms, i) + 4 + Len(ms[i])
<1>0. Len(ms) \in Nat /\ ms[i] \in Seq(Byte)
  BY LenProperties, ElementOfSeq
<1>a. PICK n : n = 4 + Len(ms[i])
  OBVIOUS
<1>1. DOMAIN Frame(ms[i]) = 1 .. n /\ n \in Nat /\ Len(ms[i]) \in Nat
  BY <1>0, <1>a, FrameFacts
<1>2. i \in 1 .. Len(ms) + 1 /\ i + 1 \in 1 .. Len(ms) + 1
  BY <1>0
<1>3. /\ IsFiniteSet(AllBefore(ms, i)) /\ Before(ms, i) = Cardinality(AllBefore(ms, i))
      /\ Before(ms, i) \in Nat
      /\ Before(ms, i + 1) = Cardinality(AllBefore(ms, i + 1))
  BY <1>2, BeforeFinite
<1>4. IsFiniteSet(Places(ms, i)) /\ Cardinality(Places(ms, i)) = n
  <2>1. IsFiniteSet(1 .. n) /\ Cardinality(1 .. n) = n
    BY <1>1, FS_Interval
  <2>2. IsFiniteSet({i}) /\ Cardinality({i}) = 1
    BY FS_Singleton
  <2>3. IsFiniteSet({i} \X (1 .. n)) /\ Cardinality({i} \X (1 .. n)) = 1 * n
    BY <2>1, <2>2, FS_Product, ZenonT(60)
  <2> QED BY <1>1, <2>3 DEF Places
<1>5. AllBefore(ms, i + 1) = AllBefore(ms, i) \cup Places(ms, i)
  <2>1. 1 .. (i + 1) - 1 = (1 .. i - 1) \cup {i}
    BY <1>0
  <2> QED BY <2>1 DEF AllBefore
<1>6. AllBefore(ms, i) \cap Places(ms, i) = {}
  <2> SUFFICES ASSUME NEW x, NEW j \in 1 .. i - 1, x \in Places(ms, j), x \in Places(ms, i)
               PROVE  FALSE
    BY DEF AllBefore
  <2>1. x[1] = j /\ x[1] = i
    BY DEF Places
  <2> QED BY <1>0, <2>1
<1>7. Cardinality(AllBefore(ms, i + 1)) = Cardinality(AllBefore(ms, i)) + n - Cardinality({})
  <2>1. PICK A, B : A = AllBefore(ms, i) /\ B = Places(ms, i)
    OBVIOUS
  <2>2. IsFiniteSet(A) /\ IsFiniteSet(B) /\ A \cap B = {} /\ Cardinality(B) = n
    BY <1>3, <1>4, <1>6, <2>1
  <2>3. Cardinality(A \cup B) = Cardinality(A) + Cardinality(B) - Cardinality(A \cap B)
    BY <2>2, FS_Union
  <2> QED BY <1>5, <2>1, <2>2, <2>3
<1>8. Cardinality({}) = 0
  BY FS_EmptySet
<1>9. PICK x, y : x = Before(ms, i) /\ y = Before(ms, i + 1)
  OBVIOUS
<1>10. x \in Nat /\ y = x + n - 0
  BY <1>3, <1>7, <1>8, <1>9
<1>11. y = x + n
  BY <1>1, <1>10
<1>12. PICK l : l = Len(ms[i])
  OBVIOUS
<1>13. n = 4 + l /\ l \in Nat
  BY <1>1, <1>12, <1>a
<1>14. y = x + 4 + l
  BY <1>10, <1>11, <1>13
<1> QED BY <1>9, <1>10, <1>12, <1>13, <1>14

(* More frames have more bytes. *)
LEMMA BeforeMono ==
  ASSUME NEW ms \in Seq(Seq(Byte)), NEW i \in 1 .. Len(ms) + 1, NEW j \in 1 .. Len(ms) + 1, i <= j
  PROVE  Before(ms, i) <= Before(ms, j)
<1>1. AllBefore(ms, i) \subseteq AllBefore(ms, j)
  <2>1. 1 .. i - 1 \subseteq 1 .. j - 1
    BY LenProperties
  <2> QED BY <2>1 DEF AllBefore
<1> QED BY <1>1, BeforeFinite, FS_Subset

(* What is appended is not before the frames that are there. *)
LEMMA BeforeAppend ==
  ASSUME NEW ms \in Seq(Seq(Byte)), NEW m \in Seq(Byte), NEW i \in 1 .. Len(ms) + 1
  PROVE  Before(Append(ms, m), i) = Before(ms, i)
<1>1. \A j \in 1 .. i - 1 : Append(ms, m)[j] = ms[j]
  BY LenProperties, AppendProperties
<1>2. \A j \in 1 .. i - 1 : Places(Append(ms, m), j) = Places(ms, j)
  BY <1>1 DEF Places
<1>3. {Places(Append(ms, m), j) : j \in 1 .. i - 1} = {Places(ms, j) : j \in 1 .. i - 1}
  BY <1>2
<1> QED BY <1>3 DEF Before, AllBefore, Places

(* Without the first message all frames are earlier by the bytes of its.   *)
LEMMA BeforeTail ==
  ASSUME NEW ms \in Seq(Seq(Byte)), ms # << >>, NEW i \in 1 .. Len(ms)
  PROVE  Before(ms, i + 1) = Before(Tail(ms), i) + 4 + Len(ms[1])
<1>0. Len(ms) \in Nat \ {0} /\ ms[1] \in Seq(Byte) /\ Tail(ms) \in Seq(Seq(Byte))
      /\ Len(Tail(ms)) = Len(ms) - 1 /\ \A j \in 1 .. Len(ms) - 1 : Tail(ms)[j] = ms[j + 1]
  BY EmptySeq, LenProperties, ElementOfSeq, HeadTailProperties
<1>a. i \in 1 .. Len(Tail(ms)) + 1 /\ i + 1 \in 1 .. Len(ms) + 1
  BY <1>0
<1>1. /\ IsFiniteSet(AllBefore(ms, i + 1))
      /\ Before(ms, i + 1) = Cardinality(AllBefore(ms, i + 1))
      /\ IsFiniteSet(AllBefore(Tail(ms), i))
      /\ Before(Tail(ms), i) = Cardinality(AllBefore(Tail(ms), i)) /\ Before(Tail(ms), i) \in Nat
  BY <1>0, <1>a, BeforeFinite
<1>b. PICK n : n = 4 + Len(ms[1])
  OBVIOUS
<1>2. DOMAIN Frame(ms[1]) = 1 .. n /\ n \in Nat /\ Len(ms[1]) \in Nat
  BY <1>0, <1>b, FrameFacts
<1> DEFINE Rest == UNION {Places(ms, j) : j \in 2 .. i}
           f == [x \in AllBefore(Tail(ms), i) |-> <<x[1] + 1, x[2]>>]
<1>3. IsFiniteSet(Places(ms, 1)) /\ Cardinality(Places(ms, 1)) = n
  <2>1. IsFiniteSet(1 .. n) /\ Cardinality(1 .. n) = n
    BY <1>2, FS_Interval
  <2>2. IsFiniteSet({1}) /\ Cardinality({1}) = 1
    BY FS_Singleton
  <2>3. IsFiniteSet({1} \X (1 .. n)) /\ Cardinality({1} \X (1 .. n)) = 1 * n
    BY <2>1, <2>2, FS_Product, ZenonT(60)
  <2> QED BY <1>2, <2>3 DEF Places
<1>4. AllBefore(ms, i + 1) = Places(ms, 1) \cup Rest
  <2>1. 1 .. (i + 1) - 1 = {1} \cup 2 .. i
    BY <1>0
  <2> QED BY <2>1 DEF AllBefore
<1>5. Places(ms, 1) \cap Rest = {}
  <2> SUFFICES ASSUME NEW x, NEW j \in 2 .. i, x \in Places(ms, j), x \in Places(ms, 1)
               PROVE  FALSE
    OBVIOUS
  <2>1. x[1] = j /\ x[1] = 1
    BY DEF Places
  <2> QED BY <1>0, <2>1
<1>6. f \in Bijection(AllBefore(Tail(ms), i), Rest)
  <2>1. \A j \in 1 .. i - 1 : Tail(ms)[j] = ms[j + 1] /\ j + 1 \in 2 .. i /\ j \in Int
    BY <1>0
  <2>2. \A x \in AllBefore(Tail(ms), i) :
           /\ \E j \in 1 .. i - 1 : x[1] = j /\ x[2] \in DOMAIN Frame(ms[j + 1])
           /\ x = <<x[1], x[2]>>
    <3> SUFFICES ASSUME NEW x \in AllBefore(Tail(ms), i)
                 PROVE  /\ \E j \in 1 .. i - 1 : x[1] = j /\ x[2] \in DOMAIN Frame(ms[j + 1])
                        /\ x = <<x[1], x[2]>>
      OBVIOUS
    <3>1. PICK j \in 1 .. i - 1 : x \in {j} \X DOMAIN Frame(Tail(ms)[j])
      BY DEF AllBefore, Places
    <3>2. x[1] = j /\ x[2] \in DOMAIN Frame(Tail(ms)[j]) /\ x = <<x[1], x[2]>>
      BY <3>1
    <3> QED BY <2>1, <3>2
  <2>3. f \in [AllBefore(Tail(ms), i) -> Rest]
    <3> SUFFICES ASSUME NEW x \in AllBefore(Tail(ms), i)
                 PROVE  <<x[1] + 1, x[2]>> \in Rest
      OBVIOUS
    <3>1. PICK j \in 1 .. i - 1 : x[1] = j /\ x[2] \in DOMAIN Frame(ms[j + 1])
      BY <2>2
    <3>2. <<x[1] + 1, x[2]>> \in Places(ms, j + 1)
      BY <3>1 DEF Places
    <3> QED BY <2>1, <3>2
  <2>4. ASSUME NEW x \in AllBefore(Tail(ms), i), NEW y \in AllBefore(Tail(ms), i), f[x] = f[y]
        PROVE  x = y
    <3>1. x[1] + 1 = y[1] + 1 /\ x[2] = y[2]
      BY <2>4
    <3>2. x[1] \in Int /\ y[1] \in Int
      BY <2>1, <2>2
    <3>3. PICK a, b : a = x[1] /\ b = y[1]
      OBVIOUS
    <3>4. a \in Int /\ b \in Int /\ a + 1 = b + 1
      BY <3>1, <3>2, <3>3
    <3>5. a = b
      BY <3>4
    <3> QED BY <2>2, <3>1, <3>3, <3>5
  <2>5. ASSUME NEW z \in Rest PROVE \E x \in AllBefore(Tail(ms), i) : f[x] = z
    <3>1. PICK j \in 2 .. i : z \in Places(ms, j)
      OBVIOUS
    <3>2. j - 1 \in 1 .. i - 1 /\ (j - 1) + 1 = j
      BY <1>0
    <3>3. z = <<j, z[2]>> /\ z[2] \in DOMAIN Frame(ms[j])
      BY <3>1 DEF Places
    <3>4. Tail(ms)[j - 1] = ms[j]
      BY <2>1, <3>2
    <3>5. <<j - 1, z[2]>> \in AllBefore(Tail(ms), i)
      BY <3>2, <3>3, <3>4 DEF AllBefore, Places
    <3>6. f[<<j - 1, z[2]>>] = <<j, z[2]>>
      BY <3>2, <3>5
    <3> QED BY <3>3, <3>5, <3>6
  <2> QED BY <2>3, <2>4, <2>5 DEF Bijection, Injection, IsInjective, Surjection
<1> HIDE DEF f, Rest
<1>7. IsFiniteSet(Rest) /\ Cardinality(Rest) = Cardinality(AllBefore(Tail(ms), i))
  <2>1. ExistsBijection(AllBefore(Tail(ms), i), Rest)
    BY <1>6 DEF ExistsBijection
  <2> QED BY <1>1, <2>1, FS_Bijection
<1>8. Cardinality(Places(ms, 1) \cup Rest) = Cardinality(Places(ms, 1)) + Cardinality(Rest) - Cardinality({})
  <2>1. PICK A, B : A = Places(ms, 1) /\ B = Rest
    OBVIOUS
  <2>2. IsFiniteSet(A) /\ IsFiniteSet(B) /\ A \cap B = {}
    BY <1>3, <1>5, <1>7, <2>1
  <2>3. Cardinality(A \cup B) = Cardinality(A) + Cardinality(B) - Cardinality(A \cap B)
    BY <2>2, FS_Union
  <2> QED BY <2>1, <2>2, <2>3
<1>9. Cardinality({}) = 0
  BY FS_EmptySet
<1>10. PICK x, y, l : x = Before(Tail(ms), i) /\ y = Before(ms, i + 1) /\ l = Len(ms[1])
  OBVIOUS
<1>11. x \in Nat /\ y = n + x - 0 /\ n = 4 + l /\ l \in Nat
  BY <1>1, <1>2, <1>3, <1>4, <1>7, <1>8, <1>9, <1>10, <1>b
<1>12. y = x + 4 + l
  BY <1>2, <1>11
<1> QED BY <1>10, <1>12

-----------------------------------------------------------------------------
(* A deque that holds frames but for the first c bytes of the first.       *)

Total(ms) == Before(ms, Len(ms) + 1)
Cut(bytes, ms, c) ==
  \A i \in DOMAIN ms : \A k \in DOMAIN Frame(ms[i]) :
    Before(ms, i) + k > c => bytes[Before(ms, i) + k - c] = Frame(ms[i])[k]

(* Every byte has its place between the first and the last.                *)
LEMMA Room ==
  ASSUME NEW ms \in Seq(Seq(Byte)), NEW i \in DOMAIN ms, NEW k \in DOMAIN Frame(ms[i])
  PROVE  /\ i \in 1 .. Len(ms) /\ ms[i] \in Seq(Byte)
         /\ k \in Nat \ {0} /\ Before(ms, i) \in Nat
         /\ Total(ms) \in Nat /\ Before(ms, i) + k <= Total(ms)
<1>1. i \in 1 .. Len(ms) /\ Len(ms) \in Nat /\ ms[i] \in Seq(Byte)
  BY LenProperties, ElementOfSeq
<1>2. DOMAIN Frame(ms[i]) = 1 .. 4 + Len(ms[i]) /\ Len(ms[i]) \in Nat
  BY <1>1, FrameFacts
<1>3. i + 1 \in 1 .. Len(ms) + 1 /\ Len(ms) + 1 \in 1 .. Len(ms) + 1 /\ i + 1 <= Len(ms) + 1
  BY <1>1
<1>4. Before(ms, i + 1) <= Total(ms) /\ Total(ms) \in Nat /\ Before(ms, i + 1) \in Nat
  BY <1>3, BeforeMono, BeforeFinite DEF Total
<1>5. Before(ms, i) \in Nat /\ Before(ms, i + 1) = Before(ms, i) + 4 + Len(ms[i])
  BY <1>1, BeforeNext
<1>6. PICK x, y, t, l : x = Before(ms, i) /\ y = Before(ms, i + 1) /\ t = Total(ms) /\ l = Len(ms[i])
  OBVIOUS
<1>7. k \in 1 .. 4 + l /\ l \in Nat /\ x \in Nat /\ y = x + 4 + l /\ y <= t /\ t \in Nat
  BY <1>2, <1>4, <1>5, <1>6
<1>8. k \in Nat \ {0} /\ x + k <= t
  BY <1>7
<1> QED BY <1>1, <1>4, <1>5, <1>6, <1>8

(* What holds frames holds them uncut. *)
LEMMA HoldsCut ==
  ASSUME NEW ms \in Seq(Seq(Byte)), NEW bytes
  PROVE  Holds(bytes, ms) <=> Len(bytes) = Total(ms) /\ Cut(bytes, ms, 0)
<1>1. \A i \in DOMAIN ms : \A k \in DOMAIN Frame(ms[i]) :
        Before(ms, i) + k > 0 /\ Before(ms, i) + k - 0 = Before(ms, i) + k
  BY Room
<1> QED BY <1>1 DEF Holds, Total, Cut

(* Without messages there are no bytes; the first frame is before the rest. *)
LEMMA TotalFacts ==
  ASSUME NEW ms \in Seq(Seq(Byte))
  PROVE  /\ Total(ms) \in Nat /\ (ms = << >> => Total(ms) = 0)
         /\ ms # << >> => /\ 1 \in DOMAIN ms /\ ms[1] \in Seq(Byte) /\ Len(ms[1]) \in Nat
                          /\ Before(ms, 1) = 0 /\ Before(ms, 2) = 4 + Len(ms[1])
                          /\ 4 + Len(ms[1]) <= Total(ms)
<1>1. Len(ms) \in Nat
  BY LenProperties
<1>2. Total(ms) \in Nat
  <2>1. Len(ms) + 1 \in 1 .. Len(ms) + 1
    BY <1>1
  <2> QED BY <2>1, BeforeFinite DEF Total
<1>3. ms = << >> => Total(ms) = 0
  <2>1. Len(<< >>) + 1 = 1 /\ << >> \in Seq(Seq(Byte))
    BY EmptySeq
  <2> QED BY <2>1, BeforeFirst DEF Total
<1>4. ASSUME ms # << >>
      PROVE  /\ 1 \in DOMAIN ms /\ ms[1] \in Seq(Byte) /\ Len(ms[1]) \in Nat
             /\ Before(ms, 1) = 0 /\ Before(ms, 2) = 4 + Len(ms[1])
             /\ 4 + Len(ms[1]) <= Total(ms)
  <2>1. 1 \in DOMAIN ms /\ 1 \in 1 .. Len(ms) /\ 2 \in 1 .. Len(ms) + 1
        /\ Len(ms) + 1 \in 1 .. Len(ms) + 1 /\ 2 <= Len(ms) + 1
    BY <1>1, <1>4, EmptySeq, LenProperties
  <2>2. ms[1] \in Seq(Byte) /\ Len(ms[1]) \in Nat
    BY <2>1, ElementOfSeq, LenProperties
  <2>3. Before(ms, 1 + 1) = Before(ms, 1) + 4 + Len(ms[1]) /\ Before(ms, 1) = 0
    BY <2>1, BeforeNext, BeforeFirst
  <2>4. Before(ms, 2) <= Total(ms)
    BY <2>1, BeforeMono DEF Total
  <2>5. PICK l : l = Len(ms[1])
    OBVIOUS
  <2>6. 1 + 1 = 2 /\ 0 + 4 + l = 4 + l
    BY <2>2, <2>5
  <2>7. Before(ms, 2) = 4 + l
    BY <2>3, <2>5, <2>6
  <2> QED BY <2>1, <2>2, <2>3, <2>4, <2>5, <2>7
<1> QED BY <1>2, <1>3, <1>4

(* A frame behind the others makes one more message. *)
LEMMA HoldsAppend ==
  ASSUME NEW ms \in Seq(Seq(Byte)), NEW m \in Seq(Byte), NEW bytes, Cut(bytes, ms, 0),
         Len(bytes) = Total(ms) + 4 + Len(m),
         \A k \in 1 .. 4 + Len(m) : bytes[Total(ms) + k] = Frame(m)[k]
  PROVE  Holds(bytes, Append(ms, m))
<1> DEFINE more == Append(ms, m)
<1>1. more \in Seq(Seq(Byte)) /\ Len(more) = Len(ms) + 1 /\ Len(ms) \in Nat
      /\ more[Len(ms) + 1] = m /\ \A i \in 1 .. Len(ms) : more[i] = ms[i]
  BY AppendProperties, LenProperties
<1> HIDE DEF more
<1>2. \A i \in 1 .. Len(ms) + 1 : Before(more, i) = Before(ms, i)
  BY BeforeAppend DEF more
<1>3. Total(more) = Total(ms) + 4 + Len(m) /\ Total(ms) \in Nat
  <2>1. Len(ms) + 1 \in 1 .. Len(more) /\ Len(ms) + 1 \in 1 .. Len(ms) + 1
    BY <1>1
  <2>2. Before(more, (Len(ms) + 1) + 1) = Before(more, Len(ms) + 1) + 4 + Len(more[Len(ms) + 1])
    BY <1>1, <2>1, BeforeNext
  <2> QED BY <1>1, <1>2, <2>1, <2>2, TotalFacts DEF Total
<1>5. Cut(bytes, more, 0)
  <2> SUFFICES ASSUME NEW i \in DOMAIN more, NEW k \in DOMAIN Frame(more[i])
               PROVE  bytes[Before(more, i) + k - 0] = Frame(more[i])[k]
    BY DEF Cut
  <2>1. i \in 1 .. Len(ms) + 1 /\ k \in Nat \ {0} /\ Before(more, i) \in Nat
    BY <1>1, Room
  <2>2. Before(more, i) + k - 0 = Before(more, i) + k
    BY <2>1
  <2>3. CASE i = Len(ms) + 1
    <3>1. DOMAIN Frame(m) = 1 .. 4 + Len(m)
      BY FrameFacts
    <3>2. Before(more, i) = Total(ms) /\ more[i] = m
      BY <1>1, <1>2, <2>1, <2>3 DEF Total
    <3> QED BY <2>2, <3>1, <3>2
  <2>4. CASE i \in 1 .. Len(ms)
    <3>1. more[i] = ms[i] /\ Before(more, i) = Before(ms, i) /\ i \in DOMAIN ms
      BY <1>1, <1>2, <2>1, <2>4, LenProperties
    <3>2. Before(ms, i) + k > 0 /\ k \in DOMAIN Frame(ms[i])
      BY <2>1, <3>1
    <3>3. bytes[Before(ms, i) + k - 0] = Frame(ms[i])[k]
      BY <3>1, <3>2 DEF Cut
    <3> QED BY <3>1, <3>3
  <2> QED BY <1>1, <2>1, <2>3, <2>4
<1> QED BY <1>1, <1>3, <1>5, HoldsCut DEF more

(* A byte behind the frames leaves them as they are. *)
LEMMA CutGrow ==
  ASSUME NEW ms \in Seq(Seq(Byte)), NEW bytes \in Seq(Byte), NEW b \in Byte,
         Cut(bytes, ms, 0), Len(bytes) >= Total(ms)
  PROVE  Cut(Append(bytes, b), ms, 0)
<1> SUFFICES ASSUME NEW i \in DOMAIN ms, NEW k \in DOMAIN Frame(ms[i])
             PROVE  Append(bytes, b)[Before(ms, i) + k - 0] = Frame(ms[i])[k]
  BY DEF Cut
<1>1. k \in Nat \ {0} /\ Before(ms, i) \in Nat /\ Total(ms) \in Nat
      /\ Before(ms, i) + k <= Total(ms)
  BY Room
<1>2. PICK n, x : n = Len(bytes) /\ x = Before(ms, i) + k - 0
  OBVIOUS
<1>3. n \in Nat /\ x \in 1 .. n
  <2>1. PICK y, t : y = Before(ms, i) /\ t = Total(ms)
    OBVIOUS
  <2>2. n \in Nat
    BY <1>2, LenProperties
  <2>3. x = y + k - 0 /\ y \in Nat /\ y + k <= t /\ t <= n /\ t \in Nat /\ k \in Nat \ {0}
    BY <1>1, <1>2, <2>1, <2>2
  <2> QED BY <2>2, <2>3
<1>4. Append(bytes, b)[x] = bytes[x]
  BY <1>2, <1>3, AppendProperties
<1>5. Before(ms, i) + k > 0
  BY <1>1
<1>6. bytes[x] = Frame(ms[i])[k]
  BY <1>2, <1>5 DEF Cut
<1> QED BY <1>2, <1>4, <1>6

(* One byte less is one more that is cut off. *)
LEMMA CutPop ==
  ASSUME NEW ms \in Seq(Seq(Byte)), NEW bytes \in Seq(Byte), NEW c \in Nat,
         bytes # << >>, Cut(bytes, ms, c), Len(bytes) + c = Total(ms)
  PROVE  Tail(bytes) \in Seq(Byte) /\ Len(Tail(bytes)) + (c + 1) = Total(ms)
         /\ Cut(Tail(bytes), ms, c + 1)
<1>1. PICK n \in Nat : n = Len(bytes)
  BY LenProperties
<1>2. n # 0 /\ Tail(bytes) \in Seq(Byte) /\ Len(Tail(bytes)) = n - 1
      /\ \A j \in 1 .. n - 1 : Tail(bytes)[j] = bytes[j + 1]
  BY <1>1, EmptySeq, HeadTailProperties
<1>3. PICK t : t = Total(ms)
  OBVIOUS
<1>4. t = n + c
  BY <1>1, <1>3
<1>5. (n - 1) + (c + 1) = t
  BY <1>4
<1>6. ASSUME NEW i \in DOMAIN ms, NEW k \in DOMAIN Frame(ms[i]), Before(ms, i) + k > c + 1
      PROVE  Tail(bytes)[Before(ms, i) + k - (c + 1)] = Frame(ms[i])[k]
  <2>1. k \in Nat \ {0} /\ Before(ms, i) \in Nat /\ Before(ms, i) + k <= t
    BY <1>3, Room
  <2>2. PICK y : y = Before(ms, i)
    OBVIOUS
  <2>3. y \in Nat /\ y + k <= t /\ y + k > c + 1 /\ k \in Nat
    BY <1>6, <2>1, <2>2
  <2>4. y + k - (c + 1) \in 1 .. n - 1 /\ (y + k - (c + 1)) + 1 = y + k - c /\ y + k > c
    BY <1>4, <2>3
  <2>5. bytes[y + k - c] = Frame(ms[i])[k]
    BY <2>2, <2>4 DEF Cut
  <2>6. Tail(bytes)[y + k - (c + 1)] = bytes[(y + k - (c + 1)) + 1]
    BY <1>2, <2>4
  <2> QED BY <2>2, <2>4, <2>5, <2>6
<1> QED BY <1>2, <1>3, <1>5, <1>6 DEF Cut

(* The next byte is the next one of the first frame. *)
LEMMA CutFirst ==
  ASSUME NEW ms \in Seq(Seq(Byte)), NEW bytes, NEW c \in Nat,
         Cut(bytes, ms, c), ms # << >>, c < 4 + Len(ms[1])
  PROVE  bytes[1] = Frame(ms[1])[c + 1]
<1>1. 1 \in DOMAIN ms /\ ms[1] \in Seq(Byte) /\ Len(ms[1]) \in Nat /\ Before(ms, 1) = 0
  BY TotalFacts
<1>2. PICK l : l = Len(ms[1])
  OBVIOUS
<1>3. c + 1 \in 1 .. 4 + l /\ 0 + (c + 1) > c /\ 0 + (c + 1) - c = 1
  BY <1>1, <1>2
<1>4. c + 1 \in DOMAIN Frame(ms[1])
  BY <1>1, <1>2, <1>3, FrameFacts
<1>5. bytes[0 + (c + 1) - c] = Frame(ms[1])[c + 1]
  BY <1>1, <1>3, <1>4 DEF Cut
<1> QED BY <1>3, <1>5

(* With the first frame cut off the others are held. *)
LEMMA CutTail ==
  ASSUME NEW ms \in Seq(Seq(Byte)), NEW bytes \in Seq(Byte), ms # << >>,
         Cut(bytes, ms, 4 + Len(ms[1])), Len(bytes) + (4 + Len(ms[1])) = Total(ms)
  PROVE  Tail(ms) \in Seq(Seq(Byte)) /\ Holds(bytes, Tail(ms))
<1>1. /\ Len(ms) \in Nat \ {0} /\ Tail(ms) \in Seq(Seq(Byte)) /\ Len(Tail(ms)) = Len(ms) - 1
      /\ \A j \in 1 .. Len(ms) - 1 : Tail(ms)[j] = ms[j + 1]
  BY EmptySeq, LenProperties, HeadTailProperties
<1>2. PICK l, n, b : l = Len(ms[1]) /\ n = Len(ms) /\ b = Len(bytes)
  OBVIOUS
<1>3. l \in Nat /\ n \in Nat \ {0} /\ b \in Nat
  BY <1>1, <1>2, TotalFacts, LenProperties
<1>4. \A i \in 1 .. n : Before(ms, i + 1) = Before(Tail(ms), i) + 4 + l
  BY <1>2, BeforeTail
<1>5. Len(bytes) = Total(Tail(ms))
  <2>1. n \in 1 .. n /\ (n - 1) + 1 = n
    BY <1>3
  <2>2. Total(Tail(ms)) = Before(Tail(ms), n)
    BY <1>1, <1>2, <2>1 DEF Total
  <2>3. Total(ms) = Before(Tail(ms), n) + 4 + l
    BY <1>2, <1>4, <2>1 DEF Total
  <2>4. PICK x : x = Total(Tail(ms))
    OBVIOUS
  <2>5. x \in Nat
    BY <1>1, <2>4, TotalFacts
  <2>6. b + (4 + l) = x + 4 + l
    BY <1>2, <2>2, <2>3, <2>4
  <2>7. b = x
    BY <1>3, <2>5, <2>6
  <2> QED BY <1>2, <2>4, <2>7
<1>6. Cut(bytes, Tail(ms), 0)
  <2> SUFFICES ASSUME NEW i \in DOMAIN Tail(ms), NEW k \in DOMAIN Frame(Tail(ms)[i])
               PROVE  bytes[Before(Tail(ms), i) + k - 0] = Frame(Tail(ms)[i])[k]
    BY DEF Cut
  <2>1. i \in 1 .. n - 1 /\ k \in Nat \ {0} /\ Before(Tail(ms), i) \in Nat
    BY <1>1, <1>2, Room
  <2>2. Tail(ms)[i] = ms[i + 1] /\ i + 1 \in DOMAIN ms /\ i \in 1 .. n
    BY <1>1, <1>2, <1>3, <2>1, LenProperties
  <2>3. PICK x : x = Before(Tail(ms), i)
    OBVIOUS
  <2>4. Before(ms, i + 1) = x + 4 + l
    BY <1>4, <2>2, <2>3
  <2>5. x \in Nat /\ x + 4 + l + k > 4 + l /\ x + 4 + l + k - (4 + l) = x + k - 0
    <3>1. l \in Nat /\ k \in Nat \ {0} /\ x \in Nat
      BY <1>3, <2>1, <2>3
    <3> QED BY <3>1
  <2>6. bytes[x + 4 + l + k - (4 + l)] = Frame(ms[i + 1])[k]
    BY <1>2, <2>2, <2>4, <2>5 DEF Cut
  <2> QED BY <2>2, <2>3, <2>5, <2>6
<1> QED BY <1>1, <1>5, <1>6, HoldsCut

(* Quotients and remainders. *)
LEMMA Digits ==
  ASSUME NEW n \in Nat, NEW d \in Nat \ {0}
  PROVE  /\ n = d * (n \div d) + (n % d) /\ n \div d \in Nat /\ n % d \in 0 .. d - 1
         /\ n < d => n \div d = 0 /\ n % d = n
<1>1. n = d * (n \div d) + (n % d)
  OBVIOUS
<1>2. n \div d \in Nat
  OBVIOUS
<1>3. n % d \in 0 .. d - 1
  OBVIOUS
<1>4. n < d => n \div d = 0
  OBVIOUS
<1>5. n < d => n % d = n
  OBVIOUS
<1> QED BY <1>1, <1>2, <1>3, <1>4, <1>5

(* The length of a message that fits into a deque is decoded again. *)
LEMMA Decodes ==
  ASSUME NEW n \in Nat, n <= USHRT_MAX, NEW b, \A k \in 1 .. 4 : b[k] = encode_uint(n)[k]
  PROVE  decode_uint(b) = n
<1>0. n < 65536
  BY DEF USHRT_MAX
<1>1. n \div 65536 = 0
  BY <1>0, Digits
<1>2. n \div 16777216 = 0
  BY <1>0, Digits
<1>3. 0 % 256 = 0
  BY Digits
<1>4. PICK x, y : x = n % 256 /\ y = n \div 256
  OBVIOUS
<1>5. x \in Nat /\ y \in Nat /\ n = 256 * y + x
  BY <1>4, Digits
<1>6. y < 256
  BY <1>0, <1>5
<1>a. \A z \in Nat : z < 256 => z % 256 = z
  OBVIOUS
<1>7. y % 256 = y
  BY <1>5, <1>6, <1>a
<1>8. b[1] = x /\ b[2] = y /\ b[3] = 0 /\ b[4] = 0
  <2>1. encode_uint(n) = <<x, y, 0, 0>>
    BY <1>1, <1>2, <1>3, <1>4, <1>7 DEF encode_uint
  <2> QED BY <2>1
<1>9. decode_uint(b) = x + 256 * (y + 256 * (0 + 256 * 0))
  BY <1>8 DEF decode_uint
<1>10. x + 256 * (y + 256 * (0 + 256 * 0)) = n
  BY <1>5
<1> QED BY <1>9, <1>10

-----------------------------------------------------------------------------
(* The inductive invariant. *)

SendSteps == {"idle", "dead", "lock", "push", "unlock", "check", "post"}
RecSteps  == {"idle", "dead", "lock", "stats", "size", "data", "unlock", "cell", "wait"}
(* The steps of a process that has the lock. *)
Section   == {"push", "stats", "size", "data", "unlock"}

StreamTypes ==
  /\ q \in Seq(Byte) /\ Len(q) <= Slots /\ sem \in 0 .. SemMax
  /\ lock \in Procs \cup {"none"}
  /\ pc \in [Procs -> SendSteps \cup RecSteps]
  /\ \A s \in Senders : pc[s] \in SendSteps
  /\ \A r \in Receivers : pc[r] \in RecSteps
  /\ todo \in [Senders -> Seq(Byte)] /\ out \in [Senders -> Seq(Byte)]
  /\ buff \in [Receivers -> Seq(Byte)] /\ need \in [Receivers -> Nat \ {0}]
  /\ retval \in [Procs -> BOOLEAN]
  /\ pending \in Seq(Seq(Byte)) /\ torn \in BOOLEAN

(* The lock file is locked by the process that is in the locked section. *)
LockFree == \A p \in Procs : pc[p] \in Section <=> lock = p

(* The rest bytes are the last ones of the frame of m. *)
EndOf(rest, m) ==
  /\ Len(rest) <= 4 + Len(m)
  /\ \A k \in 1 .. Len(rest) : rest[k] = Frame(m)[4 + Len(m) - Len(rest) + k]

(* What a sender has still to push, and how far the fields of a receiver are. *)
SendCall(s) == /\ pc[s] = "lock" => todo[s] = Frame(out[s])
               /\ pc[s] \in {"push", "unlock"} => EndOf(todo[s], out[s])
               /\ pc[s] = "unlock" => retval[s] \/ todo[s] = << >>
RecCall(r)  == /\ pc[r] = "size" => need[r] = 4 /\ Len(buff[r]) <= 4
               /\ pc[r] = "data" => Len(buff[r]) <= need[r]
CallInv     == (\A s \in Senders : SendCall(s)) /\ (\A r \in Receivers : RecCall(r))

(* A sender has pushed its frame up to the bytes it has still to push. *)
Pushed(s) ==
  /\ Cut(q, pending, 0) /\ Len(q) + Len(todo[s]) = Total(pending) + 4 + Len(out[s])
  /\ \A k \in 1 .. 4 + Len(out[s]) - Len(todo[s]) : q[Total(pending) + k] = Frame(out[s])[k]

(* A receiver has popped c bytes of the oldest frame. *)
Popped(c) == pending # << >> /\ Cut(q, pending, c) /\ Len(q) + c = Total(pending)
Partway(r) ==
  /\ pc[r] \in {"stats", "unlock"} => Holds(q, pending)
  /\ pc[r] = "size" => /\ Popped(Len(buff[r]))
                       /\ \A k \in 1 .. Len(buff[r]) : buff[r][k] = Frame(pending[1])[k]
  /\ pc[r] = "data" => /\ Popped(4 + Len(buff[r])) /\ need[r] = Len(pending[1])
                       /\ \A k \in 1 .. Len(buff[r]) : buff[r][k] = pending[1][k]

(* The deque holds whole frames, but for the one its owner is moving. *)
Whole == ~torn => /\ lock = "none" => Holds(q, pending)
                  /\ \A s \in Senders : lock = s => Pushed(s)
                  /\ \A r \in Receivers : lock = r => Partway(r)

StreamStrong == StreamTypes /\ LockFree /\ CallInv /\ Whole /\ PopsSucceed

(* What the assumption says of the constants. *)
LEMMA StreamConstants ==
  /\ Senders \cap Receivers = {} /\ Procs = Senders \cup Receivers /\ "none" \notin Procs
  /\ Messages \subseteq Seq(Byte) /\ Slots \in Nat /\ Slots <= USHRT_MAX /\ USHRT_MAX \in Nat
  /\ SemMax \in Nat
<1>1. Slots \in 0 .. USHRT_MAX /\ SemMax \in Nat \ {0}
  BY MsgStreamAssumption
<1>m. USHRT_MAX \in Nat
  BY DEF USHRT_MAX
<1>2. Slots \in Nat /\ Slots <= USHRT_MAX /\ SemMax \in Nat
  BY <1>1, <1>m
<1>3. Senders \cap Receivers = {} /\ "none" \notin Procs /\ Messages \subseteq Seq(Byte)
  BY MsgStreamAssumption
<1> QED BY <1>2, <1>3, <1>m DEF Procs

(* What a step of p leaves alone. *)
Elsewhere(p) ==
  /\ \A x \in Procs \ {p} : pc'[x] = pc[x] /\ retval'[x] = retval[x]
  /\ \A s \in Senders \ {p} : todo'[s] = todo[s] /\ out'[s] = out[s]
  /\ \A r \in Receivers \ {p} : buff'[r] = buff[r] /\ need'[r] = need[r]

(* A step of p has to respect the clauses of p; those of a process that    *)
(* has the lock need the deque to stay as it is.                           *)
LEMMA Combine ==
  ASSUME StreamStrong, NEW p \in Procs, Elsewhere(p), StreamTypes',
         \A x \in Procs \ {p} : lock' = x <=> lock = x,
         pc'[p] \in Section <=> lock' = p,
         p \in Senders => SendCall(p)', p \in Receivers => RecCall(p)',
         torn => torn', lock' \notin {p, "none"} => UNCHANGED <<q, pending>>,
         ~torn' /\ lock' = "none" => Holds(q, pending)',
         ~torn' /\ lock' = p /\ p \in Senders => Pushed(p)',
         ~torn' /\ lock' = p /\ p \in Receivers => Partway(p)',
         p \in Receivers /\ retval'[p] => torn'
  PROVE  StreamStrong'
<1> USE DEF StreamStrong
<1>1. LockFree'
  <2> SUFFICES ASSUME NEW x \in Procs PROVE pc'[x] \in Section <=> lock' = x
    BY DEF LockFree
  <2>1. CASE x = p
    BY <2>1
  <2>2. CASE x # p
    BY <2>2 DEF LockFree, Elsewhere
  <2> QED BY <2>1, <2>2
<1>2. CallInv'
  <2>1. ASSUME NEW s \in Senders PROVE SendCall(s)'
    <3>1. CASE s = p
      BY <3>1
    <3>2. CASE s # p
      <4>1. pc'[s] = pc[s] /\ retval'[s] = retval[s] /\ todo'[s] = todo[s] /\ out'[s] = out[s]
        BY <3>2, StreamConstants DEF Elsewhere
      <4>2. SendCall(s)
        BY DEF CallInv
      <4> QED BY <4>1, <4>2 DEF SendCall
    <3> QED BY <3>1, <3>2
  <2>2. ASSUME NEW r \in Receivers PROVE RecCall(r)'
    <3>1. CASE r = p
      BY <3>1
    <3>2. CASE r # p
      <4>1. pc'[r] = pc[r] /\ buff'[r] = buff[r] /\ need'[r] = need[r]
        BY <3>2, StreamConstants DEF Elsewhere
      <4>2. RecCall(r)
        BY DEF CallInv
      <4> QED BY <4>1, <4>2 DEF RecCall
    <3> QED BY <3>1, <3>2
  <2> QED BY <2>1, <2>2 DEF CallInv
<1>3. Whole'
  <2> SUFFICES ASSUME ~torn'
               PROVE  /\ lock' = "none" => Holds(q, pending)'
                      /\ \A s \in Senders : lock' = s => Pushed(s)'
                      /\ \A r \in Receivers : lock' = r => Partway(r)'
    BY DEF Whole
  <2>1. ASSUME NEW s \in Senders, lock' = s PROVE Pushed(s)'
    <3>1. CASE s = p
      BY <2>1, <3>1
    <3>2. CASE s # p
      <4>1. lock = s /\ s \in Procs /\ s # "none"
        BY <2>1, <3>2, StreamConstants
      <4>2. q' = q /\ pending' = pending /\ todo'[s] = todo[s] /\ out'[s] = out[s]
        BY <2>1, <3>2, <4>1 DEF Elsewhere
      <4>3. Pushed(s)
        BY <4>1 DEF Whole
      <4> QED BY <4>2, <4>3 DEF Pushed
    <3> QED BY <3>1, <3>2
  <2>2. ASSUME NEW r \in Receivers, lock' = r PROVE Partway(r)'
    <3>1. CASE r = p
      BY <2>2, <3>1
    <3>2. CASE r # p
      <4>1. lock = r /\ r \in Procs /\ r # "none"
        BY <2>2, <3>2, StreamConstants
      <4>2. q' = q /\ pending' = pending /\ buff'[r] = buff[r] /\ need'[r] = need[r] /\ pc'[r] = pc[r]
        BY <2>2, <3>2, <4>1 DEF Elsewhere
      <4>3. Partway(r)
        BY <4>1 DEF Whole
      <4> QED BY <4>2, <4>3 DEF Partway, Popped
    <3> QED BY <3>1, <3>2
  <2> QED BY <2>1, <2>2
<1>4. PopsSucceed'
  <2> SUFFICES ASSUME NEW r \in Receivers, retval'[r] PROVE torn'
    BY DEF PopsSucceed
  <2>1. CASE r = p
    BY <2>1
  <2>2. CASE r # p
    BY <2>2, StreamConstants DEF PopsSucceed, Elsewhere
  <2> QED BY <2>1, <2>2
<1> QED BY <1>1, <1>2, <1>3, <1>4

(* A step outside of the locked section. *)
LEMMA QuietStream ==
  ASSUME StreamStrong, NEW p \in Procs, Elsewhere(p), StreamTypes',
         UNCHANGED <<q, lock, pending, torn>>, pc[p] \notin Section, pc'[p] \notin Section,
         p \in Senders => SendCall(p)', p \in Receivers => RecCall(p)',
         p \in Receivers => retval'[p] = retval[p]
  PROVE  StreamStrong'
<1>1. lock # p
  BY DEF StreamStrong, LockFree
<1>2. ~torn' /\ lock' = "none" => Holds(q, pending)'
  BY DEF StreamStrong, Whole
<1>3. p \in Receivers /\ retval'[p] => torn'
  BY DEF StreamStrong, PopsSucceed
<1> QED BY <1>1, <1>2, <1>3, Combine

(* The invariant holds in the beginning. *)
LEMMA InitStream == Init => StreamStrong
<1> SUFFICES ASSUME Init PROVE StreamStrong
  OBVIOUS
<1> USE DEF Init
<1>1. StreamTypes
  <2>1. << >> \in Seq(Byte) /\ << >> \in Seq(Seq(Byte)) /\ Len(<< >>) = 0 /\ 4 \in Nat \ {0}
    BY EmptySeq
  <2>2. q \in Seq(Byte) /\ Len(q) <= Slots
    BY <2>1, StreamConstants
  <2>3. \A p \in Procs : pc[p] = "idle"
    OBVIOUS
  <2>4. (\A s \in Senders : pc[s] \in SendSteps) /\ (\A r \in Receivers : pc[r] \in RecSteps)
        /\ pc \in [Procs -> SendSteps \cup RecSteps]
    BY <2>3, StreamConstants DEF SendSteps, RecSteps
  <2> QED BY <2>1, <2>2, <2>4 DEF StreamTypes
<1>2. \A p \in Procs : pc[p] = "idle" /\ retval[p] = FALSE
  OBVIOUS
<1>3. LockFree
  BY <1>2, StreamConstants DEF LockFree, Section
<1>4. CallInv
  BY <1>2, StreamConstants DEF CallInv, SendCall, RecCall
<1>5. Holds(q, pending)
  <2>1. << >> \in Seq(Seq(Byte)) /\ Len(<< >>) = 0 /\ DOMAIN << >> = {}
    BY EmptySeq
  <2>2. Total(<< >>) = 0
    BY <2>1, TotalFacts
  <2>3. Cut(<< >>, << >>, 0)
    BY <2>1 DEF Cut
  <2> QED BY <2>1, <2>2, <2>3, HoldsCut
<1>6. Whole
  BY <1>5, StreamConstants DEF Whole
<1>7. PopsSucceed
  BY <1>2, StreamConstants DEF PopsSucceed
<1> QED BY <1>1, <1>3, <1>4, <1>6, <1>7 DEF StreamStrong

(* Getting the lock: nothing is moved yet. *)
LEMMA LockStream ==
  ASSUME StreamStrong, NEW p \in Procs, LockFile(p)
  PROVE  StreamStrong'
<1> USE DEF LockFile, Goto, local, history, counted
<1>1. StreamTypes /\ lock = "none" /\ pc[p] = "lock" /\ lock' = p /\ (~torn => Holds(q, pending))
      /\ UNCHANGED <<q, sem, todo, buff, need, retval, out, pending, torn>>
  BY DEF StreamStrong, Whole
<1>a. \A x \in Procs \ {p} : lock' = x <=> lock = x
  BY <1>1, StreamConstants
<1>2. CASE p \in Senders
  <2>1. pc' = [pc EXCEPT ![p] = "push"]
    BY <1>2
  <2>2. pc'[p] = "push" /\ \A x \in Procs \ {p} : pc'[x] = pc[x]
    BY <1>1, <2>1 DEF StreamTypes
  <2>3. p \notin Receivers /\ p # "none"
    BY <1>2, StreamConstants
  <2>4. StreamTypes'
    BY <1>1, <1>2, <2>1, <2>3 DEF StreamTypes, SendSteps
  <2>5. Elsewhere(p)
    BY <1>1, <2>2 DEF Elsewhere
  <2>6. todo[p] = Frame(out[p]) /\ out[p] \in Seq(Byte)
    BY <1>1, <1>2 DEF StreamStrong, CallInv, SendCall, StreamTypes
  <2>7. PICK l, m : l = Len(out[p]) /\ m = out[p]
    OBVIOUS
  <2>8. Len(todo[p]) = 4 + l /\ l \in Nat
    BY <2>6, <2>7, FrameFacts
  <2>9. EndOf(todo[p], out[p])
    <3>1. \A k \in 1 .. 4 + l : 4 + l - (4 + l) + k = k
      BY <2>8
    <3> QED BY <2>6, <2>7, <2>8, <3>1 DEF EndOf
  <2>10. SendCall(p)'
    BY <1>1, <2>2, <2>9 DEF SendCall
  <2>11. ~torn => Pushed(p)'
    <3> SUFFICES ASSUME ~torn PROVE Pushed(p)'
      OBVIOUS
    <3>1. Len(q) = Total(pending) /\ Cut(q, pending, 0) /\ Total(pending) \in Nat
      BY <1>1, HoldsCut, TotalFacts DEF StreamTypes
    <3>2. Len(q) + Len(todo[p]) = Total(pending) + 4 + l
      BY <2>8, <3>1
    <3>3. 1 .. 4 + l - Len(todo[p]) = {}
      BY <2>8
    <3> QED BY <1>1, <2>7, <3>1, <3>2, <3>3 DEF Pushed
  <2>12. pc'[p] \in Section
    BY <2>2 DEF Section
  <2> QED BY <1>1, <1>a, <2>3, <2>4, <2>5, <2>10, <2>11, <2>12, Combine
<1>3. CASE p \in Receivers
  <2>0. p \notin Senders /\ p # "none"
    BY <1>3, StreamConstants
  <2>1. pc' = [pc EXCEPT ![p] = "stats"]
    BY <2>0
  <2>2. pc'[p] = "stats" /\ \A x \in Procs \ {p} : pc'[x] = pc[x]
    BY <1>1, <2>1 DEF StreamTypes
  <2>4. StreamTypes'
    BY <1>1, <1>3, <2>1, <2>0 DEF StreamTypes, RecSteps
  <2>5. Elsewhere(p)
    BY <1>1, <2>2 DEF Elsewhere
  <2>6. RecCall(p)'
    BY <2>2 DEF RecCall
  <2>7. ~torn => Partway(p)'
    BY <1>1, <2>2 DEF Partway
  <2>8. retval'[p] => torn'
    BY <1>1, <1>3 DEF StreamStrong, PopsSucceed
  <2>9. pc'[p] \in Section
    BY <2>2 DEF Section
  <2> QED BY <1>1, <1>a, <2>0, <2>4, <2>5, <2>6, <2>7, <2>8, <2>9, Combine
<1> QED BY <1>2, <1>3, StreamConstants

(* What the holder of the lock knows. *)
LEMMA Holder ==
  ASSUME StreamStrong, NEW p \in Procs, pc[p] \in Section
  PROVE  lock = p /\ p # "none" /\ (\A x \in Procs \ {p} : lock # x)
         /\ (p \in Senders => p \notin Receivers)
         /\ (p \in Senders /\ ~torn => Pushed(p))
         /\ (p \in Receivers /\ ~torn => Partway(p))
<1>1. lock = p
  BY DEF StreamStrong, LockFree
<1> QED BY <1>1, StreamConstants DEF StreamStrong, Whole

(* A call to send. *)
LEMMA SendStream ==
  ASSUME StreamStrong, NEW s \in Senders, msgdeque_send_byte_stream(s)
  PROVE  StreamStrong'
<1> USE DEF msgdeque_send_byte_stream, Goto
<1>1. s \in Procs /\ s \notin Receivers /\ StreamTypes /\ pc[s] = "idle"
  BY StreamConstants DEF StreamStrong
<1>2. PICK m \in Messages : out' = [out EXCEPT ![s] = m] /\ todo' = [todo EXCEPT ![s] = Frame(m)]
  OBVIOUS
<1>3. m \in Seq(Byte) /\ Frame(m) \in Seq(Byte)
  BY StreamConstants, FrameFacts
<1>4. pc' = [pc EXCEPT ![s] = "lock"] /\ retval' = [retval EXCEPT ![s] = FALSE]
  OBVIOUS
<1>5. StreamTypes'
  BY <1>1, <1>2, <1>3, <1>4 DEF StreamTypes, SendSteps
<1>6. Elsewhere(s)
  BY <1>1, <1>2, <1>4 DEF Elsewhere, StreamTypes
<1>7. todo'[s] = Frame(m) /\ out'[s] = m /\ pc'[s] = "lock"
  BY <1>1, <1>2, <1>4 DEF StreamTypes
<1>8. SendCall(s)'
  BY <1>7 DEF SendCall
<1>9. pc[s] \notin Section /\ pc'[s] \notin Section
  BY <1>1, <1>7 DEF Section
<1> QED BY <1>1, <1>5, <1>6, <1>8, <1>9, QuietStream

(* A byte that is pushed goes from the rest of the frame to the deque.     *)
LEMMA PushByte ==
  ASSUME StreamStrong, NEW s \in Senders, pc[s] = "push", todo[s] # << >>,
         Len(q) < Slots, q' = Append(q, Head(todo[s])), todo' = [todo EXCEPT ![s] = Tail(@)],
         UNCHANGED <<pc, retval, sem, lock, buff, need, out, pending, torn>>
  PROVE  StreamStrong'
<1>1. s \in Procs /\ StreamTypes
  BY StreamConstants DEF StreamStrong
<1>2. lock = s /\ s # "none" /\ (\A x \in Procs \ {s} : lock # x) /\ s \notin Receivers
      /\ (~torn => Pushed(s)) /\ pc[s] \in Section
  BY <1>1, Holder DEF Section
<1>3. PICK rest, m : rest = todo[s] /\ m = out[s]
  OBVIOUS
<1>4. rest \in Seq(Byte) /\ m \in Seq(Byte) /\ q \in Seq(Byte) /\ pending \in Seq(Seq(Byte))
  BY <1>1, <1>3 DEF StreamTypes
<1>5. PICK l \in Nat, n \in Nat, z \in Nat : l = Len(m) /\ n = Len(rest) /\ z = Len(q)
  BY <1>4, LenProperties
<1>6. n # 0 /\ Head(rest) \in Byte /\ Head(rest) = rest[1] /\ Tail(rest) \in Seq(Byte)
      /\ Len(Tail(rest)) = n - 1 /\ \A k \in 1 .. n - 1 : Tail(rest)[k] = rest[k + 1]
  BY <1>3, <1>4, <1>5, EmptySeq, HeadTailProperties, ElementOfSeq
<1>7. q' = Append(q, rest[1]) /\ q' \in Seq(Byte) /\ Len(q') = z + 1 /\ q'[z + 1] = rest[1]
      /\ \A k \in 1 .. z : q'[k] = q[k]
  BY <1>3, <1>4, <1>5, <1>6, AppendProperties
<1>8. todo'[s] = Tail(rest) /\ out'[s] = m /\ \A x \in Senders \ {s} : todo'[x] = todo[x]
  BY <1>1, <1>3 DEF StreamTypes
<1>9. StreamTypes'
  <2>1. todo' \in [Senders -> Seq(Byte)]
    BY <1>1, <1>3, <1>6 DEF StreamTypes
  <2>2. z < Slots /\ Slots \in Nat
    BY <1>5, StreamConstants
  <2>3. Len(q') <= Slots
    BY <1>7, <2>2
  <2> QED BY <1>1, <1>7, <2>1, <2>3 DEF StreamTypes
<1>10. Elsewhere(s)
  BY <1>8 DEF Elsewhere
<1>11. EndOf(rest, m)
  BY <1>3 DEF StreamStrong, CallInv, SendCall
<1>12. n <= 4 + l /\ \A k \in 1 .. n : rest[k] = Frame(m)[4 + l - n + k]
  BY <1>5, <1>11 DEF EndOf
<1>13. EndOf(Tail(rest), m)
  <2>1. n - 1 <= 4 + l
    BY <1>12
  <2>2. ASSUME NEW k \in 1 .. n - 1 PROVE Tail(rest)[k] = Frame(m)[4 + l - (n - 1) + k]
    <3>1. k + 1 \in 1 .. n /\ 4 + l - n + (k + 1) = 4 + l - (n - 1) + k
      OBVIOUS
    <3> QED BY <1>6, <1>12, <3>1
  <2> QED BY <1>5, <1>6, <2>1, <2>2 DEF EndOf
<1>14. SendCall(s)'
  BY <1>8, <1>13 DEF SendCall
<1>15. ~torn => Pushed(s)'
  <2> SUFFICES ASSUME ~torn PROVE Pushed(s)'
    OBVIOUS
  <2>1. PICK t : t = Total(pending)
    OBVIOUS
  <2>2. Cut(q, pending, 0) /\ z + n = t + 4 + l /\ t \in Nat
        /\ \A k \in 1 .. 4 + l - n : q[t + k] = Frame(m)[k]
    BY <1>2, <1>3, <1>4, <1>5, <2>1, TotalFacts DEF Pushed
  <2>3. z >= t
    BY <1>12, <2>2
  <2>4. Cut(q', pending, 0)
    BY <1>4, <1>5, <1>6, <1>7, <2>1, <2>2, <2>3, CutGrow
  <2>5. (z + 1) + (n - 1) = t + 4 + l
    BY <2>2
  <2>6. ASSUME NEW k \in 1 .. 4 + l - (n - 1) PROVE q'[t + k] = Frame(m)[k]
    <3>1. CASE k \in 1 .. 4 + l - n
      <4>1. t + k \in 1 .. z
        BY <1>5, <1>12, <2>2, <3>1
      <4> QED BY <1>7, <2>2, <3>1, <4>1
    <3>2. CASE k = 4 + l - n + 1
      <4>1. t + k = z + 1 /\ 1 \in 1 .. n
        BY <1>6, <2>2, <3>2
      <4>2. rest[1] = Frame(m)[k]
        BY <1>12, <3>2, <4>1
      <4> QED BY <1>7, <4>1, <4>2
    <3>3. k \in 1 .. 4 + l - n \/ k = 4 + l - n + 1
      BY <1>5, <1>12
    <3> QED BY <3>1, <3>2, <3>3
  <2>7. Len(q') + Len(todo'[s]) = Total(pending') + 4 + Len(out'[s])
    BY <1>5, <1>6, <1>7, <1>8, <2>1, <2>5
  <2>8. \A k \in 1 .. 4 + Len(out'[s]) - Len(todo'[s]) : q'[Total(pending') + k] = Frame(out'[s])[k]
    BY <1>5, <1>6, <1>8, <2>1, <2>6
  <2>9. Cut(q', pending', 0)
    BY <2>4
  <2> QED BY <2>7, <2>8, <2>9 DEF Pushed
<1>16. lock' = s /\ pc'[s] \in Section /\ \A x \in Procs \ {s} : lock' = x <=> lock = x
  BY <1>2
<1> QED BY <1>1, <1>2, <1>9, <1>10, <1>14, <1>15, <1>16, Combine

(* The last byte, or a deque that is full, ends the loops. *)
LEMMA PushStream ==
  ASSUME StreamStrong, NEW s \in Senders, Push(s)
  PROVE  StreamStrong'
<1> USE DEF Push, Goto, history, counted
<1>1. s \in Procs /\ StreamTypes /\ pc[s] = "push"
      /\ UNCHANGED <<sem, lock, buff, need, out, pending, torn>>
  BY StreamConstants DEF StreamStrong
<1>2. lock = s /\ s # "none" /\ (\A x \in Procs \ {s} : lock # x) /\ s \notin Receivers
      /\ (~torn => Pushed(s))
  BY <1>1, Holder DEF Section
<1>3. CASE todo[s] # << >> /\ Len(q) < Slots /\ q' = Append(q, Head(todo[s]))
           /\ todo' = [todo EXCEPT ![s] = Tail(@)] /\ UNCHANGED <<pc, retval>>
  BY <1>1, <1>3, PushByte
<1>4. CASE /\ pc' = [pc EXCEPT ![s] = "unlock"] /\ UNCHANGED <<q, todo>>
           /\ \/ todo[s] = << >> /\ UNCHANGED retval
              \/ retval' = [retval EXCEPT ![s] = TRUE]
  <2>1. pc'[s] = "unlock" /\ (\A x \in Procs \ {s} : pc'[x] = pc[x] /\ retval'[x] = retval[x])
        /\ (todo[s] = << >> \/ retval'[s])
    BY <1>1, <1>4 DEF StreamTypes
  <2>2. retval' \in [Procs -> BOOLEAN]
    BY <1>1, <1>4 DEF StreamTypes
  <2>a. /\ pc' \in [Procs -> SendSteps \cup RecSteps]
        /\ \A x \in Senders : pc'[x] \in SendSteps
        /\ \A r \in Receivers : pc'[r] \in RecSteps
    BY <1>1, <1>2, <1>4 DEF StreamTypes, SendSteps
  <2>3. StreamTypes'
    BY <1>1, <1>4, <2>2, <2>a DEF StreamTypes
  <2>4. Elsewhere(s)
    BY <1>1, <1>4, <2>1 DEF Elsewhere
  <2>5. EndOf(todo[s], out[s])
    BY <1>1 DEF StreamStrong, CallInv, SendCall
  <2>6. SendCall(s)'
    BY <1>1, <1>4, <2>1, <2>5 DEF SendCall
  <2>7. ~torn => Pushed(s)'
    BY <1>1, <1>2, <1>4 DEF Pushed
  <2>8. pc'[s] \in Section
    BY <2>1 DEF Section
  <2> QED BY <1>1, <1>2, <2>3, <2>4, <2>6, <2>7, <2>8, Combine
<1> QED BY <1>1, <1>3, <1>4

(* A message is in the deque, or its sender leaves part of it there.       *)
LEMMA UnlockSendStream ==
  ASSUME StreamStrong, NEW s \in Senders, UnlockSend(s)
  PROVE  StreamStrong'
<1> USE DEF UnlockSend, Goto
<1>1. s \in Procs /\ StreamTypes /\ pc[s] = "unlock" /\ PopsSucceed
      /\ lock' = "none" /\ UNCHANGED <<q, sem, buff, need, retval>>
  BY StreamConstants DEF StreamStrong
<1>2. lock = s /\ s # "none" /\ (\A x \in Procs \ {s} : lock # x) /\ s \notin Receivers
      /\ (~torn => Pushed(s))
  BY <1>1, Holder DEF Section
<1>3. pc' = [pc EXCEPT ![s] = "check"] /\ todo' = [todo EXCEPT ![s] = << >>]
      /\ out' = [out EXCEPT ![s] = << >>]
      /\ pending' = (IF retval[s] THEN pending ELSE Append(pending, out[s]))
      /\ torn' = (torn \/ (retval[s] /\ todo[s] # Frame(out[s])))
  OBVIOUS
<1>4. pc'[s] = "check" /\ (\A x \in Procs \ {s} : pc'[x] = pc[x])
      /\ (\A x \in Senders \ {s} : todo'[x] = todo[x] /\ out'[x] = out[x])
  BY <1>1, <1>3 DEF StreamTypes
<1>5. PICK rest, m : rest = todo[s] /\ m = out[s]
  OBVIOUS
<1>6. rest \in Seq(Byte) /\ m \in Seq(Byte) /\ q \in Seq(Byte) /\ pending \in Seq(Seq(Byte))
      /\ retval[s] \in BOOLEAN /\ torn \in BOOLEAN
  BY <1>1, <1>5 DEF StreamTypes
<1>7. EndOf(rest, m) /\ (retval[s] \/ rest = << >>)
  BY <1>1, <1>5 DEF StreamStrong, CallInv, SendCall
<1>8. StreamTypes'
  <2>1. Append(pending, m) \in Seq(Seq(Byte)) /\ << >> \in Seq(Byte)
    BY <1>6, AppendProperties, EmptySeq
  <2>2. pending' \in Seq(Seq(Byte)) /\ torn' \in BOOLEAN
    BY <1>3, <1>5, <1>6, <2>1
  <2>3. todo' \in [Senders -> Seq(Byte)] /\ out' \in [Senders -> Seq(Byte)]
    BY <1>1, <1>3, <2>1 DEF StreamTypes
  <2> QED BY <1>1, <1>2, <1>3, <2>2, <2>3 DEF StreamTypes, SendSteps
<1>9. Elsewhere(s)
  BY <1>1, <1>4 DEF Elsewhere
<1>10. SendCall(s)' /\ pc'[s] \notin Section
  BY <1>4 DEF SendCall, Section
<1>11. ~torn' => Holds(q, pending)'
  <2> SUFFICES ASSUME ~torn' PROVE Holds(q, pending')
    BY <1>1
  <2>1. ~torn /\ ~(retval[s] /\ rest # Frame(m))
    BY <1>3, <1>5
  <2>2. PICK l, n, z, t : l = Len(m) /\ n = Len(rest) /\ z = Len(q) /\ t = Total(pending)
    OBVIOUS
  <2>3. l \in Nat /\ n \in Nat /\ z \in Nat /\ t \in Nat
    BY <1>6, <2>2, LenProperties, TotalFacts
  <2>4. Cut(q, pending, 0) /\ z + n = t + 4 + l
        /\ \A k \in 1 .. 4 + l - n : q[t + k] = Frame(m)[k]
    BY <1>2, <1>5, <2>1, <2>2 DEF Pushed
  <2>5. CASE retval[s]
    <3>1. n = 4 + l
      BY <1>6, <2>1, <2>2, <2>5, FrameFacts
    <3>2. z = t
      BY <2>3, <2>4, <3>1
    <3>3. pending' = pending
      BY <1>3, <2>5
    <3> QED BY <1>6, <2>2, <2>4, <3>2, <3>3, HoldsCut
  <2>6. CASE ~retval[s]
    <3>1. n = 0
      BY <1>7, <2>2, <2>6, EmptySeq
    <3>2. z = t + 4 + l /\ \A k \in 1 .. 4 + l : q[t + k] = Frame(m)[k]
      BY <2>3, <2>4, <3>1
    <3>3. pending' = Append(pending, m)
      BY <1>3, <1>5, <2>6
    <3> QED BY <1>6, <2>2, <2>4, <3>2, <3>3, HoldsAppend
  <2> QED BY <1>6, <2>5, <2>6
<1>12. torn => torn'
  BY <1>3
<1>13. (\A x \in Procs \ {s} : lock' = x <=> lock = x) /\ lock' # s
  BY <1>1, <1>2, StreamConstants
<1> QED BY <1>1, <1>2, <1>8, <1>9, <1>10, <1>11, <1>12, <1>13, Combine

(* The steps of a sender that has not got the lock or needs it no more.    *)
LEMMA SignalStream ==
  ASSUME StreamStrong, NEW s \in Senders, CheckSend(s) \/ Post(s)
  PROVE  StreamStrong'
<1> USE DEF CheckSend, Post, Goto, local, history, counted
<1>1. s \in Procs /\ s \notin Receivers /\ StreamTypes /\ pc[s] \in {"check", "post"}
      /\ UNCHANGED <<q, lock, todo, buff, need, retval, out, pending, torn>>
  BY StreamConstants DEF StreamStrong
<1>2. PICK step : step \in {"post", "idle"} /\ pc' = [pc EXCEPT ![s] = step]
  <2>1. CASE CheckSend(s)
    <3>1. (IF datacheck THEN "post" ELSE "idle") \in {"post", "idle"}
      OBVIOUS
    <3> QED BY <2>1, <3>1
  <2> QED BY <2>1
<1>3. pc'[s] \in {"post", "idle"} /\ \A x \in Procs \ {s} : pc'[x] = pc[x]
  BY <1>1, <1>2 DEF StreamTypes
<1>4. sem' \in 0 .. SemMax
  <2>1. sem \in 0 .. SemMax /\ SemMax \in Nat
    BY <1>1, StreamConstants DEF StreamTypes
  <2>2. sem < SemMax => sem + 1 \in 0 .. SemMax
    BY <2>1
  <2> QED BY <2>1, <2>2
<1>5. StreamTypes'
  BY <1>1, <1>2, <1>4 DEF StreamTypes, SendSteps
<1>6. Elsewhere(s)
  BY <1>1, <1>3 DEF Elsewhere
<1>7. SendCall(s)' /\ pc[s] \notin Section /\ pc'[s] \notin Section
  BY <1>1, <1>3 DEF SendCall, Section
<1> QED BY <1>1, <1>5, <1>6, <1>7, QuietStream

(* The steps of a receiver that has not got the lock.                      *)
LEMMA WaitStream ==
  ASSUME StreamStrong, NEW r \in Receivers,
         msgdeque_rec_byte_stream(r) \/ CheckRec(r) \/ Wait(r)
  PROVE  StreamStrong'
<1> USE DEF msgdeque_rec_byte_stream, CheckRec, Wait, Goto, local, history, counted
<1>1. r \in Procs /\ r \notin Senders /\ StreamTypes /\ pc[r] \in {"idle", "cell", "wait"}
      /\ UNCHANGED <<q, lock, todo, buff, need, retval, out, pending, torn>>
  BY StreamConstants DEF StreamStrong
<1>2. PICK step : step \in {"lock", "wait", "cell"} /\ pc' = [pc EXCEPT ![r] = step]
  <2>1. CASE CheckRec(r)
    <3>1. (IF datacheck THEN "lock" ELSE "wait") \in {"lock", "wait", "cell"}
      OBVIOUS
    <3> QED BY <2>1, <3>1
  <2> QED BY <2>1
<1>3. pc'[r] \in {"lock", "wait", "cell"} /\ \A x \in Procs \ {r} : pc'[x] = pc[x]
  BY <1>1, <1>2 DEF StreamTypes
<1>4. sem' \in 0 .. SemMax
  <2>1. sem \in 0 .. SemMax /\ SemMax \in Nat
    BY <1>1, StreamConstants DEF StreamTypes
  <2>2. sem > 0 => sem - 1 \in 0 .. SemMax
    BY <2>1
  <2> QED BY <2>1, <2>2
<1>5. StreamTypes'
  BY <1>1, <1>2, <1>4 DEF StreamTypes, RecSteps
<1>6. Elsewhere(r)
  BY <1>1, <1>3 DEF Elsewhere
<1>7. RecCall(r)' /\ pc[r] \notin Section /\ pc'[r] \notin Section
  BY <1>1, <1>3 DEF RecCall, Section
<1> QED BY <1>1, <1>5, <1>6, <1>7, QuietStream

(* A step of the receiver that has the lock: what it may change, and what  *)
(* of the invariant it has to show.                                        *)
LEMMA HoldsOn ==
  ASSUME StreamStrong, NEW r \in Receivers, pc[r] \in Section,
         NEW step \in {"size", "data", "unlock", "idle", "cell"}, pc' = [pc EXCEPT ![r] = step],
         NEW bs \in Seq(Byte), buff' = [buff EXCEPT ![r] = bs],
         NEW n \in Nat \ {0}, need' = [need EXCEPT ![r] = n],
         NEW v \in BOOLEAN, retval' = [retval EXCEPT ![r] = v],
         q' \in Seq(Byte), Len(q') <= Len(q), pending' \in Seq(Seq(Byte)),
         UNCHANGED <<sem, todo, out, torn>>,
         step \in Section => lock' = lock, step \notin Section => lock' = "none",
         step = "size" => n = 4 /\ Len(bs) <= 4, step = "data" => Len(bs) <= n,
         ~torn /\ step \notin Section => Holds(q, pending)',
         ~torn /\ step \in Section => Partway(r)',
         v => torn
  PROVE  StreamStrong'
<1>1. r \in Procs /\ StreamTypes
  BY StreamConstants DEF StreamStrong
<1>2. lock = r /\ r # "none" /\ (\A x \in Procs \ {r} : lock # x) /\ r \notin Senders
  BY <1>1, Holder
<1>3. pc'[r] = step /\ buff'[r] = bs /\ need'[r] = n /\ retval'[r] = v
      /\ (\A x \in Procs \ {r} : pc'[x] = pc[x] /\ retval'[x] = retval[x])
      /\ (\A x \in Receivers \ {r} : buff'[x] = buff[x] /\ need'[x] = need[x])
  BY <1>1 DEF StreamTypes
<1>4. Elsewhere(r)
  BY <1>3 DEF Elsewhere
<1>5. Len(q') <= Slots
  <2>1. Len(q) \in Nat /\ Len(q') \in Nat /\ Slots \in Nat /\ Len(q) <= Slots
    BY <1>1, LenProperties, StreamConstants DEF StreamTypes
  <2> QED BY <2>1
<1>6. lock' \in {r, "none"} /\ (pc'[r] \in Section <=> lock' = r)
  BY <1>2, <1>3
<1>7. /\ pc' \in [Procs -> SendSteps \cup RecSteps]
      /\ \A s \in Senders : pc'[s] \in SendSteps
      /\ \A x \in Receivers : pc'[x] \in RecSteps
  BY <1>1, <1>2 DEF StreamTypes, RecSteps
<1>8. /\ buff' \in [Receivers -> Seq(Byte)] /\ need' \in [Receivers -> Nat \ {0}]
      /\ retval' \in [Procs -> BOOLEAN]
  BY <1>1 DEF StreamTypes
<1>9. StreamTypes'
  BY <1>1, <1>5, <1>6, <1>7, <1>8 DEF StreamTypes
<1>10. RecCall(r)'
  BY <1>3 DEF RecCall
<1>11. \A x \in Procs \ {r} : lock' = x <=> lock = x
  BY <1>2, <1>6, StreamConstants
<1>12. ~torn' /\ lock' = "none" => Holds(q, pending)'
  BY <1>2, <1>3, <1>6
<1>13. ~torn' /\ lock' = r => Partway(r)'
  BY <1>2, <1>3, <1>6
<1> QED BY <1>1, <1>2, <1>3, <1>4, <1>6, <1>9, <1>10, <1>11, <1>12, <1>13, Combine

(* Four bytes and more are the beginning of a frame. *)
LEMMA StatsStream ==
  ASSUME StreamStrong, NEW r \in Receivers, Stats(r)
  PROVE  StreamStrong'
<1> USE DEF Stats, Goto, history, counted
<1>1. r \in Procs /\ StreamTypes /\ pc[r] = "stats"
      /\ UNCHANGED <<q, sem, lock, todo, out, pending, torn>>
  BY StreamConstants DEF StreamStrong
<1>2. ~torn => Holds(q, pending)
  BY <1>1, Holder DEF Section, Partway
<1>3. PICK step : /\ step = (IF Len(q) >= 4 THEN "size" ELSE "unlock")
                  /\ pc' = [pc EXCEPT ![r] = step]
  OBVIOUS
<1>4. q \in Seq(Byte) /\ pending \in Seq(Seq(Byte)) /\ Len(q) \in Nat
  BY <1>1, LenProperties DEF StreamTypes
<1>5. pc'[r] = step /\ buff'[r] = << >> /\ << >> \in Seq(Byte) /\ Len(<< >>) = 0
  BY <1>1, <1>3, EmptySeq DEF StreamTypes
<1>6. ~torn => Partway(r)'
  <2> SUFFICES ASSUME ~torn PROVE Partway(r)'
    OBVIOUS
  <2>1. Len(q) = Total(pending) /\ Cut(q, pending, 0) /\ Len(q) + 0 = Total(pending)
    BY <1>2, <1>4, HoldsCut
  <2>2. step = "size" => pending # << >>
    BY <1>3, <1>4, <2>1, TotalFacts
  <2>3. 1 .. 0 = {}
    OBVIOUS
  <2>4. CASE step = "size"
    <3>1. Popped(Len(buff[r]))'
      BY <1>1, <1>5, <2>1, <2>2, <2>4 DEF Popped
    <3> QED BY <1>5, <2>3, <2>4, <3>1 DEF Partway
  <2>5. CASE step = "unlock"
    BY <1>1, <1>2, <1>5, <2>5 DEF Partway
  <2> QED BY <1>3, <2>4, <2>5
<1>7. step \in {"size", "unlock"} /\ pc[r] \in Section /\ step \in Section
  BY <1>1, <1>3 DEF Section
<1>8. 4 \in Nat \ {0} /\ 0 <= 4 /\ Len(q') <= Len(q) /\ q' \in Seq(Byte) /\ pending' \in Seq(Seq(Byte))
  BY <1>1, <1>4
<1> QED BY <1>1, <1>3, <1>5, <1>6, <1>7, <1>8, HoldsOn, ZenonT(60)

(* A receiver that reads a field knows the next byte.                      *)
LEMMA PopByte ==
  ASSUME StreamStrong, NEW r \in Receivers, pc[r] \in {"size", "data"},
         Len(buff[r]) < need[r], q # << >>,
         q' = Tail(q), buff' = [buff EXCEPT ![r] = Append(@, Head(q))],
         UNCHANGED <<pc, need, retval, sem, lock, todo, out, pending, torn>>
  PROVE  StreamStrong'
<1>1. r \in Procs /\ StreamTypes /\ pc[r] \in Section
  BY StreamConstants DEF StreamStrong, Section
<1>2. PICK got, m : got = buff[r] /\ m = pending[1]
  OBVIOUS
<1>3. got \in Seq(Byte) /\ q \in Seq(Byte) /\ pending \in Seq(Seq(Byte))
      /\ need[r] \in Nat \ {0} /\ retval[r] \in BOOLEAN
  BY <1>1, <1>2 DEF StreamTypes
<1>4. PICK g \in Nat, z \in Nat, n \in Nat \ {0} : g = Len(got) /\ z = Len(q) /\ n = need[r]
  BY <1>3, LenProperties
<1>5. z # 0 /\ q[1] \in Byte /\ Head(q) = q[1] /\ Tail(q) \in Seq(Byte) /\ Len(Tail(q)) = z - 1
  BY <1>3, <1>4, EmptySeq, HeadTailProperties, ElementOfSeq
<1>6. PICK bs : bs = Append(got, q[1])
  OBVIOUS
<1>7. bs \in Seq(Byte) /\ Len(bs) = g + 1 /\ bs[g + 1] = q[1] /\ \A k \in 1 .. g : bs[k] = got[k]
  BY <1>3, <1>4, <1>5, <1>6, AppendProperties
<1>8. /\ pc' = [pc EXCEPT ![r] = pc[r]] /\ need' = [need EXCEPT ![r] = n]
      /\ retval' = [retval EXCEPT ![r] = retval[r]] /\ buff' = [buff EXCEPT ![r] = bs]
  BY <1>1, <1>2, <1>4, <1>5, <1>6 DEF StreamTypes
<1>9. buff'[r] = bs /\ need'[r] = n /\ pc'[r] = pc[r]
  BY <1>1, <1>8 DEF StreamTypes
<1>10. g < n /\ (pc[r] = "size" => n = 4)
  BY <1>2, <1>4 DEF StreamStrong, CallInv, RecCall
<1>11. ~torn => Partway(r)'
  <2> SUFFICES ASSUME ~torn PROVE Partway(r)'
    OBVIOUS
  <2>0. Partway(r)
    BY <1>1, Holder
  <2>1. pending # << >>
    BY <2>0 DEF Partway, Popped
  <2>2. PICK l \in Nat : l = Len(m)
    BY <1>2, <1>3, <2>1, TotalFacts
  <2>m. m \in Seq(Byte)
    BY <1>2, <1>3, <2>1, TotalFacts
  <2>3. CASE pc[r] = "size"
    <3>1. Cut(q, pending, g) /\ z + g = Total(pending) /\ \A k \in 1 .. g : got[k] = Frame(m)[k]
      BY <1>2, <1>4, <2>0, <2>3 DEF Partway, Popped
    <3>2. g < 4 + l
      BY <1>10, <2>3
    <3>3. q[1] = Frame(m)[g + 1]
      <4>1. g < 4 + Len(pending[1])
        BY <1>2, <2>2, <3>2
      <4>2. q[1] = Frame(pending[1])[g + 1]
        BY <1>3, <1>4, <2>1, <3>1, <4>1, CutFirst
      <4> QED BY <1>2, <4>2
    <3>4. Len(Tail(q)) + (g + 1) = Total(pending) /\ Cut(Tail(q), pending, g + 1)
      BY <1>3, <1>4, <3>1, CutPop
    <3>5. \A k \in 1 .. g + 1 : bs[k] = Frame(m)[k]
      <4> TAKE k \in 1 .. g + 1
      <4>1. k \in 1 .. g \/ k = g + 1
        OBVIOUS
      <4> QED BY <1>7, <3>1, <3>3, <4>1
    <3>6. Popped(Len(buff[r]))'
      BY <1>7, <1>9, <2>1, <3>4 DEF Popped
    <3>7. pc'[r] = "size"
      BY <1>9, <2>3
    <3> QED BY <1>2, <1>7, <1>9, <3>5, <3>6, <3>7 DEF Partway
  <2>4. CASE pc[r] = "data"
    <3>1. Cut(q, pending, 4 + g) /\ z + (4 + g) = Total(pending) /\ n = l
          /\ \A k \in 1 .. g : got[k] = m[k]
      BY <1>2, <1>4, <2>0, <2>2, <2>4 DEF Partway, Popped
    <3>2. 4 + g < 4 + l /\ 4 + g \in Nat /\ (4 + g) + 1 = 4 + (g + 1) /\ g + 1 \in 1 .. l
      BY <1>10, <3>1
    <3>3. q[1] = Frame(m)[(4 + g) + 1]
      <4>1. PICK c \in Nat : c = 4 + g
        BY <3>2
      <4>2. Cut(q, pending, c) /\ c < 4 + Len(pending[1])
        BY <1>2, <2>2, <3>1, <3>2, <4>1
      <4>3. q[1] = Frame(pending[1])[c + 1]
        BY <1>3, <2>1, <4>2, CutFirst
      <4> QED BY <1>2, <4>1, <4>3
    <3>4. q[1] = m[g + 1]
      BY <2>m, <2>2, <3>2, <3>3, FrameFacts
    <3>5. Len(Tail(q)) + ((4 + g) + 1) = Total(pending) /\ Cut(Tail(q), pending, (4 + g) + 1)
      BY <1>3, <1>4, <3>1, <3>2, CutPop
    <3>6. \A k \in 1 .. g + 1 : bs[k] = m[k]
      <4> TAKE k \in 1 .. g + 1
      <4>1. k \in 1 .. g \/ k = g + 1
        OBVIOUS
      <4> QED BY <1>7, <3>1, <3>4, <4>1
    <3>7. Popped(4 + Len(buff[r]))'
      BY <1>7, <1>9, <2>1, <3>2, <3>5 DEF Popped
    <3>8. pc'[r] = "data" /\ need'[r] = Len(pending'[1])
      BY <1>2, <1>9, <2>2, <2>4, <3>1
    <3> QED BY <1>2, <1>7, <1>9, <3>6, <3>7, <3>8 DEF Partway
  <2> QED BY <2>3, <2>4
<1>12. Len(q') <= Len(q) /\ q' \in Seq(Byte) /\ pending' \in Seq(Seq(Byte))
  <2>1. z - 1 <= z
    OBVIOUS
  <2> QED BY <1>3, <1>4, <1>5, <2>1
<1>13. retval[r] => torn
  BY DEF StreamStrong, PopsSucceed
<1>14. /\ pc[r] \in {"size", "data", "unlock", "idle", "cell"} /\ g + 1 <= n
       /\ (pc[r] = "size" => n = 4 /\ Len(bs) <= 4) /\ (pc[r] = "data" => Len(bs) <= n)
  BY <1>7, <1>10
<1> QED BY <1>1, <1>3, <1>7, <1>8, <1>11, <1>12, <1>13, <1>14, HoldsOn, ZenonT(60)

(* An empty deque is met only when part of a message was left behind.      *)
LEMMA PopStream ==
  ASSUME StreamStrong, NEW r \in Receivers, Pop(r)
  PROVE  StreamStrong'
<1> USE DEF Pop, Goto, history, counted
<1>1. r \in Procs /\ StreamTypes /\ pc[r] \in {"size", "data"} /\ pc[r] \in Section
      /\ Len(buff[r]) < need[r] /\ UNCHANGED <<sem, lock, todo, out, pending, torn>>
  BY StreamConstants DEF StreamStrong, Section
<1>2. CASE q # << >>
  BY <1>1, <1>2, PopByte
<1>3. CASE q = << >>
  <2>1. /\ retval' = [retval EXCEPT ![r] = TRUE] /\ buff' = [buff EXCEPT ![r] = << >>]
        /\ need' = [need EXCEPT ![r] = 4] /\ pc' = [pc EXCEPT ![r] = "unlock"] /\ q' = q
    BY <1>3
  <2>2. torn
    <3> SUFFICES ASSUME ~torn PROVE FALSE
      BY <1>1 DEF StreamTypes
    <3>1. Partway(r) /\ RecCall(r)
      BY <1>1, Holder DEF StreamStrong, CallInv
    <3>2. Len(q) = 0 /\ buff[r] \in Seq(Byte) /\ pending \in Seq(Seq(Byte)) /\ need[r] \in Nat
      BY <1>1, <1>3, EmptySeq DEF StreamTypes
    <3>3. pending # << >>
      BY <1>1, <3>1 DEF Partway, Popped
    <3>4. PICK g \in Nat, l \in Nat, t \in Nat, n \in Nat :
             g = Len(buff[r]) /\ l = Len(pending[1]) /\ t = Total(pending) /\ n = need[r]
      BY <3>2, <3>3, TotalFacts, LenProperties
    <3>5. 4 + l <= t /\ g < n
      BY <1>1, <3>2, <3>3, <3>4, TotalFacts
    <3>6. CASE pc[r] = "size"
      <4>1. n = 4 /\ 0 + g = t
        BY <3>1, <3>2, <3>4, <3>6 DEF RecCall, Partway, Popped
      <4> QED BY <3>5, <4>1
    <3>7. CASE pc[r] = "data"
      <4>1. n = l /\ 0 + (4 + g) = t
        BY <3>1, <3>2, <3>4, <3>7 DEF Partway, Popped
      <4> QED BY <3>5, <4>1
    <3> QED BY <1>1, <3>6, <3>7
  <2>3. << >> \in Seq(Byte) /\ 4 \in Nat \ {0} /\ TRUE \in BOOLEAN
        /\ "unlock" \in {"size", "data", "unlock", "idle", "cell"} /\ "unlock" \in Section
    BY EmptySeq DEF Section
  <2>4. q' \in Seq(Byte) /\ Len(q') <= Len(q) /\ pending' \in Seq(Seq(Byte))
    <3>1. q \in Seq(Byte) /\ Len(q) \in Nat /\ pending \in Seq(Seq(Byte))
      BY <1>1, LenProperties DEF StreamTypes
    <3> QED BY <1>1, <2>1, <3>1
  <2> QED BY <1>1, <2>1, <2>2, <2>3, <2>4, HoldsOn
<1> QED BY <1>2, <1>3

(* The size read is the one that was sent; an empty message is taken.      *)
LEMMA DecodeStream ==
  ASSUME StreamStrong, NEW r \in Receivers, Decode(r)
  PROVE  StreamStrong'
<1> USE DEF Decode, Goto
<1>1. r \in Procs /\ StreamTypes /\ pc[r] = "size" /\ pc[r] \in Section /\ Len(buff[r]) = need[r]
      /\ UNCHANGED <<q, sem, lock, todo, retval, out, torn>>
      /\ buff' = [buff EXCEPT ![r] = << >>]
  BY StreamConstants DEF StreamStrong, Section
<1>2. PICK got, datalen : got = buff[r] /\ datalen = decode_uint(got)
  OBVIOUS
<1>3. got \in Seq(Byte) /\ Len(got) = 4 /\ q \in Seq(Byte) /\ Len(q) \in Nat
      /\ pending \in Seq(Seq(Byte)) /\ retval[r] \in BOOLEAN
  BY <1>1, <1>2, LenProperties DEF StreamStrong, CallInv, RecCall, StreamTypes
<1>4. datalen \in Int
  <2>1. \A k \in 1 .. 4 : got[k] \in Byte
    BY <1>3, ElementOfSeq
  <2>2. PICK a, b, c, d : a = got[1] /\ b = got[2] /\ c = got[3]
                          /\ d = (IF got[4] < 128 THEN got[4] ELSE got[4] - 256)
    OBVIOUS
  <2>3. a \in Int /\ b \in Int /\ c \in Int /\ d \in Int
    <3>1. \A x \in Byte : x \in Int /\ x - 256 \in Int
      BY DEF Byte
    <3>2. a \in Byte /\ b \in Byte /\ c \in Byte /\ got[4] \in Byte
      BY <2>1, <2>2
    <3> QED BY <2>2, <3>1, <3>2
  <2>4. datalen = a + 256 * (b + 256 * (c + 256 * d))
    BY <1>2, <2>2 DEF decode_uint
  <2> QED BY <2>3, <2>4
<1>5. << >> \in Seq(Byte) /\ Len(<< >>) = 0 /\ 4 \in Nat \ {0}
  BY EmptySeq
<1>6. q' \in Seq(Byte) /\ Len(q') <= Len(q)
  BY <1>1, <1>3
<1>7. retval' = [retval EXCEPT ![r] = retval[r]] /\ (retval[r] => torn)
  BY <1>1 DEF StreamTypes, StreamStrong, PopsSucceed
<1>8. ~torn => /\ pending # << >> /\ datalen = Len(pending[1])
               /\ Cut(q, pending, 4) /\ Len(q) + 4 = Total(pending)
  <2> SUFFICES ASSUME ~torn
               PROVE  /\ pending # << >> /\ datalen = Len(pending[1])
                      /\ Cut(q, pending, 4) /\ Len(q) + 4 = Total(pending)
    OBVIOUS
  <2>1. Partway(r)
    BY <1>1, Holder
  <2>2. pending # << >> /\ Cut(q, pending, 4) /\ Len(q) + 4 = Total(pending)
        /\ \A k \in 1 .. 4 : got[k] = Frame(pending[1])[k]
    BY <1>1, <1>2, <1>3, <2>1 DEF Partway, Popped
  <2>3. pending[1] \in Seq(Byte) /\ 4 + Len(pending[1]) <= Total(pending)
    BY <1>3, <2>2, TotalFacts
  <2>4. PICK l \in Nat : l = Len(pending[1])
    BY <2>3, LenProperties
  <2>5. l <= USHRT_MAX
    <3>1. PICK z \in Nat, c \in Nat : z = Len(q) /\ c = Slots
      BY <1>3, StreamConstants
    <3>2. z <= c /\ c <= USHRT_MAX /\ USHRT_MAX \in Nat /\ 4 + l <= z + 4
      BY <1>1, <2>2, <2>3, <2>4, <3>1, StreamConstants DEF StreamTypes
    <3> QED BY <3>2
  <2>6. \A k \in 1 .. 4 : got[k] = encode_uint(l)[k]
    BY <2>2, <2>3, <2>4, FrameFacts
  <2>7. decode_uint(got) = l
    BY <2>5, <2>6, Decodes
  <2> QED BY <1>2, <2>2, <2>4, <2>7
<1>9. CASE datalen > 0
  <2>1. need' = [need EXCEPT ![r] = datalen] /\ pc' = [pc EXCEPT ![r] = "data"]
        /\ pending' = pending
    BY <1>2, <1>9
  <2>2. pc'[r] = "data" /\ buff'[r] = << >> /\ need'[r] = datalen
    BY <1>1, <2>1 DEF StreamTypes
  <2>3. ~torn => Partway(r)'
    <3> SUFFICES ASSUME ~torn PROVE Partway(r)'
      OBVIOUS
    <3>1. 4 + 0 = 4 /\ 1 .. 0 = {}
      OBVIOUS
    <3>2. Popped(4 + Len(buff[r]))'
      BY <1>1, <1>5, <1>8, <2>1, <2>2, <3>1 DEF Popped
    <3> QED BY <1>5, <1>8, <2>1, <2>2, <3>1, <3>2 DEF Partway
  <2>4. datalen \in Nat \ {0} /\ 0 <= datalen /\ pending' \in Seq(Seq(Byte))
    BY <1>3, <1>4, <1>9, <2>1
  <2>5. "data" \in {"size", "data", "unlock", "idle", "cell"} /\ "data" \in Section
    BY DEF Section
  <2> QED BY <1>1, <1>3, <1>5, <1>6, <1>7, <2>1, <2>3, <2>4, <2>5, HoldsOn
<1>10. CASE ~(datalen > 0)
  <2>1. /\ need' = [need EXCEPT ![r] = 4] /\ pc' = [pc EXCEPT ![r] = "unlock"]
        /\ pending' = (IF pending = << >> THEN << >> ELSE Tail(pending))
    BY <1>2, <1>10 DEF Taken
  <2>2. pc'[r] = "unlock"
    BY <1>1, <2>1 DEF StreamTypes
  <2>3. pending' \in Seq(Seq(Byte))
    BY <1>3, <2>1, HeadTailProperties, EmptySeq
  <2>4. ~torn => Partway(r)'
    <3> SUFFICES ASSUME ~torn PROVE Partway(r)'
      OBVIOUS
    <3>1. Len(pending[1]) = 0
      <4>1. Len(pending[1]) \in Nat
        BY <1>3, <1>8, TotalFacts
      <4> QED BY <1>8, <1>10, <4>1
    <3>2. Cut(q, pending, 4 + Len(pending[1])) /\ Len(q) + (4 + Len(pending[1])) = Total(pending)
      BY <1>8, <3>1
    <3>3. Holds(q, Tail(pending))
      BY <1>3, <1>8, <3>2, CutTail
    <3>4. Holds(q, pending)'
      BY <1>1, <1>8, <2>1, <3>3
    <3> QED BY <2>2, <3>4 DEF Partway
  <2>5. "unlock" \in {"size", "data", "unlock", "idle", "cell"} /\ "unlock" \in Section
    BY DEF Section
  <2> QED BY <1>1, <1>3, <1>5, <1>6, <1>7, <2>1, <2>3, <2>4, <2>5, HoldsOn
<1> QED BY <1>9, <1>10

(* The receiver returns the oldest message, which is no longer in the deque. *)
LEMMA UnlockRecStream ==
  ASSUME StreamStrong, NEW r \in Receivers, UnlockRec(r)
  PROVE  StreamStrong'
<1> USE DEF UnlockRec, Goto
<1>a. pc[r] \in Section
  BY DEF Section
<1>1. r \in Procs /\ StreamTypes /\ pc[r] \in Section /\ lock' = "none"
      /\ (pc[r] = "unlock" \/ (pc[r] = "data" /\ Len(buff[r]) = need[r]))
      /\ UNCHANGED <<q, sem, todo, retval, out, torn>>
      /\ buff' = [buff EXCEPT ![r] = << >>] /\ need' = [need EXCEPT ![r] = 4]
  BY <1>a, StreamConstants DEF StreamStrong
<1>2. << >> \in Seq(Byte) /\ 4 \in Nat \ {0}
  BY EmptySeq
<1>3. q \in Seq(Byte) /\ Len(q) \in Nat /\ pending \in Seq(Seq(Byte)) /\ retval[r] \in BOOLEAN
  BY <1>1, LenProperties DEF StreamTypes
<1>4. q' \in Seq(Byte) /\ Len(q') <= Len(q)
  BY <1>1, <1>3
<1>5. retval' = [retval EXCEPT ![r] = retval[r]] /\ (retval[r] => torn)
  BY <1>1 DEF StreamTypes, StreamStrong, PopsSucceed
<1>6. ~torn => Partway(r)
  BY <1>1, Holder
<1>7. CASE pc[r] = "data"
  <2>1. /\ pc' = [pc EXCEPT ![r] = "idle"]
        /\ pending' = (IF pending = << >> THEN << >> ELSE Tail(pending))
    BY <1>7 DEF Taken
  <2>2. pending' \in Seq(Seq(Byte))
    BY <1>3, <2>1, HeadTailProperties, EmptySeq
  <2>3. ~torn => Holds(q, pending)'
    <3> SUFFICES ASSUME ~torn PROVE Holds(q, pending)'
      OBVIOUS
    <3>1. pending # << >> /\ Cut(q, pending, 4 + Len(pending[1]))
          /\ Len(q) + (4 + Len(pending[1])) = Total(pending)
      BY <1>1, <1>6, <1>7 DEF Partway, Popped
    <3>2. Holds(q, Tail(pending))
      BY <1>3, <3>1, CutTail
    <3> QED BY <1>1, <2>1, <3>1, <3>2
  <2>4. "idle" \in {"size", "data", "unlock", "idle", "cell"} /\ "idle" \notin Section
    BY DEF Section
  <2> QED BY <1>1, <1>2, <1>3, <1>4, <1>5, <2>1, <2>2, <2>3, <2>4, HoldsOn
<1>8. CASE pc[r] # "data"
  <2>1. pc' = [pc EXCEPT ![r] = "cell"] /\ pending' = pending
    BY <1>8
  <2>2. ~torn => Holds(q, pending)'
    BY <1>1, <1>6, <1>8, <2>1 DEF Partway
  <2>3. "cell" \in {"size", "data", "unlock", "idle", "cell"} /\ "cell" \notin Section
    BY DEF Section
  <2> QED BY <1>1, <1>2, <1>3, <1>4, <1>5, <2>1, <2>2, <2>3, HoldsOn
<1> QED BY <1>7, <1>8

(* A process that dies with the lock leaves whole messages, unless it has   *)
(* moved a byte.                                                           *)
LEMMA KillStream ==
  ASSUME StreamStrong, NEW p \in Procs, Kill(p)
  PROVE  StreamStrong'
<1> USE DEF Kill, Goto, local
<1>1. StreamTypes /\ pc' = [pc EXCEPT ![p] = "dead"] /\ p # "none"
      /\ lock' = (IF lock = p THEN "none" ELSE lock)
      /\ torn' = (torn \/ (lock = p /\ Moved(p)))
      /\ UNCHANGED <<q, sem, todo, buff, need, retval, out, pending>>
  BY StreamConstants DEF StreamStrong
<1>2. pc'[p] = "dead" /\ \A x \in Procs \ {p} : pc'[x] = pc[x]
  BY <1>1 DEF StreamTypes
<1>3. lock' \in Procs \cup {"none"} /\ lock' # p /\ (\A x \in Procs \ {p} : lock' = x <=> lock = x)
  BY <1>1, StreamConstants DEF StreamTypes
<1>4. torn' \in BOOLEAN /\ (torn => torn')
  <2>1. Moved(p) \in BOOLEAN
    BY DEF Moved
  <2> QED BY <1>1, <2>1 DEF StreamTypes
<1>5. /\ pc' \in [Procs -> SendSteps \cup RecSteps]
      /\ \A s \in Senders : pc'[s] \in SendSteps
      /\ \A r \in Receivers : pc'[r] \in RecSteps
  BY <1>1, <1>2, StreamConstants DEF StreamTypes, SendSteps, RecSteps
<1>6. StreamTypes'
  BY <1>1, <1>3, <1>4, <1>5 DEF StreamTypes
<1>7. Elsewhere(p)
  BY <1>1, <1>2 DEF Elsewhere
<1>8. SendCall(p)' /\ RecCall(p)' /\ pc'[p] \notin Section
  BY <1>2 DEF SendCall, RecCall, Section
<1>9. ~torn' /\ lock' = "none" => Holds(q, pending)'
  <2> SUFFICES ASSUME ~torn', lock' = "none" PROVE Holds(q, pending)
    BY <1>1
  <2>1. ~torn /\ ~(lock = p /\ Moved(p))
    BY <1>1 DEF StreamTypes
  <2>2. CASE lock # p
    BY <1>1, <2>1, <2>2 DEF StreamStrong, Whole
  <2>3. CASE lock = p
    <3>1. ~Moved(p) /\ pc[p] \in Section
      BY <2>1, <2>3 DEF StreamStrong, LockFree
    <3>2. CASE p \in Senders
      <4>1. todo[p] = Frame(out[p]) /\ Pushed(p)
        BY <2>1, <3>1, <3>2, Holder DEF Moved
      <4>2. out[p] \in Seq(Byte) /\ q \in Seq(Byte) /\ pending \in Seq(Seq(Byte))
        BY <1>1, <3>2 DEF StreamTypes
      <4>3. PICK l \in Nat, z \in Nat, t \in Nat : l = Len(out[p]) /\ z = Len(q) /\ t = Total(pending)
        BY <4>2, LenProperties, TotalFacts
      <4>4. Cut(q, pending, 0) /\ z + (4 + l) = t + 4 + l
        BY <4>1, <4>2, <4>3, FrameFacts DEF Pushed
      <4>5. z = t
        BY <4>4
      <4> QED BY <4>2, <4>3, <4>4, <4>5, HoldsCut
    <3>3. CASE p \in Receivers
      <4>1. p \notin Senders /\ Partway(p) /\ (pc[p] = "stats" \/ (pc[p] = "size" /\ buff[p] = << >>))
        <5>1. p \notin Senders
          BY <3>3, StreamConstants
        <5>2. ~(pc[p] # "stats" /\ (pc[p] = "size" => buff[p] # << >>))
          BY <3>1, <5>1 DEF Moved
        <5> QED BY <2>1, <3>1, <3>3, <5>1, <5>2, Holder
      <4>2. CASE pc[p] = "stats"
        BY <4>1, <4>2 DEF Partway
      <4>3. CASE pc[p] = "size" /\ buff[p] = << >>
        <5>1. Cut(q, pending, 0) /\ Len(q) + 0 = Total(pending)
          BY <4>1, <4>3, EmptySeq DEF Partway, Popped
        <5>2. q \in Seq(Byte) /\ pending \in Seq(Seq(Byte)) /\ Len(q) \in Nat
          BY <1>1, LenProperties DEF StreamTypes
        <5>3. Len(q) = Total(pending)
          BY <5>1, <5>2
        <5> QED BY <5>1, <5>2, <5>3, HoldsCut
      <4> QED BY <4>1, <4>2, <4>3
    <3> QED BY <3>2, <3>3, StreamConstants
  <2> QED BY <2>2, <2>3
<1>10. p \in Receivers /\ retval'[p] => torn'
  BY <1>1, <1>4 DEF StreamStrong, PopsSucceed
<1> QED BY <1>1, <1>3, <1>4, <1>6, <1>7, <1>8, <1>9, <1>10, Combine

(* Every step keeps it. *)
LEMMA NextStream == StreamStrong /\ [Next]_vars => StreamStrong'
<1> SUFFICES ASSUME StreamStrong, [Next]_vars PROVE StreamStrong'
  OBVIOUS
<1>1. ASSUME NEW s \in Senders, msgdeque_send_byte_stream(s) PROVE StreamStrong'
  BY <1>1, SendStream
<1>2. ASSUME NEW s \in Senders, SendStep(s) PROVE StreamStrong'
  <2>1. s \in Procs
    BY StreamConstants
  <2> QED BY <1>2, <2>1, LockStream, PushStream, UnlockSendStream, SignalStream DEF SendStep
<1>3. ASSUME NEW r \in Receivers, RecStep(r) PROVE StreamStrong'
  <2>1. r \in Procs
    BY StreamConstants
  <2> QED BY <1>3, <2>1, LockStream, StatsStream, PopStream, DecodeStream, UnlockRecStream,
             WaitStream DEF RecStep
<1>4. ASSUME NEW p \in Procs, Kill(p) PROVE StreamStrong'
  BY <1>4, KillStream
<1>5. CASE UNCHANGED vars
  <2>1. UNCHANGED <<q, sem, lock, pc, todo, buff, need, retval, out, pending, torn>>
    BY <1>5 DEF vars, local, history
  <2> QED BY <2>1 DEF StreamStrong, StreamTypes, LockFree, CallInv, SendCall, RecCall, EndOf,
                      Whole, Pushed, Partway, Popped, PopsSucceed
<1> QED BY <1>1, <1>2, <1>3, <1>4, <1>5 DEF Next

(* What the runs check follows. *)
LEMMA StreamImplied == StreamStrong => StreamInv
<1> SUFFICES ASSUME StreamStrong PROVE StreamInv
  OBVIOUS
<1>1. StreamTypes /\ Whole /\ PopsSucceed
  BY DEF StreamStrong
<1>2. TypeOK
  BY <1>1 DEF StreamTypes, TypeOK, SendSteps, RecSteps
<1>3. FramesWhole
  BY <1>1 DEF Whole, FramesWhole
<1>4. ReturnsOldest
  <2> SUFFICES ASSUME NEW r \in Receivers, pc[r] = "data", Len(buff[r]) = need[r], ~torn
               PROVE  buff[r] = Head(pending)
    BY DEF ReturnsOldest
  <2>1. r \in Procs /\ pc[r] \in Section
    BY StreamConstants DEF Section
  <2>2. Partway(r)
    BY <2>1, Holder
  <2>3. pending # << >> /\ Len(buff[r]) = Len(pending[1])
        /\ \A k \in 1 .. Len(buff[r]) : buff[r][k] = pending[1][k]
    BY <2>2 DEF Partway, Popped
  <2>4. buff[r] \in Seq(Byte) /\ pending \in Seq(Seq(Byte))
    BY <1>1 DEF StreamTypes
  <2>5. pending[1] \in Seq(Byte)
    BY <2>3, <2>4, TotalFacts
  <2>6. PICK b, m : b = buff[r] /\ m = pending[1]
    OBVIOUS
  <2>7. b = m
    BY <2>3, <2>4, <2>5, <2>6, SeqEqual
  <2>8. Head(pending) = pending[1]
    BY <2>3, <2>4, HeadTailProperties
  <2> QED BY <2>6, <2>7, <2>8
<1> QED BY <1>1, <1>2, <1>3, <1>4 DEF StreamInv

(* Messages come out of the deque of bytes whole, unchanged and in order,  *)
(* whatever the number of senders and receivers and the length of the      *)
(* messages, until a full deque or a death tears one.                      *)
THEOREM StreamsWhole == Spec => []StreamInv
<1>1. Spec => []StreamStrong
  BY InitStream, NextStream, PTL DEF Spec
<1> QED BY <1>1, StreamImplied, PTL
=============================================================================
