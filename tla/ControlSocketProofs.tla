------------------------ MODULE ControlSocketProofs ------------------------
(***************************************************************************)
(* Theorems about ControlSocket, for any threads, any length of a message, *)
(* any room in the kernel and any cut of the bytes: the socket is the      *)
(* queue of messages of ControlFifo.                                       *)
(*                                                                         *)
(* The pieces on their way to an end are a row of whole messages, followed *)
(* by as much of one more as the holder of the peer's mutex has pushed     *)
(* (Framed, Row).  A push lengthens the row at its end, a pop takes its    *)
(* first message, and a read moves pieces within it.                       *)
(*                                                                         *)
(* The last section is about Establish, which exchanges the first two      *)
(* messages of a socket.                                                   *)
(***************************************************************************)
EXTENDS ControlSocket, SequenceTheorems, WellFoundedInduction, TLAPS

\* What the proofs ask of the constants.
Configuration == MsgLen \in Nat \ {0} /\ MaxSends \in Nat /\ Nobody \notin Threads

Units == Messages \X (1 .. MsgLen)

Jobs == [phase : {"idle", "lock", "send"}, msg : Messages \cup {NoMessage}, done : 0 .. MsgLen]

\* The type invariant, with the pieces in sequences.
Typed ==
    /\ wire \in [Ends -> Seq(Units)]
    /\ rx \in [Ends -> Seq(Units)]
    /\ last \in [Ends -> Messages \cup {NoMessage}]
    /\ pos \in [Ends -> [Threads -> Jobs]]
    /\ lock \in [Ends -> Threads \cup {Nobody}]
    /\ sent \in [Ends -> [Threads -> 0 .. MaxSends]]

\* Whoever sends holds the mutex, and has a message.
Exclusive ==
    \A e \in Ends, t \in Threads :
        /\ pos[e][t].phase = "send" <=> lock[e] = t
        /\ pos[e][t].phase # "idle" => pos[e][t].msg \in Messages
        /\ pos[e][t].phase = "lock" => pos[e][t].done = 0

\* s is n whole messages and the first r pieces of m.
Framed(s, n, r, m) ==
    /\ Len(s) = n * MsgLen + r
    /\ \A i \in 0 .. n - 1 : \E q \in Messages : \A k \in 1 .. MsgLen : s[i * MsgLen + k] = <<q, k>>
    /\ \A k \in 1 .. r : s[n * MsgLen + k] = <<m, k>>

\* The message that end e sends, and how much of it has been pushed.
Pushing(e) == pos[e][lock[e]].msg

Begun(e) ==
    IF lock[e] = Nobody \/ pos[e][lock[e]].done = MsgLen THEN 0 ELSE pos[e][lock[e]].done

Row == \A e \in Ends : \E n \in Nat : Framed(Stream(e), n, Begun(Peer(e)), Pushing(Peer(e)))

SocketInv == Typed /\ Exclusive /\ Row

-----------------------------------------------------------------------------
\* Division with remainder.
LEMMA Quotient ==
    ASSUME NEW M \in Nat \ {0}, NEW a \in Nat, NEW r \in 0 .. M - 1
    PROVE  (a * M + r) \div M = a
  OBVIOUS

\* A number between two multiples belongs to the first of them.
LEMMA BetweenMultiples ==
    ASSUME NEW M \in Nat \ {0}, NEW i \in Nat, NEW a \in Nat, NEW k \in 1 .. M, NEW r \in 0 .. M,
           i * M + k > a * M + r, i * M + k <= a * M + M
    PROVE  i = a /\ k > r
<1>1. ~(i >= a + 1)
  <2> SUFFICES ASSUME i >= a + 1 PROVE FALSE
    OBVIOUS
  <2>1. (i - a - 1) * M >= 0
    OBVIOUS
  <2> QED BY <2>1
<1>2. ~(i <= a - 1)
  <2> SUFFICES ASSUME i <= a - 1 PROVE FALSE
    OBVIOUS
  <2>1. (a - 1 - i) * M >= 0
    OBVIOUS
  <2> QED BY <2>1
<1> QED BY <1>1, <1>2

\* A piece of a whole message is among the pieces.
LEMMA InRow ==
    ASSUME NEW M \in Nat \ {0}, NEW n \in Nat, NEW i \in 0 .. n - 1, NEW k \in 1 .. M
    PROVE  i * M + k \in 1 .. n * M
<1>1. (n - 1 - i) * M >= 0 /\ i * M >= 0
  OBVIOUS
<1> QED BY <1>1

\* As many messages are in the queue as are whole.
LEMMA QueueLength ==
    ASSUME Configuration, NEW s \in Seq(Units), NEW n \in Nat, NEW r \in 0 .. MsgLen - 1, NEW m,
           Framed(s, n, r, m)
    PROVE  /\ Len(QueueOf(s)) = n /\ DOMAIN QueueOf(s) = 1 .. n
           /\ \A i \in 1 .. n : QueueOf(s)[i] = s[i * MsgLen][1]
           /\ QueueOf(s) \in Seq(Messages)
<1>1. Len(s) \div MsgLen = n
  BY Quotient DEF Framed, Configuration
<1>2. QueueOf(s) = [i \in 1 .. n |-> s[i * MsgLen][1]]
  BY <1>1 DEF QueueOf
<1>3. \A i \in 1 .. n : s[i * MsgLen][1] \in Messages
  <2> SUFFICES ASSUME NEW i \in 1 .. n PROVE s[i * MsgLen][1] \in Messages
    OBVIOUS
  <2>1. PICK q \in Messages : \A k \in 1 .. MsgLen : s[(i - 1) * MsgLen + k] = <<q, k>>
    BY DEF Framed
  <2>2. s[(i - 1) * MsgLen + MsgLen] = <<q, MsgLen>>
    <3>1. MsgLen \in 1 .. MsgLen
      BY DEF Configuration
    <3> QED BY <2>1, <3>1
  <2>3. (i - 1) * MsgLen + MsgLen = i * MsgLen
    BY DEF Configuration
  <2> QED BY <2>2, <2>3
<1> QED BY <1>2, <1>3

-----------------------------------------------------------------------------
\* The pieces r + 1 .. k of a message.
LEMMA PiecesType ==
    ASSUME MsgLen \in Nat \ {0}, NEW m \in Messages, NEW r \in 0 .. MsgLen - 1,
           NEW k \in r + 1 .. MsgLen
    PROVE  /\ Pieces(m, r + 1, k) \in Seq(Units) /\ Len(Pieces(m, r + 1, k)) = k - r
           /\ \A j \in 1 .. k - r : Pieces(m, r + 1, k)[j] = <<m, r + j>>
<1> DEFINE new == Pieces(m, r + 1, k)
<1>1. k - (r + 1) + 1 = k - r /\ k - r \in Nat
  OBVIOUS
<1>2. new = [j \in 1 .. k - r |-> <<m, (r + 1) + j - 1>>]
  BY <1>1 DEF Pieces
<1>3. \A j \in 1 .. k - r : (r + 1) + j - 1 = r + j /\ r + j \in 1 .. MsgLen
  OBVIOUS
<1>4. new = [j \in 1 .. k - r |-> <<m, r + j>>]
  BY <1>2, <1>3
<1>5. \A j \in 1 .. k - r : <<m, r + j>> \in Units
  BY <1>3 DEF Units
<1> HIDE DEF new
<1>6. new \in [1 .. k - r -> Units]
  BY <1>4, <1>5
<1>7. new \in Seq(Units)
  BY <1>1, <1>6, SeqDef
<1>8. Len(new) = k - r
  BY <1>1, <1>6, <1>7, LenProperties
<1> QED BY <1>4, <1>7, <1>8 DEF new

\* A push of pieces done + 1 .. k of a message.
LEMMA PushFramed ==
    ASSUME Configuration, NEW s \in Seq(Units), NEW n \in Nat, NEW r \in 0 .. MsgLen - 1,
           NEW m \in Messages, NEW k \in r + 1 .. MsgLen, Framed(s, n, r, m)
    PROVE  LET t == s \o Pieces(m, r + 1, k)
           IN  /\ t \in Seq(Units)
               /\ k < MsgLen => Framed(t, n, k, m) /\ QueueOf(t) = QueueOf(s)
               /\ k = MsgLen => /\ \A o : Framed(t, n + 1, 0, o)
                                /\ QueueOf(t) = Append(QueueOf(s), m)
<1> DEFINE new == Pieces(m, r + 1, k)
           t == s \o new
<1>1. /\ MsgLen \in Nat \ {0} /\ Len(s) = n * MsgLen + r
      /\ n * MsgLen \in Nat
  BY DEF Configuration, Framed
<1>2. /\ new \in Seq(Units) /\ Len(new) = k - r
      /\ \A j \in 1 .. k - r : new[j] = <<m, r + j>>
  BY <1>1, PiecesType
<1> HIDE DEF new
<1>3. /\ t \in Seq(Units) /\ Len(t) = n * MsgLen + k
      /\ \A j \in 1 .. Len(s) : t[j] = s[j]
      /\ \A j \in 1 .. k - r : t[Len(s) + j] = <<m, r + j>>
  <2>1. t \in Seq(Units) /\ Len(t) = Len(s) + (k - r)
    BY <1>2, ConcatProperties
  <2>2. Len(t) = n * MsgLen + k
    BY <1>1, <2>1
  <2>3. \A j \in 1 .. Len(s) : t[j] = s[j]
    BY <1>2
  <2>4. \A j \in 1 .. k - r : t[Len(s) + j] = new[j]
    BY <1>1, <1>2
  <2> QED BY <1>2, <2>1, <2>2, <2>3, <2>4
<1> HIDE DEF t
<1>4. \A i \in 0 .. n - 1 : \E q \in Messages : \A j \in 1 .. MsgLen : t[i * MsgLen + j] = <<q, j>>
  <2> SUFFICES ASSUME NEW i \in 0 .. n - 1
               PROVE  \E q \in Messages : \A j \in 1 .. MsgLen : t[i * MsgLen + j] = <<q, j>>
    OBVIOUS
  <2>1. PICK q \in Messages : \A j \in 1 .. MsgLen : s[i * MsgLen + j] = <<q, j>>
    BY DEF Framed
  <2>2. \A j \in 1 .. MsgLen : i * MsgLen + j \in 1 .. Len(s)
    <3> SUFFICES ASSUME NEW j \in 1 .. MsgLen PROVE i * MsgLen + j \in 1 .. Len(s)
      OBVIOUS
    <3>1. i * MsgLen + j \in 1 .. n * MsgLen
      BY <1>1, InRow
    <3> QED BY <1>1, <3>1
  <2> QED BY <1>3, <2>1, <2>2
<1>5. \A j \in 1 .. k : t[n * MsgLen + j] = <<m, j>>
  <2> SUFFICES ASSUME NEW j \in 1 .. k PROVE t[n * MsgLen + j] = <<m, j>>
    OBVIOUS
  <2>1. CASE j <= r
    <3>1. s[n * MsgLen + j] = <<m, j>> /\ n * MsgLen + j \in 1 .. Len(s)
      BY <1>1, <2>1 DEF Framed
    <3> QED BY <1>3, <3>1
  <2>2. CASE j > r
    <3>1. j - r \in 1 .. k - r /\ Len(s) + (j - r) = n * MsgLen + j /\ r + (j - r) = j
      BY <1>1, <2>2
    <3> QED BY <1>3, <3>1
  <2> QED BY <2>1, <2>2
<1>6. \A i \in 1 .. n : t[i * MsgLen] = s[i * MsgLen]
  <2> SUFFICES ASSUME NEW i \in 1 .. n PROVE t[i * MsgLen] = s[i * MsgLen]
    OBVIOUS
  <2>1. (i - 1) * MsgLen + MsgLen \in 1 .. n * MsgLen
    BY <1>1, InRow
  <2>2. (i - 1) * MsgLen + MsgLen = i * MsgLen
    BY <1>1
  <2>3. i * MsgLen \in 1 .. Len(s)
    BY <1>1, <2>1, <2>2
  <2> QED BY <1>3, <2>3
<1>7. /\ DOMAIN QueueOf(s) = 1 .. n /\ Len(QueueOf(s)) = n /\ QueueOf(s) \in Seq(Messages)
      /\ \A i \in 1 .. n : QueueOf(s)[i] = s[i * MsgLen][1]
  BY QueueLength
<1>8. ASSUME k < MsgLen
      PROVE  Framed(t, n, k, m) /\ QueueOf(t) = QueueOf(s)
  <2>1. Framed(t, n, k, m)
    BY <1>3, <1>4, <1>5 DEF Framed
  <2>2. k \in 0 .. MsgLen - 1
    BY <1>1, <1>8
  <2>3. /\ DOMAIN QueueOf(t) = 1 .. n /\ Len(QueueOf(t)) = n /\ QueueOf(t) \in Seq(Messages)
        /\ \A i \in 1 .. n : QueueOf(t)[i] = t[i * MsgLen][1]
    BY <1>3, <2>1, <2>2, QueueLength
  <2> QED BY <1>6, <1>7, <2>1, <2>3
<1>9. ASSUME k = MsgLen
      PROVE  /\ \A o : Framed(t, n + 1, 0, o)
             /\ QueueOf(t) = Append(QueueOf(s), m)
  <2>1. (n + 1) * MsgLen = n * MsgLen + MsgLen
    BY <1>1
  <2>2. \A i \in 0 .. n : \E q \in Messages : \A j \in 1 .. MsgLen : t[i * MsgLen + j] = <<q, j>>
    <3>1. \E q \in Messages : \A j \in 1 .. MsgLen : t[n * MsgLen + j] = <<q, j>>
      BY <1>5, <1>9
    <3>2. \A i \in 0 .. n : i \in 0 .. n - 1 \/ i = n
      OBVIOUS
    <3> QED BY <1>4, <3>1, <3>2
  <2>3. \A o : Framed(t, n + 1, 0, o)
    <3>1. Len(t) = (n + 1) * MsgLen + 0 /\ (n + 1) - 1 = n /\ 1 .. 0 = {}
      BY <1>1, <1>3, <1>9, <2>1
    <3> QED BY <2>2, <3>1, Zenon DEF Framed
  <2>4. 0 \in 0 .. MsgLen - 1 /\ n + 1 \in Nat
    BY <1>1
  <2>5. /\ Len(QueueOf(t)) = n + 1 /\ QueueOf(t) \in Seq(Messages)
        /\ \A i \in 1 .. n + 1 : QueueOf(t)[i] = t[i * MsgLen][1]
    BY <1>3, <2>3, <2>4, QueueLength
  <2>6. t[(n + 1) * MsgLen] = <<m, MsgLen>>
    <3>1. MsgLen \in 1 .. k
      BY <1>1, <1>9
    <3> QED BY <1>5, <2>1, <3>1
  <2>7. QueueOf(t)[n + 1] = m /\ \A i \in 1 .. n : QueueOf(t)[i] = QueueOf(s)[i]
    <3>1. QueueOf(t)[n + 1] = m
      BY <1>1, <2>5, <2>6
    <3>2. ASSUME NEW i \in 1 .. n PROVE QueueOf(t)[i] = QueueOf(s)[i]
      BY <1>6, <1>7, <2>5
    <3> QED BY <3>1, <3>2
  <2> HIDE DEF t
  <2>8. QueueOf(t) = Append(QueueOf(s), m)
    BY <1>7, <2>5, <2>7
  <2> QED BY <2>3, <2>8
<1> QED BY <1>3, <1>8, <1>9 DEF t, new

\* A pop of the first message.
LEMMA PopFramed ==
    ASSUME Configuration, NEW s \in Seq(Units), NEW n \in Nat, NEW r \in 0 .. MsgLen - 1, NEW m,
           Framed(s, n, r, m), Len(s) >= MsgLen
    PROVE  LET t == SubSeq(s, MsgLen + 1, Len(s))
           IN  /\ n - 1 \in Nat /\ Framed(t, n - 1, r, m)
               /\ QueueOf(s) # <<>> /\ QueueOf(t) = Tail(QueueOf(s))
               /\ Head(QueueOf(s)) = s[1][1]
               /\ \A k \in 1 .. MsgLen : s[k] = <<s[1][1], k>>
<1> DEFINE t == SubSeq(s, MsgLen + 1, Len(s))
<1>1. /\ MsgLen \in Nat \ {0} /\ Len(s) = n * MsgLen + r
  BY DEF Configuration, Framed
<1>2. n # 0
  BY <1>1
<1>3. n - 1 \in Nat /\ (n - 1) * MsgLen = n * MsgLen - MsgLen
  BY <1>1, <1>2
<1>4. /\ t \in Seq(Units) /\ Len(t) = Len(s) - MsgLen
      /\ \A j \in 1 .. Len(t) : t[j] = s[MsgLen + j]
  BY <1>1
<1> HIDE DEF t
<1>5. \A i \in 0 .. n - 2 : \E q \in Messages : \A j \in 1 .. MsgLen : t[i * MsgLen + j] = <<q, j>>
  <2> SUFFICES ASSUME NEW i \in 0 .. n - 2
               PROVE  \E q \in Messages : \A j \in 1 .. MsgLen : t[i * MsgLen + j] = <<q, j>>
    OBVIOUS
  <2>1. i + 1 \in 0 .. n - 1 /\ i \in 0 .. (n - 1) - 1
    BY <1>2
  <2>2. PICK q \in Messages : \A j \in 1 .. MsgLen : s[(i + 1) * MsgLen + j] = <<q, j>>
    BY <2>1 DEF Framed
  <2>3. ASSUME NEW j \in 1 .. MsgLen PROVE t[i * MsgLen + j] = <<q, j>>
    <3>1. i * MsgLen + j \in 1 .. (n - 1) * MsgLen
      BY <1>1, <1>3, <2>1, InRow
    <3>2. (n - 1) * MsgLen <= Len(t)
      BY <1>1, <1>3, <1>4
    <3>3. i * MsgLen + j \in 1 .. Len(t)
      BY <3>1, <3>2, <1>1, <1>3, <1>4
    <3>4. MsgLen + (i * MsgLen + j) = (i + 1) * MsgLen + j
      BY <1>1
    <3> QED BY <1>4, <2>2, <3>3, <3>4
  <2> QED BY <2>3
<1>6. \A j \in 1 .. r : t[(n - 1) * MsgLen + j] = <<m, j>>
  <2> SUFFICES ASSUME NEW j \in 1 .. r PROVE t[(n - 1) * MsgLen + j] = <<m, j>>
    OBVIOUS
  <2>1. (n - 1) * MsgLen + j \in 1 .. Len(t) /\ MsgLen + ((n - 1) * MsgLen + j) = n * MsgLen + j
    BY <1>1, <1>3, <1>4
  <2> QED BY <1>4, <2>1 DEF Framed
<1>7. Framed(t, n - 1, r, m)
  <2>1. Len(t) = (n - 1) * MsgLen + r /\ (n - 1) - 1 = n - 2
    BY <1>1, <1>3, <1>4
  <2> QED BY <1>5, <1>6, <2>1 DEF Framed
<1>8. /\ DOMAIN QueueOf(s) = 1 .. n /\ Len(QueueOf(s)) = n /\ QueueOf(s) \in Seq(Messages)
      /\ \A i \in 1 .. n : QueueOf(s)[i] = s[i * MsgLen][1]
  BY QueueLength
<1>9. /\ Len(QueueOf(t)) = n - 1 /\ QueueOf(t) \in Seq(Messages)
      /\ \A i \in 1 .. n - 1 : QueueOf(t)[i] = t[i * MsgLen][1]
  BY <1>3, <1>4, <1>7, QueueLength
<1>10. \A i \in 1 .. n - 1 : t[i * MsgLen] = s[(i + 1) * MsgLen]
  <2> SUFFICES ASSUME NEW i \in 1 .. n - 1 PROVE t[i * MsgLen] = s[(i + 1) * MsgLen]
    OBVIOUS
  <2>1. (i - 1) * MsgLen + MsgLen \in 1 .. (n - 1) * MsgLen
    BY <1>1, <1>3, InRow
  <2>2. (i - 1) * MsgLen + MsgLen = i * MsgLen /\ MsgLen + i * MsgLen = (i + 1) * MsgLen
    BY <1>1
  <2>3. i * MsgLen \in 1 .. Len(t)
    <3>1. i * MsgLen \in 1 .. (n - 1) * MsgLen
      BY <2>1, <2>2
    <3>2. Len(t) = (n - 1) * MsgLen + r
      BY <1>1, <1>3, <1>4
    <3>3. (n - 1) * MsgLen \in Int /\ r \in Nat
      BY <1>1
    <3> QED BY <3>1, <3>2, <3>3
  <2> QED BY <1>4, <2>2, <2>3
<1>11. QueueOf(s) # <<>> /\ QueueOf(t) = Tail(QueueOf(s))
  <2>1. QueueOf(s) # <<>> /\ Len(Tail(QueueOf(s))) = n - 1
    BY <1>2, <1>8
  <2>2. \A i \in 1 .. n - 1 : QueueOf(t)[i] = Tail(QueueOf(s))[i]
    BY <1>2, <1>8, <1>9, <1>10
  <2> QED BY <1>8, <1>9, <2>1, <2>2
<1>12. \A k \in 1 .. MsgLen : s[k] = <<s[1][1], k>>
  <2>1. PICK q \in Messages : \A k \in 1 .. MsgLen : s[0 * MsgLen + k] = <<q, k>>
    BY <1>2 DEF Framed
  <2>2. \A k \in 1 .. MsgLen : s[k] = <<q, k>>
    BY <1>1, <2>1
  <2>3. s[1] = <<q, 1>>
    BY <1>1, <2>2
  <2> QED BY <2>2, <2>3
<1>13. Head(QueueOf(s)) = s[1][1]
  <2>1. Head(QueueOf(s)) = s[1 * MsgLen][1]
    BY <1>2, <1>8
  <2>2. s[MsgLen] = <<s[1][1], MsgLen>> /\ 1 * MsgLen = MsgLen
    BY <1>1, <1>12
  <2> QED BY <2>1, <2>2
<1> QED BY <1>3, <1>7, <1>11, <1>12, <1>13 DEF t

-----------------------------------------------------------------------------
\* A buffer and what follows it.
LEMMA Joined ==
    ASSUME NEW a \in Seq(Units), NEW b \in Seq(Units)
    PROVE  /\ a \o b \in Seq(Units) /\ Len(a \o b) = Len(a) + Len(b)
           /\ \A i \in 1 .. Len(a) : (a \o b)[i] = a[i]
           /\ \A i \in 1 .. Len(b) : (a \o b)[Len(a) + i] = b[i]
<1>1. a \o b \in Seq(Units) /\ Len(a \o b) = Len(a) + Len(b)
  BY ConcatProperties
<1>2. \A i \in 1 .. Len(a) : (a \o b)[i] = a[i]
  OBVIOUS
<1>3. \A i \in 1 .. Len(b) : (a \o b)[Len(a) + i] = b[i]
  OBVIOUS
<1> QED BY <1>1, <1>2, <1>3

LEMMA Rejoined ==
    ASSUME NEW a \in Seq(Units), NEW b \in Seq(Units), NEW c \in Seq(Units)
    PROVE  (a \o b) \o c = a \o (b \o c)
  BY ConcatAssociative

\* Taking from the front of the buffer is taking from the front of all.
LEMMA JoinedRest ==
    ASSUME NEW a \in Seq(Units), NEW b \in Seq(Units), NEW n \in Nat, n <= Len(a)
    PROVE  SubSeq(a, n + 1, Len(a)) \o b = SubSeq(a \o b, n + 1, Len(a \o b))
<1> DEFINE rest == SubSeq(a, n + 1, Len(a))
           all == a \o b
           popped == SubSeq(all, n + 1, Len(all))
<1>1. /\ rest \in Seq(Units) /\ Len(rest) = Len(a) - n
      /\ \A i \in 1 .. Len(a) - n : rest[i] = a[n + i]
  OBVIOUS
<1>2. /\ all \in Seq(Units) /\ Len(all) = Len(a) + Len(b)
      /\ \A i \in 1 .. Len(a) : all[i] = a[i]
      /\ \A i \in 1 .. Len(b) : all[Len(a) + i] = b[i]
  BY Joined
<1> HIDE DEF all
<1>3. /\ popped \in Seq(Units) /\ Len(popped) = Len(all) - n
      /\ \A i \in 1 .. Len(all) - n : popped[i] = all[n + i]
  BY <1>2
<1> HIDE DEF rest, popped
<1>4. /\ rest \o b \in Seq(Units) /\ Len(rest \o b) = Len(rest) + Len(b)
      /\ \A i \in 1 .. Len(rest) : (rest \o b)[i] = rest[i]
      /\ \A i \in 1 .. Len(b) : (rest \o b)[Len(rest) + i] = b[i]
  BY <1>1, Joined
<1> DEFINE joined == rest \o b
<1>5. Len(joined) = Len(popped)
  BY <1>1, <1>2, <1>3, <1>4
<1>6. ASSUME NEW i \in 1 .. Len(joined) PROVE joined[i] = popped[i]
  <2>1. CASE i <= Len(rest)
    BY <1>1, <1>2, <1>3, <1>4, <2>1
  <2>2. CASE i > Len(rest)
    <3>1. i - Len(rest) \in 1 .. Len(b) /\ Len(rest) + (i - Len(rest)) = i
      BY <1>1, <1>4, <2>2
    <3>2. joined[i] = b[i - Len(rest)]
      BY <1>4, <3>1
    <3>3. popped[i] = all[n + i] /\ n + i = Len(a) + (i - Len(rest))
      BY <1>1, <1>2, <1>3, <1>4
    <3> QED BY <1>2, <3>1, <3>2, <3>3
  <2> QED BY <1>1, <2>1, <2>2
<1>7. joined \in Seq(Units) /\ popped \in Seq(Units)
  BY <1>3, <1>4
<1> HIDE DEF joined
<1>8. joined = popped
  BY <1>5, <1>6, <1>7, SeqEqual
<1> QED BY <1>8 DEF joined, rest, popped, all

LEMMA Peers == \A e \in Ends : Peer(e) \in Ends /\ Peer(e) # e /\ Peer(Peer(e)) = e
  BY DEF Ends, Peer

\* The pieces on their way to an end.
LEMMA StreamType ==
    ASSUME Typed, NEW e \in Ends
    PROVE  /\ Stream(e) \in Seq(Units) /\ Len(Stream(e)) = Len(rx[e]) + Len(wire[e])
           /\ \A i \in 1 .. Len(rx[e]) : Stream(e)[i] = rx[e][i]
<1>1. rx[e] \in Seq(Units) /\ wire[e] \in Seq(Units)
  BY DEF Typed
<1> QED BY <1>1, Joined DEF Stream

\* What has been pushed of the message under way is less than all of it.
LEMMA BegunType ==
    ASSUME Configuration, Typed, NEW e \in Ends
    PROVE  Begun(e) \in 0 .. MsgLen - 1
<1>1. CASE lock[e] = Nobody
  BY <1>1 DEF Begun, Configuration
<1>2. CASE lock[e] # Nobody
  <2>1. lock[e] \in Threads
    BY <1>2 DEF Typed
  <2>2. pos[e][lock[e]] \in Jobs
    BY <2>1 DEF Typed
  <2>3. pos[e][lock[e]].done \in 0 .. MsgLen
    BY <2>2 DEF Jobs
  <2> QED BY <2>3 DEF Begun, Configuration
<1> QED BY <1>1, <1>2

\* A step that leaves the pieces alone leaves the row, if the message under
\* way stays the one it is.
LEMMA RowKept ==
    ASSUME Row, \A e \in Ends : Stream(e)' = Stream(e),
           \A e \in Ends : Begun(e)' = Begun(e) /\ (Begun(e) = 0 \/ Pushing(e)' = Pushing(e))
    PROVE  Row' /\ UNCHANGED [e \in Ends |-> Queue(e)]
<1>1. Row'
  <2> SUFFICES ASSUME NEW e \in Ends
               PROVE  \E n \in Nat : Framed(Stream(e)', n, Begun(Peer(e))', Pushing(Peer(e))')
    BY DEF Row, Framed
  <2>1. PICK n \in Nat : Framed(Stream(e), n, Begun(Peer(e)), Pushing(Peer(e)))
    BY DEF Row
  <2>2. \/ Pushing(Peer(e))' = Pushing(Peer(e))
        \/ Begun(Peer(e)) = 0 /\ 1 .. 0 = {}
    BY Peers
  <2>3. Stream(e)' = Stream(e) /\ Begun(Peer(e))' = Begun(Peer(e))
    BY Peers
  <2>4. Framed(Stream(e)', n, Begun(Peer(e))', Pushing(Peer(e))')
    BY <2>1, <2>2, <2>3 DEF Framed
  <2> QED BY <2>4
<1>2. \A e \in Ends : Queue(e)' = Queue(e)
  BY DEF Queue, QueueOf
<1> QED BY <1>1, <1>2

Mapped == <<[e \in Ends |-> Queue(e)], last>>

LEMMA InitSocket ==
    ASSUME Configuration, Init
    PROVE  SocketInv /\ Fifo!Init
<1>1. MsgLen \in Nat \ {0} /\ 0 \in 0 .. MsgLen /\ 0 \in 0 .. MaxSends
  BY DEF Configuration
<1>2. Typed
  <2>1. Idle \in Jobs
    BY <1>1 DEF Idle, Jobs
  <2>2. \A e \in Ends : wire[e] = <<>> /\ rx[e] = <<>>
    BY DEF Init
  <2> QED BY <1>1, <2>1 DEF Typed, Init
<1>3. Exclusive
  BY DEF Init, Idle, Exclusive, Configuration
<1>4. ASSUME NEW e \in Ends
      PROVE  Stream(e) = <<>> /\ Begun(Peer(e)) = 0
  BY Peers DEF Init, Stream, Begun
<1>5. Row
  <2> SUFFICES ASSUME NEW e \in Ends
               PROVE  \E n \in Nat : Framed(Stream(e), n, Begun(Peer(e)), Pushing(Peer(e)))
    BY DEF Row
  <2>1. Framed(<<>>, 0, 0, Pushing(Peer(e)))
    BY <1>1 DEF Framed
  <2> QED BY <1>4, <2>1
<1>6. Fifo!Init
  <2>1. QueueOf(<<>>) = <<>>
    <3>1. Len(<<>>) \div MsgLen = 0
      BY <1>1
    <3> QED BY <3>1 DEF QueueOf
  <2>2. \A e \in Ends : Queue(e) = <<>>
    BY <1>4, <2>1 DEF Queue
  <2> QED BY <2>2 DEF Fifo!Init, Init
<1> QED BY <1>2, <1>3, <1>5, <1>6 DEF SocketInv

LEMMA StartSendSocket ==
    ASSUME Configuration, SocketInv, NEW e \in Ends, NEW t \in Threads, StartSend(e, t)
    PROVE  SocketInv' /\ UNCHANGED Mapped
<1> DEFINE m == [from |-> t, n |-> sent[e][t] + 1]
           job == [phase |-> "lock", msg |-> m, done |-> 0]
<1>1. Typed /\ Exclusive /\ Row
  BY DEF SocketInv
<1>2. m \in Messages /\ sent[e][t] + 1 \in 0 .. MaxSends
  BY <1>1 DEF StartSend, Typed, Messages, Configuration
<1>3. job \in Jobs
  BY <1>2 DEF Jobs, Configuration
<1>4. pos' = [pos EXCEPT ![e][t] = job] /\ UNCHANGED <<wire, rx, last, lock>>
  BY DEF StartSend
<1>5. sent' = [sent EXCEPT ![e][t] = sent[e][t] + 1]
  BY <1>1 DEF StartSend, Typed
<1>6. job.phase = "lock" /\ job.msg = m /\ job.done = 0
  OBVIOUS
<1> HIDE DEF job, m
<1>7. Typed'
  BY <1>1, <1>2, <1>3, <1>4, <1>5 DEF Typed
<1>8. pos'[e][t] = job /\ \A d \in Ends, u \in Threads : d # e \/ u # t => pos'[d][u] = pos[d][u]
  BY <1>1, <1>4 DEF Typed
<1>9. lock[e] # t
  BY <1>1 DEF Exclusive, StartSend
<1>10. Exclusive'
  BY <1>1, <1>2, <1>4, <1>6, <1>8, <1>9 DEF Exclusive
<1>11. \A d \in Ends : Begun(d)' = Begun(d) /\ (Begun(d) = 0 \/ Pushing(d)' = Pushing(d))
  BY <1>1, <1>4, <1>8, <1>9 DEF Begun, Pushing, Typed
<1>12. \A d \in Ends : Stream(d)' = Stream(d)
  BY <1>4 DEF Stream
<1> QED BY <1>1, <1>4, <1>7, <1>10, <1>11, <1>12, RowKept DEF SocketInv, Mapped

LEMMA AcquireSocket ==
    ASSUME Configuration, SocketInv, NEW e \in Ends, NEW t \in Threads, Acquire(e, t)
    PROVE  SocketInv' /\ UNCHANGED Mapped
<1> DEFINE job == [pos[e][t] EXCEPT !.phase = "send"]
<1>1. Typed /\ Exclusive /\ Row
  BY DEF SocketInv
<1>2. pos[e][t] \in Jobs /\ pos[e][t].msg \in Messages /\ pos[e][t].done = 0
  BY <1>1 DEF Acquire, Typed, Exclusive
<1>3. job \in Jobs /\ job.phase = "send" /\ job.msg \in Messages /\ job.done = 0
  BY <1>2 DEF Jobs
<1>4. pos' = [pos EXCEPT ![e][t] = job] /\ lock' = [lock EXCEPT ![e] = t]
      /\ UNCHANGED <<wire, rx, last, sent>>
  BY <1>1 DEF Acquire, Typed
<1>5. lock[e] = Nobody /\ t # Nobody
  BY DEF Acquire, Configuration
<1> HIDE DEF job
<1>6. Typed'
  BY <1>1, <1>3, <1>4 DEF Typed
<1>7. pos'[e][t] = job /\ \A d \in Ends, u \in Threads : d # e \/ u # t => pos'[d][u] = pos[d][u]
  BY <1>1, <1>4 DEF Typed
<1>8. lock'[e] = t /\ \A d \in Ends : d # e => lock'[d] = lock[d]
  BY <1>1, <1>4 DEF Typed
<1>9. \A u \in Threads : pos[e][u].phase # "send"
  BY <1>1, <1>5 DEF Exclusive, Configuration
<1>10. Exclusive'
  BY <1>1, <1>3, <1>7, <1>8, <1>9 DEF Exclusive
<1>11. \A d \in Ends : Begun(d)' = Begun(d) /\ (Begun(d) = 0 \/ Pushing(d)' = Pushing(d))
  <2>1. Begun(e) = 0 /\ Begun(e)' = 0
    BY <1>3, <1>5, <1>7, <1>8 DEF Begun
  <2>2. \A d \in Ends : d # e => Begun(d)' = Begun(d) /\ Pushing(d)' = Pushing(d)
    <3>1. \A d \in Ends : d # e => pos'[d] = pos[d]
      BY <1>1, <1>4 DEF Typed
    <3> QED BY <1>8, <3>1 DEF Begun, Pushing
  <2> QED BY <2>1, <2>2
<1>12. \A d \in Ends : Stream(d)' = Stream(d)
  BY <1>4 DEF Stream
<1> QED BY <1>1, <1>4, <1>6, <1>10, <1>11, <1>12, RowKept DEF SocketInv, Mapped

LEMMA FinishSocket ==
    ASSUME Configuration, SocketInv, NEW e \in Ends, NEW t \in Threads, Finish(e, t)
    PROVE  SocketInv' /\ UNCHANGED Mapped
<1>1. Typed /\ Exclusive /\ Row
  BY DEF SocketInv
<1>2. Idle \in Jobs /\ Idle.phase = "idle"
  BY DEF Idle, Jobs, Configuration
<1>3. pos' = [pos EXCEPT ![e][t] = Idle] /\ lock' = [lock EXCEPT ![e] = Nobody]
      /\ UNCHANGED <<wire, rx, last, sent>>
  BY DEF Finish
<1>4. lock[e] = t /\ pos[e][t].done = MsgLen /\ t # Nobody
  BY <1>1 DEF Finish, Exclusive, Configuration
<1>5. Typed'
  BY <1>1, <1>2, <1>3 DEF Typed
<1>6. pos'[e][t] = Idle /\ \A d \in Ends, u \in Threads : d # e \/ u # t => pos'[d][u] = pos[d][u]
  BY <1>1, <1>3 DEF Typed
<1>7. lock'[e] = Nobody /\ \A d \in Ends : d # e => lock'[d] = lock[d]
  BY <1>1, <1>3 DEF Typed
<1>8. Exclusive'
  BY <1>1, <1>2, <1>4, <1>6, <1>7 DEF Exclusive, Configuration
<1>9. \A d \in Ends : Begun(d)' = Begun(d) /\ (Begun(d) = 0 \/ Pushing(d)' = Pushing(d))
  <2>1. Begun(e) = 0 /\ Begun(e)' = 0
    BY <1>4, <1>7 DEF Begun
  <2>2. \A d \in Ends : d # e => Begun(d)' = Begun(d) /\ Pushing(d)' = Pushing(d)
    <3>1. \A d \in Ends : d # e => pos'[d] = pos[d]
      BY <1>1, <1>3 DEF Typed
    <3> QED BY <1>7, <3>1 DEF Begun, Pushing
  <2> QED BY <2>1, <2>2
<1>10. \A d \in Ends : Stream(d)' = Stream(d)
  BY <1>3 DEF Stream
<1> QED BY <1>1, <1>3, <1>5, <1>8, <1>9, <1>10, RowKept DEF SocketInv, Mapped

LEMMA ReadSocket ==
    ASSUME Configuration, SocketInv, NEW e \in Ends, Read(e)
    PROVE  SocketInv' /\ UNCHANGED Mapped
<1>1. Typed /\ Exclusive /\ Row
  BY DEF SocketInv
<1>2. rx[e] \in Seq(Units) /\ wire[e] \in Seq(Units) /\ rx[e] \o wire[e] \in Seq(Units)
  BY <1>1 DEF Typed
<1>3. /\ rx' = [rx EXCEPT ![e] = rx[e] \o wire[e]] /\ wire' = [wire EXCEPT ![e] = <<>>]
      /\ UNCHANGED <<last, pos, lock, sent>>
  BY <1>1 DEF Read, Typed
<1>4. Typed'
  BY <1>1, <1>2, <1>3 DEF Typed
<1>5. Exclusive'
  BY <1>1, <1>3 DEF Exclusive
<1>6. \A d \in Ends : Begun(d)' = Begun(d) /\ Pushing(d)' = Pushing(d)
  BY <1>3 DEF Begun, Pushing
<1>7. \A d \in Ends : Stream(d)' = Stream(d)
  <2>1. rx'[e] = rx[e] \o wire[e] /\ wire'[e] = <<>>
    BY <1>1, <1>3 DEF Typed
  <2>2. (rx[e] \o wire[e]) \o <<>> = rx[e] \o wire[e]
    BY <1>2, ConcatEmptySeq
  <2>3. \A d \in Ends : d # e => rx'[d] = rx[d] /\ wire'[d] = wire[d]
    BY <1>1, <1>3 DEF Typed
  <2> QED BY <2>1, <2>2, <2>3 DEF Stream
<1> QED BY <1>1, <1>3, <1>4, <1>5, <1>6, <1>7, RowKept DEF SocketInv, Mapped

LEMMA PopSocket ==
    ASSUME Configuration, SocketInv, NEW e \in Ends, Pop(e)
    PROVE  SocketInv' /\ Fifo!Receive(e)
<1> DEFINE s == Stream(e)
           rest == SubSeq(rx[e], MsgLen + 1, Len(rx[e]))
           popped == SubSeq(s, MsgLen + 1, Len(s))
<1>1. Typed /\ Exclusive /\ Row /\ MsgLen \in Nat \ {0}
  BY DEF SocketInv, Configuration
<1>2. /\ rx[e] \in Seq(Units) /\ wire[e] \in Seq(Units) /\ Len(rx[e]) >= MsgLen
      /\ rx' = [rx EXCEPT ![e] = rest] /\ last' = [last EXCEPT ![e] = Frame(rx[e])]
      /\ UNCHANGED <<wire, pos, lock, sent>>
  BY <1>1 DEF Pop, Complete, Typed
<1>3. /\ s \in Seq(Units) /\ Len(s) = Len(rx[e]) + Len(wire[e])
      /\ \A i \in 1 .. Len(rx[e]) : s[i] = rx[e][i]
  BY <1>1, StreamType
<1>4. rest \in Seq(Units)
  BY <1>1, <1>2
<1>5. PICK n \in Nat : Framed(s, n, Begun(Peer(e)), Pushing(Peer(e)))
  BY <1>1 DEF Row
<1>6. Begun(Peer(e)) \in 0 .. MsgLen - 1 /\ Len(s) >= MsgLen
  <2>1. Begun(Peer(e)) \in 0 .. MsgLen - 1
    BY <1>1, BegunType, Peers
  <2>2. Len(rx[e]) \in Nat /\ Len(wire[e]) \in Nat /\ Len(rx[e]) >= MsgLen
    BY <1>2
  <2>3. Len(s) = Len(rx[e]) + Len(wire[e])
    BY <1>3
  <2> HIDE DEF s
  <2>4. \A x, y \in Nat : x >= MsgLen => x + y >= MsgLen
    BY <1>1
  <2>5. Len(s) >= MsgLen
    BY <2>2, <2>3, <2>4
  <2> QED BY <2>1, <2>5
<1>7. /\ n - 1 \in Nat /\ Framed(popped, n - 1, Begun(Peer(e)), Pushing(Peer(e)))
      /\ QueueOf(s) # <<>> /\ QueueOf(popped) = Tail(QueueOf(s))
      /\ Head(QueueOf(s)) = s[1][1]
      /\ \A k \in 1 .. MsgLen : s[k] = <<s[1][1], k>>
  <2> HIDE DEF s
  <2> QED BY <1>3, <1>5, <1>6, PopFramed
<1>8. QueueOf(s) \in Seq(Messages)
  <2> HIDE DEF s
  <2> QED BY <1>3, <1>5, <1>6, QueueLength
<1>9. Head(QueueOf(s)) \in Messages
  <2> HIDE DEF s
  <2> QED BY <1>7, <1>8
<1>10. Frame(rx[e]) = Head(QueueOf(s))
  <2>1. \A k \in 1 .. MsgLen : rx[e][k] = s[k]
    <3>1. \A k \in 1 .. MsgLen : k \in 1 .. Len(rx[e])
      BY <1>1, <1>2
    <3> QED BY <1>3, <3>1
  <2>2. 1 \in 1 .. MsgLen
    BY <1>1
  <2> HIDE DEF s
  <2>3. rx[e][1] = s[1] /\ \A k \in 1 .. MsgLen : rx[e][k] = <<rx[e][1][1], k>>
    BY <1>7, <2>1, <2>2
  <2> QED BY <1>2, <1>7, <2>3 DEF Frame
<1>11. rest \o wire[e] = popped
  BY <1>1, <1>2, JoinedRest DEF Stream
<1> HIDE DEF rest, popped
<1>12. Typed'
  BY <1>1, <1>2, <1>4, <1>9, <1>10 DEF Typed
<1>13. Exclusive'
  BY <1>1, <1>2 DEF Exclusive
<1>14. Stream(e)' = popped /\ \A d \in Ends : d # e => Stream(d)' = Stream(d)
  BY <1>1, <1>2, <1>11 DEF Stream, Typed
<1>15. \A d \in Ends : Begun(d)' = Begun(d) /\ Pushing(d)' = Pushing(d)
  BY <1>2 DEF Begun, Pushing
<1>16. Row'
  <2> SUFFICES ASSUME NEW d \in Ends
               PROVE  \E i \in Nat : Framed(Stream(d)', i, Begun(Peer(d))', Pushing(Peer(d))')
    BY DEF Row, Framed
  <2>1. Begun(Peer(d))' = Begun(Peer(d)) /\ Pushing(Peer(d))' = Pushing(Peer(d))
    BY <1>15, Peers
  <2>2. CASE d = e
    BY <1>7, <1>14, <2>1, <2>2
  <2>3. CASE d # e
    BY <1>1, <1>14, <2>1, <2>3 DEF Row
  <2> QED BY <2>2, <2>3
<1>17. Fifo!Receive(e)
  <2>1. Queue(e) # <<>> /\ Queue(e)' = Tail(Queue(e)) /\ last'[e] = Head(Queue(e))
    BY <1>1, <1>2, <1>7, <1>10, <1>14 DEF Queue, QueueOf, Typed
  <2>2. \A d \in Ends : d # e => Queue(d)' = Queue(d)
    BY <1>14 DEF Queue, QueueOf
  <2>3. last' = [last EXCEPT ![e] = Head(Queue(e))]
    BY <1>2, <1>10 DEF Queue
  <2> QED BY <2>1, <2>2, <2>3, Zenon DEF Fifo!Receive
<1> QED BY <1>12, <1>13, <1>16, <1>17 DEF SocketInv

LEMMA PushSocket ==
    ASSUME Configuration, SocketInv, NEW e \in Ends, NEW t \in Threads, Push(e, t)
    PROVE  SocketInv' /\ (UNCHANGED Mapped \/ \E m \in Messages : Fifo!Send(Peer(e), m))
<1> DEFINE d == Peer(e)
           m == pos[e][t].msg
           r == pos[e][t].done
           s == Stream(d)
<1>1. Typed /\ Exclusive /\ Row /\ MsgLen \in Nat \ {0}
  BY DEF SocketInv, Configuration
<1>2. pos[e][t] \in Jobs /\ pos[e][t].phase = "send" /\ lock[e] = t /\ t # Nobody
  BY <1>1 DEF Push, Typed, Exclusive, Configuration
<1>3. m \in Messages /\ r \in 0 .. MsgLen
  BY <1>1, <1>2 DEF Exclusive, Jobs
<1>4. d \in Ends /\ d # e /\ Peer(d) = e
  BY Peers
<1>5. PICK k \in r + 1 .. MsgLen :
          /\ wire' = [wire EXCEPT ![d] = wire[d] \o Pieces(m, r + 1, k)]
          /\ pos' = [pos EXCEPT ![e][t].done = k]
  BY <1>1, <1>4 DEF Push, Typed
<1>6. UNCHANGED <<rx, last, lock, sent>>
  BY DEF Push
<1>7. r \in 0 .. MsgLen - 1 /\ k \in 1 .. MsgLen /\ (k < MsgLen \/ k = MsgLen)
  BY <1>1, <1>3, <1>5
<1>8. Begun(e) = r /\ Pushing(e) = m
  BY <1>1, <1>2, <1>7 DEF Begun, Pushing
<1>9. PICK n \in Nat : Framed(s, n, r, m)
  BY <1>1, <1>4, <1>8 DEF Row
<1>10. s \in Seq(Units) /\ rx[d] \in Seq(Units) /\ wire[d] \in Seq(Units)
  BY <1>1, <1>4, StreamType DEF Typed
<1> DEFINE new == Pieces(m, r + 1, k)
           grown == s \o new
<1>11. /\ grown \in Seq(Units)
       /\ k < MsgLen => Framed(grown, n, k, m) /\ QueueOf(grown) = QueueOf(s)
       /\ k = MsgLen => /\ \A o : Framed(grown, n + 1, 0, o)
                        /\ QueueOf(grown) = Append(QueueOf(s), m)
  <2> HIDE DEF m, r, s
  <2> QED BY <1>3, <1>5, <1>7, <1>9, <1>10, PushFramed
<1>12. new \in Seq(Units)
  <2> HIDE DEF m, r
  <2> QED BY <1>1, <1>3, <1>5, <1>7, PiecesType
<1> HIDE DEF new
<1>13. wire[d] \o new \in Seq(Units) /\ rx[d] \o (wire[d] \o new) = grown
  <2>1. wire[d] \o new \in Seq(Units)
    BY <1>10, <1>12, Joined
  <2>2. (rx[d] \o wire[d]) \o new = rx[d] \o (wire[d] \o new)
    <3> HIDE DEF d
    <3> QED BY <1>10, <1>12, Rejoined, Zenon
  <2> QED BY <2>1, <2>2 DEF Stream
<1> HIDE DEF grown, s
<1>14. /\ pos'[e][t] \in Jobs /\ pos'[e][t].done = k /\ pos'[e][t].msg = m
       /\ pos'[e][t].phase = "send"
       /\ \A a \in Ends, u \in Threads : a # e \/ u # t => pos'[a][u] = pos[a][u]
       /\ \A a \in Ends : a # e => pos'[a] = pos[a]
  <2> DEFINE job == [pos[e][t] EXCEPT !.done = k]
  <2>1. pos' = [pos EXCEPT ![e][t] = job]
    BY <1>1, <1>5 DEF Typed
  <2>2. job \in Jobs /\ job.done = k /\ job.msg = m /\ job.phase = "send"
    BY <1>2, <1>7 DEF Jobs
  <2> HIDE DEF job, m
  <2> QED BY <1>1, <2>1, <2>2 DEF Typed
<1>15. Typed'
  <2>1. pos' \in [Ends -> [Threads -> Jobs]]
    <3>1. pos' = [pos EXCEPT ![e][t] = [pos[e][t] EXCEPT !.done = k]]
      BY <1>1, <1>5 DEF Typed
    <3>2. [pos[e][t] EXCEPT !.done = k] \in Jobs
      BY <1>2, <1>7 DEF Jobs
    <3> QED BY <1>1, <3>1, <3>2 DEF Typed
  <2>2. wire' \in [Ends -> Seq(Units)]
    BY <1>1, <1>5, <1>13 DEF Typed, new
  <2> QED BY <1>1, <1>6, <2>1, <2>2 DEF Typed
<1>16. Exclusive'
  <2> HIDE DEF m
  <2> QED BY <1>1, <1>2, <1>3, <1>6, <1>14 DEF Exclusive
<1>17. Stream(d)' = grown /\ \A a \in Ends : a # d => Stream(a)' = Stream(a)
  BY <1>1, <1>4, <1>5, <1>6, <1>13 DEF Stream, Typed, new
<1>18. /\ Begun(e)' = IF k = MsgLen THEN 0 ELSE k
       /\ Pushing(e)' = m
       /\ \A a \in Ends : a # e => Begun(a)' = Begun(a) /\ Pushing(a)' = Pushing(a)
  <2> HIDE DEF m
  <2> QED BY <1>2, <1>6, <1>14 DEF Begun, Pushing
<1>19. Row'
  <2> SUFFICES ASSUME NEW a \in Ends
               PROVE  \E i \in Nat : Framed(Stream(a)', i, Begun(Peer(a))', Pushing(Peer(a))')
    BY DEF Row, Framed
  <2>1. CASE a = d
    <3>1. Framed(grown, n, k, m) \/ (k = MsgLen /\ Framed(grown, n + 1, 0, m))
      BY <1>7, <1>11
    <3> QED BY <1>4, <1>7, <1>11, <1>17, <1>18, <2>1, <3>1
  <2>2. CASE a # d
    <3>1. Peer(a) \in Ends /\ Peer(a) # e
      BY <1>4, <2>2, Peers DEF Ends
    <3> QED BY <1>1, <1>17, <1>18, <2>2, <3>1 DEF Row
  <2> QED BY <2>1, <2>2
<1>20. \A a \in Ends : a # d => Queue(a)' = Queue(a)
  BY <1>17 DEF Queue, QueueOf
<1>21. Queue(d) = QueueOf(s) /\ Queue(d)' = QueueOf(grown)
  BY <1>17 DEF Queue, QueueOf, s
<1>22. CASE k < MsgLen
  <2>1. \A a \in Ends : Queue(a)' = Queue(a)
    BY <1>11, <1>20, <1>21, <1>22
  <2> QED BY <1>6, <1>15, <1>16, <1>19, <2>1 DEF Mapped, SocketInv
<1>23. CASE k = MsgLen
  <2> HIDE DEF m, d
  <2>1. Queue(d)' = Append(Queue(d), m)
    BY <1>11, <1>21, <1>23
  <2>2. Fifo!Send(d, m)
    BY <1>4, <1>6, <1>20, <2>1, Zenon DEF Fifo!Send
  <2> QED BY <1>3, <1>15, <1>16, <1>19, <2>2 DEF SocketInv, d
<1> QED BY <1>7, <1>22, <1>23

-----------------------------------------------------------------------------
LEMMA SocketStep ==
    ASSUME Configuration, SocketInv, [Next]_vars
    PROVE  SocketInv' /\ [Fifo!Next]_Mapped
<1>1. ASSUME NEW e \in Ends, RecvStep(e)
      PROVE  SocketInv' /\ [Fifo!Next]_Mapped
  <2>1. CASE Pop(e)
    <3>1. SocketInv' /\ Fifo!Receive(e)
      BY <2>1, PopSocket
    <3> QED BY <3>1 DEF Fifo!Next
  <2>2. CASE Read(e)
    BY <2>2, ReadSocket
  <2> QED BY <1>1, <2>1, <2>2 DEF RecvStep
<1>2. ASSUME NEW e \in Ends, NEW t \in Threads, StartSend(e, t) \/ SendStep(e, t)
      PROVE  SocketInv' /\ [Fifo!Next]_Mapped
  <2>1. CASE StartSend(e, t)
    BY <2>1, StartSendSocket
  <2>2. CASE Acquire(e, t)
    BY <2>2, AcquireSocket
  <2>3. CASE Finish(e, t)
    BY <2>3, FinishSocket
  <2>4. CASE Push(e, t)
    <3>1. SocketInv' /\ (UNCHANGED Mapped \/ \E m \in Messages : Fifo!Send(Peer(e), m))
      BY <2>4, PushSocket
    <3>2. Peer(e) \in Ends
      BY Peers
    <3> QED BY <3>1, <3>2 DEF Fifo!Next
  <2> QED BY <1>2, <2>1, <2>2, <2>3, <2>4 DEF SendStep
<1>3. CASE UNCHANGED vars
  <2>1. UNCHANGED <<wire, rx, last, pos, lock, sent>>
    BY <1>3 DEF vars
  <2>2. Typed' /\ Exclusive'
    BY <2>1 DEF SocketInv, Typed, Exclusive
  <2>3. \A e \in Ends : /\ Stream(e)' = Stream(e)
                        /\ Begun(e)' = Begun(e) /\ Pushing(e)' = Pushing(e)
    BY <2>1 DEF Stream, Begun, Pushing
  <2>4. Row' /\ UNCHANGED [e \in Ends |-> Queue(e)]
    BY <2>3, RowKept DEF SocketInv
  <2> QED BY <2>1, <2>2, <2>4 DEF SocketInv, Mapped
<1> QED BY <1>1, <1>2, <1>3 DEF Next

LEMMA SocketInvariant ==
    ASSUME Configuration
    PROVE  Spec => []SocketInv
<1>1. Init => SocketInv
  BY InitSocket
<1>2. SocketInv /\ [Next]_vars => SocketInv'
  BY SocketStep
<1> QED BY <1>1, <1>2, PTL DEF Spec

(* Pieces, buffers and what the threads are at stay of the types the model *)
(* gives them.                                                             *)
THEOREM SocketTypes ==
    ASSUME Configuration
    PROVE  Spec => []TypeOK
<1>1. SocketInv => TypeOK
  <2> SUFFICES ASSUME SocketInv PROVE TypeOK
    OBVIOUS
  <2>1. Typed
    BY DEF SocketInv
  <2>2. \A e \in Ends : rx[e] \in Seq(Units) /\ wire[e] \in Seq(Units)
    BY <2>1 DEF Typed
  <2>3. \A e \in Ends : /\ \A i \in DOMAIN wire[e] : wire[e][i] \in Units
                        /\ \A i \in DOMAIN rx[e] : rx[e][i] \in Units
    BY <2>2
  <2> QED BY <2>1, <2>3 DEF Typed, TypeOK, Units, Jobs
<1> QED BY <1>1, SocketInvariant, PTL

(* However the bytes of several threads are cut on their way, the two ends *)
(* see whole messages, each once, in the order in which their sends were   *)
(* completed: sendMessage's mutex keeps the bytes of a message together,   *)
(* and popMessage takes them off together.                                 *)
THEOREM SocketIsFifo ==
    ASSUME Configuration
    PROVE  Spec => FifoSpec
<1>1. Init => Fifo!Init
  BY InitSocket
<1>2. SocketInv /\ [Next]_vars => [Fifo!Next]_Mapped
  BY SocketStep
<1> QED BY <1>1, <1>2, SocketInvariant, PTL DEF Spec, FifoSpec, Fifo!Spec, Mapped

-----------------------------------------------------------------------------
(* The first two messages, InitReq and InitResp, which connect and accept  *)
(* exchange on the socket they have just opened.                           *)
CONSTANTS Procs, Edges, Planes, MaxEvents, MaxTimeouts

VARIABLES table, connector, acceptor, slots, req, resp, busy, spent

Est == INSTANCE Establish

\* What an end that is up has found: the acceptor has answered with what it
\* has, and the connector has what it was answered.
AnswerFits ==
    \A e \in Edges :
        /\ acceptor[e] = "up" => resp[e] = slots["accept"][e]
        /\ resp[e] # Est!NoMsg => acceptor[e] = "up"
        /\ connector[e] = "up" => resp[e] # Est!NoMsg /\ slots["connect"][e] = resp[e]

Shape ==
    /\ connector = [e \in Edges |-> connector[e]]
    /\ acceptor = [e \in Edges |-> acceptor[e]]
    /\ resp = [e \in Edges |-> resp[e]]
    /\ slots = [k \in Est!Ends |-> [e \in Edges |-> slots[k][e]]]

PairInv == Shape /\ AnswerFits

\* Queue pairs are created by an end that is not up yet.
LEMMA CreateKeepsPair ==
    ASSUME PairInv, NEW e \in Edges, NEW k \in Est!Ends, NEW p, Est!CreateSlot(k, e, p),
           k = "connect" => connector[e] = "tcp", k = "accept" => acceptor[e] = "slots",
           UNCHANGED <<connector, acceptor, resp>>
    PROVE  PairInv'
<1>1. PICK g : slots' = [slots EXCEPT ![k][e] = g]
  BY DEF Est!CreateSlot
<1>2. Shape'
  BY <1>1 DEF PairInv, Shape
<1>3. \A i \in Est!Ends, d \in Edges : i # k \/ d # e => slots'[i][d] = slots[i][d]
  BY <1>1 DEF PairInv, Shape
<1>4. "connect" \in Est!Ends /\ "accept" \in Est!Ends
  BY DEF Est!Ends
<1>5. AnswerFits'
  BY <1>3, <1>4 DEF PairInv, AnswerFits
<1> QED BY <1>2, <1>5 DEF PairInv

LEMMA PairStep ==
    ASSUME PairInv, [Est!Next]_Est!vars
    PROVE  PairInv'
<1>1. ASSUME NEW e \in Edges, Est!StartConnect(e) \/ Est!SendInitReq(e) \/ Est!ConnectTimeout(e)
      PROVE  PairInv'
  <2>1. /\ connector[e] \in {"posted", "tcp", "waiting"}
        /\ \E c \in {"tcp", "waiting", "failed"} : connector' = [connector EXCEPT ![e] = c]
        /\ UNCHANGED <<acceptor, slots, resp>>
    BY <1>1 DEF Est!StartConnect, Est!SendInitReq, Est!ConnectTimeout
  <2> QED BY <2>1 DEF PairInv, Shape, AnswerFits
<1>2. ASSUME NEW e \in Edges, Est!RecvInitResp(e)
      PROVE  PairInv'
  <2>1. /\ \/ connector' = [connector EXCEPT ![e] = "failed"]
           \/ /\ connector' = [connector EXCEPT ![e] = "up"]
              /\ resp[e] # Est!NoMsg /\ slots["connect"][e] = resp[e]
        /\ UNCHANGED <<acceptor, slots, resp>>
    BY <1>2 DEF Est!RecvInitResp, Est!Matches
  <2> QED BY <2>1 DEF PairInv, Shape, AnswerFits
<1>3. ASSUME NEW e \in Edges, Est!StartAccept(e) \/ Est!ReadInitReq(e) \/ Est!AcceptTimeout(e)
      PROVE  PairInv'
  <2>1. /\ acceptor[e] \in {"posted", "reading"}
        /\ \E a \in {"reading", "slots", "failed"} : acceptor' = [acceptor EXCEPT ![e] = a]
        /\ UNCHANGED <<connector, slots, resp>>
    BY <1>3 DEF Est!StartAccept, Est!ReadInitReq, Est!AcceptTimeout
  <2> QED BY <2>1 DEF PairInv, Shape, AnswerFits
<1>4. ASSUME NEW e \in Edges, Est!Answer(e)
      PROVE  PairInv'
  <2>1. acceptor[e] = "slots" /\ UNCHANGED <<connector, slots>>
    BY <1>4 DEF Est!Answer
  <2>2. CASE /\ resp' = [resp EXCEPT ![e] = slots["accept"][e]]
             /\ acceptor' = [acceptor EXCEPT ![e] = "up"]
    BY <2>1, <2>2 DEF PairInv, Shape, AnswerFits
  <2>3. CASE acceptor' = [acceptor EXCEPT ![e] = "failed"] /\ UNCHANGED resp
    BY <2>1, <2>3 DEF PairInv, Shape, AnswerFits
  <2> QED BY <1>4, <2>2, <2>3 DEF Est!Answer
<1>5. ASSUME NEW e \in Edges, Est!ConnectorSlot(e)
      PROVE  PairInv'
  BY <1>5, CreateKeepsPair DEF Est!ConnectorSlot, Est!Ends
<1>6. ASSUME NEW e \in Edges, Est!AcceptorSlot(e)
      PROVE  PairInv'
  BY <1>6, CreateKeepsPair DEF Est!AcceptorSlot, Est!Ends
<1>7. CASE UNCHANGED <<connector, acceptor, slots, resp>>
  BY <1>7 DEF PairInv, Shape, AnswerFits
<1>8. ASSUME NEW p \in Procs, NEW l \in Planes, Est!Report(p, l)
      PROVE  PairInv'
  BY <1>7, <1>8 DEF Est!Report
<1>9. CASE UNCHANGED Est!vars
  BY <1>7, <1>9 DEF Est!vars
<1> QED BY <1>1, <1>2, <1>3, <1>4, <1>5, <1>6, <1>8, <1>9 DEF Est!Next, Est!Connect, Est!Accept

(* For any processes, connections and planes, however the tables change    *)
(* while an attempt is under way and whichever waits time out: two ends    *)
(* that both come up have queue pairs of the same generations.             *)
THEOREM EstablishedEndsPaired == Est!Spec => []Est!PairedGenerations
<1>1. Est!Init => PairInv
  BY DEF Est!Init, PairInv, Shape, AnswerFits
<1>2. PairInv /\ [Est!Next]_Est!vars => PairInv'
  BY PairStep
<1>3. PairInv => Est!PairedGenerations
  BY DEF PairInv, AnswerFits, Est!PairedGenerations
<1> QED BY <1>1, <1>2, <1>3, PTL DEF Est!Spec

-----------------------------------------------------------------------------
(* The types of Establish: planes are numbers, and a connection joins two  *)
(* of the processes.                                                       *)
EstConfiguration ==
    /\ Edges \subseteq Procs \X Procs /\ Planes \subseteq Nat
    /\ MaxEvents \in Nat /\ MaxTimeouts \in Nat

TablesTyped == table \in [Procs -> [Planes -> Est!PlaneEntry]]

GenerationsPositive == \A p \in Procs, l \in Planes : table[p][l].gen # 0

EstInv == Shape /\ Est!TypeOK /\ GenerationsPositive /\ req = [e \in Edges |-> req[e]]

\* The loop over the planes creates a queue pair on one that has none yet.
LEMMA NextPlaneMissing ==
    ASSUME EstConfiguration, NEW k, NEW e, Est!Missing(k, e) # {}
    PROVE  Est!NextPlane(k, e) \in Est!Missing(k, e)
<1> DEFINE M == Est!Missing(k, e)
<1>1. M \subseteq Nat
  BY DEF EstConfiguration, Est!Missing
<1> HIDE DEF M
<1>2. PICK l \in M : \A o \in M : ~ (<<o, l>> \in OpToRel(<, Nat))
  BY <1>1, WFMin, NatLessThanWellFounded DEF M
<1>3. ASSUME NEW o \in M PROVE l <= o
  <2>1. <<o, l>> \notin OpToRel(<, Nat)
    BY <1>2
  <2>2. l \in Nat /\ o \in Nat
    BY <1>1
  <2>3. ~(o < l)
    BY <2>1, <2>2 DEF OpToRel
  <2> QED BY <2>2, <2>3
<1>4. (CHOOSE x \in M : \A o \in M : x <= o) \in M
  BY <1>3
<1> QED BY <1>4 DEF M, Est!NextPlane

\* The queue pairs created so far, and one more at the table's generation.
LEMMA CreateTypes ==
    ASSUME EstConfiguration, EstInv, NEW e \in Edges, NEW k \in Est!Ends, NEW p \in Procs,
           Est!CreateSlot(k, e, p), UNCHANGED <<table, connector, acceptor, req, resp, busy, spent>>
    PROVE  EstInv'
<1> DEFINE l == Est!NextPlane(k, e)
           old == slots[k][e]
           new == [i \in DOMAIN old \cup {l} |->
                     IF i \in DOMAIN old THEN old[i] ELSE table[p][l].gen]
<1>1. l \in Planes
  BY NextPlaneMissing DEF Est!CreateSlot, Est!Missing
<1>2. table[p][l].gen \in Nat \ {0}
  BY <1>1 DEF EstInv, Est!TypeOK, GenerationsPositive, Est!PlaneEntry
<1>3. Est!IsGenerations(old)
  BY DEF EstInv, Est!TypeOK
<1> HIDE DEF l
<1>4. Est!IsGenerations(new)
  BY <1>1, <1>2, <1>3 DEF Est!IsGenerations
<1>5. slots' = [slots EXCEPT ![k][e] = new]
  BY DEF Est!CreateSlot, l
<1> HIDE DEF new
<1>6. \A i \in Est!Ends, d \in Edges :
         slots'[i][d] = IF i = k /\ d = e THEN new ELSE slots[i][d]
  BY <1>5 DEF EstInv, Shape
<1>7. \A i \in Est!Ends, d \in Edges : Est!IsGenerations(slots'[i][d])
  BY <1>4, <1>6 DEF EstInv, Est!TypeOK
<1>8. Shape'
  BY <1>5 DEF EstInv, Shape
<1>9. Est!TypeOK'
  BY <1>7 DEF EstInv, Est!TypeOK
<1> QED BY <1>8, <1>9 DEF EstInv, GenerationsPositive

\* A report numbers a change of health.
LEMMA ReportTypes ==
    ASSUME EstConfiguration, EstInv, NEW p \in Procs, NEW l \in Planes, Est!Report(p, l)
    PROVE  EstInv'
<1>1. PICK f \in {Est!MarkBroken(table[p][l]), Est!MarkRecovering(table[p][l])} :
         table' = [table EXCEPT ![p][l] = f]
  BY DEF Est!Report
<1>2. TablesTyped
  BY DEF EstInv, Est!TypeOK, TablesTyped
<1>3. table[p][l] \in Est!PlaneEntry /\ table[p][l].gen # 0
  BY <1>2 DEF EstInv, GenerationsPositive, TablesTyped
<1>4. f \in Est!PlaneEntry /\ f.gen # 0
  BY <1>1, <1>3 DEF Est!MarkBroken, Est!MarkRecovering, Est!MarkAs, Est!PlaneEntry,
     Est!PlaneHealth
<1>5. TablesTyped' /\ GenerationsPositive'
  <2>1. TablesTyped'
    BY <1>1, <1>2, <1>4 DEF TablesTyped
  <2>2. \A q \in Procs, m \in Planes :
           table'[q][m] = IF q = p /\ m = l THEN f ELSE table[q][m]
    BY <1>1, <1>2 DEF TablesTyped
  <2> QED BY <1>4, <2>1, <2>2 DEF EstInv, GenerationsPositive
<1>6. spent' \in [events : 0 .. MaxEvents, timeouts : 0 .. MaxTimeouts]
  <2>1. spent.events < MaxEvents /\ spent' = [spent EXCEPT !.events = @ + 1]
    BY DEF Est!Report
  <2>2. spent \in [events : 0 .. MaxEvents, timeouts : 0 .. MaxTimeouts]
    BY DEF EstInv, Est!TypeOK
  <2> QED BY <2>1, <2>2 DEF EstConfiguration
<1>7. UNCHANGED <<connector, acceptor, slots, req, resp, busy>>
  BY DEF Est!Report
<1> QED BY <1>5, <1>6, <1>7 DEF EstInv, Est!TypeOK, Shape, TablesTyped

\* A step that leaves the tables and queue pairs alone.
LEMMA CallTypes ==
    ASSUME EstConfiguration, EstInv, NEW e \in Edges, UNCHANGED <<table, slots>>,
           \/ connector' = connector
           \/ \E c \in {"tcp", "waiting", "up", "failed"} :
                 connector' = [connector EXCEPT ![e] = c],
           \/ acceptor' = acceptor
           \/ \E a \in {"reading", "slots", "up", "failed"} :
                 acceptor' = [acceptor EXCEPT ![e] = a],
           req' = req \/ req' = [req EXCEPT ![e] = slots["connect"][e]],
           resp' = resp \/ resp' = [resp EXCEPT ![e] = slots["accept"][e]],
           \/ busy' = busy
           \/ \E p \in Procs, b \in Edges \cup {Est!Idle} : busy' = [busy EXCEPT ![p] = b],
           \/ spent' = spent
           \/ spent.timeouts < MaxTimeouts /\ spent' = [spent EXCEPT !.timeouts = @ + 1]
    PROVE  EstInv'
<1>1. /\ connector' \in [Edges -> {"posted", "tcp", "waiting", "up", "failed"}]
      /\ acceptor' \in [Edges -> {"posted", "reading", "slots", "up", "failed"}]
      /\ busy' \in [Procs -> Edges \cup {Est!Idle}]
  <2>1. /\ connector \in [Edges -> {"posted", "tcp", "waiting", "up", "failed"}]
        /\ acceptor \in [Edges -> {"posted", "reading", "slots", "up", "failed"}]
        /\ busy \in [Procs -> Edges \cup {Est!Idle}]
    BY DEF EstInv, Est!TypeOK
  <2>2. connector' \in [Edges -> {"posted", "tcp", "waiting", "up", "failed"}]
    BY <2>1
  <2>3. acceptor' \in [Edges -> {"posted", "reading", "slots", "up", "failed"}]
    BY <2>1
  <2>4. busy' \in [Procs -> Edges \cup {Est!Idle}]
    BY <2>1
  <2> QED BY <2>2, <2>3, <2>4
<1>2. spent' \in [events : 0 .. MaxEvents, timeouts : 0 .. MaxTimeouts]
  BY DEF EstInv, Est!TypeOK, EstConfiguration
<1>3. Est!IsGenerations(slots["connect"][e]) /\ Est!IsGenerations(slots["accept"][e])
  BY DEF EstInv, Est!TypeOK, Est!Ends
<1>4. req' = [d \in Edges |-> req'[d]] /\ \A d \in Edges : Est!IsGenerations(req'[d])
  <2>1. req = [d \in Edges |-> req[d]] /\ \A d \in Edges : Est!IsGenerations(req[d])
    BY DEF EstInv, Est!TypeOK
  <2>2. CASE req' = req
    BY <2>1, <2>2
  <2>3. CASE req' = [req EXCEPT ![e] = slots["connect"][e]]
    <3> DEFINE g == slots["connect"][e]
    <3> HIDE DEF g
    <3>1. req' = [req EXCEPT ![e] = g] /\ Est!IsGenerations(g)
      BY <1>3, <2>3 DEF g
    <3>2. req' = [d \in Edges |-> req'[d]]
      BY <2>1, <3>1
    <3>3. \A d \in Edges : req'[d] = IF d = e THEN g ELSE req[d]
      BY <2>1, <3>1
    <3> QED BY <2>1, <3>1, <3>2, <3>3
  <2> QED BY <2>2, <2>3
<1>5. resp' = [d \in Edges |-> resp'[d]] /\ \A d \in Edges : Est!IsGenerations(resp'[d])
  <2>1. resp = [d \in Edges |-> resp[d]] /\ \A d \in Edges : Est!IsGenerations(resp[d])
    BY DEF EstInv, Shape, Est!TypeOK
  <2>2. CASE resp' = resp
    BY <2>1, <2>2
  <2>3. CASE resp' = [resp EXCEPT ![e] = slots["accept"][e]]
    <3> DEFINE g == slots["accept"][e]
    <3> HIDE DEF g
    <3>1. resp' = [resp EXCEPT ![e] = g] /\ Est!IsGenerations(g)
      BY <1>3, <2>3 DEF g
    <3>2. resp' = [d \in Edges |-> resp'[d]]
      BY <2>1, <3>1
    <3>3. \A d \in Edges : resp'[d] = IF d = e THEN g ELSE resp[d]
      BY <2>1, <3>1
    <3> QED BY <2>1, <3>1, <3>2, <3>3
  <2> QED BY <2>2, <2>3
<1>6. Shape'
  BY <1>1, <1>5 DEF EstInv, Shape
<1>7. Est!TypeOK'
  <2>1. /\ table' \in [Procs -> [Planes -> Est!PlaneEntry]]
        /\ \A k \in Est!Ends, d \in Edges : Est!IsGenerations(slots'[k][d])
    BY DEF EstInv, Est!TypeOK
  <2> QED BY <1>1, <1>2, <1>4, <1>5, <2>1 DEF Est!TypeOK
<1> QED BY <1>4, <1>6, <1>7 DEF EstInv, GenerationsPositive

LEMMA EstStep ==
    ASSUME EstConfiguration, EstInv, [Est!Next]_Est!vars
    PROVE  EstInv'
<1>1. ASSUME NEW e \in Edges, Est!Connect(e) \/ Est!ConnectTimeout(e)
      PROVE  EstInv'
  <2>1. Est!Sender(e) \in Procs
    BY DEF Est!Sender, EstConfiguration
  <2>2. CASE Est!StartConnect(e)
    BY <2>1, <2>2, CallTypes DEF Est!StartConnect
  <2>3. CASE Est!ConnectorSlot(e)
    BY <2>1, <2>3, CreateTypes DEF Est!ConnectorSlot, Est!Ends
  <2>4. CASE Est!SendInitReq(e)
    BY <2>4, CallTypes DEF Est!SendInitReq
  <2>5. CASE Est!RecvInitResp(e)
    BY <2>1, <2>5, CallTypes DEF Est!RecvInitResp, Est!Return
  <2>6. CASE Est!ConnectTimeout(e)
    BY <2>1, <2>6, CallTypes DEF Est!ConnectTimeout, Est!Return
  <2> QED BY <1>1, <2>2, <2>3, <2>4, <2>5, <2>6 DEF Est!Connect
<1>2. ASSUME NEW e \in Edges, Est!Accept(e) \/ Est!AcceptTimeout(e)
      PROVE  EstInv'
  <2>1. Est!Receiver(e) \in Procs
    BY DEF Est!Receiver, EstConfiguration
  <2>2. CASE Est!StartAccept(e)
    BY <2>1, <2>2, CallTypes DEF Est!StartAccept
  <2>3. CASE Est!ReadInitReq(e)
    BY <2>3, CallTypes DEF Est!ReadInitReq
  <2>4. CASE Est!AcceptorSlot(e)
    BY <2>1, <2>4, CreateTypes DEF Est!AcceptorSlot, Est!Ends
  <2>5. CASE Est!Answer(e)
    BY <2>1, <2>5, CallTypes DEF Est!Answer, Est!Return
  <2>6. CASE Est!AcceptTimeout(e)
    BY <2>1, <2>6, CallTypes DEF Est!AcceptTimeout, Est!Return
  <2> QED BY <1>2, <2>2, <2>3, <2>4, <2>5, <2>6 DEF Est!Accept
<1>3. CASE UNCHANGED Est!vars
  BY <1>3 DEF Est!vars, EstInv, Est!TypeOK, Shape, GenerationsPositive
<1> QED BY <1>1, <1>2, <1>3, ReportTypes DEF Est!Next

(* Every variable keeps its type: in particular a queue pair, and what is  *)
(* said about it on the socket, never has generation 0, the value of an    *)
(* endpoint or an entry of a message to which nothing was written.         *)
THEOREM EstablishTypes ==
    ASSUME EstConfiguration
    PROVE  Est!Spec => []Est!TypeOK
<1>1. Est!Init => EstInv
  <2> SUFFICES ASSUME Est!Init PROVE EstInv
    OBVIOUS
  <2>1. Est!InitialEntry \in Est!PlaneEntry /\ Est!InitialEntry.gen # 0
    BY DEF Est!InitialEntry, Est!PlaneEntry, Est!PlaneHealth
  <2>2. Est!IsGenerations(Est!NoMsg)
    BY DEF Est!IsGenerations, Est!NoMsg
  <2>3. Est!TypeOK
    BY <2>1, <2>2 DEF Est!Init, Est!TypeOK, EstConfiguration
  <2> QED BY <2>1, <2>3 DEF Est!Init, EstInv, Shape, GenerationsPositive
<1>2. EstInv /\ [Est!Next]_Est!vars => EstInv'
  BY EstStep
<1>3. EstInv => Est!TypeOK
  BY DEF EstInv
<1> QED BY <1>1, <1>2, <1>3, PTL DEF Est!Spec
=============================================================================
