--------------------------- MODULE PMuxFramingProofs ---------------------------
(****************************************************************************)
(* PMuxFraming implements MessageStream, stays in step with the stream and  *)
(* refuses only what no PMux sends, for any messages, foreign frames,       *)
(* buffer and cutting into chunks.                                          *)
(*                                                                          *)
(* The bytes ahead of the receiver are the frames it is not done with, one  *)
(* behind the other (Ahead), and also what it has of a header, of a payload *)
(* and of its chunk, and what is still to come (Stream4).  With six bytes   *)
(* of a header read, both begin with six known bytes, so these are the      *)
(* header of the next frame, and the same again for its payload.            *)
(****************************************************************************)
EXTENDS PMuxFraming, SequenceTheorems, WellFoundedInduction, TLAPS

-------------------------------------------------------------------------------
(* Putting sequences behind each other.                                     *)

(* Among numbers there is a least one: what proofs by induction start from. *)
LEMMA LeastNumber ==
  ASSUME NEW T, T \subseteq Nat, T # {}
  PROVE  \E x \in T : \A y \in T : x <= y
<1>1. PICK x \in T : \A y \in T : <<y, x>> \notin OpToRel(<, Nat)
  BY NatLessThanWellFounded, WFMin
<1>2. ASSUME NEW y \in T PROVE x <= y
  <2>1. <<y, x>> \notin OpToRel(<, Nat) /\ x \in Nat /\ y \in Nat
    BY <1>1
  <2> QED BY <2>1 DEF OpToRel
<1> QED BY <1>2

(* The concatenation is kept behind a name of its own here and in Cat,      *)
(* Cut and Stream4, so that the steps need only the facts stated about it.  *)
Joins(s, t, u) == u = s \o t

LEMMA Joined ==
  ASSUME NEW S, NEW s \in Seq(S), NEW t \in Seq(S)
  PROVE  /\ \E u \in Seq(S) : Joins(s, t, u)
         /\ Joins(<<>>, t, t) /\ Joins(t, <<>>, t)
         /\ \A u, v : Joins(s, t, u) /\ Joins(s, t, v) => u = v
  BY ConcatProperties, ConcatEmptySeq DEF Joins

(* f[i] is the first i of the sequences ss, one behind the other.           *)
IsJoin(f, ss, n) ==
  /\ f[0] = <<>>
  /\ \A i \in 1 .. n : Joins(f[i - 1], ss[i], f[i])

LEMMA JoinExists ==
  ASSUME NEW S, NEW ss \in Seq(Seq(S))
  PROVE  \A n \in 0 .. Len(ss) : \E f \in [0 .. n -> Seq(S)] : IsJoin(f, ss, n)
<1> DEFINE Joinable(n) == \E f \in [0 .. n -> Seq(S)] : IsJoin(f, ss, n)
           None == {n \in 0 .. Len(ss) : ~Joinable(n)}
<1>1. Joinable(0)
  <2>1. [i \in 0 .. 0 |-> <<>>] \in [0 .. 0 -> Seq(S)]
    OBVIOUS
  <2>2. IsJoin([i \in 0 .. 0 |-> <<>>], ss, 0)
    BY DEF IsJoin
  <2> QED BY <2>1, <2>2
<1>2. ASSUME NEW n \in 1 .. Len(ss), Joinable(n - 1) PROVE Joinable(n)
  <2> PICK f \in [0 .. n - 1 -> Seq(S)] : IsJoin(f, ss, n - 1)
    BY <1>2
  <2>1. n - 1 \in 0 .. n - 1 /\ f[n - 1] \in Seq(S) /\ ss[n] \in Seq(S)
    OBVIOUS
  <2>2. ASSUME NEW v \in Seq(S), NEW w \in Seq(S) PROVE \E u \in Seq(S) : Joins(v, w, u)
    BY Joined
  <2> PICK u \in Seq(S) : Joins(f[n - 1], ss[n], u)
    BY <2>1, <2>2
  <2> DEFINE g == [i \in 0 .. n |-> IF i = n THEN u ELSE f[i]]
  <2>3. g \in [0 .. n -> Seq(S)]
    OBVIOUS
  <2>4. g[0] = <<>> /\ Joins(g[n - 1], ss[n], g[n])
    BY <2>1 DEF IsJoin
  <2>5. ASSUME NEW i \in 1 .. n - 1 PROVE Joins(g[i - 1], ss[i], g[i])
    BY <2>5 DEF IsJoin
  <2>6. IsJoin(g, ss, n)
    <3> HIDE DEF g
    <3>1. \A i \in 1 .. n : i = n \/ i \in 1 .. n - 1
      OBVIOUS
    <3> QED BY <2>4, <2>5, <3>1 DEF IsJoin
  <2> QED BY <2>3, <2>6
<1> SUFFICES None = {}
  OBVIOUS
<1>3. CASE None # {}
  <2> HIDE DEF Joinable
  <2>0. None \subseteq Nat
    OBVIOUS
  <2> PICK n \in None : \A m \in None : n <= m
    <3> HIDE DEF None
    <3> QED BY <1>3, <2>0, LeastNumber
  <2>1. n # 0 /\ n \in 0 .. Len(ss) /\ ~Joinable(n)
    BY <1>1
  <2>2. n \in 1 .. Len(ss) /\ n - 1 \in 0 .. Len(ss)
    BY <2>1
  <2>3. n - 1 \notin None
    <3> HIDE DEF None
    <3> QED BY <2>0, <2>2
  <2>4. Joinable(n - 1)
    BY <2>2, <2>3
  <2> HIDE DEF None
  <2> QED BY <1>2, <2>1, <2>2, <2>4
<1> QED BY <1>3

LEMMA JoinAgrees ==
  ASSUME NEW f, NEW g, NEW ss, NEW tt, NEW n \in Nat,
         IsJoin(f, ss, n), IsJoin(g, tt, n), \A i \in 1 .. n : ss[i] = tt[i]
  PROVE  f[n] = g[n]
<1> DEFINE Apart == {k \in 0 .. n : f[k] # g[k]}
<1> SUFFICES Apart = {}
  OBVIOUS
<1>1. CASE Apart # {}
  <2>0. Apart \subseteq Nat
    OBVIOUS
  <2> PICK k \in Apart : \A m \in Apart : k <= m
    <3> HIDE DEF Apart
    <3> QED BY <1>1, <2>0, LeastNumber
  <2>1. k # 0
    BY DEF IsJoin
  <2>2. k \in 1 .. n /\ k - 1 \in 0 .. n /\ k - 1 \notin Apart
    BY <2>1
  <2>3. f[k - 1] = g[k - 1] /\ ss[k] = tt[k]
    BY <2>2
  <2>4. Joins(f[k - 1], ss[k], f[k]) /\ Joins(g[k - 1], tt[k], g[k])
    BY <2>2 DEF IsJoin
  <2>5. f[k] = g[k]
    BY <2>3, <2>4 DEF Joins
  <2> QED BY <2>5
<1> QED BY <1>1

LEMMA FlattenIsJoin ==
  ASSUME NEW S, NEW ss \in Seq(Seq(S)), NEW f, IsJoin(f, ss, Len(ss))
  PROVE  FlattenSeq(ss) = f[Len(ss)]
<1> DEFINE n == Len(ss)
<1>0. n \in Nat /\ \A i \in 1 .. n : ss[i] \in Seq(S)
  OBVIOUS
<1>1. CASE n = 0
  BY <1>1 DEF FlattenSeq, IsJoin
<1>2. CASE n # 0
  <2> PICK e \in [0 .. n -> Seq(S)] : IsJoin(e, ss, n)
    BY <1>0, JoinExists
  <2> DEFINE h == [i \in 1 .. n |-> e[i]]
             g == CHOOSE k : k = [i \in 1 .. n |-> IF i = 1 THEN ss[i] ELSE k[i - 1] \o ss[i]]
             G == [i \in 0 .. n |-> IF i = 0 THEN <<>> ELSE g[i]]
  <2>1. \A i \in 1 .. n : e[i] = IF i = 1 THEN ss[i] ELSE e[i - 1] \o ss[i]
    <3> SUFFICES ASSUME NEW i \in 1 .. n PROVE e[i] = IF i = 1 THEN ss[i] ELSE e[i - 1] \o ss[i]
      OBVIOUS
    <3>1. Joins(e[i - 1], ss[i], e[i]) /\ e[0] = <<>> /\ ss[i] \in Seq(S)
      BY DEF IsJoin
    <3>2. CASE i = 1
      <4>1. Joins(<<>>, ss[i], e[i])
        BY <3>1, <3>2
      <4>2. ASSUME NEW s \in Seq(S) PROVE \A u : Joins(<<>>, s, u) => u = s
        BY ConcatEmptySeq DEF Joins
      <4>3. e[i] = ss[i]
        BY <3>1, <4>1, <4>2
      <4> QED BY <3>2, <4>3
    <3>3. CASE i # 1
      BY <3>1, <3>3 DEF Joins
    <3> QED BY <3>2, <3>3
  <2>2. h = [i \in 1 .. n |-> IF i = 1 THEN ss[i] ELSE h[i - 1] \o ss[i]]
    <3>1. \A i \in 1 .. n : i = 1 \/ h[i - 1] = e[i - 1]
      <4>1. \A i \in 1 .. n : i = 1 \/ i - 1 \in 1 .. n
        BY <1>0
      <4> QED BY <4>1
    <3>2. \A i \in 1 .. n : h[i] = IF i = 1 THEN ss[i] ELSE h[i - 1] \o ss[i]
      BY <2>1, <3>1
    <3>3. DOMAIN h = 1 .. n /\ h = [i \in DOMAIN h |-> h[i]]
      OBVIOUS
    <3> HIDE DEF h
    <3> QED BY <3>2, <3>3
  <2>3. g = [i \in 1 .. n |-> IF i = 1 THEN ss[i] ELSE g[i - 1] \o ss[i]]
    BY <2>2
  <2>4. FlattenSeq(ss) = g[n]
    BY <1>2 DEF FlattenSeq
  <2>5. IsJoin(G, ss, n)
    <3>1. \A i \in 1 .. n : g[i] = IF i = 1 THEN ss[i] ELSE g[i - 1] \o ss[i]
      <4> HIDE DEF g
      <4> QED BY <2>3
    <3> HIDE DEF g
    <3>2. G[0] = <<>>
      BY <1>0
    <3>3. ASSUME NEW i \in 1 .. n PROVE Joins(G[i - 1], ss[i], G[i])
      <4>1. CASE i = 1
        <5>1. G[i] = ss[i] /\ G[i - 1] = <<>> /\ ss[i] \in Seq(S)
          BY <3>1, <4>1
        <5> HIDE DEF G
        <5>2. ASSUME NEW s \in Seq(S) PROVE Joins(<<>>, s, s)
          BY Joined
        <5> QED BY <5>1, <5>2
      <4>2. CASE i # 1
        <5>1. G[i] = g[i] /\ G[i - 1] = g[i - 1]
          BY <4>2
        <5>2. g[i] = g[i - 1] \o ss[i]
          BY <3>1, <4>2
        <5> HIDE DEF G
        <5> QED BY <5>1, <5>2 DEF Joins
      <4> QED BY <4>1, <4>2
    <3> HIDE DEF G
    <3> QED BY <3>2, <3>3 DEF IsJoin
  <2>6. G[n] = g[n]
    BY <1>0, <1>2
  <2> HIDE DEF g, G
  <2>7. G[n] = f[n]
    BY <1>0, <2>5, JoinAgrees
  <2> QED BY <2>4, <2>6, <2>7
<1> QED BY <1>1, <1>2

LEMMA FlattenOf ==
  ASSUME NEW S, NEW ss \in Seq(Seq(S)), NEW n \in Nat, Len(ss) = n
  PROVE  \E f \in [0 .. n -> Seq(S)] : IsJoin(f, ss, n) /\ FlattenSeq(ss) = f[n]
<1>1. n \in 0 .. Len(ss)
  OBVIOUS
<1> PICK f \in [0 .. n -> Seq(S)] : IsJoin(f, ss, n)
  BY <1>1, JoinExists
<1> QED BY FlattenIsJoin

LEMMA FlattenAppend ==
  ASSUME NEW S, NEW ss \in Seq(Seq(S)), NEW x \in Seq(S)
  PROVE  /\ FlattenSeq(ss) \in Seq(S)
         /\ FlattenSeq(Append(ss, x)) = FlattenSeq(ss) \o x
<1>0. /\ Len(ss) \in Nat /\ Append(ss, x) \in Seq(Seq(S))
      /\ Len(Append(ss, x)) = Len(ss) + 1
      /\ Append(ss, x)[Len(ss) + 1] = x
      /\ \A i \in 1 .. Len(ss) : Append(ss, x)[i] = ss[i]
  BY AppendProperties, LenProperties
<1> PICK n \in Nat : n = Len(ss)
  BY <1>0
<1> PICK tt \in Seq(Seq(S)) : tt = Append(ss, x)
  BY <1>0
<1> PICK f \in [0 .. n + 1 -> Seq(S)] : IsJoin(f, tt, n + 1) /\ FlattenSeq(tt) = f[n + 1]
  <2>1. n + 1 \in Nat /\ Len(tt) = n + 1
    BY <1>0
  <2> QED BY <2>1, FlattenOf
<1>1. Joins(f[n], x, f[n + 1]) /\ f[n] \in Seq(S)
  <2>1. n + 1 \in 1 .. n + 1 /\ (n + 1) - 1 = n /\ n \in 0 .. n + 1
    OBVIOUS
  <2>2. Joins(f[(n + 1) - 1], tt[n + 1], f[n + 1])
    BY <2>1 DEF IsJoin
  <2>3. tt[n + 1] = x
    BY <1>0
  <2> QED BY <2>1, <2>2, <2>3
<1>2. IsJoin(f, ss, n)
  <2>1. \A i \in 1 .. n : i \in 1 .. n + 1 /\ tt[i] = ss[i]
    BY <1>0
  <2> QED BY <2>1 DEF IsJoin
<1>3. FlattenSeq(ss) = f[n]
  BY <1>2, FlattenIsJoin
<1> QED BY <1>1, <1>3 DEF Joins

LEMMA JoinBehind ==
  ASSUME NEW S, NEW x \in Seq(S), NEW s \in Seq(S)
  PROVE  /\ x \o s \in Seq(S) /\ x \o <<>> = x /\ Joins(<<>>, s, s)
         /\ \A t \in Seq(S) : \A u : Joins(s, t, u) => Joins(x \o s, t, x \o u)
<1>1. x \o s \in Seq(S) /\ x \o <<>> = x /\ Joins(<<>>, s, s)
  BY ConcatProperties, ConcatEmptySeq DEF Joins
<1>2. ASSUME NEW t \in Seq(S) PROVE (x \o s) \o t = x \o (s \o t)
  BY ConcatAssociative
<1>3. ASSUME NEW t \in Seq(S), NEW u, Joins(s, t, u) PROVE Joins(x \o s, t, x \o u)
  BY <1>2, <1>3 DEF Joins
<1> QED BY <1>1, <1>3

(* ss is x followed by the m elements of tt.                                *)
InFrontOf(x, tt, m, ss) ==
  /\ Len(tt) = m /\ Len(ss) = m + 1
  /\ ss[1] = x /\ \A i \in 1 .. m : ss[i + 1] = tt[i]

LEMMA FlattenBehind ==
  ASSUME NEW S, NEW x \in Seq(S), NEW tt \in Seq(Seq(S)), NEW m \in Nat,
         NEW ss \in Seq(Seq(S)), InFrontOf(x, tt, m, ss)
  PROVE  FlattenSeq(ss) = x \o FlattenSeq(tt)
<1>s. /\ Len(tt) = m /\ Len(ss) = m + 1
      /\ ss[1] = x /\ \A i \in 1 .. m : ss[i + 1] = tt[i]
  BY DEF InFrontOf
<1>0. PICK f \in [0 .. m -> Seq(S)] : IsJoin(f, tt, m) /\ FlattenSeq(tt) = f[m]
  BY <1>s, FlattenOf
<1> DEFINE h == [i \in 0 .. m + 1 |-> IF i = 0 THEN <<>> ELSE x \o f[i - 1]]
<1>1. h[0] = <<>> /\ \A k \in 0 .. m : h[k + 1] = x \o f[k]
  <2>1. 0 \in 0 .. m + 1
    OBVIOUS
  <2>2. \A k \in 0 .. m : k + 1 \in 0 .. m + 1 /\ k + 1 # 0 /\ (k + 1) - 1 = k
    OBVIOUS
  <2> QED BY <2>1, <2>2
<1> HIDE DEF h
<1>2. f[0] = <<>> /\ \A k \in 1 .. m : Joins(f[k - 1], tt[k], f[k])
  BY <1>0 DEF IsJoin
<1>3. Joins(h[0], ss[1], h[1])
  <2>1. h[1] = x \o <<>> /\ h[0] = <<>>
    <3>1. 0 \in 0 .. m /\ 0 + 1 = 1
      OBVIOUS
    <3> QED BY <1>1, <1>2, <3>1
  <2>2. x \o <<>> = x /\ Joins(<<>>, x, x)
    BY JoinBehind
  <2> QED BY <1>s, <2>1, <2>2
<1>4. ASSUME NEW k \in 1 .. m PROVE Joins(h[k], ss[k + 1], h[k + 1])
  <2>0. k - 1 \in 0 .. m /\ k \in 1 .. Len(tt)
    BY <1>s
  <2>1. /\ Joins(f[k - 1], tt[k], f[k]) /\ f[k - 1] \in Seq(S) /\ tt[k] \in Seq(S)
        /\ ss[k + 1] = tt[k]
    BY <1>2, <1>s, <2>0, ElementOfSeq
  <2>2. h[k] = x \o f[k - 1] /\ h[k + 1] = x \o f[k]
    <3>1. k - 1 \in 0 .. m /\ (k - 1) + 1 = k /\ k \in 0 .. m
      OBVIOUS
    <3> QED BY <1>1, <3>1
  <2>3. Joins(x \o f[k - 1], tt[k], x \o f[k])
    BY <2>1, JoinBehind
  <2> QED BY <2>1, <2>2, <2>3
<1>5. IsJoin(h, ss, m + 1)
  <2> SUFFICES ASSUME NEW i \in 1 .. m + 1 PROVE Joins(h[i - 1], ss[i], h[i])
    BY <1>1 DEF IsJoin
  <2>1. i = 1 \/ (i - 1 \in 1 .. m /\ (i - 1) + 1 = i)
    OBVIOUS
  <2>2. 1 - 1 = 0
    OBVIOUS
  <2>3. CASE i - 1 \in 1 .. m /\ (i - 1) + 1 = i
    BY <1>4, <2>3
  <2> QED BY <1>3, <2>1, <2>2, <2>3
<1>6. FlattenSeq(ss) = h[m + 1]
  BY <1>5, <1>s, FlattenIsJoin
<1>7. h[m + 1] = x \o f[m]
  BY <1>1
<1>8. FlattenSeq(tt) = f[m]
  BY <1>0
<1> QED BY <1>6, <1>7, <1>8

LEMMA FlattenFirst ==
  ASSUME NEW S, NEW ss \in Seq(Seq(S)), ss # <<>>
  PROVE  FlattenSeq(ss) = ss[1] \o FlattenSeq(Tail(ss))
<1>1. /\ Len(ss) \in Nat \ {0} /\ Tail(ss) \in Seq(Seq(S))
      /\ Len(Tail(ss)) = Len(ss) - 1 /\ ss[1] \in Seq(S)
      /\ \A i \in 1 .. Len(ss) - 1 : Tail(ss)[i] = ss[i + 1]
  OBVIOUS
<1>2. Len(Tail(ss)) \in Nat /\ Len(ss) = Len(Tail(ss)) + 1
  BY <1>1
<1>3. \A i \in 1 .. Len(Tail(ss)) : ss[i + 1] = Tail(ss)[i]
  BY <1>1
<1> PICK tt \in Seq(Seq(S)) : tt = Tail(ss)
  BY <1>1
<1> PICK m \in Nat : m = Len(tt)
  BY <1>2
<1> PICK x \in Seq(S) : x = ss[1]
  BY <1>1
<1>4. /\ Len(tt) = m /\ Len(ss) = m + 1 /\ ss[1] = x
      /\ \A i \in 1 .. m : ss[i + 1] = tt[i]
  BY <1>2, <1>3
<1>5. ss \in Seq(Seq(S)) /\ tt \in Seq(Seq(S)) /\ x \in Seq(S) /\ m \in Nat
  OBVIOUS
<1>6. FlattenSeq(ss) = x \o FlattenSeq(tt)
  <2>1. InFrontOf(x, tt, m, ss)
    BY <1>4 DEF InFrontOf
  <2> QED BY ONLY <1>5, <2>1, FlattenBehind
<1> QED BY <1>6

-------------------------------------------------------------------------------
(* The inductive invariant.                                                 *)

Filled == IF state = "READING_PAYLOAD" THEN payload ELSE <<>>

AllFramed == \A i \in 1 .. Len(sent) : Framed(sent[i])

(* A complete header is kept only while its payload is read.                *)
Reading ==
  /\ state = "READING_HEADER" /\ ~closed => Len(header) < HEADER_SIZE
  /\ state = "READING_PAYLOAD" =>
       /\ ~closed /\ Len(header) = HEADER_SIZE
       /\ Len(payload) < ntohl(header) /\ ntohl(header) <= MAX_MESSAGE_SIZE
       /\ VersionOf(header[6]) = m_version
       /\ ~IsHeartbeat(header[6]) /\ header[5] # 0

(* The frame at which the connection was dropped is not of the protocol,    *)
(* and nothing of the chunk is looked at any more.                          *)
Dropped ==
  closed =>
    /\ taken < Len(sent) /\ Kind(sent[taken + 1]) = "invalid"
    /\ data = <<>> /\ state = "READING_HEADER"

IInv == TypeOK /\ AllFramed /\ InStep /\ Reading /\ Dropped

-------------------------------------------------------------------------------
(* Headers.                                                                 *)

HeaderOf(frame) == htonl(frame.length) \o <<frame.type, frame.flags>>

LEMMA LengthBytes ==
  ASSUME NEW n \in Nat
  PROVE  /\ Len(htonl(n)) = 4
         /\ n = htonl(n)[4] + 256 * (htonl(n)[3] + 256 * (htonl(n)[2] + 256 * htonl(n)[1]))
         /\ htonl(n) \in Seq(Byte) <=> ((n \div 256) \div 256) \div 256 \in Byte
<1> PICK a \in Nat : a = n \div 256
  OBVIOUS
<1> PICK b \in Nat : b = a \div 256
  OBVIOUS
<1> PICK c \in Nat : c = b \div 256
  OBVIOUS
<1>1. htonl(n) = <<c, b % 256, a % 256, n % 256>>
  BY DEF htonl
<1>2. /\ n % 256 \in Byte /\ a % 256 \in Byte /\ b % 256 \in Byte
  BY DEF Byte
<1>3. htonl(n) \in Seq(Byte) <=> c \in Byte
  <2>1. ASSUME htonl(n) \in Seq(Byte) PROVE c \in Byte
    <3>1. 1 \in 1 .. Len(htonl(n)) /\ htonl(n)[1] = c
      BY <1>1
    <3> QED BY <2>1, <3>1, ElementOfSeq
  <2> QED BY <1>1, <1>2, <2>1
<1>4. n = (n % 256) + 256 * a /\ a = (a % 256) + 256 * b /\ b = (b % 256) + 256 * c
  OBVIOUS
<1> QED BY <1>1, <1>3, <1>4

LEMMA FourAndTwo ==
  ASSUME NEW S, NEW l \in Seq(S), NEW r \in Seq(S), Len(l) = 4, Len(r) = 2
  PROVE  /\ l \o r \in Seq(S) /\ Len(l \o r) = 6
         /\ (l \o r)[1] = l[1] /\ (l \o r)[2] = l[2] /\ (l \o r)[3] = l[3]
         /\ (l \o r)[4] = l[4]
         /\ (l \o r)[5] = r[1] /\ (l \o r)[6] = r[2]
<1> PICK h \in Seq(S) : h = l \o r
  BY ConcatProperties
<1>1. Len(h) = Len(l) + Len(r)
  BY ConcatProperties
<1>2. \A i \in 1 .. Len(l) + Len(r) : h[i] = IF i <= Len(l) THEN l[i] ELSE r[i - Len(l)]
  BY ConcatProperties
<1>3. \A i \in 1 .. 6 : h[i] = IF i <= 4 THEN l[i] ELSE r[i - 4]
  <2>1. \A i \in 1 .. 4 + 2 : h[i] = IF i <= 4 THEN l[i] ELSE r[i - 4]
    BY <1>2, Zenon
  <2>2. 4 + 2 = 6
    OBVIOUS
  <2> QED BY ONLY <2>1, <2>2
<1>4. h[1] = l[1] /\ h[2] = l[2] /\ h[3] = l[3] /\ h[4] = l[4]
  <2>1. 1 \in 1 .. 6 /\ 2 \in 1 .. 6 /\ 3 \in 1 .. 6 /\ 4 \in 1 .. 6
    OBVIOUS
  <2> QED BY ONLY <1>3, <2>1
<1>5. h[5] = r[1] /\ h[6] = r[2]
  <2>1. 5 \in 1 .. 6 /\ 6 \in 1 .. 6 /\ 5 - 4 = 1 /\ 6 - 4 = 2
    OBVIOUS
  <2> QED BY ONLY <1>3, <2>1
<1> QED BY <1>1, <1>4, <1>5

LEMMA HeaderBytes ==
  ASSUME NEW frame, Framed(frame)
  PROVE  /\ HeaderOf(frame) \in Seq(Byte) /\ Len(HeaderOf(frame)) = HEADER_SIZE
         /\ ntohl(HeaderOf(frame)) = frame.length
         /\ HeaderOf(frame)[5] = frame.type /\ HeaderOf(frame)[6] = frame.flags
         /\ frame.payload \in Seq(Byte)
         /\ Bytes(frame) = HeaderOf(frame) \o frame.payload
         /\ Bytes(frame) \in Seq(Byte)
<1>1. /\ frame.length \in Nat /\ frame.type \in Byte /\ frame.flags \in Byte
      /\ frame.payload \in Seq(Byte) /\ htonl(frame.length) \in Seq(Byte)
  BY DEF Framed, Frame
<1> DEFINE l == htonl(frame.length)
           r == <<frame.type, frame.flags>>
<1>2. l \in Seq(Byte) /\ Len(l) = 4
      /\ frame.length = l[4] + 256 * (l[3] + 256 * (l[2] + 256 * l[1]))
  BY <1>1, LengthBytes
<1>3. r \in Seq(Byte) /\ Len(r) = 2 /\ r[1] = frame.type /\ r[2] = frame.flags
  BY <1>1
<1>4. HeaderOf(frame) = l \o r /\ Bytes(frame) = l \o r \o frame.payload
  BY DEF HeaderOf, Bytes
<1> HIDE DEF l, r
<1> DEFINE h == l \o r
<1>5. /\ h \in Seq(Byte) /\ Len(h) = 6
      /\ h[1] = l[1] /\ h[2] = l[2] /\ h[3] = l[3] /\ h[4] = l[4]
      /\ h[5] = r[1] /\ h[6] = r[2]
  BY <1>2, <1>3, FourAndTwo
<1>6. HeaderOf(frame) = h /\ Bytes(frame) = h \o frame.payload
  BY <1>4
<1> HIDE DEF h
<1>7. ntohl(h) = frame.length
  BY <1>2, <1>5 DEF ntohl
<1>8. h \o frame.payload \in Seq(Byte)
  BY <1>1, <1>5, ConcatProperties
<1> QED BY <1>1, <1>3, <1>5, <1>6, <1>7, <1>8 DEF HEADER_SIZE

(* What PMux sends is framed and of the protocol.                           *)
LEMMA SentFrames ==
  /\ Framed(HeartbeatFrame) /\ Kind(HeartbeatFrame) = "heartbeat"
  /\ \A t \in Types, content \in Payloads :
       Len(content) < MAX_MESSAGE_SIZE =>
         /\ Framed(MessageFrame(t, content))
         /\ t # 0 => Kind(MessageFrame(t, content)) = "message"
<1>0. /\ m_version \in Byte /\ m_version + 32 \in Byte /\ 0 \in Byte
      /\ m_version % 16 = m_version /\ (m_version + 32) % 16 = m_version
      /\ (m_version \div 32) % 2 = 0 /\ ((m_version + 32) \div 32) % 2 = 1
  BY PMuxFramingAssumption DEF Byte
<1>1. Framed(HeartbeatFrame) /\ Kind(HeartbeatFrame) = "heartbeat"
  <2> PICK f : f = HeartbeatFrame
    OBVIOUS
  <2>1. f.length = 0 /\ f.type = 0 /\ f.flags = m_version + 32 /\ f.payload = <<>>
    BY DEF HeartbeatFrame, FLAG_HEARTBEAT
  <2>2. f \in Frame
    BY <1>0 DEF HeartbeatFrame, FLAG_HEARTBEAT, Frame
  <2>3. Kind(f) = "heartbeat"
    BY <1>0, <2>1, PMuxFramingAssumption DEF Kind, FLAG_HEARTBEAT
  <2>4. htonl(f.length) \in Seq(Byte)
    BY <2>1 DEF Byte, htonl
  <2> QED BY <2>1, <2>2, <2>3, <2>4 DEF Framed
<1>2. ASSUME NEW t \in Types, NEW content \in Payloads, Len(content) < MAX_MESSAGE_SIZE
      PROVE  /\ Framed(MessageFrame(t, content))
             /\ t # 0 => Kind(MessageFrame(t, content)) = "message"
  <2> PICK f : f = MessageFrame(t, content)
    OBVIOUS
  <2>0. content \in Seq(Byte) /\ t \in Byte /\ Len(content) \in Nat
    BY PMuxFramingAssumption
  <2>1. f.length = Len(content) /\ f.type = t /\ f.flags = m_version /\ f.payload = content
    BY DEF MessageFrame
  <2>2. f \in Frame
    BY <1>0, <2>0 DEF MessageFrame, Frame
  <2>3. t # 0 => Kind(f) = "message"
    <3>1. ~(f.flags % 16 # m_version) /\ ~(f.length > MAX_MESSAGE_SIZE)
      BY <1>0, <1>2, <2>0, <2>1, PMuxFramingAssumption
    <3>2. (f.flags \div FLAG_HEARTBEAT) % 2 # 1
      BY <1>0, <2>1 DEF FLAG_HEARTBEAT
    <3> QED BY <2>1, <3>1, <3>2 DEF Kind
  <2>4. htonl(f.length) \in Seq(Byte)
    <3>1. ASSUME NEW m \in Nat, NEW n \in Nat, n < m,
                 ((m \div 256) \div 256) \div 256 \in Byte
          PROVE  ((n \div 256) \div 256) \div 256 \in Byte
      BY <3>1 DEF Byte
    <3>2. ((MAX_MESSAGE_SIZE \div 256) \div 256) \div 256 \in Byte /\ MAX_MESSAGE_SIZE \in Nat
      BY LengthBytes, PMuxFramingAssumption
    <3>3. ((Len(content) \div 256) \div 256) \div 256 \in Byte
      BY <1>2, <2>0, <3>1, <3>2
    <3>4. htonl(Len(content)) \in Seq(Byte)
      BY <2>0, <3>3, LengthBytes
    <3> QED BY <2>1, <3>4
  <2> QED BY <2>1, <2>2, <2>3, <2>4 DEF Framed
<1> QED BY <1>1, <1>2

-------------------------------------------------------------------------------
(* The stream: what is there of a header and its payload, the rest of the   *)
(* chunk, and what has still to come.                                       *)

Cat(s, t) == s \o t

LEMMA CatFacts ==
  ASSUME NEW S
  PROVE  /\ \A s, t \in Seq(S) : Cat(s, t) \in Seq(S)
         /\ \A s, t, u \in Seq(S) : Cat(Cat(s, t), u) = Cat(s, Cat(t, u))
         /\ \A s \in Seq(S) : Cat(<<>>, s) = s
<1>1. ASSUME NEW s \in Seq(S), NEW t \in Seq(S) PROVE Cat(s, t) \in Seq(S)
  BY ConcatProperties DEF Cat
<1>2. ASSUME NEW s \in Seq(S), NEW t \in Seq(S), NEW u \in Seq(S)
      PROVE  Cat(Cat(s, t), u) = Cat(s, Cat(t, u))
  BY ConcatAssociative DEF Cat
<1>3. ASSUME NEW s \in Seq(S) PROVE Cat(<<>>, s) = s
  BY ConcatEmptySeq DEF Cat
<1> QED BY <1>1, <1>2, <1>3

Four(h, p, d, w) == h \o p \o d \o w
Stream4(h, p, d, w) == Cat(h, Cat(p, Cat(d, w)))

LEMMA FourBehind ==
  ASSUME NEW S, NEW h \in Seq(S), NEW p \in Seq(S), NEW d \in Seq(S), NEW w \in Seq(S)
  PROVE  /\ Four(h, p, d, w) = Stream4(h, p, d, w)
         /\ Stream4(h, p, d, w) \in Seq(S)
<1>0. /\ \A x, y \in Seq(S) : Cat(x, y) \in Seq(S)
      /\ \A x, y, z \in Seq(S) : Cat(Cat(x, y), z) = Cat(x, Cat(y, z))
      /\ \A x \in Seq(S) : Cat(<<>>, x) = x
  BY CatFacts
<1>1. /\ Cat(h, p) \in Seq(S) /\ Cat(d, w) \in Seq(S) /\ Cat(p, Cat(d, w)) \in Seq(S)
      /\ Cat(h, Cat(p, Cat(d, w))) \in Seq(S)
  BY <1>0
<1>2. Cat(Cat(Cat(h, p), d), w) = Cat(h, Cat(p, Cat(d, w)))
  BY <1>1, <1>0
<1>3. Four(h, p, d, w) = Cat(Cat(Cat(h, p), d), w)
  BY Zenon DEF Four, Cat
<1> QED BY <1>1, <1>2, <1>3, Zenon DEF Stream4

LEMMA StreamRead ==
  ASSUME NEW S, NEW h \in Seq(S), NEW p \in Seq(S), NEW w \in Seq(S),
         NEW t \in Seq(S), NEW r \in Seq(S), NEW d, Joins(t, r, d)
  PROVE  /\ Stream4(Cat(h, t), <<>>, r, w) = Stream4(h, <<>>, d, w)
         /\ Stream4(h, Cat(p, t), r, w) = Stream4(h, p, d, w)
         /\ Stream4(h, p, <<>>, d) = Stream4(h, p, t, r)
<1>0. /\ \A x, y \in Seq(S) : Cat(x, y) \in Seq(S)
      /\ \A x, y, z \in Seq(S) : Cat(Cat(x, y), z) = Cat(x, Cat(y, z))
      /\ \A x \in Seq(S) : Cat(<<>>, x) = x
  BY CatFacts
<1>1. /\ Cat(r, w) \in Seq(S) /\ d = Cat(t, r) /\ d \in Seq(S)
      /\ Cat(t, Cat(r, w)) \in Seq(S) /\ Cat(d, w) \in Seq(S)
  <2>1. d = Cat(t, r)
    BY Zenon DEF Joins, Cat
  <2> QED BY <1>0, <2>1
<1>2. /\ Cat(Cat(h, t), Cat(<<>>, Cat(r, w))) = Cat(h, Cat(<<>>, Cat(d, w)))
      /\ Cat(h, Cat(Cat(p, t), Cat(r, w))) = Cat(h, Cat(p, Cat(d, w)))
      /\ Cat(h, Cat(p, Cat(<<>>, d))) = Cat(h, Cat(p, Cat(t, r)))
  <2>1. Cat(<<>>, Cat(r, w)) = Cat(r, w) /\ Cat(<<>>, Cat(d, w)) = Cat(d, w) /\ Cat(<<>>, d) = d
    BY <1>1, <1>0
  <2>2. Cat(d, w) = Cat(t, Cat(r, w))
    BY <1>1, <1>0
  <2>3. Cat(Cat(h, t), Cat(r, w)) = Cat(h, Cat(t, Cat(r, w)))
    BY <1>1, <1>0
  <2>4. Cat(Cat(p, t), Cat(r, w)) = Cat(p, Cat(t, Cat(r, w)))
    BY <1>1, <1>0
  <2> QED BY <1>1, <2>1, <2>2, <2>3, <2>4
<1> QED BY <1>2, Zenon DEF Stream4

LEMMA StreamLonger ==
  ASSUME NEW S, NEW h \in Seq(S), NEW p \in Seq(S), NEW d \in Seq(S), NEW w \in Seq(S),
         NEW b \in Seq(S)
  PROVE  Stream4(h, p, d, Cat(w, b)) = Cat(Stream4(h, p, d, w), b)
<1>0. /\ \A x, y \in Seq(S) : Cat(x, y) \in Seq(S)
      /\ \A x, y, z \in Seq(S) : Cat(Cat(x, y), z) = Cat(x, Cat(y, z))
      /\ \A x \in Seq(S) : Cat(<<>>, x) = x
  BY CatFacts
<1>1. Cat(d, w) \in Seq(S) /\ Cat(p, Cat(d, w)) \in Seq(S)
  BY <1>0
<1>2. /\ Cat(d, Cat(w, b)) = Cat(Cat(d, w), b)
      /\ Cat(p, Cat(Cat(d, w), b)) = Cat(Cat(p, Cat(d, w)), b)
      /\ Cat(h, Cat(Cat(p, Cat(d, w)), b)) = Cat(Cat(h, Cat(p, Cat(d, w))), b)
  BY <1>1, <1>0
<1> QED BY <1>2, Zenon DEF Stream4

(* Equal sequences that begin with as many elements begin alike.            *)
LEMMA SameStart ==
  ASSUME NEW S, NEW a \in Seq(S), NEW b \in Seq(S), NEW c \in Seq(S), NEW d \in Seq(S),
         Cat(a, b) = Cat(c, d), Len(a) = Len(c)
  PROVE  a = c /\ b = d
<1>0. a \o b = c \o d
  BY DEF Cat
<1>1. /\ Len(a) \in Nat /\ Len(b) \in Nat /\ Len(d) \in Nat
      /\ Len(a \o b) = Len(a) + Len(b) /\ Len(c \o d) = Len(c) + Len(d)
  BY ConcatProperties, LenProperties
<1>2. \A i \in 1 .. Len(a) + Len(b) : (a \o b)[i] = IF i <= Len(a) THEN a[i] ELSE b[i - Len(a)]
  BY ConcatProperties
<1>3. \A i \in 1 .. Len(c) + Len(d) : (c \o d)[i] = IF i <= Len(c) THEN c[i] ELSE d[i - Len(c)]
  BY ConcatProperties
<1>4. \A i \in 1 .. Len(a) : a[i] = c[i]
  <2> SUFFICES ASSUME NEW i \in 1 .. Len(a) PROVE a[i] = c[i]
    OBVIOUS
  <2>1. i \in 1 .. Len(a) + Len(b) /\ i \in 1 .. Len(c) + Len(d) /\ i <= Len(a) /\ i <= Len(c)
    BY <1>1
  <2>2. (a \o b)[i] = a[i] /\ (c \o d)[i] = c[i]
    BY <1>0, <1>2, <1>3, <2>1
  <2> QED BY <1>0, <2>2
<1>5. a = c
  BY <1>4, SeqEqual
<1>6. \A i \in 1 .. Len(b) : b[i] = d[i]
  <2> SUFFICES ASSUME NEW i \in 1 .. Len(b) PROVE b[i] = d[i]
    OBVIOUS
  <2> PICK k \in Nat : k = Len(a) + i
    BY <1>1
  <2>1. /\ k \in 1 .. Len(a) + Len(b) /\ k \in 1 .. Len(c) + Len(d)
        /\ ~(k <= Len(a)) /\ ~(k <= Len(c)) /\ k - Len(a) = i /\ k - Len(c) = i
    BY <1>0, <1>1
  <2>2. (a \o b)[k] = b[k - Len(a)] /\ (c \o d)[k] = d[k - Len(c)]
    BY <1>2, <1>3, <2>1, Zenon
  <2> QED BY <1>0, <2>1, <2>2, Zenon
<1>7. Len(b) = Len(d)
  BY <1>0, <1>1
<1>8. b = d
  BY <1>6, <1>7, SeqEqual
<1> QED BY <1>5, <1>8

-------------------------------------------------------------------------------
(* The frames ahead of the receiver.                                        *)

FramesAfter(s, n) == [i \in 1 .. Len(s) - n |-> Bytes(s[n + i])]
Ahead(s, n) == FlattenSeq(FramesAfter(s, n))

AllFramedIn(s) == s \in Seq(Frame) /\ \A i \in 1 .. Len(s) : Framed(s[i])

LEMMA FramesAfterType ==
  ASSUME NEW s, AllFramedIn(s), NEW n \in 0 .. Len(s)
  PROVE  FramesAfter(s, n) \in Seq(Seq(Byte)) /\ Len(FramesAfter(s, n)) = Len(s) - n
<1>1. Len(s) - n \in Nat
  BY DEF AllFramedIn
<1>2. ASSUME NEW i \in 1 .. Len(s) - n PROVE Bytes(s[n + i]) \in Seq(Byte)
  <2>1. n + i \in 1 .. Len(s)
    BY DEF AllFramedIn
  <2> QED BY <2>1, HeaderBytes DEF AllFramedIn
<1> QED BY <1>1, <1>2 DEF FramesAfter

LEMMA AheadType ==
  ASSUME NEW s, AllFramedIn(s), NEW n \in 0 .. Len(s)
  PROVE  Ahead(s, n) \in Seq(Byte)
<1>1. <<>> \in Seq(Byte)
  OBVIOUS
<1> QED BY <1>1, FramesAfterType, FlattenAppend DEF Ahead

LEMMA AheadEnd ==
  ASSUME NEW s, AllFramedIn(s)
  PROVE  Ahead(s, Len(s)) = <<>>
<1>1. Len(s) \in 0 .. Len(s) /\ Len(s) - Len(s) = 0
  BY DEF AllFramedIn
<1>2. FramesAfter(s, Len(s)) = <<>>
  BY <1>1, FramesAfterType
<1>3. FlattenSeq(<<>>) = <<>>
  BY DEF FlattenSeq
<1> QED BY <1>2, <1>3 DEF Ahead

LEMMA AheadFirst ==
  ASSUME NEW s, AllFramedIn(s), NEW n \in Nat, n < Len(s)
  PROVE  Ahead(s, n) = Bytes(s[n + 1]) \o Ahead(s, n + 1)
<1>0. n \in 0 .. Len(s) /\ n + 1 \in 0 .. Len(s) /\ Len(s) \in Nat
  BY DEF AllFramedIn
<1> PICK f \in Seq(Seq(Byte)) : f = FramesAfter(s, n) /\ Len(f) = Len(s) - n
  BY <1>0, FramesAfterType
<1> PICK g \in Seq(Seq(Byte)) : g = FramesAfter(s, n + 1) /\ Len(g) = Len(s) - (n + 1)
  BY <1>0, FramesAfterType
<1>1. f # <<>> /\ Len(Tail(f)) = Len(g) /\ Tail(f) \in Seq(Seq(Byte))
      /\ \A i \in 1 .. Len(g) : Tail(f)[i] = f[i + 1]
  BY <1>0
<1>2. \A i \in 1 .. Len(g) : f[i + 1] = g[i]
  <2> SUFFICES ASSUME NEW i \in 1 .. Len(g) PROVE f[i + 1] = g[i]
    OBVIOUS
  <2>1. /\ i + 1 \in 1 .. Len(s) - n /\ i \in 1 .. Len(s) - (n + 1)
        /\ n + (i + 1) = (n + 1) + i
    BY <1>0
  <2>2. f[i + 1] = Bytes(s[n + (i + 1)]) /\ g[i] = Bytes(s[(n + 1) + i])
    BY <2>1 DEF FramesAfter
  <2> QED BY <2>1, <2>2
<1>3. Tail(f) = g
  BY <1>1, <1>2, SeqEqual
<1>4. f[1] = Bytes(s[n + 1])
  <2>1. 1 \in 1 .. Len(s) - n
    BY <1>0
  <2> QED BY <2>1 DEF FramesAfter
<1>5. FlattenSeq(f) = f[1] \o FlattenSeq(Tail(f))
  BY <1>1, FlattenFirst
<1> QED BY <1>3, <1>4, <1>5 DEF Ahead

LEMMA AheadAppend ==
  ASSUME NEW s, AllFramedIn(s), NEW n \in 0 .. Len(s), NEW f, Framed(f)
  PROVE  AllFramedIn(Append(s, f)) /\ Ahead(Append(s, f), n) = Ahead(s, n) \o Bytes(f)
<1>0. f \in Frame /\ s \in Seq(Frame) /\ Len(s) \in Nat /\ Bytes(f) \in Seq(Byte)
  BY HeaderBytes DEF AllFramedIn, Framed
<1> PICK t \in Seq(Frame) : t = Append(s, f)
  BY <1>0, AppendProperties
<1>1. Len(t) = Len(s) + 1 /\ t[Len(s) + 1] = f /\ \A i \in 1 .. Len(s) : t[i] = s[i]
  BY <1>0, AppendProperties
<1>2. AllFramedIn(t)
  <2> SUFFICES ASSUME NEW i \in 1 .. Len(t) PROVE Framed(t[i])
    BY DEF AllFramedIn
  <2>1. i = Len(s) + 1 \/ i \in 1 .. Len(s)
    BY <1>0, <1>1
  <2> QED BY <1>1, <2>1 DEF AllFramedIn
<1> PICK a \in Seq(Seq(Byte)) : a = FramesAfter(s, n) /\ Len(a) = Len(s) - n
  BY FramesAfterType
<1> PICK b \in Seq(Seq(Byte)) : b = FramesAfter(t, n) /\ Len(b) = Len(t) - n
  <2>1. n \in 0 .. Len(t)
    BY <1>0, <1>1
  <2> QED BY <1>2, <2>1, FramesAfterType
<1> PICK x \in Seq(Byte) : x = Bytes(f)
  BY <1>0
<1>3. /\ Append(a, x) \in Seq(Seq(Byte)) /\ Len(Append(a, x)) = Len(a) + 1
      /\ Append(a, x)[Len(a) + 1] = x /\ \A i \in 1 .. Len(a) : Append(a, x)[i] = a[i]
  BY AppendProperties
<1>4. Len(b) = Len(a) + 1 /\ Len(a) \in Nat /\ Len(a) = Len(s) - n
  BY <1>0, <1>1
<1>5. \A i \in 1 .. Len(b) : b[i] = Append(a, x)[i]
  <2> SUFFICES ASSUME NEW i \in 1 .. Len(b) PROVE b[i] = Append(a, x)[i]
    OBVIOUS
  <2>1. b[i] = Bytes(t[n + i])
    <3>1. i \in 1 .. Len(t) - n
      OBVIOUS
    <3> QED BY <3>1 DEF FramesAfter
  <2>2. CASE i = Len(a) + 1
    <3>1. n + i = Len(s) + 1
      BY <1>0, <2>2
    <3> QED BY <1>1, <1>3, <2>1, <2>2, <3>1
  <2>3. CASE i # Len(a) + 1
    <3>0. n \in Nat /\ n <= Len(s) /\ i \in Nat /\ Len(a) = Len(s) - n /\ i <= Len(a) /\ i # 0
      <4>1. n \in 0 .. Len(s)
        OBVIOUS
      <4>2. i \in 1 .. Len(b)
        OBVIOUS
      <4>3. Len(a) \in Nat /\ Len(s) \in Nat /\ Len(b) = Len(a) + 1 /\ Len(a) = Len(s) - n
        BY <1>0, <1>4
      <4>4. ASSUME NEW la \in Nat, NEW ls \in Nat, NEW m \in 0 .. ls, la = ls - m,
                   NEW j \in 1 .. la + 1, j # la + 1
            PROVE  m \in Nat /\ m <= ls /\ j \in Nat /\ j <= la /\ j # 0
        BY ONLY <4>4
      <4> QED BY ONLY <2>3, <4>1, <4>2, <4>3, <4>4
    <3>1. i \in 1 .. Len(a) /\ i \in 1 .. Len(s) - n /\ n + i \in 1 .. Len(s)
      BY ONLY <1>0, <3>0
    <3>2. a[i] = Bytes(s[n + i])
      BY <3>1 DEF FramesAfter
    <3> QED BY <1>1, <1>3, <2>1, <3>1, <3>2
  <2> QED BY <2>2, <2>3
<1>6. b = Append(a, x)
  <2>1. b \in Seq(Seq(Byte)) /\ Append(a, x) \in Seq(Seq(Byte)) /\ Len(b) = Len(Append(a, x))
    BY <1>3, <1>4
  <2> QED BY ONLY <2>1, <1>5, SeqEqual
<1>7. FlattenSeq(Append(a, x)) = FlattenSeq(a) \o x
  BY FlattenAppend
<1> QED BY <1>2, <1>6, <1>7 DEF Ahead

-------------------------------------------------------------------------------
(* What the receiver sees of the frame it is at.                            *)

(* Six bytes at the head of the stream are the header of the next frame, and *)
(* what is behind them is its payload and the frames after it.              *)
LEMMA HeaderAhead ==
  ASSUME NEW s, AllFramedIn(s), NEW n \in 0 .. Len(s),
         NEW h \in Seq(Byte), Len(h) = HEADER_SIZE, NEW rest \in Seq(Byte),
         Ahead(s, n) = Cat(h, rest)
  PROVE  /\ n < Len(s) /\ n + 1 \in 1 .. Len(s) /\ n + 1 \in 0 .. Len(s)
         /\ h = HeaderOf(s[n + 1])
         /\ rest = Cat(s[n + 1].payload, Ahead(s, n + 1))
<1>0. Len(s) \in Nat /\ n \in Nat /\ n <= Len(s) /\ HEADER_SIZE = 6
  BY DEF AllFramedIn, HEADER_SIZE
<1>1. n # Len(s)
  <2>1. CASE n = Len(s)
    <3>1. h \o rest = <<>>
      BY <2>1, AheadEnd DEF Cat
    <3>2. Len(h \o rest) = Len(h) + Len(rest) /\ Len(rest) \in Nat
      BY ConcatProperties, LenProperties
    <3>3. Len(h \o rest) = 0
      BY <3>1
    <3> QED BY <1>0, <3>2, <3>3
  <2> QED BY <2>1
<1>2. n < Len(s) /\ n + 1 \in 1 .. Len(s) /\ n + 1 \in 0 .. Len(s)
  BY <1>0, <1>1
<1> PICK f : f = s[n + 1] /\ Framed(f)
  BY <1>2 DEF AllFramedIn
<1> PICK more \in Seq(Byte) : more = Ahead(s, n + 1)
  BY <1>2, AheadType
<1>3. Ahead(s, n) = Bytes(f) \o more
  BY <1>0, <1>2, AheadFirst
<1> PICK k \in Seq(Byte) : k = HeaderOf(f) /\ Len(k) = HEADER_SIZE
  BY HeaderBytes
<1> PICK p \in Seq(Byte) : p = f.payload
  BY HeaderBytes
<1>4. Bytes(f) = k \o p
  BY HeaderBytes
<1>5. Cat(p, more) \in Seq(Byte) /\ Cat(Cat(k, p), more) = Cat(k, Cat(p, more))
  <2>1. /\ \A u, v \in Seq(Byte) : Cat(u, v) \in Seq(Byte)
        /\ \A u, v, w \in Seq(Byte) : Cat(Cat(u, v), w) = Cat(u, Cat(v, w))
    BY CatFacts
  <2>2. k \in Seq(Byte) /\ p \in Seq(Byte) /\ more \in Seq(Byte)
    OBVIOUS
  <2> QED BY ONLY <2>1, <2>2
<1> PICK q \in Seq(Byte) : q = Cat(p, more)
  BY <1>5
<1>6. Cat(h, rest) = Cat(k, q)
  BY <1>3, <1>4, <1>5, Zenon DEF Cat
<1>7. h = k /\ rest = q
  <2>1. Len(h) = Len(k)
    OBVIOUS
  <2>2. h \in Seq(Byte) /\ k \in Seq(Byte) /\ rest \in Seq(Byte) /\ q \in Seq(Byte)
    OBVIOUS
  <2> QED BY ONLY <1>6, <2>1, <2>2, SameStart
<1> QED BY <1>2, <1>7

(* The header is refused exactly if the frame is not of the protocol.       *)
RefusedBy(h) ==
  \/ VersionOf(h[6]) # m_version
  \/ ntohl(h) > MAX_MESSAGE_SIZE
  \/ IsHeartbeat(h[6]) /\ ntohl(h) # 0
  \/ ~IsHeartbeat(h[6]) /\ h[5] = 0

LEMMA HeaderMeans ==
  ASSUME NEW f, Framed(f)
  PROVE  /\ f.length = ntohl(HeaderOf(f)) /\ f.type = HeaderOf(f)[5]
         /\ f.type \in Byte /\ f.payload \in Seq(Byte) /\ Len(f.payload) \in Nat
         /\ f.length \in Nat
         /\ RefusedBy(HeaderOf(f)) <=> Kind(f) = "invalid"
         /\ ~RefusedBy(HeaderOf(f)) =>
              /\ Len(f.payload) = f.length /\ f.length <= MAX_MESSAGE_SIZE
              /\ f.length = 0 => f.payload = <<>>
              /\ IsHeartbeat(HeaderOf(f)[6]) => f.length = 0 /\ Kind(f) = "heartbeat"
              /\ ~IsHeartbeat(HeaderOf(f)[6]) => Kind(f) = "message"
<1> PICK h : h = HeaderOf(f)
  OBVIOUS
<1>1. /\ ntohl(h) = f.length /\ h[5] = f.type /\ h[6] = f.flags
      /\ f.payload \in Seq(Byte)
  BY HeaderBytes
<1>2. f.length \in Nat /\ f.type \in Byte /\ MAX_MESSAGE_SIZE \in Nat
  BY PMuxFramingAssumption DEF Framed, Frame
<1>3. RefusedBy(h) <=> Kind(f) = "invalid"
  BY <1>1 DEF RefusedBy, Kind, VersionOf, IsHeartbeat
<1>4. Len(f.payload) \in Nat
  BY <1>1, LenProperties
<1>5. ASSUME ~RefusedBy(h)
      PROVE  /\ Len(f.payload) = f.length /\ f.length <= MAX_MESSAGE_SIZE
             /\ f.length = 0 => f.payload = <<>>
             /\ IsHeartbeat(h[6]) => f.length = 0 /\ Kind(f) = "heartbeat"
             /\ ~IsHeartbeat(h[6]) => Kind(f) = "message"
  <2>1. Len(f.payload) = f.length
    BY <1>3, <1>5 DEF Framed
  <2>2. f.length = 0 => f.payload = <<>>
    BY <1>1, <2>1, EmptySeq
  <2>3. f.length <= MAX_MESSAGE_SIZE
    BY <1>1, <1>2, <1>5 DEF RefusedBy
  <2>4. IsHeartbeat(h[6]) => f.length = 0
    BY <1>1, <1>5 DEF RefusedBy
  <2>5. IF IsHeartbeat(h[6]) THEN Kind(f) = "heartbeat" ELSE Kind(f) = "message"
    BY <1>1, <1>3, <1>5 DEF Kind, IsHeartbeat
  <2> QED BY <2>1, <2>2, <2>3, <2>4, <2>5
<1> QED BY <1>1, <1>2, <1>3, <1>4, <1>5

LEMMA BackPart ==
  ASSUME NEW S, NEW d \in Seq(S), NEW c \in Nat, c <= Len(d),
         NEW r, r = SubSeq(d, c + 1, Len(d))
  PROVE  /\ r \in Seq(S) /\ Len(r) = Len(d) - c
         /\ \A i \in 1 .. Len(d) - c : r[i] = d[c + i]
<1>1. r \in Seq(S)
  OBVIOUS
<1>2. Len(r) = Len(d) - c
  OBVIOUS
<1>3. \A i \in 1 .. Len(d) - c : r[i] = d[c + i]
  OBVIOUS
<1> QED BY <1>1, <1>2, <1>3

LEMMA PutTogether ==
  ASSUME NEW S, NEW m \in Nat, NEW c \in Nat, c <= m,
         NEW d \in Seq(S), Len(d) = m,
         NEW t \in Seq(S), Len(t) = c, \A i \in 1 .. c : t[i] = d[i],
         NEW r \in Seq(S), Len(r) = m - c, \A i \in 1 .. m - c : r[i] = d[c + i]
  PROVE  Joins(t, r, d)
<1>1. t \o r \in Seq(S) /\ Len(t \o r) = Len(t) + Len(r)
  BY ConcatProperties
<1>2. \A i \in 1 .. Len(t) + Len(r) : (t \o r)[i] = IF i <= Len(t) THEN t[i] ELSE r[i - Len(t)]
  BY ConcatProperties
<1>3. Len(t) + Len(r) = m
  OBVIOUS
<1>4. \A i \in 1 .. m : (t \o r)[i] = d[i]
  <2> SUFFICES ASSUME NEW i \in 1 .. m PROVE (t \o r)[i] = d[i]
    OBVIOUS
  <2>1. (t \o r)[i] = IF i <= c THEN t[i] ELSE r[i - c]
    BY <1>2, <1>3, Zenon
  <2>2. CASE i <= c
    <3>1. i \in 1 .. c
      BY <2>2
    <3> QED BY <2>1, <2>2, <3>1, Zenon
  <2>3. CASE ~(i <= c)
    <3>1. i - c \in 1 .. m - c /\ c + (i - c) = i
      BY <2>3
    <3> QED BY <2>1, <2>3, <3>1, Zenon
  <2> QED BY <2>2, <2>3
<1>5. d \in Seq(S) /\ t \o r \in Seq(S) /\ Len(t \o r) = m /\ Len(d) = m
  BY <1>1, <1>3
<1>6. d = t \o r
  BY ONLY <1>4, <1>5, SeqEqual
<1> QED BY <1>6, Zenon DEF Joins

Cut(d, c, t, r) == t = SubSeq(d, 1, c) /\ r = SubSeq(d, c + 1, Len(d))

LEMMA CutInTwo ==
  ASSUME NEW S, NEW d \in Seq(S), NEW c \in Nat, c <= Len(d), NEW t, NEW r, Cut(d, c, t, r)
  PROVE  t \in Seq(S) /\ Len(t) = c /\ r \in Seq(S) /\ Len(r) = Len(d) - c /\ Joins(t, r, d)
<1>0. d \in Seq(S) /\ c \in Nat /\ c <= Len(d) /\ Len(d) \in Nat
  OBVIOUS
<1>1. t \in Seq(S) /\ Len(t) = c /\ \A i \in 1 .. c : t[i] = d[i]
  BY DEF Cut
<1>2. r \in Seq(S) /\ Len(r) = Len(d) - c /\ \A i \in 1 .. Len(d) - c : r[i] = d[c + i]
  BY BackPart DEF Cut
<1>3. Joins(t, r, d)
  <2> PICK m \in Nat : m = Len(d)
    OBVIOUS
  <2>1. /\ m \in Nat /\ c <= m /\ Len(d) = m /\ Len(r) = m - c
        /\ \A i \in 1 .. m - c : r[i] = d[c + i]
    BY <1>0, <1>2
  <2>2. /\ d \in Seq(S) /\ t \in Seq(S) /\ r \in Seq(S) /\ Len(t) = c /\ c \in Nat
        /\ \A i \in 1 .. c : t[i] = d[i]
    BY <1>0, <1>1, <1>2
  <2> QED BY ONLY <2>1, <2>2, PutTogether
<1> QED BY <1>1, <1>2, <1>3

(* A chunk is cut in two, and nothing of it is lost.                        *)
LEMMA TakeSplits ==
  ASSUME data \in Seq(Byte), NEW filled \in Seq(Byte), NEW required \in Nat,
         Len(filled) <= required
  PROVE  /\ Take(filled, required) \in Seq(Byte)
         /\ Cat(filled, Take(filled, required)) \in Seq(Byte)
         /\ Len(Cat(filled, Take(filled, required))) <= required
         /\ RestAfter(Take(filled, required)) \in Seq(Byte)
         /\ Len(RestAfter(Take(filled, required))) <= Len(data)
         /\ Joins(Take(filled, required), RestAfter(Take(filled, required)), data)
<1> PICK d \in Seq(Byte) : d = data
  OBVIOUS
<1> PICK m \in Nat : m = Len(d)
  OBVIOUS
<1> PICK k \in Nat : k = required - Len(filled)
  OBVIOUS
<1> PICK c \in 0 .. m : c = (IF k > m THEN m ELSE k)
  OBVIOUS
<1> PICK t : t = Take(filled, required)
  OBVIOUS
<1> PICK r : r = RestAfter(t)
  OBVIOUS
<1>1. t = SubSeq(d, 1, c)
  BY DEF Take
<1>2. Len(t) = c
  BY <1>1
<1>3. Cut(d, c, t, r) /\ c \in Nat /\ c <= Len(d)
  <2>1. r = SubSeq(d, c + 1, Len(d))
    BY <1>2, Zenon DEF RestAfter
  <2>2. c \in Nat /\ c <= Len(d)
    OBVIOUS
  <2> QED BY <1>1, <2>1, <2>2, Zenon DEF Cut
<1>4. t \in Seq(Byte) /\ r \in Seq(Byte) /\ Len(r) = m - c /\ Joins(t, r, d)
  <2>0. d \in Seq(Byte)
    OBVIOUS
  <2>1. m = Len(d)
    OBVIOUS
  <2>2. t \in Seq(Byte) /\ r \in Seq(Byte) /\ Len(r) = Len(d) - c /\ Joins(t, r, d)
    BY ONLY <1>3, <2>0, CutInTwo
  <2> QED BY <2>1, <2>2, Zenon
<1>5. /\ filled \o t \in Seq(Byte) /\ Len(filled \o t) = Len(filled) + Len(t)
  BY <1>4, ConcatProperties
<1>6. Len(filled) \in Nat /\ c <= k
  BY LenProperties
<1>7. Len(filled \o t) <= required /\ Len(r) <= Len(d)
  <2>1. k = required - Len(filled) /\ Len(d) = m /\ c \in 0 .. m /\ required \in Nat /\ m \in Nat
    OBVIOUS
  <2> QED BY ONLY <1>2, <1>4, <1>5, <1>6, <2>1
<1>8. filled \o t = Cat(filled, t)
  BY Zenon DEF Cat
<1> QED BY <1>4, <1>5, <1>7, <1>8

-------------------------------------------------------------------------------
(* The steps.                                                               *)

At(s, n, h, p, d, w) == Ahead(s, n) = Stream4(h, p, d, w)

LEMMA Shape ==
  ASSUME NEW s, NEW n, NEW h \in Seq(Byte), NEW p \in Seq(Byte), NEW d \in Seq(Byte),
         NEW w \in Seq(Byte)
  PROVE  FlattenSeq([i \in 1 .. Len(s) - n |-> Bytes(s[n + i])]) = h \o p \o d \o w
           <=> At(s, n, h, p, d, w)
<1>1. Four(h, p, d, w) = Stream4(h, p, d, w)
  BY FourBehind
<1> QED BY <1>1, Zenon DEF Four, At, Ahead, FramesAfter

LEMMA Position ==
  ASSUME IInv
  PROVE  /\ AllFramedIn(sent) /\ taken \in 0 .. Len(sent) /\ Filled \in Seq(Byte)
         /\ header \in Seq(Byte) /\ payload \in Seq(Byte)
         /\ data \in Seq(Byte) /\ wire \in Seq(Byte)
         /\ ~closed => At(sent, taken, header, Filled, data, wire)
<1>1. /\ AllFramedIn(sent) /\ taken \in 0 .. Len(sent)
      /\ header \in Seq(Byte) /\ payload \in Seq(Byte)
      /\ data \in Seq(Byte) /\ wire \in Seq(Byte)
  BY DEF IInv, TypeOK, AllFramed, AllFramedIn
<1>2. Filled \in Seq(Byte)
  BY <1>1 DEF Filled
<1>3. ASSUME ~closed PROVE At(sent, taken, header, Filled, data, wire)
  <2>1. FlattenSeq([i \in 1 .. Len(sent) - taken |-> Bytes(sent[taken + i])])
          = header \o Filled \o data \o wire
    BY <1>3, Zenon DEF IInv, InStep, Filled
  <2> QED BY <1>1, <1>2, <2>1, Shape
<1> QED BY <1>1, <1>2, <1>3

LEMMA InStepHolds ==
  ASSUME header' \in Seq(Byte), Filled' \in Seq(Byte), data' \in Seq(Byte),
         wire' \in Seq(Byte),
         ~closed' => At(sent', taken', header', Filled', data', wire')
  PROVE  InStep'
<1>1. ASSUME ~closed'
      PROVE  FlattenSeq([i \in 1 .. Len(sent') - taken' |-> Bytes(sent'[taken' + i])])
               = header' \o Filled' \o data' \o wire'
  <2>1. header' \o Filled' \o data' \o wire' = Stream4(header', Filled', data', wire')
    <3>1. Four(header', Filled', data', wire') = Stream4(header', Filled', data', wire')
      BY FourBehind
    <3> QED BY <3>1, Zenon DEF Four
  <2>2. Ahead(sent', taken') = Stream4(header', Filled', data', wire')
    BY <1>1 DEF At
  <2>3. FlattenSeq([i \in 1 .. Len(sent') - taken' |-> Bytes(sent'[taken' + i])])
          = Ahead(sent', taken')
    BY Zenon DEF Ahead, FramesAfter
  <2> QED BY <2>1, <2>2, <2>3, Zenon
<1> QED BY <1>1, Zenon DEF InStep, Filled

LEMMA InitHolds == Init => IInv
<1> SUFFICES ASSUME Init PROVE IInv
  OBVIOUS
<1>0. <<>> \in Seq(Byte) /\ Len(<<>>) = 0 /\ <<>> \in Seq(Frame)
      /\ <<>> \in Seq([type : Byte, payload : Seq(Byte)])
  OBVIOUS
<1>1. TypeOK
  <2>1. wire = <<>> /\ data = <<>> /\ sent = <<>> /\ header = <<>> /\ payload = <<>>
        /\ state = "READING_HEADER" /\ closed = FALSE /\ taken = 0 /\ delivered = <<>>
    BY DEF Init
  <2>2. /\ 0 <= INCOMING_BUFFER_SIZE /\ 0 <= MAX_MESSAGE_SIZE /\ 0 <= MaxFrames
        /\ 0 <= HEADER_SIZE /\ 0 \in 0 .. 0 /\ FALSE \in BOOLEAN
    BY PMuxFramingAssumption DEF HEADER_SIZE
  <2> QED BY <1>0, <2>1, <2>2, Zenon DEF TypeOK
<1>2. AllFramed /\ Reading /\ Dropped
  BY <1>0 DEF Init, AllFramed, Reading, Dropped, HEADER_SIZE
<1>3. InStep
  <2>1. FlattenSeq([i \in 1 .. Len(<<>>) - 0 |-> Bytes(<<>>[0 + i])]) = <<>>
    <3>1. AllFramedIn(<<>>)
      BY <1>0 DEF AllFramedIn
    <3>2. Ahead(<<>>, 0) = <<>>
      BY <1>0, <3>1, AheadEnd
    <3> QED BY <3>2, Zenon DEF Ahead, FramesAfter
  <2>2. <<>> \o <<>> \o <<>> \o <<>> = <<>>
    <3>1. <<>> \o <<>> = <<>>
      BY <1>0, ConcatEmptySeq
    <3> QED BY <3>1, Zenon
  <2>3. header = <<>> /\ sent = <<>> /\ taken = 0 /\ data = <<>> /\ wire = <<>>
        /\ (IF state = "READING_PAYLOAD" THEN payload ELSE <<>>) = <<>>
    BY DEF Init
  <2> QED BY <2>1, <2>2, <2>3, Zenon DEF InStep
<1> QED BY <1>1, <1>2, <1>3 DEF IInv

(* A frame is added to what has been sent, and its bytes to the stream.     *)
LEMMA PutHolds ==
  ASSUME IInv, NEW frame, Framed(frame), Put(frame)
  PROVE  IInv'
<1> USE Position
<1>0. /\ sent' = Append(sent, frame) /\ wire' = wire \o Bytes(frame)
      /\ UNCHANGED <<data, state, header, payload, closed, taken, delivered>>
      /\ Len(sent) < MaxFrames
  BY DEF Put, receiver_vars
<1>1. Bytes(frame) \in Seq(Byte) /\ frame \in Frame
  BY HeaderBytes DEF Framed
<1>2. /\ AllFramedIn(sent')
      /\ Ahead(sent', taken) = Ahead(sent, taken) \o Bytes(frame)
  BY <1>0, AheadAppend
<1>3. /\ sent' \in Seq(Frame) /\ Len(sent') = Len(sent) + 1 /\ Len(sent) \in Nat
      /\ \A i \in 1 .. Len(sent) : sent'[i] = sent[i]
  BY <1>0, <1>1, AppendProperties, LenProperties DEF AllFramedIn
<1>4. wire' \in Seq(Byte)
  BY <1>0, <1>1, ConcatProperties
<1>5. TypeOK'
  <2>1. taken' \in 0 .. Len(sent') /\ Len(sent') <= MaxFrames
    BY <1>0, <1>3, PMuxFramingAssumption
  <2> QED BY <1>0, <1>3, <1>4, <2>1 DEF IInv, TypeOK
<1>6. AllFramed'
  BY <1>2 DEF AllFramed, AllFramedIn
<1>7. Reading'
  BY <1>0 DEF IInv, Reading
<1>8. Dropped'
  <2> SUFFICES ASSUME closed' PROVE
        /\ taken' < Len(sent') /\ Kind(sent'[taken' + 1]) = "invalid"
        /\ data' = <<>> /\ state' = "READING_HEADER"
    BY DEF Dropped
  <2>1. /\ taken < Len(sent) /\ Kind(sent[taken + 1]) = "invalid"
        /\ data = <<>> /\ state = "READING_HEADER"
    BY <1>0 DEF IInv, Dropped
  <2>2. taken + 1 \in 1 .. Len(sent) /\ taken < Len(sent')
    BY <1>3, <2>1
  <2>3. sent'[taken + 1] = sent[taken + 1]
    BY <1>3, <2>2
  <2> QED BY <1>0, <2>1, <2>2, <2>3
<1>9. InStep'
  <2>1. Filled' = Filled
    BY <1>0 DEF Filled
  <2>2. ASSUME ~closed PROVE At(sent', taken', header', Filled', data', wire')
    <3>1. Ahead(sent, taken) = Stream4(header, Filled, data, wire)
      BY <2>2 DEF At
    <3>2. Stream4(header, Filled, data, wire \o Bytes(frame))
            = Stream4(header, Filled, data, wire) \o Bytes(frame)
      <4>1. Stream4(header, Filled, data, Cat(wire, Bytes(frame)))
              = Cat(Stream4(header, Filled, data, wire), Bytes(frame))
        BY <1>1, StreamLonger
      <4> QED BY <4>1, Zenon DEF Cat
    <3>3. Ahead(sent', taken') = Stream4(header, Filled, data, wire \o Bytes(frame))
      BY <1>0, <1>2, <3>1, <3>2, Zenon
    <3> QED BY <1>0, <2>1, <3>3, Zenon DEF At
  <2>3. /\ header' \in Seq(Byte) /\ Filled' \in Seq(Byte) /\ data' \in Seq(Byte)
        /\ wire' \in Seq(Byte) /\ closed' = closed
    BY <1>0, <1>4, <2>1
  <2> QED BY <2>2, <2>3, InStepHolds
<1> QED BY <1>5, <1>6, <1>7, <1>8, <1>9 DEF IInv

(* The socket moves bytes from the stream to the chunk.                     *)
LEMMA GotDataHolds ==
  ASSUME IInv, NEW n \in 1 .. INCOMING_BUFFER_SIZE, n <= Len(wire), GotData(n)
  PROVE  IInv'
<1> USE Position
<1>0. /\ data = <<>> /\ ~closed
      /\ data' = SubSeq(wire, 1, n) /\ wire' = SubSeq(wire, n + 1, Len(wire))
      /\ UNCHANGED <<sent, state, header, payload, closed, taken, delivered>>
      /\ n \in Nat /\ n <= INCOMING_BUFFER_SIZE
  BY PMuxFramingAssumption DEF GotData, receiver_vars
<1>1. data' \in Seq(Byte) /\ wire' \in Seq(Byte) /\ Len(data') = n /\ Joins(data', wire', wire)
  <2>1. Cut(wire, n, data', wire')
    BY <1>0 DEF Cut
  <2>2. wire \in Seq(Byte) /\ n \in Nat /\ n <= Len(wire)
    BY <1>0
  <2> QED BY ONLY <2>1, <2>2, CutInTwo
<1>2. TypeOK'
  BY <1>0, <1>1 DEF IInv, TypeOK
<1>3. AllFramed' /\ Reading' /\ Dropped'
  BY <1>0 DEF IInv, AllFramed, Reading, Dropped
<1>4. InStep'
  <2>1. Filled' = Filled
    BY <1>0 DEF Filled
  <2>2. Stream4(header, Filled, <<>>, wire) = Stream4(header, Filled, data', wire')
    <3>1. /\ header \in Seq(Byte) /\ Filled \in Seq(Byte) /\ <<>> \in Seq(Byte)
          /\ data' \in Seq(Byte) /\ wire' \in Seq(Byte) /\ wire \in Seq(Byte)
      BY <1>1
    <3>2. Joins(data', wire', wire)
      BY <1>1, Zenon DEF Joins
    <3> QED BY ONLY <3>1, <3>2, StreamRead
  <2>3. At(sent', taken', header', Filled', data', wire')
    BY <1>0, <2>1, <2>2, Zenon DEF At
  <2>4. header' \in Seq(Byte) /\ Filled' \in Seq(Byte)
    BY <1>0, <2>1
  <2> QED BY <1>1, <2>3, <2>4, InStepHolds
<1> QED BY <1>2, <1>3, <1>4 DEF IInv

(* What an iteration that reads header bytes finds.                         *)
LEMMA ReadingHeader ==
  ASSUME IInv, ReadHeader
  PROVE  /\ ~closed /\ Filled = <<>> /\ <<>> \in Seq(Byte)
         /\ Header \in Seq(Byte) /\ Len(Header) <= HEADER_SIZE
         /\ RestAfter(Take(header, HEADER_SIZE)) \in Seq(Byte)
         /\ Len(RestAfter(Take(header, HEADER_SIZE))) <= INCOMING_BUFFER_SIZE
         /\ At(sent, taken, Header, <<>>, RestAfter(Take(header, HEADER_SIZE)), wire)
<1> PICK t : t = Take(header, HEADER_SIZE)
  OBVIOUS
<1> PICK r : r = RestAfter(t)
  OBVIOUS
<1>1. state = "READING_HEADER" /\ data # <<>>
  BY DEF ReadHeader
<1>2. ~closed /\ Filled = <<>> /\ <<>> \in Seq(Byte)
  BY <1>1 DEF IInv, Dropped, Filled
<1>3. /\ data \in Seq(Byte) /\ header \in Seq(Byte) /\ Len(header) <= HEADER_SIZE
      /\ Len(data) <= INCOMING_BUFFER_SIZE /\ HEADER_SIZE \in Nat /\ wire \in Seq(Byte)
  BY DEF IInv, TypeOK, HEADER_SIZE
<1>4. /\ t \in Seq(Byte) /\ Cat(header, t) \in Seq(Byte)
      /\ Len(Cat(header, t)) <= HEADER_SIZE
      /\ r \in Seq(Byte) /\ Len(r) <= Len(data) /\ Joins(t, r, data)
  BY <1>3, TakeSplits
<1>5. Header = Cat(header, t)
  BY Zenon DEF Header, Cat
<1>6. Len(r) <= INCOMING_BUFFER_SIZE
  <2>1. Len(r) \in Nat /\ Len(data) \in Nat /\ INCOMING_BUFFER_SIZE \in Nat
    BY <1>3, <1>4, LenProperties, PMuxFramingAssumption
  <2> QED BY <1>3, <1>4, <2>1
<1>7. At(sent, taken, header, <<>>, data, wire)
  BY <1>2, Position
<1>8. Stream4(Cat(header, t), <<>>, r, wire) = Stream4(header, <<>>, data, wire)
  BY ONLY <1>2, <1>3, <1>4, StreamRead
<1>9. At(sent, taken, Header, <<>>, r, wire)
  BY <1>5, <1>7, <1>8, Zenon DEF At
<1> QED BY <1>2, <1>4, <1>5, <1>6, <1>9

(* With the header complete it is that of the next frame.                   *)
LEMMA HeaderIs ==
  ASSUME IInv, HeaderComplete
  PROVE  /\ ReadHeader /\ ~closed /\ Len(Header) = HEADER_SIZE
         /\ taken < Len(sent) /\ taken + 1 \in 0 .. Len(sent) /\ taken + 1 \in 1 .. Len(sent)
         /\ Framed(sent[taken + 1]) /\ Header = HeaderOf(sent[taken + 1])
         /\ Refused <=> RefusedBy(Header)
         /\ Cat(RestAfter(Take(header, HEADER_SIZE)), wire)
              = Cat(sent[taken + 1].payload, Ahead(sent, taken + 1))
<1> PICK r : r = RestAfter(Take(header, HEADER_SIZE))
  OBVIOUS
<1> PICK h : h = Header
  OBVIOUS
<1>1. ReadHeader /\ Len(h) >= HEADER_SIZE
  BY DEF HeaderComplete
<1>2. /\ ~closed /\ h \in Seq(Byte) /\ Len(h) <= HEADER_SIZE /\ r \in Seq(Byte)
      /\ At(sent, taken, h, <<>>, r, wire)
  BY <1>1, ReadingHeader
<1>3. Len(h) = HEADER_SIZE
  <2>1. Len(h) \in Nat /\ HEADER_SIZE \in Nat
    BY <1>2, LenProperties DEF HEADER_SIZE
  <2> QED BY <1>1, <1>2, <2>1
<1>4. wire \in Seq(Byte) /\ AllFramedIn(sent) /\ taken \in 0 .. Len(sent)
  BY Position
<1>5. Cat(r, wire) \in Seq(Byte) /\ Cat(<<>>, Cat(r, wire)) = Cat(r, wire)
  <2>1. /\ \A u, v \in Seq(Byte) : Cat(u, v) \in Seq(Byte)
        /\ \A u \in Seq(Byte) : Cat(<<>>, u) = u
    BY CatFacts
  <2> QED BY ONLY <1>2, <1>4, <2>1
<1>6. Ahead(sent, taken) = Cat(h, Cat(r, wire))
  BY <1>2, <1>5, Zenon DEF At, Stream4
<1>7. /\ taken < Len(sent) /\ taken + 1 \in 1 .. Len(sent) /\ taken + 1 \in 0 .. Len(sent)
      /\ h = HeaderOf(sent[taken + 1])
      /\ Cat(r, wire) = Cat(sent[taken + 1].payload, Ahead(sent, taken + 1))
  <2> PICK rest \in Seq(Byte) : rest = Cat(r, wire)
    BY <1>5
  <2>1. Ahead(sent, taken) = Cat(h, rest)
    BY <1>6
  <2> QED BY <1>2, <1>3, <1>4, <2>1, HeaderAhead
<1>8. Framed(sent[taken + 1])
  BY <1>4, <1>7 DEF AllFramedIn
<1>9. Refused <=> RefusedBy(h)
  BY Zenon DEF Refused, RefusedBy, flags, length, type
<1> QED BY <1>1, <1>2, <1>3, <1>7, <1>8, <1>9

(* A frame without a payload is done with once its header is.               *)
LEMMA NoPayload ==
  ASSUME IInv, HeaderComplete, sent[taken + 1].payload = <<>>
  PROVE  At(sent, taken + 1, <<>>, <<>>, RestAfter(Take(header, HEADER_SIZE)), wire)
<1> PICK r : r = RestAfter(Take(header, HEADER_SIZE))
  OBVIOUS
<1>1. /\ Cat(r, wire) = Cat(<<>>, Ahead(sent, taken + 1)) /\ taken + 1 \in 0 .. Len(sent)
      /\ ReadHeader
  BY HeaderIs
<1>2. wire \in Seq(Byte) /\ AllFramedIn(sent) /\ r \in Seq(Byte)
  BY <1>1, Position, ReadingHeader
<1>3. Ahead(sent, taken + 1) \in Seq(Byte)
  BY <1>1, <1>2, AheadType
<1>4. Ahead(sent, taken + 1) = Cat(<<>>, Cat(<<>>, Cat(r, wire)))
  <2>1. /\ \A u, v \in Seq(Byte) : Cat(u, v) \in Seq(Byte)
        /\ \A u \in Seq(Byte) : Cat(<<>>, u) = u
    BY CatFacts
  <2> QED BY ONLY <1>1, <1>2, <1>3, <2>1
<1> QED BY <1>4, Zenon DEF At, Stream4

LEMMA HeaderIncompleteHolds ==
  ASSUME IInv, HeaderIncomplete
  PROVE  IInv'
<1> PICK r : r = RestAfter(Take(header, HEADER_SIZE))
  OBVIOUS
<1>1. /\ ReadHeader /\ Len(Header) < HEADER_SIZE /\ header' = Header /\ data' = r
      /\ UNCHANGED <<wire, sent, state, payload, closed, taken, delivered>>
      /\ state = "READING_HEADER"
  BY DEF HeaderIncomplete, ReadHeader
<1>2. /\ ~closed /\ <<>> \in Seq(Byte)
      /\ Header \in Seq(Byte) /\ Len(Header) <= HEADER_SIZE
      /\ r \in Seq(Byte) /\ Len(r) <= INCOMING_BUFFER_SIZE
      /\ At(sent, taken, Header, <<>>, r, wire)
  BY <1>1, ReadingHeader
<1>3. TypeOK'
  BY <1>1, <1>2 DEF IInv, TypeOK
<1>4. AllFramed' /\ Reading' /\ Dropped'
  BY <1>1, <1>2 DEF IInv, AllFramed, Reading, Dropped
<1>5. InStep'
  <2>1. Filled' = <<>>
    BY <1>1 DEF Filled
  <2>2. /\ header' \in Seq(Byte) /\ Filled' \in Seq(Byte) /\ data' \in Seq(Byte)
        /\ wire' \in Seq(Byte)
    BY <1>1, <1>2, <2>1, Position
  <2>3. At(sent', taken', header', Filled', data', wire')
    BY <1>1, <1>2, <2>1
  <2> QED BY <2>2, <2>3, InStepHolds
<1> QED BY <1>3, <1>4, <1>5 DEF IInv

(* The connection is dropped at a frame that is not of the protocol.        *)
LEMMA ProtocolErrorHolds ==
  ASSUME IInv, ProtocolError
  PROVE  /\ IInv'
         /\ ~closed /\ taken < Len(sent) /\ Kind(sent[taken + 1]) = "invalid"
<1>1. /\ HeaderComplete /\ Refused /\ header' = Header /\ closed' = TRUE /\ data' = <<>>
      /\ UNCHANGED <<wire, sent, state, payload, taken, delivered>>
      /\ state = "READING_HEADER"
  BY DEF ProtocolError, HeaderComplete, ReadHeader
<1>2. /\ ReadHeader /\ ~closed /\ Len(Header) = HEADER_SIZE
      /\ taken < Len(sent) /\ taken + 1 \in 1 .. Len(sent)
      /\ Framed(sent[taken + 1]) /\ Header = HeaderOf(sent[taken + 1])
      /\ RefusedBy(Header)
  BY <1>1, HeaderIs
<1>3. Kind(sent[taken + 1]) = "invalid"
  BY <1>2, HeaderMeans
<1>4. /\ Header \in Seq(Byte) /\ <<>> \in Seq(Byte) /\ Len(<<>>) = 0
      /\ Len(Header) <= HEADER_SIZE /\ 0 <= INCOMING_BUFFER_SIZE
  BY <1>2, ReadingHeader, PMuxFramingAssumption
<1>5. TypeOK'
  <2>1. data' \in Seq(Byte) /\ Len(data') <= INCOMING_BUFFER_SIZE /\ closed' \in BOOLEAN
    BY <1>1, <1>4
  <2> QED BY <1>1, <1>4, <2>1 DEF IInv, TypeOK
<1>6. AllFramed' /\ Reading' /\ Dropped'
  BY <1>1, <1>2, <1>3 DEF IInv, AllFramed, Reading, Dropped
<1>7. InStep'
  BY <1>1 DEF InStep
<1> QED BY <1>2, <1>3, <1>5, <1>6, <1>7 DEF IInv

(* A frame that was all header is finished: the receiver stands at the next *)
(* one with nothing of it read.                                             *)
LEMMA FinishedByHeader ==
  ASSUME IInv, HeaderComplete, header' = <<>>, taken' = taken + 1,
         data' = RestAfter(Take(header, HEADER_SIZE)),
         UNCHANGED <<wire, sent, state, payload, closed>>,
         sent[taken + 1].payload = <<>>,
         delivered' \in Seq([type : Byte, payload : Seq(Byte)])
  PROVE  IInv'
<1> PICK r : r = RestAfter(Take(header, HEADER_SIZE))
  OBVIOUS
<1>1. ReadHeader /\ state = "READING_HEADER" /\ ~closed /\ taken + 1 \in 0 .. Len(sent)
  BY HeaderIs DEF ReadHeader
<1>2. /\ <<>> \in Seq(Byte) /\ Len(<<>>) = 0 /\ r \in Seq(Byte)
      /\ Len(r) <= INCOMING_BUFFER_SIZE
  BY <1>1, ReadingHeader
<1>3. At(sent, taken + 1, <<>>, <<>>, r, wire)
  BY NoPayload
<1>4. TypeOK'
  <2>1. header' \in Seq(Byte) /\ Len(header') <= HEADER_SIZE
    BY <1>2 DEF HEADER_SIZE
  <2> QED BY <1>1, <1>2, <2>1 DEF IInv, TypeOK
<1>5. AllFramed' /\ Reading' /\ Dropped'
  <2>1. Len(header') < HEADER_SIZE
    BY <1>2 DEF HEADER_SIZE
  <2> QED BY <1>1, <2>1 DEF IInv, AllFramed, Reading, Dropped
<1>6. InStep'
  <2>1. Filled' = <<>>
    BY <1>1 DEF Filled
  <2>2. /\ header' \in Seq(Byte) /\ Filled' \in Seq(Byte) /\ data' \in Seq(Byte)
        /\ wire' \in Seq(Byte)
    BY <1>2, <2>1, Position
  <2>3. At(sent', taken', header', Filled', data', wire')
    BY <1>3, <2>1
  <2> QED BY <2>2, <2>3, InStepHolds
<1> QED BY <1>4, <1>5, <1>6 DEF IInv

LEMMA HandleHeartbeatHolds ==
  ASSUME IInv, HandleHeartbeat
  PROVE  /\ IInv'
         /\ ~closed /\ taken < Len(sent) /\ Kind(sent[taken + 1]) = "heartbeat"
<1>1. /\ HeaderComplete /\ ~Refused /\ IsHeartbeat(flags)
      /\ header' = <<>> /\ taken' = taken + 1
      /\ data' = RestAfter(Take(header, HEADER_SIZE))
      /\ UNCHANGED <<wire, sent, state, payload, closed, delivered>>
  BY DEF HandleHeartbeat, ResetHeader, HeaderComplete, ReadHeader
<1>2. /\ ~closed /\ taken < Len(sent) /\ Framed(sent[taken + 1])
      /\ Header = HeaderOf(sent[taken + 1]) /\ ~RefusedBy(Header)
  BY <1>1, HeaderIs
<1>3. IsHeartbeat(Header[6])
  BY <1>1 DEF flags
<1>4. sent[taken + 1].payload = <<>> /\ Kind(sent[taken + 1]) = "heartbeat"
  BY <1>2, <1>3, HeaderMeans
<1>5. delivered' \in Seq([type : Byte, payload : Seq(Byte)])
  BY <1>1 DEF IInv, TypeOK
<1>6. IInv'
  BY <1>1, <1>4, <1>5, FinishedByHeader
<1> QED BY <1>2, <1>4, <1>6

LEMMA EmptyMessageHolds ==
  ASSUME IInv, EmptyMessage
  PROVE  /\ IInv'
         /\ ~closed /\ taken < Len(sent) /\ Kind(sent[taken + 1]) = "message"
         /\ sent[taken + 1].type = type /\ sent[taken + 1].payload = <<>>
<1>1. /\ HeaderComplete /\ ~Refused /\ ~IsHeartbeat(flags) /\ length = 0
      /\ header' = <<>> /\ taken' = taken + 1
      /\ delivered' = Append(delivered, [type |-> type, payload |-> <<>>])
      /\ data' = RestAfter(Take(header, HEADER_SIZE))
      /\ UNCHANGED <<wire, sent, state, payload, closed>>
  BY DEF EmptyMessage, ResetHeader, HeaderComplete, ReadHeader
<1>2. /\ ~closed /\ taken < Len(sent) /\ Framed(sent[taken + 1])
      /\ Header = HeaderOf(sent[taken + 1]) /\ ~RefusedBy(Header)
  BY <1>1, HeaderIs
<1>3. ~IsHeartbeat(Header[6]) /\ ntohl(Header) = 0 /\ type = Header[5]
  BY <1>1 DEF flags, length, type
<1>4. /\ sent[taken + 1].payload = <<>> /\ Kind(sent[taken + 1]) = "message"
      /\ sent[taken + 1].type = type /\ type \in Byte
  BY <1>2, <1>3, HeaderMeans
<1>5. delivered' \in Seq([type : Byte, payload : Seq(Byte)])
  <2>1. [type |-> type, payload |-> <<>>] \in [type : Byte, payload : Seq(Byte)]
    <3>1. <<>> \in Seq(Byte)
      OBVIOUS
    <3> QED BY <1>4, <3>1
  <2>2. delivered \in Seq([type : Byte, payload : Seq(Byte)])
    BY DEF IInv, TypeOK
  <2> QED BY <1>1, <2>1, <2>2, AppendProperties
<1>6. IInv'
  BY <1>1, <1>4, <1>5, FinishedByHeader
<1> QED BY <1>2, <1>4, <1>6

LEMMA PayloadFollowsHolds ==
  ASSUME IInv, PayloadFollows
  PROVE  IInv'
<1> PICK r : r = RestAfter(Take(header, HEADER_SIZE))
  OBVIOUS
<1>1. /\ HeaderComplete /\ ~Refused /\ ~IsHeartbeat(flags) /\ length # 0
      /\ header' = Header /\ payload' = <<>> /\ state' = "READING_PAYLOAD" /\ data' = r
      /\ UNCHANGED <<wire, sent, closed, taken, delivered>>
  BY DEF PayloadFollows, HeaderComplete, ReadHeader
<1>2. /\ ReadHeader /\ ~closed /\ Len(Header) = HEADER_SIZE
      /\ taken < Len(sent) /\ Framed(sent[taken + 1])
      /\ Header = HeaderOf(sent[taken + 1]) /\ ~RefusedBy(Header)
  BY <1>1, HeaderIs
<1>3. /\ Header \in Seq(Byte) /\ Len(Header) <= HEADER_SIZE
      /\ r \in Seq(Byte) /\ Len(r) <= INCOMING_BUFFER_SIZE
      /\ At(sent, taken, Header, <<>>, r, wire) /\ <<>> \in Seq(Byte) /\ Len(<<>>) = 0
  BY <1>2, ReadingHeader
<1>4. /\ ~IsHeartbeat(Header[6]) /\ ntohl(Header) # 0 /\ ntohl(Header) \in Nat
      /\ ntohl(Header) <= MAX_MESSAGE_SIZE /\ VersionOf(Header[6]) = m_version
      /\ Header[5] # 0
  <2>1. ntohl(Header) \in Nat
    BY <1>2, HeaderMeans
  <2> QED BY <1>1, <1>2, <2>1, PMuxFramingAssumption DEF flags, length, RefusedBy
<1>5. TypeOK'
  <2>1. payload' \in Seq(Byte) /\ Len(payload') <= MAX_MESSAGE_SIZE
    BY <1>1, <1>3, PMuxFramingAssumption
  <2> QED BY <1>1, <1>3, <2>1 DEF IInv, TypeOK
<1>6. AllFramed' /\ Dropped'
  BY <1>1, <1>2 DEF IInv, AllFramed, Dropped
<1>7. Reading'
  <2>1. Len(payload') < ntohl(header') /\ Len(header') = HEADER_SIZE
    BY <1>1, <1>2, <1>3, <1>4
  <2> QED BY <1>1, <1>2, <1>4, <2>1 DEF Reading
<1>8. InStep'
  <2>1. Filled' = <<>>
    BY <1>1 DEF Filled
  <2>2. /\ header' \in Seq(Byte) /\ Filled' \in Seq(Byte) /\ data' \in Seq(Byte)
        /\ wire' \in Seq(Byte)
    BY <1>1, <1>3, <2>1, Position
  <2>3. At(sent', taken', header', Filled', data', wire')
    BY <1>1, <1>3, <2>1
  <2> QED BY <2>2, <2>3, InStepHolds
<1> QED BY <1>5, <1>6, <1>7, <1>8 DEF IInv

(* What an iteration that reads payload bytes finds, and that the payload,  *)
(* once it has the length its header announces, is the frame's.             *)
LEMMA ReadingPayload ==
  ASSUME IInv, state = "READING_PAYLOAD", NEW required, required = ntohl(header),
         NEW bytes, bytes = Take(payload, required), NEW r, r = RestAfter(bytes)
  PROVE  /\ ~closed /\ <<>> \in Seq(Byte)
         /\ required \in Nat /\ required <= MAX_MESSAGE_SIZE
         /\ Cat(payload, bytes) \in Seq(Byte) /\ Len(Cat(payload, bytes)) \in Nat
         /\ Len(Cat(payload, bytes)) <= required
         /\ r \in Seq(Byte) /\ Len(r) <= INCOMING_BUFFER_SIZE
         /\ At(sent, taken, header, Cat(payload, bytes), r, wire)
         /\ Len(Cat(payload, bytes)) >= required =>
              /\ taken < Len(sent) /\ taken + 1 \in 0 .. Len(sent)
              /\ Kind(sent[taken + 1]) = "message"
              /\ header[5] \in Byte /\ header[5] = sent[taken + 1].type
              /\ Cat(payload, bytes) = sent[taken + 1].payload
              /\ At(sent, taken + 1, <<>>, <<>>, r, wire)
<1>1. /\ ~closed /\ Len(header) = HEADER_SIZE /\ Len(payload) < required
      /\ required <= MAX_MESSAGE_SIZE /\ VersionOf(header[6]) = m_version
      /\ ~IsHeartbeat(header[6]) /\ header[5] # 0
  BY DEF IInv, Reading
<1>2. /\ data \in Seq(Byte) /\ Len(data) <= INCOMING_BUFFER_SIZE /\ header \in Seq(Byte)
      /\ payload \in Seq(Byte) /\ wire \in Seq(Byte) /\ <<>> \in Seq(Byte)
      /\ AllFramedIn(sent) /\ taken \in 0 .. Len(sent)
  BY Position DEF IInv, TypeOK
<1> PICK h \in Seq(Byte) : h = header
  BY <1>2
<1>3. At(sent, taken, h, payload, data, wire)
  <2>1. Filled = payload
    BY DEF Filled
  <2> QED BY <1>1, <2>1, Position
<1> PICK ahead : ahead = Cat(payload, Cat(data, wire))
  OBVIOUS
<1>4. /\ Cat(data, wire) \in Seq(Byte) /\ ahead \in Seq(Byte)
  <2>1. \A u, v \in Seq(Byte) : Cat(u, v) \in Seq(Byte)
    BY CatFacts
  <2> QED BY <1>2, <2>1
<1>5. Ahead(sent, taken) = Cat(h, ahead)
  BY <1>3, Zenon DEF At, Stream4
<1>6. /\ taken < Len(sent) /\ taken + 1 \in 1 .. Len(sent) /\ taken + 1 \in 0 .. Len(sent)
      /\ h = HeaderOf(sent[taken + 1])
      /\ ahead = Cat(sent[taken + 1].payload, Ahead(sent, taken + 1))
  BY <1>1, <1>2, <1>4, <1>5, HeaderAhead
<1> PICK frame : frame = sent[taken + 1] /\ Framed(frame)
  BY <1>2, <1>6 DEF AllFramedIn
<1>7. /\ required = frame.length /\ required \in Nat /\ header[5] = frame.type
      /\ frame.type \in Byte /\ frame.payload \in Seq(Byte)
      /\ Kind(frame) = "message" /\ Len(frame.payload) = required
  <2>1. required \in Nat /\ frame.length = ntohl(h)
    BY <1>6, HeaderMeans
  <2>2. ~RefusedBy(h)
    BY <1>1, <2>1, PMuxFramingAssumption DEF RefusedBy
  <2> QED BY <1>1, <1>6, <2>1, <2>2, HeaderMeans
<1>8. Len(payload) <= required
  <2>1. Len(payload) \in Nat
    BY <1>2, LenProperties
  <2> QED BY <1>1, <1>7, <2>1
<1> PICK filled : filled = Cat(payload, bytes)
  OBVIOUS
<1>9. /\ bytes \in Seq(Byte) /\ filled \in Seq(Byte) /\ Len(filled) <= required
      /\ r \in Seq(Byte) /\ Len(r) <= Len(data) /\ Joins(bytes, r, data)
  BY <1>2, <1>7, <1>8, TakeSplits
<1>14. /\ payload \in Seq(Byte) /\ wire \in Seq(Byte) /\ bytes \in Seq(Byte)
      /\ r \in Seq(Byte) /\ Joins(bytes, r, data) /\ <<>> \in Seq(Byte)
  BY <1>2, <1>9
<1>15. ASSUME NEW u \in Seq(Byte)
      PROVE  Stream4(u, Cat(payload, bytes), r, wire) = Stream4(u, payload, data, wire)
  BY ONLY <1>14, <1>15, StreamRead
<1>10. Len(filled) \in Nat /\ Len(r) <= INCOMING_BUFFER_SIZE
  <2>1. Len(filled) \in Nat /\ Len(r) \in Nat /\ Len(data) \in Nat /\ INCOMING_BUFFER_SIZE \in Nat
    BY <1>2, <1>9, LenProperties, PMuxFramingAssumption
  <2> QED BY <1>2, <1>9, <2>1
<1>11. Stream4(h, filled, r, wire) = Stream4(h, payload, data, wire)
  <2>1. Stream4(h, Cat(payload, bytes), r, wire) = Stream4(h, payload, data, wire)
    <3>1. h \in Seq(Byte)
      OBVIOUS
    <3> QED BY ONLY <1>15, <3>1
  <2> QED BY <2>1
<1>12. At(sent, taken, header, filled, r, wire)
  BY <1>3, <1>11, Zenon DEF At
<1>13. ASSUME Len(filled) >= required
       PROVE  filled = frame.payload /\ At(sent, taken + 1, <<>>, <<>>, r, wire)
  <2> PICK more \in Seq(Byte) : more = Ahead(sent, taken + 1)
    BY <1>2, <1>6, AheadType
  <2> PICK p \in Seq(Byte) : p = frame.payload
    BY <1>7
  <2>1. Cat(r, wire) \in Seq(Byte) /\ Cat(<<>>, Cat(<<>>, Cat(r, wire))) = Cat(r, wire)
    <3>1. /\ \A u, v \in Seq(Byte) : Cat(u, v) \in Seq(Byte)
          /\ \A u \in Seq(Byte) : Cat(<<>>, u) = u
      BY CatFacts
    <3> QED BY ONLY <1>2, <1>9, <3>1
  <2>2. ahead = Cat(filled, Cat(r, wire))
    <3>1. Stream4(<<>>, Cat(payload, bytes), r, wire) = Stream4(<<>>, payload, data, wire)
      BY ONLY <1>14, <1>15
    <3>2. Cat(filled, Cat(r, wire)) \in Seq(Byte)
      <4>1. \A u, v \in Seq(Byte) : Cat(u, v) \in Seq(Byte)
        BY CatFacts
      <4> QED BY ONLY <1>9, <2>1, <4>1
    <3>3. \A u \in Seq(Byte) : Cat(<<>>, u) = u
      BY CatFacts
    <3>4. Cat(<<>>, Cat(filled, Cat(r, wire))) = Cat(<<>>, ahead)
      BY <3>1, Zenon DEF Stream4
    <3> QED BY ONLY <1>4, <3>2, <3>3, <3>4
  <2>3. Cat(filled, Cat(r, wire)) = Cat(p, more)
    BY <1>6, <2>2
  <2>4. Len(filled) = Len(p)
    BY <1>7, <1>9, <1>10, <1>13
  <2>5. filled \in Seq(Byte) /\ Cat(r, wire) \in Seq(Byte) /\ p \in Seq(Byte) /\ more \in Seq(Byte)
    BY <1>9, <2>1
  <2>6. filled = p /\ Cat(r, wire) = more
    BY ONLY <2>3, <2>4, <2>5, SameStart
  <2> QED BY <2>1, <2>6, Zenon DEF At, Stream4
<1> QED BY <1>1, <1>2, <1>6, <1>7, <1>9, <1>10, <1>12, <1>13

LEMMA ReadPayloadHolds ==
  ASSUME IInv, ReadPayload
  PROVE  /\ IInv' /\ UNCHANGED <<sent, closed>>
         /\ \/ UNCHANGED <<taken, delivered>>
            \/ /\ ~closed /\ taken < Len(sent) /\ Kind(sent[taken + 1]) = "message"
               /\ taken' = taken + 1
               /\ delivered' = Append(delivered, [type |-> sent[taken + 1].type,
                                                  payload |-> sent[taken + 1].payload])
<1> PICK required : required = ntohl(header)
  OBVIOUS
<1> PICK bytes : bytes = Take(payload, required)
  OBVIOUS
<1> PICK r : r = RestAfter(bytes)
  OBVIOUS
<1> PICK filled : filled = Cat(payload, bytes)
  OBVIOUS
<1>0. filled = payload \o bytes
  BY Zenon DEF Cat
<1>1. /\ state = "READING_PAYLOAD" /\ data' = r /\ payload' = filled
      /\ UNCHANGED <<wire, sent, closed>>
  BY <1>0, Zenon DEF ReadPayload
<1>2. IF Len(filled) < required
      THEN UNCHANGED <<state, header, taken, delivered>>
      ELSE /\ delivered' = Append(delivered, [type |-> header[5], payload |-> filled])
           /\ taken' = taken + 1
           /\ header' = <<>>
           /\ state' = "READING_HEADER"
  BY <1>0, Zenon DEF ReadPayload
<1>3. /\ ~closed /\ <<>> \in Seq(Byte)
      /\ required \in Nat /\ required <= MAX_MESSAGE_SIZE
      /\ filled \in Seq(Byte) /\ Len(filled) \in Nat /\ Len(filled) <= required
      /\ r \in Seq(Byte) /\ Len(r) <= INCOMING_BUFFER_SIZE
      /\ At(sent, taken, header, filled, r, wire)
      /\ Len(filled) >= required =>
           /\ taken < Len(sent) /\ taken + 1 \in 0 .. Len(sent)
           /\ Kind(sent[taken + 1]) = "message"
           /\ header[5] \in Byte /\ header[5] = sent[taken + 1].type
           /\ filled = sent[taken + 1].payload
           /\ At(sent, taken + 1, <<>>, <<>>, r, wire)
  BY <1>1, ReadingPayload
<1>4. /\ Len(payload') <= MAX_MESSAGE_SIZE /\ wire' \in Seq(Byte) /\ header \in Seq(Byte)
      /\ delivered \in Seq([type : Byte, payload : Seq(Byte)])
  BY <1>1, <1>3, PMuxFramingAssumption DEF IInv, TypeOK
<1>5. CASE Len(filled) < required
  <2>1. UNCHANGED <<state, header, taken, delivered>>
    BY <1>2, <1>5
  <2>2. TypeOK'
    BY <1>1, <1>3, <1>4, <2>1 DEF IInv, TypeOK
  <2>3. AllFramed' /\ Dropped'
    BY <1>1, <1>3, <2>1 DEF IInv, AllFramed, Dropped
  <2>4. Reading'
    BY <1>1, <1>3, <1>5, <2>1 DEF IInv, Reading
  <2>5. InStep'
    <3>1. Filled' = filled
      BY <1>1, <2>1 DEF Filled
    <3>2. /\ header' \in Seq(Byte) /\ Filled' \in Seq(Byte) /\ data' \in Seq(Byte)
          /\ wire' \in Seq(Byte)
      BY <1>1, <1>3, <1>4, <2>1, <3>1
    <3>3. At(sent', taken', header', Filled', data', wire')
      BY <1>1, <1>3, <2>1, <3>1
    <3> QED BY <3>2, <3>3, InStepHolds
  <2> QED BY <1>1, <2>1, <2>2, <2>3, <2>4, <2>5 DEF IInv
<1>6. CASE ~(Len(filled) < required)
  <2>1. /\ delivered' = Append(delivered, [type |-> header[5], payload |-> filled])
        /\ taken' = taken + 1 /\ header' = <<>> /\ state' = "READING_HEADER"
    BY <1>2, <1>6
  <2>2. /\ taken < Len(sent) /\ taken + 1 \in 0 .. Len(sent)
        /\ Kind(sent[taken + 1]) = "message"
        /\ header[5] \in Byte /\ header[5] = sent[taken + 1].type
        /\ filled = sent[taken + 1].payload
        /\ At(sent, taken + 1, <<>>, <<>>, r, wire)
    BY <1>3, <1>6
  <2>3. Len(header') = 0 /\ header' \in Seq(Byte) /\ HEADER_SIZE = 6
    BY <2>1 DEF HEADER_SIZE
  <2>4. delivered' \in Seq([type : Byte, payload : Seq(Byte)])
    <3>1. [type |-> header[5], payload |-> filled] \in [type : Byte, payload : Seq(Byte)]
      BY <1>3, <2>2
    <3> QED BY <1>4, <2>1, <3>1, AppendProperties
  <2>5. TypeOK'
    BY <1>1, <1>3, <1>4, <2>1, <2>2, <2>3, <2>4 DEF IInv, TypeOK
  <2>6. AllFramed' /\ Reading' /\ Dropped'
    BY <1>1, <1>3, <2>1, <2>3 DEF IInv, AllFramed, Reading, Dropped
  <2>7. InStep'
    <3>1. Filled' = <<>>
      BY <2>1 DEF Filled
    <3>2. /\ header' \in Seq(Byte) /\ Filled' \in Seq(Byte) /\ data' \in Seq(Byte)
          /\ wire' \in Seq(Byte)
      BY <1>1, <1>3, <1>4, <2>3, <3>1
    <3>3. At(sent', taken', header', Filled', data', wire')
      BY <1>1, <2>1, <2>2, <3>1
    <3> QED BY <3>2, <3>3, InStepHolds
  <2>8. IInv'
    BY <2>5, <2>6, <2>7 DEF IInv
  <2> QED BY <1>1, <1>3, <2>1, <2>2, <2>8
<1> QED BY <1>5, <1>6

LEMMA SendFramed ==
  ASSUME IInv, Send
  PROVE  \E frame : /\ Framed(frame) /\ Put(frame)
                    /\ \/ \E t \in Types, content \in Payloads : frame = MessageFrame(t, content)
                       \/ frame = HeartbeatFrame
                       \/ frame \in ForeignFrames
<1>1. CASE \E t \in Types, content \in Payloads : SendMessage(t, content)
  <2> PICK t \in Types, content \in Payloads : SendMessage(t, content)
    BY <1>1
  <2>1. Len(content) < MAX_MESSAGE_SIZE /\ Put(MessageFrame(t, content))
    BY DEF SendMessage
  <2>2. Framed(MessageFrame(t, content))
    BY <2>1, SentFrames
  <2> QED BY <2>1, <2>2
<1>2. CASE SendHeartbeat
  BY <1>2, SentFrames DEF SendHeartbeat
<1>3. CASE \E frame \in ForeignFrames : SendForeign(frame)
  BY <1>3, PMuxFramingAssumption DEF SendForeign
<1> QED BY <1>1, <1>2, <1>3 DEF Send

LEMMA NextHolds == IInv /\ [Next]_vars => IInv'
<1> SUFFICES ASSUME IInv, [Next]_vars PROVE IInv'
  OBVIOUS
<1>1. CASE Send
  BY <1>1, SendFramed, PutHolds
<1>2. CASE Receive
  BY <1>2, GotDataHolds DEF Receive
<1>3. CASE Loop
  BY <1>3, HeaderIncompleteHolds, ProtocolErrorHolds, HandleHeartbeatHolds,
     EmptyMessageHolds, PayloadFollowsHolds, ReadPayloadHolds DEF Loop
<1>4. CASE UNCHANGED vars
  BY <1>4 DEF vars, receiver_vars, IInv, TypeOK, AllFramed, InStep, Reading, Dropped
<1> QED BY <1>1, <1>2, <1>3, <1>4 DEF Next

LEMMA InvariantHolds == Spec => []IInv
<1> QED BY InitHolds, NextHolds, PTL DEF Spec

-------------------------------------------------------------------------------
(* Results.                                                                 *)

(* The bytes the receiver keeps never outgrow the buffers it has for them,  *)
(* and it is never done with more frames than were sent.                    *)
THEOREM TypeCorrect == Spec => []TypeOK
<1>1. IInv => TypeOK
  BY DEF IInv
<1> QED BY <1>1, InvariantHolds, PTL

(* However the socket cuts the stream, the receiver is where it takes       *)
(* itself to be: no byte is lost, read twice or taken for another's.        *)
THEOREM StaysInStep == Spec => []InStep
<1>1. IInv => InStep
  BY DEF IInv
<1> QED BY <1>1, InvariantHolds, PTL

(* A connection is dropped for a protocol error only at a frame that no     *)
(* PMux sends, but for messages of the type 0.                              *)
THEOREM RefusalsRight == Spec => []RefusesOnlyForeign
<1>1. IInv => RefusesOnlyForeign
  <2> SUFFICES ASSUME IInv, closed, FromPMux(sent[taken + 1]) PROVE FALSE
    BY DEF RefusesOnlyForeign
  <2>1. Kind(sent[taken + 1]) = "invalid"
    BY DEF IInv, Dropped
  <2>2. Kind(sent[taken + 1]) # "invalid"
    BY SentFrames DEF FromPMux
  <2> QED BY <2>1, <2>2
<1> QED BY <1>1, InvariantHolds, PTL

Meanings(s) == [i \in 1 .. Len(s) |-> Meaning(s[i])]

LEMMA MeaningsOf ==
  ASSUME NEW s \in Seq(Frame)
  PROVE  /\ Len(Meanings(s)) = Len(s)
         /\ \A i \in 1 .. Len(s) : Meanings(s)[i] = Meaning(s[i])
         /\ \A f \in Frame : Meanings(Append(s, f)) = Append(Meanings(s), Meaning(f))
<1> DEFINE M == {Meaning(f) : f \in Frame}
<1>0. ASSUME NEW t \in Seq(Frame)
      PROVE  /\ Meanings(t) \in Seq(M) /\ Len(Meanings(t)) = Len(t)
             /\ \A i \in 1 .. Len(t) : Meanings(t)[i] = Meaning(t[i])
  <2>1. Len(t) \in Nat /\ \A i \in 1 .. Len(t) : t[i] \in Frame
    BY LenProperties, ElementOfSeq
  <2> QED BY <2>1 DEF Meanings
<1>1. ASSUME NEW f \in Frame PROVE Meanings(Append(s, f)) = Append(Meanings(s), Meaning(f))
  <2> PICK t \in Seq(Frame) : t = Append(s, f)
    BY AppendProperties
  <2>1. /\ Len(t) = Len(s) + 1 /\ t[Len(s) + 1] = f /\ \A i \in 1 .. Len(s) : t[i] = s[i]
        /\ Len(s) \in Nat
    BY AppendProperties, LenProperties
  <2> PICK a \in Seq(M) : a = Meanings(s) /\ Len(a) = Len(s)
    BY <1>0
  <2> PICK b \in Seq(M) : b = Meanings(t) /\ Len(b) = Len(t)
    BY <1>0
  <2> PICK x \in M : x = Meaning(f)
    OBVIOUS
  <2> HIDE DEF M
  <2> PICK c \in Seq(M) : c = Append(a, x)
    BY AppendProperties
  <2>2. Len(c) = Len(a) + 1 /\ c[Len(a) + 1] = x /\ \A i \in 1 .. Len(a) : c[i] = a[i]
    BY AppendProperties
  <2>3. \A i \in 1 .. Len(b) : b[i] = c[i]
    <3> SUFFICES ASSUME NEW i \in 1 .. Len(b) PROVE b[i] = c[i]
      OBVIOUS
    <3>1. b[i] = Meaning(t[i])
      BY <1>0
    <3>2. i = Len(s) + 1 \/ i \in 1 .. Len(s)
      BY <2>1
    <3>3. CASE i = Len(s) + 1
      BY <2>1, <2>2, <3>1, <3>3
    <3>4. CASE i \in 1 .. Len(s)
      <4>1. a[i] = Meaning(s[i])
        BY <1>0, <3>4
      <4> QED BY <2>1, <2>2, <3>1, <3>4, <4>1
    <3> QED BY <3>2, <3>3, <3>4
  <2>4. Len(b) = Len(c) /\ b \in Seq(M) /\ c \in Seq(M)
    BY <2>1, <2>2
  <2>5. b = c
    BY ONLY <2>3, <2>4, SeqEqual
  <2> QED BY <2>5
<1> QED BY <1>0, <1>1

SentFrame ==
  {MessageFrame(t, content) : t \in Types, content \in Payloads}
    \union {HeartbeatFrame} \union ForeignFrames

(* What a step is of the message stream.                                    *)
StreamPut ==
  /\ \E f \in {Meaning(frame) : frame \in SentFrame} :
        Meanings(sent)' = Append(Meanings(sent), f)
  /\ UNCHANGED <<taken, delivered, closed>>

NextIs(kind) ==
  /\ ~closed /\ taken < Len(Meanings(sent))
  /\ Meanings(sent)[taken + 1].kind = kind
  /\ UNCHANGED Meanings(sent)

StreamTake ==
  /\ NextIs("message") /\ taken' = taken + 1
  /\ delivered' = Append(delivered, [type |-> Meanings(sent)[taken + 1].type,
                                     payload |-> Meanings(sent)[taken + 1].payload])
  /\ UNCHANGED closed

StreamHeartbeat == NextIs("heartbeat") /\ taken' = taken + 1 /\ UNCHANGED <<delivered, closed>>

StreamRefuse == NextIs("invalid") /\ closed' = TRUE /\ UNCHANGED <<taken, delivered>>

LEMMA StreamIs ==
  (\/ StreamPut \/ StreamTake \/ StreamHeartbeat \/ StreamRefuse
   \/ UNCHANGED <<Meanings(sent), taken, delivered, closed>>) => [Stream!Next]_Stream!vars
<1>1. StreamPut => Stream!Next
  <2> SUFFICES ASSUME StreamPut PROVE Stream!Next
    OBVIOUS
  <2> PICK f \in {Meaning(frame) : frame \in SentFrame} :
          Meanings(sent)' = Append(Meanings(sent), f)
    BY DEF StreamPut
  <2>1. Stream!Put(f)
    BY DEF StreamPut, Stream!Put, Meanings
  <2> HIDE DEF Stream!Put
  <2> QED BY <2>1 DEF Stream!Next, SentFrame
<1>2. StreamTake => Stream!TakeMessage
  BY DEF StreamTake, NextIs, Stream!TakeMessage, Stream!NextFrameIs, Meanings
<1>3. StreamHeartbeat => Stream!TakeHeartbeat
  BY DEF StreamHeartbeat, NextIs, Stream!TakeHeartbeat, Stream!NextFrameIs, Meanings
<1>4. StreamRefuse => Stream!Refuse
  BY DEF StreamRefuse, NextIs, Stream!Refuse, Stream!NextFrameIs, Meanings
<1>5. UNCHANGED <<Meanings(sent), taken, delivered, closed>> => UNCHANGED Stream!vars
  BY Zenon DEF Stream!vars, Meanings
<1> QED BY <1>1, <1>2, <1>3, <1>4, <1>5 DEF Stream!Next

(* The frame the receiver finishes, as the message stream has it.           *)
LEMMA NextFrame ==
  ASSUME IInv, ~closed, taken < Len(sent), UNCHANGED sent
  PROVE  /\ NextIs(Kind(sent[taken + 1]))
         /\ Meanings(sent)[taken + 1].type = sent[taken + 1].type
         /\ Meanings(sent)[taken + 1].payload = sent[taken + 1].payload
<1>1. sent \in Seq(Frame) /\ taken \in Nat /\ Len(sent) \in Nat
  BY DEF IInv, TypeOK
<1>2. taken + 1 \in 1 .. Len(sent)
  BY <1>1
<1>3. /\ Len(Meanings(sent)) = Len(sent)
      /\ Meanings(sent)[taken + 1] = Meaning(sent[taken + 1])
  BY <1>1, <1>2, MeaningsOf
<1>4. UNCHANGED Meanings(sent)
  BY DEF Meanings
<1> QED BY <1>3, <1>4 DEF NextIs, Meaning

LEMMA StepOfStream ==
  ASSUME IInv, [Next]_vars
  PROVE  [Stream!Next]_Stream!vars
<1> DEFINE Stutter == UNCHANGED <<sent, taken, delivered, closed>>
<1>0. Stutter => UNCHANGED <<Meanings(sent), taken, delivered, closed>>
  BY DEF Meanings
<1>1. CASE Send
  <2> PICK frame : /\ Framed(frame) /\ Put(frame) /\ frame \in SentFrame
    BY <1>1, SendFramed DEF SentFrame
  <2>1. sent' = Append(sent, frame) /\ UNCHANGED <<taken, delivered, closed>>
    BY DEF Put, receiver_vars
  <2>2. sent \in Seq(Frame) /\ frame \in Frame
    BY DEF IInv, TypeOK, Framed
  <2>3. Meanings(sent') = Append(Meanings(sent), Meaning(frame))
    BY <2>1, <2>2, MeaningsOf
  <2>4. StreamPut
    BY <2>1, <2>3 DEF StreamPut
  <2> QED BY <2>4, StreamIs
<1>2. CASE Receive
  <2>1. Stutter
    BY <1>2 DEF Receive, GotData, receiver_vars
  <2> QED BY <1>0, <2>1, StreamIs
<1>3. CASE HeaderIncomplete
  <2>1. Stutter
    BY <1>3 DEF HeaderIncomplete, ReadHeader
  <2> QED BY <1>0, <2>1, StreamIs
<1>4. CASE ProtocolError
  <2>1. ~closed /\ taken < Len(sent) /\ Kind(sent[taken + 1]) = "invalid"
    BY <1>4, ProtocolErrorHolds
  <2>2. UNCHANGED <<sent, taken, delivered>> /\ closed' = TRUE
    BY <1>4 DEF ProtocolError, HeaderComplete, ReadHeader
  <2>3. StreamRefuse
    BY <2>1, <2>2, NextFrame DEF StreamRefuse
  <2> QED BY <2>3, StreamIs
<1>5. CASE HandleHeartbeat
  <2>1. ~closed /\ taken < Len(sent) /\ Kind(sent[taken + 1]) = "heartbeat"
    BY <1>5, HandleHeartbeatHolds
  <2>2. UNCHANGED <<sent, closed, delivered>> /\ taken' = taken + 1
    BY <1>5 DEF HandleHeartbeat, HeaderComplete, ReadHeader
  <2>3. StreamHeartbeat
    BY <2>1, <2>2, NextFrame DEF StreamHeartbeat
  <2> QED BY <2>3, StreamIs
<1>6. CASE EmptyMessage
  <2>1. /\ ~closed /\ taken < Len(sent) /\ Kind(sent[taken + 1]) = "message"
        /\ sent[taken + 1].type = type /\ sent[taken + 1].payload = <<>>
    BY <1>6, EmptyMessageHolds
  <2>2. /\ UNCHANGED <<sent, closed>> /\ taken' = taken + 1
        /\ delivered' = Append(delivered, [type |-> type, payload |-> <<>>])
    BY <1>6 DEF EmptyMessage, HeaderComplete, ReadHeader
  <2>3. /\ NextIs("message")
        /\ Meanings(sent)[taken + 1].type = type
        /\ Meanings(sent)[taken + 1].payload = <<>>
    BY <2>1, <2>2, NextFrame
  <2>4. StreamTake
    BY <2>2, <2>3 DEF StreamTake
  <2> QED BY <2>4, StreamIs
<1>7. CASE PayloadFollows
  <2>1. Stutter
    BY <1>7 DEF PayloadFollows, HeaderComplete, ReadHeader
  <2> QED BY <1>0, <2>1, StreamIs
<1>8. CASE ReadPayload
  <2>1. /\ UNCHANGED <<sent, closed>>
        /\ \/ UNCHANGED <<taken, delivered>>
           \/ /\ ~closed /\ taken < Len(sent) /\ Kind(sent[taken + 1]) = "message"
              /\ taken' = taken + 1
              /\ delivered' = Append(delivered, [type |-> sent[taken + 1].type,
                                                 payload |-> sent[taken + 1].payload])
    BY <1>8, ReadPayloadHolds
  <2>2. CASE UNCHANGED <<taken, delivered>>
    <3>1. Stutter
      BY <2>1, <2>2
    <3> QED BY <1>0, <3>1, StreamIs
  <2>3. CASE ~(UNCHANGED <<taken, delivered>>)
    <3>1. /\ ~closed /\ taken < Len(sent) /\ Kind(sent[taken + 1]) = "message"
          /\ UNCHANGED sent
      BY <2>1, <2>3
    <3>2. /\ NextIs("message")
          /\ Meanings(sent)[taken + 1].type = sent[taken + 1].type
          /\ Meanings(sent)[taken + 1].payload = sent[taken + 1].payload
      BY <3>1, NextFrame
    <3>3. StreamTake
      BY <2>1, <2>3, <3>2 DEF StreamTake
    <3> QED BY <3>3, StreamIs
  <2> QED BY <2>2, <2>3
<1>9. CASE UNCHANGED vars
  <2>1. Stutter
    BY <1>9 DEF vars, receiver_vars
  <2> QED BY <1>0, <2>1, StreamIs
<1> QED BY <1>1, <1>2, <1>3, <1>4, <1>5, <1>6, <1>7, <1>8, <1>9 DEF Next, Loop

(* The upper layer gets the messages the peer sent, in order and each once, *)
(* up to the first frame that is not of the protocol, whatever the chunks.  *)
THEOREM Implementation == Spec => ImplementsStream
<1>1. Init => Stream!Init
  <2> SUFFICES ASSUME Init PROVE Stream!Init
    OBVIOUS
  <2>1. sent = <<>> /\ taken = 0 /\ delivered = <<>> /\ closed = FALSE
    BY DEF Init
  <2>2. [i \in 1 .. Len(sent) |-> Meaning(sent[i])] = <<>>
    BY <2>1
  <2> QED BY <2>1, <2>2 DEF Stream!Init
<1>2. IInv /\ [Next]_vars => [Stream!Next]_Stream!vars
  BY StepOfStream
<1> QED BY <1>1, <1>2, InvariantHolds, PTL DEF Spec, ImplementsStream, Stream!Spec
===============================================================================
