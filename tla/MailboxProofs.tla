---------------------------- MODULE MailboxProofs -----------------------------
(***************************************************************************)
(* Mailboxes: what taking a message from one, sending one and letting an   *)
(* answer in do to its messages.  A mailbox is a sequence; the proofs      *)
(* about the services need where a message goes, which messages of a kind  *)
(* a mailbox holds, which kinds come before which, and what the contents   *)
(* of all its messages are, joined up.                                     *)
(***************************************************************************)
EXTENDS Naturals, Sequences, SequencesExt, SequenceTheorems, WellFoundedInduction,
        TLAPS

(* A service takes the message at the head.                                 *)
LEMMA TailFacts ==
  ASSUME NEW S, NEW q \in Seq(S), q # <<>>
  PROVE  /\ Head(q) \in Range(q) /\ Head(q) \in S
         /\ 1 \in DOMAIN q /\ Head(q) = q[1]
         /\ Tail(q) \in Seq(S)
         /\ \A i \in DOMAIN Tail(q) :
              i \in Nat /\ i + 1 \in DOMAIN q /\ Tail(q)[i] = q[i + 1]
         /\ Range(Tail(q)) \subseteq Range(q)
<1>1. 1 \in DOMAIN q /\ Head(q) = q[1] /\ Head(q) \in S
  OBVIOUS
<1>2. Tail(q) \in Seq(S)
  OBVIOUS
<1>3. \A i \in DOMAIN Tail(q) :
        i \in Nat /\ i + 1 \in DOMAIN q /\ Tail(q)[i] = q[i + 1]
  OBVIOUS
<1> QED
  BY <1>1, <1>2, <1>3 DEF Range

(* A send puts its message at the end.                                      *)
LEMMA AppendFacts ==
  ASSUME NEW S, NEW q \in Seq(S), NEW m \in S
  PROVE  /\ Append(q, m) \in Seq(S)
         /\ Len(Append(q, m)) = Len(q) + 1
         /\ \A i \in DOMAIN Append(q, m) :
              \/ i \in DOMAIN q /\ Append(q, m)[i] = q[i]
              \/ i = Len(q) + 1 /\ Append(q, m)[i] = m
         /\ Range(Append(q, m)) = Range(q) \cup {m}
<1>1. /\ Append(q, m) \in Seq(S) /\ Len(Append(q, m)) = Len(q) + 1
      /\ DOMAIN Append(q, m) = 1 .. Len(q) + 1
      /\ Append(q, m)[Len(q) + 1] = m
      /\ \A i \in 1 .. Len(q) : Append(q, m)[i] = q[i]
  OBVIOUS
<1>2. DOMAIN q = 1 .. Len(q) /\ Len(q) \in Nat
  OBVIOUS
<1>3. \A i \in DOMAIN Append(q, m) :
        \/ i \in DOMAIN q /\ Append(q, m)[i] = q[i]
        \/ i = Len(q) + 1 /\ Append(q, m)[i] = m
  BY <1>1, <1>2
<1>4. Range(Append(q, m)) = Range(q) \cup {m}
  <2>1. Range(Append(q, m)) \subseteq Range(q) \cup {m}
    BY <1>3 DEF Range
  <2>2. Range(q) \subseteq Range(Append(q, m))
    BY <1>1, <1>2 DEF Range
  <2>3. m \in Range(Append(q, m))
    BY <1>1, <1>2 DEF Range
  <2> QED
    BY <2>1, <2>2, <2>3
<1> QED
  BY <1>1, <1>3, <1>4

(* An answer gets in anywhere, at k say; the others keep their order.       *)
GotIn(q, m, r, k) ==
  /\ k \in DOMAIN r /\ r[k] = m
  /\ \A i \in DOMAIN q :
       /\ i \in Nat
       /\ \/ i < k /\ i \in DOMAIN r /\ r[i] = q[i]
          \/ i >= k /\ i + 1 \in DOMAIN r /\ r[i + 1] = q[i]
  /\ \A i \in DOMAIN r :
       /\ i \in Nat
       /\ \/ i < k /\ i \in DOMAIN q /\ r[i] = q[i]
          \/ i = k
          \/ i > k /\ i - 1 \in DOMAIN q /\ r[i] = q[i - 1]

LEMMA InsertFacts ==
  ASSUME NEW S, NEW q \in Seq(S), NEW m \in S, NEW k \in 1 .. Len(q) + 1, NEW r,
         r = InsertAt(q, k, m)
  PROVE  /\ r \in Seq(S)
         /\ Range(r) = Range(q) \cup {m}
         /\ GotIn(q, m, r, k)
<1>1. r = InsertAt(q, k, m)
  OBVIOUS
<1> DEFINE a == SubSeq(q, 1, k - 1)
           b == SubSeq(q, k, Len(q))
<1>2. DOMAIN q = 1 .. Len(q) /\ Len(q) \in Nat
  OBVIOUS
<1>3. /\ a \in Seq(S) /\ Len(a) = k - 1
      /\ \A i \in 1 .. k - 1 : a[i] = q[i]
  OBVIOUS
<1>4. /\ b \in Seq(S) /\ Len(b) = Len(q) + 1 - k
      /\ \A i \in 1 .. Len(q) + 1 - k : b[i] = q[k + i - 1]
  OBVIOUS
<1> HIDE DEF a, b
<1> DEFINE c == a \o <<m>>
<1>5. /\ c \in Seq(S) /\ Len(c) = k
      /\ \A i \in 1 .. k - 1 : c[i] = q[i]
      /\ c[k] = m
  <2>1. k - 1 \in Nat /\ (k - 1) + 1 = k /\ m \in S
    BY <1>2
  <2>2. c \in Seq(S) /\ Len(c) = Len(a) + 1
    BY <1>3, <2>1
  <2>3. (\A i \in 1 .. Len(a) : c[i] = a[i]) /\ c[Len(a) + 1] = m
    BY <1>3, <2>1
  <2> QED
    BY <1>3, <2>1, <2>2, <2>3
<1> HIDE DEF c
<1>6. r = c \o b
  BY <1>1 DEF InsertAt, a, b, c
<1>7. /\ r \in Seq(S) /\ Len(r) = Len(q) + 1
      /\ \A i \in 1 .. k : r[i] = c[i]
      /\ \A i \in k + 1 .. Len(q) + 1 : r[i] = b[i - k]
  BY <1>2, <1>4, <1>5, <1>6
<1>8. DOMAIN r = 1 .. Len(q) + 1
  BY <1>7
<1>9. \A i \in k + 1 .. Len(q) + 1 : r[i] = q[i - 1]
  <2> TAKE i \in k + 1 .. Len(q) + 1
  <2>1. i - k \in 1 .. Len(q) + 1 - k /\ k + (i - k) - 1 = i - 1
    BY <1>2
  <2> QED
    BY <1>4, <1>7, <2>1
<1>10. ASSUME NEW i \in DOMAIN q
       PROVE  /\ i \in Nat
              /\ \/ i < k /\ i \in DOMAIN r /\ r[i] = q[i]
                 \/ i >= k /\ i + 1 \in DOMAIN r /\ r[i + 1] = q[i]
  <2>1. CASE i < k
    BY <1>2, <1>5, <1>7, <1>8, <2>1
  <2>2. CASE i >= k
    <3>1. i + 1 \in k + 1 .. Len(q) + 1 /\ (i + 1) - 1 = i
      BY <1>2, <2>2
    <3> QED
      BY <1>2, <1>8, <1>9, <2>2, <3>1
  <2> QED
    BY <1>2, <2>1, <2>2
<1>11. \A i \in DOMAIN r :
         /\ i \in Nat
         /\ \/ i < k /\ i \in DOMAIN q /\ r[i] = q[i]
            \/ i = k /\ r[i] = m
            \/ i > k /\ i - 1 \in DOMAIN q /\ r[i] = q[i - 1]
  BY <1>2, <1>5, <1>7, <1>8, <1>9
<1>12. k \in DOMAIN r /\ r[k] = m /\ k \in Nat
  BY <1>2, <1>5, <1>7, <1>8
<1>13. GotIn(q, m, r, k)
  BY <1>10, <1>11, <1>12 DEF GotIn
<1>14. Range(r) = Range(q) \cup {m}
  <2>1. Range(r) \subseteq Range(q) \cup {m}
    BY <1>11 DEF Range
  <2>2. m \in Range(r)
    BY <1>12 DEF Range
  <2>3. Range(q) \subseteq Range(r)
    BY <1>10 DEF Range
  <2> QED
    BY <2>1, <2>2, <2>3
<1> QED
  BY <1>7, <1>12, <1>13, <1>14

-----------------------------------------------------------------------------
(* The messages of q that are in T are those of s, in the same order: what  *)
(* SelectSeq would give, as a relation.                                     *)
Embeds(f, q, T, s) ==
  /\ \A k \in DOMAIN s : f[k] \in DOMAIN q /\ q[f[k]] = s[k] /\ s[k] \in T
  /\ \A k, l \in DOMAIN s : k < l => f[k] < f[l]
  /\ \A i \in DOMAIN q : q[i] \in T => \E k \in DOMAIN s : f[k] = i

Holds(q, T, s) == \E f : Embeds(f, q, T, s)

LEMMA HoldsNone ==
  ASSUME NEW q, NEW T
  PROVE  Holds(q, T, <<>>) <=> \A i \in DOMAIN q : q[i] \notin T
<1>1. DOMAIN <<>> = {}
  OBVIOUS
<1> QED
  BY <1>1 DEF Holds, Embeds

LEMMA HoldsOne ==
  ASSUME NEW q, NEW T, NEW m
  PROVE  Holds(q, T, <<m>>) <=>
           \E i \in DOMAIN q : /\ q[i] = m /\ m \in T
                              /\ \A j \in DOMAIN q : q[j] \in T => j = i
<1>1. DOMAIN <<m>> = {1} /\ <<m>>[1] = m
  OBVIOUS
<1>2. ASSUME NEW i \in DOMAIN q, q[i] = m, m \in T,
             \A j \in DOMAIN q : q[j] \in T => j = i
      PROVE  Holds(q, T, <<m>>)
  <2> DEFINE f == [k \in {1} |-> i]
  <2>1. Embeds(f, q, T, <<m>>)
    BY <1>1, <1>2 DEF Embeds
  <2> QED
    BY <2>1 DEF Holds
<1>3. ASSUME NEW f, Embeds(f, q, T, <<m>>)
      PROVE  /\ f[1] \in DOMAIN q /\ q[f[1]] = m /\ m \in T
             /\ \A j \in DOMAIN q : q[j] \in T => j = f[1]
  BY <1>1, <1>3 DEF Embeds
<1> QED
  BY <1>2, <1>3 DEF Holds

LEMMA AppendOther ==
  ASSUME NEW S, NEW q \in Seq(S), NEW m \in S, NEW T, NEW s,
         Holds(q, T, s), m \notin T
  PROVE  Holds(Append(q, m), T, s)
<1>1. PICK f : Embeds(f, q, T, s)
  BY DEF Holds
<1> DEFINE r == Append(q, m)
<1>2. \A i \in DOMAIN q : i \in DOMAIN r /\ r[i] = q[i]
  OBVIOUS
<1>3. \A i \in DOMAIN r : (i \in DOMAIN q /\ r[i] = q[i]) \/ r[i] = m
  BY AppendFacts
<1> HIDE DEF r
<1>4. Embeds(f, r, T, s)
  BY <1>1, <1>2, <1>3 DEF Embeds
<1> QED
  BY <1>4 DEF Holds, r

LEMMA AppendOwn ==
  ASSUME NEW S, NEW q \in Seq(S), NEW m \in S, NEW T, NEW R, NEW s \in Seq(R),
         Holds(q, T, s), m \in T
  PROVE  Holds(Append(q, m), T, Append(s, m))
<1>1. PICK f : Embeds(f, q, T, s)
  BY DEF Holds
<1> DEFINE r == Append(q, m)
           t == Append(s, m)
           g == [k \in 1 .. Len(s) + 1 |->
                   IF k = Len(s) + 1 THEN Len(q) + 1 ELSE f[k]]
<1>2. /\ \A i \in DOMAIN q : i \in DOMAIN r /\ r[i] = q[i] /\ i \in Nat
                           /\ i < Len(q) + 1
      /\ \A i \in DOMAIN r : i \in DOMAIN q \/ i = Len(q) + 1
      /\ Len(q) + 1 \in DOMAIN r /\ r[Len(q) + 1] = m
  OBVIOUS
<1>3. /\ \A k \in DOMAIN s : k \in DOMAIN t /\ t[k] = s[k] /\ k \in Nat
                           /\ k < Len(s) + 1 /\ g[k] = f[k]
      /\ \A k \in DOMAIN t : k \in Nat /\ (k \in DOMAIN s \/ k = Len(s) + 1)
      /\ Len(s) + 1 \in DOMAIN t /\ t[Len(s) + 1] = m
      /\ g[Len(s) + 1] = Len(q) + 1 /\ Len(s) \in Nat /\ Len(q) \in Nat
  <2>1. DOMAIN s = 1 .. Len(s) /\ DOMAIN t = 1 .. Len(s) + 1 /\ Len(s) \in Nat
    BY Z3
  <2>2. \A k \in 1 .. Len(s) + 1 :
          g[k] = IF k = Len(s) + 1 THEN Len(q) + 1 ELSE f[k]
    OBVIOUS
  <2>3. \A k \in DOMAIN s : t[k] = s[k]
    OBVIOUS
  <2>4. t[Len(s) + 1] = m /\ Len(q) \in Nat
    OBVIOUS
  <2> HIDE DEF g, t
  <2> QED
    BY <2>1, <2>2, <2>3, <2>4
<1> HIDE DEF r, t, g
<1>4. \A k \in DOMAIN t : g[k] \in DOMAIN r /\ r[g[k]] = t[k] /\ t[k] \in T
  BY <1>1, <1>2, <1>3 DEF Embeds
<1>5. \A k, l \in DOMAIN t : k < l => g[k] < g[l]
  <2> SUFFICES ASSUME NEW k \in DOMAIN t, NEW l \in DOMAIN t, k < l
               PROVE  g[k] < g[l]
    OBVIOUS
  <2>1. k \in DOMAIN s
    BY <1>3
  <2>2. g[k] = f[k] /\ f[k] \in DOMAIN q /\ f[k] < Len(q) + 1
    BY <1>1, <1>2, <1>3, <2>1 DEF Embeds
  <2>3. CASE l \in DOMAIN s
    BY <1>1, <1>3, <2>1, <2>2, <2>3 DEF Embeds
  <2>4. CASE l = Len(s) + 1
    BY <1>3, <2>2, <2>4
  <2> QED
    BY <1>3, <2>3, <2>4
<1>6. ASSUME NEW i \in DOMAIN r, r[i] \in T PROVE \E k \in DOMAIN t : g[k] = i
  <2>1. CASE i \in DOMAIN q
    <3>1. PICK k \in DOMAIN s : f[k] = i
      BY <1>1, <1>2, <1>6, <2>1 DEF Embeds
    <3> QED
      BY <1>3, <3>1
  <2>2. CASE i = Len(q) + 1
    BY <1>3, <2>2
  <2> QED
    BY <1>2, <2>1, <2>2
<1>7. Embeds(g, r, T, t)
  BY <1>4, <1>5, <1>6 DEF Embeds
<1> QED
  BY <1>7 DEF Holds, r, t

LEMMA TailPlaces ==
  ASSUME NEW S, NEW q \in Seq(S), q # <<>>
  PROVE  /\ 1 \in DOMAIN q /\ Head(q) = q[1]
         /\ \A i \in DOMAIN q :
              /\ i \in Nat /\ i >= 1
              /\ i # 1 => i - 1 \in DOMAIN Tail(q) /\ Tail(q)[i - 1] = q[i]
         /\ \A i \in DOMAIN Tail(q) :
              /\ i \in Nat /\ i >= 1 /\ i + 1 \in DOMAIN q
              /\ Tail(q)[i] = q[i + 1]
<1>1. /\ Len(q) \in Nat /\ Len(q) >= 1 /\ Len(Tail(q)) = Len(q) - 1
      /\ DOMAIN q = 1 .. Len(q) /\ DOMAIN Tail(q) = 1 .. Len(q) - 1
      /\ Head(q) = q[1]
      /\ \A i \in 1 .. Len(q) - 1 : Tail(q)[i] = q[i + 1]
  OBVIOUS
<1>2. ASSUME NEW i \in DOMAIN q, i # 1
      PROVE  i - 1 \in DOMAIN Tail(q) /\ Tail(q)[i - 1] = q[i]
  <2>1. i - 1 \in 1 .. Len(q) - 1 /\ (i - 1) + 1 = i
    BY <1>1, <1>2
  <2> QED
    BY <1>1, <2>1
<1>3. ASSUME NEW i \in DOMAIN Tail(q)
      PROVE  i \in Nat /\ i >= 1 /\ i + 1 \in DOMAIN q /\ Tail(q)[i] = q[i + 1]
  BY <1>1
<1>4. \A i \in DOMAIN q : i \in Nat /\ i >= 1
  BY <1>1
<1>5. 1 \in DOMAIN q
  BY <1>1
<1> QED
  BY <1>1, <1>2, <1>3, <1>4, <1>5

LEMMA TailOther ==
  ASSUME NEW S, NEW q \in Seq(S), q # <<>>, NEW T, NEW s,
         Holds(q, T, s), Head(q) \notin T
  PROVE  Holds(Tail(q), T, s)
<1>1. PICK f : Embeds(f, q, T, s)
  BY DEF Holds
<1> DEFINE r == Tail(q)
           g == [k \in DOMAIN s |-> f[k] - 1]
<1>2. /\ \A i \in DOMAIN q :
           /\ i \in Nat /\ i >= 1
           /\ i # 1 => i - 1 \in DOMAIN r /\ r[i - 1] = q[i]
      /\ \A i \in DOMAIN r :
           i \in Nat /\ i >= 1 /\ i + 1 \in DOMAIN q /\ r[i] = q[i + 1]
      /\ 1 \in DOMAIN q /\ q[1] \notin T
  BY TailPlaces
<1>3. \A k \in DOMAIN s : g[k] = f[k] - 1 /\ f[k] \in DOMAIN q /\ f[k] # 1
  BY <1>1, <1>2 DEF Embeds
<1> HIDE DEF r, g
<1>4. ASSUME NEW k \in DOMAIN s
      PROVE  g[k] \in DOMAIN r /\ r[g[k]] = s[k] /\ s[k] \in T
  <2>1. q[f[k]] = s[k] /\ s[k] \in T
    BY <1>1 DEF Embeds
  <2>2. PICK i \in DOMAIN q : i = f[k] /\ i # 1 /\ g[k] = i - 1
    BY <1>3
  <2> QED
    BY <1>2, <2>1, <2>2
<1>5. \A k, l \in DOMAIN s : k < l => g[k] < g[l]
  BY <1>1, <1>2, <1>3 DEF Embeds
<1>6. ASSUME NEW i \in DOMAIN r, r[i] \in T PROVE \E k \in DOMAIN s : g[k] = i
  <2>1. PICK k \in DOMAIN s : f[k] = i + 1
    BY <1>1, <1>2, <1>6 DEF Embeds
  <2>2. i \in Nat /\ g[k] = f[k] - 1
    BY <1>2, <1>3
  <2> QED
    BY <2>1, <2>2
<1>7. Embeds(g, r, T, s)
  BY <1>4, <1>5, <1>6 DEF Embeds
<1> QED
  BY <1>7 DEF Holds, r

LEMMA TailOwn ==
  ASSUME NEW S, NEW q \in Seq(S), q # <<>>, NEW T, NEW R, NEW s \in Seq(R),
         Holds(q, T, s), Head(q) \in T
  PROVE  s # <<>> /\ Head(q) = Head(s) /\ Holds(Tail(q), T, Tail(s))
<1>1. PICK f : Embeds(f, q, T, s)
  BY DEF Holds
<1> DEFINE r == Tail(q)
           t == Tail(s)
           g == [k \in DOMAIN t |-> f[k + 1] - 1]
<1>2. /\ \A i \in DOMAIN q :
           /\ i \in Nat /\ i >= 1
           /\ i # 1 => i - 1 \in DOMAIN r /\ r[i - 1] = q[i]
      /\ \A i \in DOMAIN r :
           i \in Nat /\ i >= 1 /\ i + 1 \in DOMAIN q /\ r[i] = q[i + 1]
      /\ 1 \in DOMAIN q /\ q[1] \in T /\ Head(q) = q[1]
  BY TailPlaces
<1>3. PICK n \in DOMAIN s : f[n] = 1
  BY <1>1, <1>2 DEF Embeds
<1>4. \A k \in DOMAIN s : k \in Nat /\ k >= 1 /\ 1 \in DOMAIN s
  OBVIOUS
<1>5. n = 1
  <2>1. n > 1 => f[1] < f[n] /\ f[1] \in DOMAIN q
    BY <1>1, <1>3, <1>4 DEF Embeds
  <2> QED
    BY <1>2, <1>3, <1>4, <2>1
<1>6. s # <<>> /\ Head(s) = s[1] /\ s[1] = q[1]
  BY <1>1, <1>3, <1>5 DEF Embeds
<1>7. /\ \A k \in DOMAIN t : /\ k \in Nat /\ k >= 1 /\ k + 1 \in DOMAIN s
                           /\ t[k] = s[k + 1] /\ g[k] = f[k + 1] - 1
      /\ \A k \in DOMAIN s : k = 1 \/ k - 1 \in DOMAIN t
  <2>1. \A k \in DOMAIN t : k \in Nat /\ k >= 1 /\ k + 1 \in DOMAIN s /\ t[k] = s[k + 1]
    BY <1>6
  <2>2. \A k \in DOMAIN s : k = 1 \/ k - 1 \in DOMAIN t
    BY <1>6
  <2> QED
    BY <2>1, <2>2
<1> HIDE DEF r, t, g
<1>8. \A k \in DOMAIN t : /\ f[k + 1] \in DOMAIN q /\ f[k + 1] > 1
                         /\ q[f[k + 1]] = t[k] /\ t[k] \in T
  <2> TAKE k \in DOMAIN t
  <2>1. k + 1 \in DOMAIN s /\ 1 < k + 1 /\ 1 \in DOMAIN s
    BY <1>3, <1>5, <1>7
  <2>2. f[1] < f[k + 1] /\ f[1] = 1
    BY <1>1, <1>3, <1>5, <2>1 DEF Embeds
  <2> QED
    BY <1>1, <1>2, <1>7, <2>1, <2>2 DEF Embeds
<1>9. \A k \in DOMAIN t : g[k] \in DOMAIN r /\ r[g[k]] = t[k] /\ t[k] \in T
  BY <1>2, <1>7, <1>8
<1>10. \A k, l \in DOMAIN t : k < l => g[k] < g[l]
  <2> SUFFICES ASSUME NEW k \in DOMAIN t, NEW l \in DOMAIN t, k < l
               PROVE  g[k] < g[l]
    OBVIOUS
  <2>1. k + 1 < l + 1 /\ k + 1 \in DOMAIN s /\ l + 1 \in DOMAIN s
    BY <1>7
  <2>2. f[k + 1] < f[l + 1]
    BY <1>1, <2>1 DEF Embeds
  <2>3. f[k + 1] \in Nat /\ f[l + 1] \in Nat
    BY <1>2, <1>8
  <2> QED
    BY <1>7, <2>2, <2>3
<1>11. ASSUME NEW i \in DOMAIN r, r[i] \in T PROVE \E k \in DOMAIN t : g[k] = i
  <2>1. PICK k \in DOMAIN s : f[k] = i + 1
    BY <1>1, <1>2, <1>11 DEF Embeds
  <2>2. k # 1
    BY <1>2, <1>3, <1>5, <2>1
  <2>3. k - 1 \in DOMAIN t /\ (k - 1) + 1 = k
    BY <1>4, <1>7, <2>2
  <2>4. g[k - 1] = f[(k - 1) + 1] - 1
    BY <1>7, <2>3
  <2>5. g[k - 1] = (i + 1) - 1 /\ i \in Nat
    BY <1>2, <2>1, <2>3, <2>4
  <2>6. g[k - 1] = i
    BY <2>5
  <2> QED
    BY <2>3, <2>6
<1>12. Embeds(g, r, T, t)
  BY <1>9, <1>10, <1>11 DEF Embeds
<1>13. Holds(r, T, t)
  BY <1>12 DEF Holds
<1> QED
  BY <1>2, <1>6, <1>13 DEF r, t

LEMMA InsertOther ==
  ASSUME NEW S, NEW q \in Seq(S), NEW m \in S, NEW k \in 1 .. Len(q) + 1,
         NEW r, r = InsertAt(q, k, m), NEW T, NEW s, Holds(q, T, s), m \notin T
  PROVE  Holds(r, T, s)
<1>1. PICK f : Embeds(f, q, T, s)
  BY DEF Holds
<1>2. GotIn(q, m, r, k)
  BY InsertFacts
<1> DEFINE g == [n \in DOMAIN s |-> IF f[n] < k THEN f[n] ELSE f[n] + 1]
<1>3. \A n \in DOMAIN s : /\ g[n] = IF f[n] < k THEN f[n] ELSE f[n] + 1
                         /\ f[n] \in DOMAIN q /\ f[n] \in Nat
  BY <1>1, <1>2 DEF Embeds, GotIn
<1> HIDE DEF g
<1>4. \A n \in DOMAIN s : g[n] \in DOMAIN r /\ r[g[n]] = s[n] /\ s[n] \in T
  BY <1>1, <1>2, <1>3 DEF Embeds, GotIn
<1>5. \A n, l \in DOMAIN s : n < l => g[n] < g[l]
  BY <1>1, <1>3 DEF Embeds
<1>6. ASSUME NEW i \in DOMAIN r, r[i] \in T PROVE \E n \in DOMAIN s : g[n] = i
  <2>1. \/ i < k /\ i \in DOMAIN q /\ r[i] = q[i]
        \/ i > k /\ i - 1 \in DOMAIN q /\ r[i] = q[i - 1]
    BY <1>2, <1>6 DEF GotIn
  <2>2. i \in Nat
    BY <1>2 DEF GotIn
  <2>3. CASE i < k /\ i \in DOMAIN q /\ r[i] = q[i]
    BY <1>1, <1>3, <1>6, <2>3 DEF Embeds
  <2>4. CASE i > k /\ i - 1 \in DOMAIN q /\ r[i] = q[i - 1]
    <3>1. PICK n \in DOMAIN s : f[n] = i - 1
      BY <1>1, <1>6, <2>4 DEF Embeds
    <3>2. ~(i - 1 < k) /\ (i - 1) + 1 = i
      BY <2>2, <2>4
    <3> QED
      BY <1>3, <3>1, <3>2
  <2> QED
    BY <2>1, <2>3, <2>4
<1>7. Embeds(g, r, T, s)
  BY <1>4, <1>5, <1>6 DEF Embeds
<1> QED
  BY <1>7 DEF Holds

LEMMA InsertFirst ==
  ASSUME NEW S, NEW q \in Seq(S), NEW m \in S, NEW k \in 1 .. Len(q) + 1,
         NEW r, r = InsertAt(q, k, m), NEW T, Holds(q, T, <<>>), m \in T
  PROVE  Holds(r, T, <<m>>)
<1>1. GotIn(q, m, r, k)
  BY InsertFacts
<1>2. \A i \in DOMAIN q : q[i] \notin T
  BY HoldsNone
<1>3. k \in DOMAIN r /\ r[k] = m
  BY <1>1 DEF GotIn
<1>4. \A j \in DOMAIN r : r[j] \in T => j = k
  BY <1>1, <1>2 DEF GotIn
<1> QED
  BY <1>3, <1>4, HoldsOne

-----------------------------------------------------------------------------
(* With q to be worked off, the last message in T decides: either it is in  *)
(* E, or there is none and c already is so.                                 *)
Ends(q, T, E, c) ==
  \/ c /\ \A i \in DOMAIN q : q[i] \notin T
  \/ \E i \in DOMAIN q : /\ q[i] \in T \cap E
                        /\ \A j \in DOMAIN q : j > i => q[j] \notin T

LEMMA EndsMore ==
  ASSUME NEW S, NEW q \in Seq(S), NEW s \in Seq(S), NEW T, NEW E, NEW c,
         Ends(q, T, E, c), \A k \in DOMAIN s : s[k] \notin T
  PROVE  Ends(q \o s, T, E, c)
<1> DEFINE r == q \o s
<1>1. /\ Len(q) \in Nat /\ DOMAIN q = 1 .. Len(q) /\ DOMAIN s = 1 .. Len(s)
      /\ Len(s) \in Nat /\ DOMAIN r = 1 .. Len(q) + Len(s)
      /\ \A i \in 1 .. Len(q) : r[i] = q[i]
      /\ \A i \in Len(q) + 1 .. Len(q) + Len(s) : r[i] = s[i - Len(q)]
  OBVIOUS
<1> HIDE DEF r
<1>2. ASSUME NEW i \in DOMAIN r, r[i] \in T
      PROVE  i \in DOMAIN q /\ r[i] = q[i]
  <2>1. CASE i \in Len(q) + 1 .. Len(q) + Len(s)
    <3>1. i - Len(q) \in DOMAIN s
      BY <1>1, <2>1
    <3> QED
      BY <1>1, <1>2, <2>1, <3>1
  <2> QED
    BY <1>1, <2>1
<1>3. \A i \in DOMAIN q : i \in DOMAIN r /\ r[i] = q[i]
  BY <1>1
<1> QED
  BY <1>2, <1>3 DEF Ends, r

LEMMA EndsOther ==
  ASSUME NEW S, NEW q \in Seq(S), NEW m \in S, NEW T, NEW E, NEW c,
         Ends(q, T, E, c), m \notin T
  PROVE  Ends(Append(q, m), T, E, c)
<1>1. <<m>> \in Seq(S) /\ Append(q, m) = q \o <<m>>
  OBVIOUS
<1>2. \A k \in DOMAIN <<m>> : <<m>>[k] \notin T
  OBVIOUS
<1> QED
  BY <1>1, <1>2, EndsMore

LEMMA EndsOwn ==
  ASSUME NEW S, NEW q \in Seq(S), NEW m \in S, NEW T, NEW E, NEW c,
         m \in T \cap E
  PROVE  Ends(Append(q, m), T, E, c)
<1> DEFINE r == Append(q, m)
           n == Len(q) + 1
<1>1. n \in DOMAIN r /\ r[n] = m /\ \A j \in DOMAIN r : ~(j > n)
  OBVIOUS
<1> HIDE DEF r, n
<1> QED
  BY <1>1 DEF Ends, r

LEMMA EndsTail ==
  ASSUME NEW S, NEW q \in Seq(S), q # <<>>, NEW T, NEW E, NEW c,
         Ends(q, T, E, c)
  PROVE  Ends(Tail(q), T, E, IF Head(q) \in T THEN Head(q) \in E ELSE c)
<1> DEFINE r == Tail(q)
<1>1. /\ 1 \in DOMAIN q /\ Head(q) = q[1]
      /\ \A i \in DOMAIN q :
           /\ i \in Nat /\ i >= 1
           /\ i # 1 => i - 1 \in DOMAIN r /\ r[i - 1] = q[i]
      /\ \A i \in DOMAIN r :
           i \in Nat /\ i >= 1 /\ i + 1 \in DOMAIN q /\ r[i] = q[i + 1]
  BY TailPlaces
<1> HIDE DEF r
<1>2. CASE c /\ \A i \in DOMAIN q : q[i] \notin T
  BY <1>1, <1>2 DEF Ends, r
<1>3. ASSUME NEW i \in DOMAIN q, q[i] \in T \cap E,
             \A j \in DOMAIN q : j > i => q[j] \notin T
      PROVE  Ends(r, T, E, IF Head(q) \in T THEN Head(q) \in E ELSE c)
  <2>1. CASE i = 1
    <3>1. \A k \in DOMAIN r : k + 1 > i
      BY <1>1, <2>1
    <3>2. \A k \in DOMAIN r : r[k] \notin T
      BY <1>1, <1>3, <3>1
    <3> QED
      BY <1>1, <1>3, <2>1, <3>2 DEF Ends
  <2>2. CASE i # 1
    <3>1. i - 1 \in DOMAIN r /\ r[i - 1] = q[i]
      BY <1>1, <2>2
    <3>2. ASSUME NEW j \in DOMAIN r, j > i - 1 PROVE r[j] \notin T
      <4>1. j + 1 \in DOMAIN q /\ j + 1 > i /\ r[j] = q[j + 1]
        BY <1>1, <3>2
      <4> QED
        BY <1>3, <4>1
    <3> QED
      BY <1>3, <3>1, <3>2 DEF Ends
  <2> QED
    BY <2>1, <2>2
<1> QED
  BY <1>2, <1>3 DEF Ends, r
-----------------------------------------------------------------------------
(* Sequences joined up.  FlattenSeq(s) is the last of the beginnings of s   *)
(* joined up; f has them all.                                               *)
Joins(f, s) ==
  f = [i \in 1 .. Len(s) |-> IF i = 1 THEN s[i] ELSE f[i - 1] \o s[i]]

(* A set of numbers with 0 and the next of each has all numbers.            *)
LEMMA AllNumbers ==
  ASSUME NEW T, 0 \in T, \A n \in Nat : n \in T => n + 1 \in T
  PROVE  Nat \subseteq T
<1> SUFFICES ASSUME Nat \ T # {} PROVE FALSE
  OBVIOUS
<1>1. PICK n \in Nat \ T : \A k \in Nat \ T : <<k, n>> \notin OpToRel(<, Nat)
  <2> Nat \ T \subseteq Nat
    OBVIOUS
  <2> QED
    BY NatLessThanWellFounded, WFMin
<1>2. n # 0 /\ n - 1 \in Nat /\ n - 1 < n
  OBVIOUS
<1>3. n - 1 \in T
  BY <1>1, <1>2 DEF OpToRel
<1>4. n = (n - 1) + 1
  OBVIOUS
<1> QED
  BY <1>1, <1>2, <1>3, <1>4

LEMMA JoinsValue ==
  ASSUME NEW f, NEW s, Len(s) \in Nat, Joins(f, s)
  PROVE  \A i \in 1 .. Len(s) : f[i] = IF i = 1 THEN s[i] ELSE f[i - 1] \o s[i]
<1>1. PICK g : g = f
  OBVIOUS
<1>2. f = [i \in 1 .. Len(s) |-> IF i = 1 THEN s[i] ELSE g[i - 1] \o s[i]]
  BY <1>1 DEF Joins
<1> QED
  BY <1>1, <1>2

(* There is one function that joins s up.                                   *)
LEMMA JoinsLonger ==
  ASSUME NEW f, NEW s, NEW t, Len(s) \in Nat, Len(t) = Len(s) + 1, Joins(f, s),
         \A i \in 1 .. Len(s) : t[i] = s[i]
  PROVE  \E g : Joins(g, t)
<1> DEFINE n == Len(s) + 1
           g == [i \in 1 .. n |-> IF i # n THEN f[i]
                                  ELSE IF n = 1 THEN t[n] ELSE f[n - 1] \o t[n]]
           h == [i \in 1 .. n |-> IF i = 1 THEN t[i] ELSE g[i - 1] \o t[i]]
<1>1. ASSUME NEW i \in 1 .. n
      PROVE  g[i] = h[i]
  <2>1. CASE i = n
    <3>1. n # 1 => n - 1 \in 1 .. n /\ n - 1 # n
      OBVIOUS
    <3> QED
      BY <2>1, <3>1
  <2>2. CASE i # n
    <3>1. i \in 1 .. Len(s)
      BY <2>2
    <3>2. i # 1 => i - 1 \in 1 .. n /\ i - 1 # n
      OBVIOUS
    <3>3. f[i] = IF i = 1 THEN s[i] ELSE f[i - 1] \o s[i]
      BY <3>1, JoinsValue
    <3> QED
      BY <2>2, <3>1, <3>2, <3>3
  <2> QED
    BY <2>1, <2>2
<1>2. g = h
  BY <1>1
<1>3. Joins(g, t)
  <2> HIDE DEF g
  <2> QED
    BY <1>2 DEF Joins
<1> QED
  BY <1>3

LEMMA JoinsExists ==
  ASSUME NEW A, NEW s \in Seq(A)
  PROVE  \E f : Joins(f, s)
<1> DEFINE T == {n \in Nat : \A t \in Seq(A) : Len(t) = n => \E f : Joins(f, t)}
<1>1. 0 \in T
  <2> SUFFICES ASSUME NEW t \in Seq(A), Len(t) = 0
               PROVE  \E f : Joins(f, t)
    OBVIOUS
  <2>1. Joins(<<>>, t)
    BY DEF Joins
  <2> QED
    BY <2>1
<1>2. ASSUME NEW n \in Nat, n \in T
      PROVE  n + 1 \in T
  <2> SUFFICES ASSUME NEW t \in Seq(A), Len(t) = n + 1
               PROVE  \E f : Joins(f, t)
    OBVIOUS
  <2>1. PICK u \in Seq(A) : Len(u) = n /\ \A i \in 1 .. n : t[i] = u[i]
    <3>1. /\ SubSeq(t, 1, n) \in Seq(A) /\ Len(SubSeq(t, 1, n)) = n
          /\ \A i \in 1 .. n : t[i] = SubSeq(t, 1, n)[i]
      OBVIOUS
    <3> QED
      BY <3>1
  <2>2. PICK f : Joins(f, u)
    BY <1>2, <2>1
  <2> HIDE DEF T
  <2> QED
    BY <2>1, <2>2, JoinsLonger
<1>3. Len(s) \in T
  <2> HIDE DEF T
  <2> QED
    BY <1>1, <1>2, AllNumbers
<1> QED
  BY <1>3

(* s is the beginning of t of length n.                                     *)
Begins(s, n, t, m) ==
  n <= m /\ Len(s) = n /\ Len(t) = m /\ \A i \in 1 .. n : t[i] = s[i]

LEMMA JoinsUnique ==
  ASSUME NEW f, NEW g, NEW s, NEW t, NEW n \in Nat, NEW m \in Nat,
         Begins(s, n, t, m), Joins(f, s), Joins(g, t)
  PROVE  \A i \in 1 .. n : f[i] = g[i]
<1> DEFINE T == {i \in Nat : i \in 1 .. n => f[i] = g[i]}
<1>1. 0 \in T
  OBVIOUS
<1>2. \A i \in 1 .. n : f[i] = IF i = 1 THEN s[i] ELSE f[i - 1] \o s[i]
  BY JoinsValue DEF Begins
<1>3. \A i \in 1 .. m : g[i] = IF i = 1 THEN t[i] ELSE g[i - 1] \o t[i]
  BY JoinsValue DEF Begins
<1>4. ASSUME NEW i \in Nat, i \in T
      PROVE  i + 1 \in T
  <2> SUFFICES ASSUME i + 1 \in 1 .. n
               PROVE  f[i + 1] = g[i + 1]
    OBVIOUS
  <2>1. PICK k \in 1 .. n : k = i + 1
    OBVIOUS
  <2>2. k \in 1 .. m /\ k - 1 = i /\ (k # 1 => i \in 1 .. n)
    BY <2>1 DEF Begins
  <2>3. k # 1 => f[k - 1] = g[k - 1]
    BY <1>4, <2>2
  <2>4. f[k] = g[k]
    BY <1>2, <1>3, <2>2, <2>3 DEF Begins
  <2> QED
    BY <2>1, <2>4
<1>5. Nat \subseteq T
  <2> HIDE DEF T
  <2> QED
    BY <1>1, <1>4, AllNumbers
<1> QED
  BY <1>5

LEMMA FlattenJoins ==
  ASSUME NEW A, NEW s \in Seq(A), s # <<>>
  PROVE  \E f : Joins(f, s) /\ FlattenSeq(s) = f[Len(s)]
<1> DEFINE F == CHOOSE f :
                  f = [i \in 1 .. Len(s) |-> IF i = 1 THEN s[i] ELSE f[i - 1] \o s[i]]
<1>1. FlattenSeq(s) = F[Len(s)]
  <2>1. Len(s) # 0
    OBVIOUS
  <2> QED
    BY <2>1 DEF FlattenSeq
<1>2. Joins(F, s)
  BY JoinsExists DEF Joins
<1> QED
  BY <1>1, <1>2

LEMMA FlattenEmpty == FlattenSeq(<<>>) = <<>>
BY DEF FlattenSeq

LEMMA FlattenTyped ==
  ASSUME NEW B, NEW s \in Seq(Seq(B))
  PROVE  FlattenSeq(s) \in Seq(B)
<1>1. CASE s = <<>>
  <2>1. <<>> \in Seq(B)
    OBVIOUS
  <2> QED
    BY <1>1, <2>1, FlattenEmpty, Zenon
<1>2. CASE s # <<>>
  <2>1. PICK f : Joins(f, s) /\ FlattenSeq(s) = f[Len(s)]
    BY <1>2, FlattenJoins
  <2>2. \A i \in 1 .. Len(s) : f[i] = IF i = 1 THEN s[i] ELSE f[i - 1] \o s[i]
    BY <2>1, JoinsValue
  <2> DEFINE T == {n \in Nat : n \in 1 .. Len(s) => f[n] \in Seq(B)}
  <2>3. 0 \in T
    OBVIOUS
  <2>4. ASSUME NEW n \in Nat, n \in T
        PROVE  n + 1 \in T
    <3> SUFFICES ASSUME n + 1 \in 1 .. Len(s)
                 PROVE  f[n + 1] \in Seq(B)
      OBVIOUS
    <3>1. PICK k \in 1 .. Len(s) : k = n + 1
      OBVIOUS
    <3>2. k - 1 = n /\ (k # 1 => n \in 1 .. Len(s)) /\ s[k] \in Seq(B)
      BY <3>1
    <3>3. k # 1 => f[k - 1] \in Seq(B)
      BY <2>4, <3>2
    <3>4. f[k] = s[k] \/ (k # 1 /\ f[k] = f[k - 1] \o s[k])
      BY <2>2
    <3>5. f[k] \in Seq(B)
      <4>1. \A a, b \in Seq(B) : a \o b \in Seq(B)
        OBVIOUS
      <4> QED
        BY <3>2, <3>3, <3>4, <4>1, Zenon
    <3> QED
      BY <3>1, <3>5, Zenon
  <2>5. Nat \subseteq T
    <3> HIDE DEF T
    <3> QED
      BY <2>3, <2>4, AllNumbers
  <2>6. Len(s) \in 1 .. Len(s)
    BY <1>2
  <2> QED
    BY <2>1, <2>5, <2>6
<1> QED
  BY <1>1, <1>2

(* One more is put at the end.                                              *)
LEMMA FlattenAppend ==
  ASSUME NEW B, NEW s \in Seq(Seq(B)), NEW x \in Seq(B)
  PROVE  FlattenSeq(Append(s, x)) = FlattenSeq(s) \o x
<1>1. PICK t \in Seq(Seq(B)) : t = Append(s, x)
  <2>1. Append(s, x) \in Seq(Seq(B))
    BY AppendFacts, Zenon
  <2> QED
    BY <2>1
<1>2. /\ Len(t) = Len(s) + 1 /\ t # <<>> /\ t[Len(t)] = x
      /\ \A i \in 1 .. Len(s) : t[i] = s[i]
  BY <1>1
<1>3. PICK g : Joins(g, t) /\ FlattenSeq(t) = g[Len(t)]
  BY <1>2, FlattenJoins
<1>4. Len(t) \in 1 .. Len(t) /\ Len(t) - 1 = Len(s) /\ (Len(t) = 1 <=> s = <<>>)
  BY <1>2
<1>5. g[Len(t)] = IF Len(t) = 1 THEN x ELSE g[Len(t) - 1] \o x
  <2>1. Len(t) \in Nat
    OBVIOUS
  <2>2. \A i \in 1 .. Len(t) : g[i] = IF i = 1 THEN t[i] ELSE g[i - 1] \o t[i]
    BY <1>3, <2>1, JoinsValue, Zenon
  <2> QED
    BY <1>2, <1>4, <2>2, Zenon
<1>6. CASE s = <<>>
  <2>1. FlattenSeq(s) \o x = x
    BY <1>6, FlattenEmpty
  <2> QED
    BY <1>1, <1>3, <1>4, <1>5, <1>6, <2>1
<1>7. CASE s # <<>>
  <2>1. PICK f : Joins(f, s) /\ FlattenSeq(s) = f[Len(s)]
    BY <1>7, FlattenJoins
  <2>2. Len(s) \in 1 .. Len(s) /\ Len(s) <= Len(t) /\ Len(s) \in Nat /\ Len(t) \in Nat
    BY <1>2, <1>7
  <2>3. \A i \in 1 .. Len(s) : f[i] = g[i]
    <3>1. Joins(f, s) /\ Joins(g, t)
      BY <1>3, <2>1
    <3>2. PICK n \in Nat, m \in Nat : Len(s) = n /\ Len(t) = m
      BY <2>2
    <3>3. \A i \in 1 .. n : t[i] = s[i]
      BY <1>2, <3>2, Zenon
    <3>4. Begins(s, n, t, m)
      BY <2>2, <3>2, <3>3 DEF Begins
    <3>5. \A i \in 1 .. n : f[i] = g[i]
      BY <3>1, <3>4, JoinsUnique
    <3> QED
      BY <3>2, <3>5
  <2>4. f[Len(s)] = g[Len(s)]
    BY <2>2, <2>3
  <2> QED
    BY <1>1, <1>3, <1>4, <1>5, <1>7, <2>1, <2>4
<1> QED
  BY <1>6, <1>7

(* The order in which three sequences are joined does not matter.           *)
Associates(a, b, c) == (a \o b) \o c = a \o (b \o c)

LEMMA ConcatsAre ==
  ASSUME NEW S, NEW a \in Seq(S), NEW b \in Seq(S), NEW c \in Seq(S)
  PROVE  Associates(a, b, c)
BY ConcatAssociative DEF Associates

(* Two sequences of them, one after the other.                              *)
LEMMA FlattenTwo ==
  ASSUME NEW B, NEW s \in Seq(Seq(B)), NEW t \in Seq(Seq(B))
  PROVE  FlattenSeq(s \o t) = FlattenSeq(s) \o FlattenSeq(t)
<1> DEFINE T == {n \in Nat : \A u \in Seq(Seq(B)) :
                   Len(u) = n => FlattenSeq(s \o u) = FlattenSeq(s) \o FlattenSeq(u)}
<1>1. 0 \in T
  <2> SUFFICES ASSUME NEW u \in Seq(Seq(B)), Len(u) = 0
               PROVE  FlattenSeq(s \o u) = FlattenSeq(s) \o FlattenSeq(u)
    OBVIOUS
  <2>1. u = <<>> /\ s \o u = s
    OBVIOUS
  <2>2. FlattenSeq(s) \in Seq(B)
    BY FlattenTyped
  <2>3. FlattenSeq(s) \o <<>> = FlattenSeq(s)
    BY <2>2
  <2> QED
    BY <2>1, <2>3, FlattenEmpty
<1>2. ASSUME NEW n \in Nat, n \in T
      PROVE  n + 1 \in T
  <2> SUFFICES ASSUME NEW u \in Seq(Seq(B)), Len(u) = n + 1
               PROVE  FlattenSeq(s \o u) = FlattenSeq(s) \o FlattenSeq(u)
    OBVIOUS
  <2>1. PICK v \in Seq(Seq(B)), x \in Seq(B) : u = Append(v, x) /\ Len(v) = n
    <3>1. /\ SubSeq(u, 1, n) \in Seq(Seq(B)) /\ u[n + 1] \in Seq(B)
          /\ Len(SubSeq(u, 1, n)) = n
          /\ u = Append(SubSeq(u, 1, n), u[n + 1])
      OBVIOUS
    <3> QED
      BY <3>1
  <2>2. FlattenSeq(s \o v) = FlattenSeq(s) \o FlattenSeq(v)
    BY <1>2, <2>1
  <2>3. s \o u = Append(s \o v, x) /\ s \o v \in Seq(Seq(B))
    BY <2>1
  <2>4. FlattenSeq(s \o u) = (FlattenSeq(s) \o FlattenSeq(v)) \o x
    BY <2>2, <2>3, FlattenAppend
  <2>5. FlattenSeq(u) = FlattenSeq(v) \o x
    BY <2>1, FlattenAppend
  <2>6. PICK a \in Seq(B), b \in Seq(B) : a = FlattenSeq(s) /\ b = FlattenSeq(v)
    BY FlattenTyped
  <2>7. Associates(a, b, x)
    BY ConcatsAre, Zenon
  <2> QED
    BY <2>4, <2>5, <2>6, <2>7, Zenon DEF Associates
<1>3. Len(t) \in T
  <2>1. Len(t) \in Nat
    OBVIOUS
  <2> HIDE DEF T
  <2>2. Nat \subseteq T
    BY <1>1, <1>2, AllNumbers, Zenon
  <2> QED
    BY <2>1, <2>2, Zenon
<1> QED
  BY <1>3

-----------------------------------------------------------------------------
(* Each of T in q comes after one of E, if c is not so already, and before  *)
(* any of D.                                                                *)
Ordered(q, T, E, D, c) ==
  \A i \in DOMAIN q : q[i] \in T =>
    /\ c \/ \E j \in DOMAIN q : j < i /\ q[j] \in E
    /\ \A j \in DOMAIN q : j < i => q[j] \notin D

LEMMA OrderedAppend ==
  ASSUME NEW S, NEW q \in Seq(S), NEW m \in S, NEW T, NEW E, NEW D, NEW c,
         Ordered(q, T, E, D, c),
         m \in T => /\ c \/ \E e \in Range(q) : e \in E
                    /\ \A d \in Range(q) : d \notin D
  PROVE  Ordered(Append(q, m), T, E, D, c)
<1>1. PICK r \in Seq(S) : r = Append(q, m)
  BY AppendFacts
<1>2. /\ DOMAIN q = 1 .. Len(q) /\ Len(q) \in Nat /\ DOMAIN r = 1 .. Len(q) + 1
      /\ r[Len(q) + 1] = m /\ \A i \in DOMAIN q : i \in DOMAIN r /\ r[i] = q[i]
  BY <1>1
<1> SUFFICES ASSUME NEW i \in DOMAIN r, r[i] \in T
             PROVE  /\ c \/ \E j \in DOMAIN r : j < i /\ r[j] \in E
                    /\ \A j \in DOMAIN r : j < i => r[j] \notin D
  BY <1>1 DEF Ordered
<1>3. CASE i \in DOMAIN q
  <2>1. q[i] \in T
    BY <1>2, <1>3
  <2>2. /\ c \/ \E j \in DOMAIN q : j < i /\ q[j] \in E
        /\ \A j \in DOMAIN q : j < i => q[j] \notin D
    BY <1>3, <2>1 DEF Ordered
  <2>3. \A j \in DOMAIN r : j < i => j \in DOMAIN q
    BY <1>2, <1>3
  <2> QED
    BY <1>2, <2>2, <2>3
<1>4. CASE i \notin DOMAIN q
  <2>1. i = Len(q) + 1 /\ m \in T
    BY <1>2, <1>4
  <2>2. \A j \in DOMAIN q : j < i
    BY <1>2, <2>1
  <2>3. \A j \in DOMAIN r : j < i => j \in DOMAIN q
    BY <1>2, <2>1
  <2> QED
    BY <1>2, <2>1, <2>2, <2>3 DEF Range
<1> QED
  BY <1>3, <1>4

LEMMA OrderedTail ==
  ASSUME NEW S, NEW q \in Seq(S), q # <<>>, NEW T, NEW E, NEW D, NEW c, NEW d,
         Ordered(q, T, E, D, c), c \/ Head(q) \in E => d
  PROVE  Ordered(Tail(q), T, E, D, d)
<1>1. PICK r : r = Tail(q)
  OBVIOUS
<1>2. /\ DOMAIN q = 1 .. Len(q) /\ Len(q) \in Nat /\ Head(q) = q[1]
      /\ DOMAIN r = 1 .. Len(q) - 1
      /\ \A i \in DOMAIN r : i + 1 \in DOMAIN q /\ r[i] = q[i + 1]
  BY <1>1
<1> SUFFICES ASSUME NEW i \in DOMAIN r, r[i] \in T
             PROVE  /\ d \/ \E j \in DOMAIN r : j < i /\ r[j] \in E
                    /\ \A j \in DOMAIN r : j < i => r[j] \notin D
  BY <1>1 DEF Ordered
<1>3. PICK k \in DOMAIN q : k = i + 1 /\ q[k] \in T
  BY <1>2
<1>4. /\ c \/ \E j \in DOMAIN q : j < k /\ q[j] \in E
      /\ \A j \in DOMAIN q : j < k => q[j] \notin D
  BY <1>3 DEF Ordered
<1>5. ASSUME NEW j \in DOMAIN r, j < i
      PROVE  r[j] \notin D
  <2>1. j + 1 \in DOMAIN q /\ j + 1 < k /\ r[j] = q[j + 1]
    BY <1>2, <1>3, <1>5
  <2> QED
    BY <1>4, <2>1
<1>6. ASSUME NEW j \in DOMAIN q, j < k, q[j] \in E
      PROVE  d \/ \E l \in DOMAIN r : l < i /\ r[l] \in E
  <2>1. CASE j = 1
    BY <1>2, <1>6, <2>1
  <2>2. CASE j # 1
    <3>1. PICK l \in DOMAIN r : j = l + 1 /\ l < i
      <4>1. j - 1 \in DOMAIN r /\ j = (j - 1) + 1 /\ j - 1 < i
        BY <1>2, <1>3, <1>6, <2>2
      <4> QED
        BY <4>1
    <3> QED
      BY <1>2, <1>6, <3>1
  <2> QED
    BY <2>1, <2>2
<1> QED
  BY <1>4, <1>5, <1>6

LEMMA OrderedInsert ==
  ASSUME NEW q, NEW m, NEW r, NEW k \in Nat, GotIn(q, m, r, k),
         NEW T, NEW E, NEW D, NEW c, Ordered(q, T, E, D, c), m \notin T, m \notin D
  PROVE  Ordered(r, T, E, D, c)
<1> SUFFICES ASSUME NEW i \in DOMAIN r, r[i] \in T
             PROVE  /\ c \/ \E j \in DOMAIN r : j < i /\ r[j] \in E
                    /\ \A j \in DOMAIN r : j < i => r[j] \notin D
  BY DEF Ordered
<1>1. /\ r[k] = m
      /\ \A j \in DOMAIN q : /\ j \in Nat
                             /\ \/ j < k /\ j \in DOMAIN r /\ r[j] = q[j]
                                \/ j >= k /\ j + 1 \in DOMAIN r /\ r[j + 1] = q[j]
      /\ \A j \in DOMAIN r : /\ j \in Nat
                             /\ \/ j < k /\ j \in DOMAIN q /\ r[j] = q[j]
                                \/ j = k
                                \/ j > k /\ j - 1 \in DOMAIN q /\ r[j] = q[j - 1]
  BY DEF GotIn
<1>2. PICK h \in DOMAIN q :
        /\ h \in Nat /\ i \in Nat /\ q[h] = r[i]
        /\ (i < k /\ h = i) \/ (i > k /\ h = i - 1)
  <2>1. \/ i < k /\ i \in DOMAIN q /\ r[i] = q[i]
        \/ i > k /\ i - 1 \in DOMAIN q /\ r[i] = q[i - 1]
    BY <1>1
  <2>2. i \in Nat /\ (i > k => i - 1 \in Nat)
    BY <1>1
  <2> QED
    BY <2>1, <2>2
<1>3. /\ c \/ \E j \in DOMAIN q : j < h /\ q[j] \in E
      /\ \A j \in DOMAIN q : j < h => q[j] \notin D
  BY <1>2 DEF Ordered
<1>4. ASSUME NEW j \in DOMAIN r, j < i
      PROVE  r[j] \notin D
  <2>1. CASE j = k
    BY <1>1, <2>1
  <2>2. CASE j < k /\ j \in DOMAIN q /\ r[j] = q[j]
    <3>1. j < h
      BY <1>1, <1>2, <1>4, <2>2
    <3> QED
      BY <1>3, <2>2, <3>1
  <2>3. CASE j > k /\ j - 1 \in DOMAIN q /\ r[j] = q[j - 1]
    <3>1. j - 1 < h
      BY <1>1, <1>2, <1>4, <2>3
    <3> QED
      BY <1>3, <2>3, <3>1
  <2> QED
    BY <1>1, <2>1, <2>2, <2>3
<1>5. ASSUME NEW j \in DOMAIN q, j < h, q[j] \in E
      PROVE  \E l \in DOMAIN r : l < i /\ r[l] \in E
  <2>1. CASE j < k /\ j \in DOMAIN r /\ r[j] = q[j]
    <3>1. j < i
      BY <1>1, <1>2, <1>5, <2>1
    <3> QED
      BY <1>5, <2>1, <3>1
  <2>2. CASE j >= k /\ j + 1 \in DOMAIN r /\ r[j + 1] = q[j]
    <3>1. j + 1 < i
      BY <1>1, <1>2, <1>5, <2>2
    <3> QED
      BY <1>5, <2>2, <3>1
  <2> QED
    BY <1>1, <2>1, <2>2
<1> QED
  BY <1>3, <1>4, <1>5

-----------------------------------------------------------------------------
(* r is a and then q.                                                       *)
Follows(r, a, q, S) ==
  /\ r \in Seq(S) /\ Len(r) = Len(a) + Len(q)
  /\ \A i \in 1 .. Len(a) : r[i] = a[i]
  /\ \A i \in 1 .. Len(q) : r[Len(a) + i] = q[i]

LEMMA ConcatFacts ==
  ASSUME NEW S, NEW a \in Seq(S), NEW q \in Seq(S), NEW r, r = a \o q
  PROVE  Follows(r, a, q, S)
BY DEF Follows

(* What the messages of q have, by f, one after the other.                  *)
Each(q, f) == [k \in 1 .. Len(q) |-> f[q[k]]]

LEMMA EachTyped ==
  ASSUME NEW A, NEW B, NEW f \in [A -> Seq(B)], NEW q \in Seq(A)
  PROVE  Each(q, f) \in Seq(Seq(B)) /\ FlattenSeq(Each(q, f)) \in Seq(B)
<1>1. PICK C : C = Seq(B)
  OBVIOUS
<1>2. Each(q, f) \in Seq(C)
  BY <1>1 DEF Each
<1>3. Each(q, f) \in Seq(Seq(B))
  BY <1>1, <1>2
<1> QED
  BY <1>3, FlattenTyped, Zenon

LEMMA EachTwo ==
  ASSUME NEW A, NEW B, NEW f \in [A -> Seq(B)], NEW q \in Seq(A), NEW r \in Seq(A)
  PROVE  FlattenSeq(Each(q \o r, f)) = FlattenSeq(Each(q, f)) \o FlattenSeq(Each(r, f))
<1>1. PICK C : C = Seq(B)
  OBVIOUS
<1>2. PICK u : u = Each(q, f)
  OBVIOUS
<1>3. PICK v : v = Each(r, f)
  OBVIOUS
<1>4. PICK x : x = q \o r
  OBVIOUS
<1>5. PICK w : w = Each(x, f)
  OBVIOUS
<1>6. PICK y : y = u \o v
  OBVIOUS
<1>a. u \in Seq(C) /\ Len(u) = Len(q) /\ \A k \in 1 .. Len(q) : u[k] = f[q[k]]
  BY <1>1, <1>2 DEF Each
<1>b. v \in Seq(C) /\ Len(v) = Len(r) /\ \A k \in 1 .. Len(r) : v[k] = f[r[k]]
  BY <1>1, <1>3 DEF Each
<1>c. /\ x \in Seq(A) /\ Len(x) = Len(q) + Len(r)
      /\ \A k \in 1 .. Len(q) : x[k] = q[k]
      /\ \A k \in 1 .. Len(r) : x[Len(q) + k] = r[k]
  BY <1>4
<1>d. w \in Seq(C) /\ Len(w) = Len(x) /\ \A k \in 1 .. Len(x) : w[k] = f[x[k]]
  BY <1>1, <1>5, <1>c DEF Each
<1>e. /\ y \in Seq(C) /\ Len(y) = Len(u) + Len(v)
      /\ \A k \in 1 .. Len(u) : y[k] = u[k]
      /\ \A k \in 1 .. Len(v) : y[Len(u) + k] = v[k]
  <2>1. u \in Seq(C) /\ v \in Seq(C)
    BY <1>a, <1>b
  <2>2. Follows(y, u, v, C)
    BY <1>6, <2>1, ConcatFacts
  <2> QED
    BY <2>2 DEF Follows
<1>7. w = y
  <2>1. Len(w) = Len(q) + Len(r) /\ Len(y) = Len(q) + Len(r)
    BY <1>a, <1>b, <1>c, <1>d, <1>e
  <2>2. ASSUME NEW k \in 1 .. Len(q) + Len(r)
        PROVE  w[k] = y[k]
    <3>1. w[k] = f[x[k]]
      BY <1>c, <1>d
    <3>2. CASE k \in 1 .. Len(q)
      BY <1>a, <1>c, <1>e, <3>1, <3>2
    <3>3. CASE k \notin 1 .. Len(q)
      <4>1. PICK i \in 1 .. Len(r) : k = Len(q) + i
        <5>1. k - Len(q) \in 1 .. Len(r) /\ k = Len(q) + (k - Len(q))
          BY <3>3
        <5> QED
          BY <5>1
      <4>2. x[k] = r[i]
        BY <1>c, <4>1
      <4>3. y[k] = v[i]
        BY <1>a, <1>b, <1>e, <4>1
      <4> QED
        BY <1>b, <3>1, <4>2, <4>3
    <3> QED
      BY <3>2, <3>3
  <2>3. w \in Seq(C) /\ y \in Seq(C)
    BY <1>d, <1>e
  <2> QED
    BY <2>1, <2>2, <2>3, SeqEqual
<1>8. Each(q \o r, f) = u \o v
  BY <1>4, <1>5, <1>6, <1>7, Zenon
<1>9. u \in Seq(Seq(B)) /\ v \in Seq(Seq(B))
  BY <1>1, <1>a, <1>b, Zenon
<1>10. FlattenSeq(u \o v) = FlattenSeq(u) \o FlattenSeq(v)
  BY <1>9, FlattenTwo, Zenon
<1> QED
  BY <1>2, <1>3, <1>8, <1>10, Zenon

LEMMA EachAppend ==
  ASSUME NEW A, NEW B, NEW f \in [A -> Seq(B)], NEW q \in Seq(A), NEW m \in A
  PROVE  FlattenSeq(Each(Append(q, m), f)) = FlattenSeq(Each(q, f)) \o f[m]
<1>1. PICK r \in Seq(A) : r = <<m>> /\ Append(q, m) = q \o r
  <2>1. <<m>> \in Seq(A) /\ Append(q, m) = q \o <<m>>
    OBVIOUS
  <2> QED
    BY <2>1, Zenon
<1>2. FlattenSeq(Each(r, f)) = f[m]
  <2>1. PICK x \in Seq(B) : x = f[m]
    OBVIOUS
  <2>2. Each(r, f) = <<x>>
    <3>1. Len(r) = 1 /\ r[1] = m
      BY <1>1
    <3> QED
      BY <2>1, <3>1 DEF Each
  <2>3. <<x>> = Append(<<>>, x)
    OBVIOUS
  <2>4. <<>> \in Seq(Seq(B))
    OBVIOUS
  <2>5. FlattenSeq(Append(<<>>, x)) = FlattenSeq(<<>>) \o x
    BY <2>4, FlattenAppend, Zenon
  <2>6. <<>> \o x = x
    OBVIOUS
  <2> QED
    BY <2>1, <2>2, <2>3, <2>5, <2>6, FlattenEmpty, Zenon
<1>3. FlattenSeq(Each(q \o r, f)) = FlattenSeq(Each(q, f)) \o FlattenSeq(Each(r, f))
  BY EachTwo, Zenon
<1> QED
  BY <1>1, <1>2, <1>3, Zenon

LEMMA EachTail ==
  ASSUME NEW A, NEW B, NEW f \in [A -> Seq(B)], NEW q \in Seq(A), q # <<>>
  PROVE  FlattenSeq(Each(q, f)) = f[Head(q)] \o FlattenSeq(Each(Tail(q), f))
<1>1. PICK h \in A, r \in Seq(A), e \in Seq(A) :
        h = Head(q) /\ r = Tail(q) /\ e = <<>> /\ q = Append(e, h) \o r
  <2>1. /\ Head(q) \in A /\ Tail(q) \in Seq(A) /\ <<>> \in Seq(A)
        /\ q = Append(<<>>, Head(q)) \o Tail(q)
    OBVIOUS
  <2> QED
    BY <2>1, Zenon
<1>2. PICK s \in Seq(A) : s = Append(e, h)
  <2>1. Append(e, h) \in Seq(A)
    OBVIOUS
  <2> QED
    BY <2>1, Zenon
<1>3. FlattenSeq(Each(s, f)) = FlattenSeq(Each(e, f)) \o f[h]
  BY <1>2, EachAppend, Zenon
<1>4. FlattenSeq(Each(e, f)) = <<>>
  <2>1. Each(e, f) = <<>>
    BY <1>1 DEF Each
  <2> QED
    BY <2>1, FlattenEmpty
<1>5. <<>> \o f[h] = f[h]
  OBVIOUS
<1>6. FlattenSeq(Each(s \o r, f)) = FlattenSeq(Each(s, f)) \o FlattenSeq(Each(r, f))
  BY EachTwo, Zenon
<1> QED
  BY <1>1, <1>2, <1>3, <1>4, <1>5, <1>6, Zenon

LEMMA EachInsert ==
  ASSUME NEW A, NEW B, NEW f \in [A -> Seq(B)], NEW q \in Seq(A), NEW m \in A,
         f[m] = <<>>, NEW k \in 1 .. Len(q) + 1
  PROVE  FlattenSeq(Each(InsertAt(q, k, m), f)) = FlattenSeq(Each(q, f))
<1>1. PICK x \in Seq(A), y \in Seq(A) :
        /\ x = SubSeq(q, 1, k - 1) /\ y = SubSeq(q, k, Len(q)) /\ q = x \o y
  <2>1. /\ SubSeq(q, 1, k - 1) \in Seq(A) /\ SubSeq(q, k, Len(q)) \in Seq(A)
        /\ q = SubSeq(q, 1, k - 1) \o SubSeq(q, k, Len(q))
    <3>1. PICK a : a = SubSeq(q, 1, k - 1)
      OBVIOUS
    <3>2. PICK b : b = SubSeq(q, k, Len(q))
      OBVIOUS
    <3>3. PICK n \in Nat : n = k - 1 /\ n <= Len(q) /\ k = n + 1
      OBVIOUS
    <3>4. a \in Seq(A) /\ Len(a) = n /\ \A i \in 1 .. n : a[i] = q[i]
      BY <3>1, <3>3
    <3>5. /\ b \in Seq(A) /\ Len(b) = Len(q) - n
          /\ \A i \in 1 .. Len(q) - n : b[i] = q[n + i]
      BY <3>2, <3>3
    <3>6. PICK c : c = a \o b
      OBVIOUS
    <3>7. /\ c \in Seq(A) /\ Len(c) = Len(a) + Len(b)
          /\ \A i \in 1 .. Len(a) : c[i] = a[i]
          /\ \A i \in 1 .. Len(b) : c[Len(a) + i] = b[i]
      <4>1. a \in Seq(A) /\ b \in Seq(A)
        BY <3>4, <3>5
      <4>2. Follows(c, a, b, A)
        BY <3>6, <4>1, ConcatFacts
      <4> QED
        BY <4>2 DEF Follows
    <3>8. ASSUME NEW i \in 1 .. Len(q)
          PROVE  c[i] = q[i]
      <4>1. CASE i <= n
        <5>1. i \in 1 .. n
          BY <4>1
        <5> QED
          BY <3>4, <3>7, <5>1
      <4>2. CASE ~(i <= n)
        <5>1. PICK j \in 1 .. Len(q) - n : i = n + j
          <6>1. i - n \in 1 .. Len(q) - n /\ i = n + (i - n)
            BY <4>2
          <6> QED
            BY <6>1
        <5>2. c[n + j] = b[j] /\ b[j] = q[n + j]
          BY <3>4, <3>5, <3>7
        <5> QED
          BY <5>1, <5>2
      <4> QED
        BY <4>1, <4>2
    <3>9. Len(c) = Len(q)
      BY <3>3, <3>4, <3>5, <3>7
    <3>10. q = c
      BY <3>7, <3>8, <3>9, SeqEqual
    <3> QED
      BY <3>1, <3>2, <3>4, <3>5, <3>6, <3>10, Zenon
  <2> QED
    BY <2>1, Zenon
<1>2. PICK s \in Seq(A) : s = Append(x, m) /\ s = x \o <<m>>
  <2>1. Append(x, m) \in Seq(A) /\ Append(x, m) = x \o <<m>>
    OBVIOUS
  <2> QED
    BY <2>1, Zenon
<1>3. InsertAt(q, k, m) = s \o y
  BY <1>1, <1>2, Zenon DEF InsertAt
<1>4. FlattenSeq(Each(s, f)) = FlattenSeq(Each(x, f))
  <2>1. PICK z \in Seq(B) : z = FlattenSeq(Each(x, f))
    BY EachTyped, Zenon
  <2>2. z \o <<>> = z
    OBVIOUS
  <2>3. FlattenSeq(Each(s, f)) = z \o <<>>
    BY <1>2, <2>1, EachAppend, Zenon
  <2> QED
    BY <2>1, <2>2, <2>3, Zenon
<1>5. FlattenSeq(Each(s \o y, f)) = FlattenSeq(Each(s, f)) \o FlattenSeq(Each(y, f))
  BY EachTwo, Zenon
<1>6. FlattenSeq(Each(x \o y, f)) = FlattenSeq(Each(x, f)) \o FlattenSeq(Each(y, f))
  BY EachTwo, Zenon
<1> QED
  BY <1>1, <1>3, <1>4, <1>5, <1>6, Zenon
=============================================================================
