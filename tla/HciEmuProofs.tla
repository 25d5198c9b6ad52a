---------------------------- MODULE HciEmuProofs ----------------------------
(***************************************************************************)
(* Proofs about the emulated controllers and their hosts, for each type of *)
(* controller, any commands and data the kernel may send, and any number   *)
(* of them.  First the sockets: what a packet put behind the others, or    *)
(* one taken from their head, changes in what can be said of them.  Then   *)
(* what each handler does to the sockets and the links, then the parts of  *)
(* the invariant, each for all the handlers.                               *)
(***************************************************************************)
EXTENDS HciEmu, FiniteSetTheorems, SequenceTheorems, TLAPS

(***************************************************************************)
(* What waits in a socket.  Each of these is told from the two parts of a  *)
(* sequence: what was there, and what a step puts behind it; or the packet *)
(* that is read, and the rest.                                             *)
(***************************************************************************)

\* A connection is closed and not opened again.
Shuts(q) == \E i \in 1..Len(q) : q[i] = "disc" /\ \A j \in i..Len(q) : q[j] \notin Links

\* There is data before any connection is opened; after one is closed, and
\* before another is opened.
Early(q) == \E i \in 1..Len(q) : q[i] \in Data /\ \A j \in 1..i-1 : q[j] \notin Links
Late(q) == \E i \in 1..Len(q), j \in 1..Len(q) :
              /\ j < i /\ q[i] \in Data /\ q[j] = "disc"
              /\ \A k \in j..i-1 : q[k] \notin Links

\* Something of S is behind the answer to a command.
Past(q, S) == \E i \in 1..Len(q), j \in 1..Len(q) : i < j /\ q[i] \in Done /\ q[j] \in S

LEMMA Joined ==
  ASSUME NEW T, NEW q \in Seq(T), NEW s \in Seq(T)
  PROVE  /\ q \o s \in Seq(T)
         /\ Len(q) \in Nat /\ Len(s) \in Nat /\ Len(q \o s) = Len(q) + Len(s)
         /\ \A i \in 1..Len(q) : (q \o s)[i] = q[i]
         /\ \A i \in 1..Len(s) : (q \o s)[Len(q) + i] = s[i]
<1>1. Len(q) \in Nat /\ Len(s) \in Nat
  BY LenProperties
<1>2. /\ q \o s \in Seq(T) /\ Len(q \o s) = Len(q) + Len(s)
      /\ \A i \in 1 .. Len(q) + Len(s) :
            (q \o s)[i] = IF i <= Len(q) THEN q[i] ELSE s[i - Len(q)]
  BY ConcatProperties
<1>3. \A i \in 1..Len(s) : (q \o s)[Len(q) + i] = s[i]
  <2>1. TAKE i \in 1..Len(s)
  <2>2. /\ Len(q) + i \in 1 .. Len(q) + Len(s) /\ ~(Len(q) + i <= Len(q))
        /\ (Len(q) + i) - Len(q) = i
    BY <1>1
  <2>3. QED
    BY <1>2, <2>2
<1>4. QED
  BY <1>1, <1>2, <1>3

\* A place in the whole is one in the first part or one in the second.
LEMMA Places ==
  ASSUME NEW n \in Nat, NEW m \in Nat, NEW i \in 1..(n + m)
  PROVE  i \in 1..n \/ (i - n \in 1..m /\ i = n + (i - n))
OBVIOUS

LEMMA InJoined ==
  ASSUME NEW T, NEW q \in Seq(T), NEW s \in Seq(T), NEW S
  PROVE  In(q \o s, S) <=> In(q, S) \/ In(s, S)
<1>1. /\ Len(q) \in Nat /\ Len(s) \in Nat /\ Len(q \o s) = Len(q) + Len(s)
      /\ \A i \in 1..Len(q) : (q \o s)[i] = q[i] /\ i \in 1..Len(q \o s)
      /\ \A i \in 1..Len(s) : (q \o s)[Len(q) + i] = s[i] /\ Len(q) + i \in 1..Len(q \o s)
  BY Joined
<1>2. ASSUME NEW i \in 1..Len(q \o s), (q \o s)[i] \in S PROVE In(q, S) \/ In(s, S)
  <2>1. i \in 1..Len(q) \/ (i - Len(q) \in 1..Len(s) /\ i = Len(q) + (i - Len(q)))
    BY <1>1, Places
  <2>2. QED
    BY <1>1, <1>2, <2>1 DEF In
<1>3. QED
  BY <1>1, <1>2 DEF In

LEMMA OpensJoined ==
  ASSUME NEW T, NEW q \in Seq(T), NEW s \in Seq(T)
  PROVE  Opens(q \o s) <=> Opens(s) \/ (Opens(q) /\ ~In(s, {"disc"}))
<1> DEFINE n == Len(q)  m == Len(s)  w == q \o s
<1>1. /\ n \in Nat /\ m \in Nat /\ Len(w) = n + m
      /\ \A i \in 1..n : w[i] = q[i]
      /\ \A i \in 1..m : w[n + i] = s[i]
  BY Joined
<1> HIDE DEF n, m, w
<1>2. ASSUME NEW i \in 1..m, s[i] \in Links, \A j \in i..m : s[j] # "disc" PROVE Opens(w)
  <2>1. n + i \in 1..Len(w) /\ w[n + i] \in Links
    BY <1>1, <1>2
  <2>2. ASSUME NEW j \in (n + i)..Len(w) PROVE w[j] # "disc"
    <3>1. j - n \in i..m /\ j - n \in 1..m /\ j = n + (j - n)
      BY <1>1
    <3>2. QED
      BY <1>1, <1>2, <3>1
  <2>3. QED
    BY <2>1, <2>2 DEF Opens
<1>3. ASSUME NEW i \in 1..n, q[i] \in Links, \A j \in i..n : q[j] # "disc",
             \A j \in 1..m : s[j] # "disc"
      PROVE  Opens(w)
  <2>1. i \in 1..Len(w) /\ w[i] \in Links
    BY <1>1, <1>3
  <2>2. ASSUME NEW j \in i..Len(w) PROVE w[j] # "disc"
    <3>1. j \in i..n \/ (j - n \in 1..m /\ j = n + (j - n))
      BY <1>1
    <3>2. QED
      BY <1>1, <1>3, <3>1
  <2>3. QED
    BY <2>1, <2>2 DEF Opens
<1>4. ASSUME NEW i \in 1..Len(w), w[i] \in Links, \A j \in i..Len(w) : w[j] # "disc"
      PROVE  \/ \E k \in 1..m : s[k] \in Links /\ \A j \in k..m : s[j] # "disc"
             \/ /\ \E k \in 1..n : q[k] \in Links /\ \A j \in k..n : q[j] # "disc"
                /\ \A j \in 1..m : s[j] # "disc"
  <2>1. CASE i \in 1..n
    <3>1. q[i] \in Links
      BY <1>1, <1>4, <2>1
    <3>2. ASSUME NEW j \in i..n PROVE q[j] # "disc"
      <4>1. j \in 1..n /\ j \in i..Len(w)
        BY <1>1, <2>1
      <4>2. QED
        BY <1>1, <1>4, <4>1
    <3>3. ASSUME NEW j \in 1..m PROVE s[j] # "disc"
      <4>1. n + j \in i..Len(w)
        BY <1>1, <2>1
      <4>2. QED
        BY <1>1, <1>4, <4>1
    <3>4. QED
      BY <2>1, <3>1, <3>2, <3>3
  <2>2. CASE i \notin 1..n
    <3>1. i - n \in 1..m /\ i = n + (i - n)
      BY <1>1, <2>2
    <3>2. s[i - n] \in Links
      BY <1>1, <1>4, <3>1
    <3>3. ASSUME NEW j \in (i - n)..m PROVE s[j] # "disc"
      <4>1. j \in 1..m /\ n + j \in i..Len(w)
        BY <1>1, <3>1
      <4>2. QED
        BY <1>1, <1>4, <4>1
    <3>4. QED
      BY <3>1, <3>2, <3>3
  <2>3. QED
    BY <2>1, <2>2
<1>5. Opens(s) <=> \E k \in 1..m : s[k] \in Links /\ \A j \in k..m : s[j] # "disc"
  BY DEF Opens, m
<1>6. Opens(q) <=> \E k \in 1..n : q[k] \in Links /\ \A j \in k..n : q[j] # "disc"
  BY DEF Opens, n
<1>7. In(s, {"disc"}) <=> ~\A j \in 1..m : s[j] # "disc"
  BY DEF In, m
<1>8. Opens(w) => Opens(s) \/ (Opens(q) /\ ~In(s, {"disc"}))
  <2>1. SUFFICES ASSUME Opens(w) PROVE Opens(s) \/ (Opens(q) /\ ~In(s, {"disc"}))
    OBVIOUS
  <2>2. PICK i \in 1..Len(w) : w[i] \in Links /\ \A j \in i..Len(w) : w[j] # "disc"
    BY <2>1 DEF Opens
  <2>3. QED
    BY <2>2, <1>4, <1>5, <1>6, <1>7
<1>9. Opens(s) \/ (Opens(q) /\ ~In(s, {"disc"})) => Opens(w)
  BY <1>2, <1>3, <1>5, <1>6, <1>7
<1>10. QED
  BY <1>8, <1>9 DEF w

LEMMA ShutsJoined ==
  ASSUME NEW T, NEW q \in Seq(T), NEW s \in Seq(T)
  PROVE  Shuts(q \o s) => Shuts(s) \/ (Shuts(q) /\ ~In(s, Links))
<1> DEFINE n == Len(q)  m == Len(s)  w == q \o s
<1>1. /\ n \in Nat /\ m \in Nat /\ Len(w) = n + m
      /\ \A i \in 1..n : w[i] = q[i]
      /\ \A i \in 1..m : w[n + i] = s[i]
  BY Joined
<1> HIDE DEF n, m, w
<1>2. ASSUME NEW i \in 1..Len(w), w[i] = "disc", \A j \in i..Len(w) : w[j] \notin Links
      PROVE  \/ \E k \in 1..m : s[k] = "disc" /\ \A j \in k..m : s[j] \notin Links
             \/ /\ \E k \in 1..n : q[k] = "disc" /\ \A j \in k..n : q[j] \notin Links
                /\ \A j \in 1..m : s[j] \notin Links
  <2>1. CASE i \in 1..n
    <3>1. q[i] = "disc"
      BY <1>1, <1>2, <2>1
    <3>2. ASSUME NEW j \in i..n PROVE q[j] \notin Links
      <4>1. j \in 1..n /\ j \in i..Len(w)
        BY <1>1, <2>1
      <4>2. QED
        BY <1>1, <1>2, <4>1
    <3>3. ASSUME NEW j \in 1..m PROVE s[j] \notin Links
      <4>1. n + j \in i..Len(w)
        BY <1>1, <2>1
      <4>2. QED
        BY <1>1, <1>2, <4>1
    <3>4. QED
      BY <2>1, <3>1, <3>2, <3>3
  <2>2. CASE i \notin 1..n
    <3>1. i - n \in 1..m /\ i = n + (i - n)
      BY <1>1, <2>2
    <3>2. s[i - n] = "disc"
      BY <1>1, <1>2, <3>1
    <3>3. ASSUME NEW j \in (i - n)..m PROVE s[j] \notin Links
      <4>1. j \in 1..m /\ n + j \in i..Len(w)
        BY <1>1, <3>1
      <4>2. QED
        BY <1>1, <1>2, <4>1
    <3>4. QED
      BY <3>1, <3>2, <3>3
  <2>3. QED
    BY <2>1, <2>2
<1>3. Shuts(s) <=> \E k \in 1..m : s[k] = "disc" /\ \A j \in k..m : s[j] \notin Links
  BY DEF Shuts, m
<1>4. Shuts(q) <=> \E k \in 1..n : q[k] = "disc" /\ \A j \in k..n : q[j] \notin Links
  BY DEF Shuts, n
<1>5. In(s, Links) <=> ~\A j \in 1..m : s[j] \notin Links
  BY DEF In, m
<1>6. SUFFICES ASSUME Shuts(w) PROVE Shuts(s) \/ (Shuts(q) /\ ~In(s, Links))
  BY DEF w
<1>7. PICK i \in 1..Len(w) : w[i] = "disc" /\ \A j \in i..Len(w) : w[j] \notin Links
  BY <1>6 DEF Shuts
<1>8. QED
  BY <1>2, <1>3, <1>4, <1>5, <1>7

LEMMA EarlyJoined ==
  ASSUME NEW T, NEW q \in Seq(T), NEW s \in Seq(T)
  PROVE  Early(q \o s) <=> Early(q) \/ (Early(s) /\ ~In(q, Links))
<1> DEFINE n == Len(q)  m == Len(s)  w == q \o s
<1>1. /\ n \in Nat /\ m \in Nat /\ Len(w) = n + m
      /\ \A i \in 1..n : w[i] = q[i]
      /\ \A i \in 1..m : w[n + i] = s[i]
  BY Joined
<1> HIDE DEF n, m, w
<1>2. Early(s) <=> \E i \in 1..m : s[i] \in Data /\ \A j \in 1..i-1 : s[j] \notin Links
  BY DEF Early, m
<1>3. Early(q) <=> \E i \in 1..n : q[i] \in Data /\ \A j \in 1..i-1 : q[j] \notin Links
  BY DEF Early, n
<1>4. In(q, Links) <=> ~\A j \in 1..n : q[j] \notin Links
  BY DEF In, n
<1>5. ASSUME Early(q) PROVE Early(w)
  <2>1. PICK i \in 1..n : q[i] \in Data /\ \A j \in 1..i-1 : q[j] \notin Links
    BY <1>3, <1>5
  <2>2. i \in 1..Len(w) /\ w[i] \in Data
    BY <1>1, <2>1
  <2>3. ASSUME NEW j \in 1..i-1 PROVE w[j] \notin Links
    <3>1. j \in 1..n
      BY <1>1
    <3>2. QED
      BY <1>1, <2>1, <3>1
  <2>4. QED
    BY <2>2, <2>3 DEF Early
<1>6. ASSUME Early(s), ~In(q, Links) PROVE Early(w)
  <2>1. PICK i \in 1..m : s[i] \in Data /\ \A j \in 1..i-1 : s[j] \notin Links
    BY <1>2, <1>6
  <2>2. n + i \in 1..Len(w) /\ w[n + i] \in Data
    BY <1>1, <2>1
  <2>3. ASSUME NEW j \in 1..(n + i)-1 PROVE w[j] \notin Links
    <3>1. j \in 1..n \/ (j - n \in 1..i-1 /\ j - n \in 1..m /\ j = n + (j - n))
      BY <1>1
    <3>2. QED
      BY <1>1, <1>4, <1>6, <2>1, <3>1
  <2>4. QED
    BY <2>2, <2>3 DEF Early
<1>7. ASSUME Early(w) PROVE Early(q) \/ (Early(s) /\ ~In(q, Links))
  <2>1. PICK i \in 1..Len(w) : w[i] \in Data /\ \A j \in 1..i-1 : w[j] \notin Links
    BY <1>7 DEF Early
  <2>2. CASE i \in 1..n
    <3>1. q[i] \in Data
      BY <1>1, <2>1, <2>2
    <3>2. ASSUME NEW j \in 1..i-1 PROVE q[j] \notin Links
      <4>1. j \in 1..n
        BY <1>1, <2>2
      <4>2. QED
        BY <1>1, <2>1, <4>1
    <3>3. QED
      BY <1>3, <2>2, <3>1, <3>2
  <2>3. CASE i \notin 1..n
    <3>1. i - n \in 1..m /\ i = n + (i - n)
      BY <1>1, <2>3
    <3>2. s[i - n] \in Data
      BY <1>1, <2>1, <3>1
    <3>3. ASSUME NEW j \in 1..(i - n)-1 PROVE s[j] \notin Links
      <4>1. j \in 1..m /\ n + j \in 1..i-1
        BY <1>1, <3>1
      <4>2. QED
        BY <1>1, <2>1, <4>1
    <3>4. ASSUME NEW j \in 1..n PROVE q[j] \notin Links
      <4>1. j \in 1..i-1
        BY <1>1, <3>1
      <4>2. QED
        BY <1>1, <2>1, <4>1
    <3>5. QED
      BY <1>2, <1>4, <3>1, <3>2, <3>3, <3>4
  <2>4. QED
    BY <2>2, <2>3
<1>8. QED
  BY <1>5, <1>6, <1>7 DEF w

LEMMA PastJoined ==
  ASSUME NEW T, NEW q \in Seq(T), NEW s \in Seq(T), NEW S
  PROVE  Past(q \o s, S) <=> Past(q, S) \/ Past(s, S) \/ (In(q, Done) /\ In(s, S))
<1> DEFINE n == Len(q)  m == Len(s)  w == q \o s
<1>1. /\ n \in Nat /\ m \in Nat /\ Len(w) = n + m
      /\ \A i \in 1..n : w[i] = q[i]
      /\ \A i \in 1..m : w[n + i] = s[i]
  BY Joined
<1> HIDE DEF n, m, w
<1>2. Past(q, S) <=> \E i \in 1..n, j \in 1..n : i < j /\ q[i] \in Done /\ q[j] \in S
  BY DEF Past, n
<1>3. Past(s, S) <=> \E i \in 1..m, j \in 1..m : i < j /\ s[i] \in Done /\ s[j] \in S
  BY DEF Past, m
<1>4. In(q, Done) <=> \E i \in 1..n : q[i] \in Done
  BY DEF In, n
<1>5. In(s, S) <=> \E i \in 1..m : s[i] \in S
  BY DEF In, m
<1>6. ASSUME NEW i \in 1..n, NEW j \in 1..n, i < j, q[i] \in Done, q[j] \in S
      PROVE  Past(w, S)
  <2>1. i \in 1..Len(w) /\ j \in 1..Len(w) /\ w[i] \in Done /\ w[j] \in S
    BY <1>1, <1>6
  <2>2. QED
    BY <1>6, <2>1 DEF Past
<1>7. ASSUME NEW i \in 1..m, NEW j \in 1..m, i < j, s[i] \in Done, s[j] \in S
      PROVE  Past(w, S)
  <2>1. /\ n + i \in 1..Len(w) /\ n + j \in 1..Len(w) /\ w[n + i] \in Done /\ w[n + j] \in S
        /\ n + i < n + j
    BY <1>1, <1>7
  <2>2. QED
    BY <2>1 DEF Past
<1>8. ASSUME NEW i \in 1..n, NEW j \in 1..m, q[i] \in Done, s[j] \in S
      PROVE  Past(w, S)
  <2>1. /\ i \in 1..Len(w) /\ n + j \in 1..Len(w) /\ w[i] \in Done /\ w[n + j] \in S
        /\ i < n + j
    BY <1>1, <1>8
  <2>2. QED
    BY <2>1 DEF Past
<1>9. ASSUME NEW i \in 1..Len(w), NEW j \in 1..Len(w), i < j, w[i] \in Done, w[j] \in S
      PROVE  Past(q, S) \/ Past(s, S) \/ (In(q, Done) /\ In(s, S))
  <2>1. i \in 1..n \/ (i - n \in 1..m /\ i = n + (i - n))
    BY <1>1
  <2>2. j \in 1..n \/ (j - n \in 1..m /\ j = n + (j - n))
    BY <1>1
  <2>3. CASE j \in 1..n
    <3>1. i \in 1..n
      BY <1>1, <1>9, <2>3
    <3>2. QED
      BY <1>1, <1>2, <1>9, <2>3, <3>1
  <2>4. CASE i \in 1..n /\ j \notin 1..n
    BY <1>1, <1>4, <1>5, <1>9, <2>2, <2>4
  <2>5. CASE i \notin 1..n /\ j \notin 1..n
    <3>1. i - n < j - n
      BY <1>1, <1>9
    <3>2. s[i - n] \in Done /\ s[j - n] \in S
      BY <1>1, <1>9, <2>1, <2>2, <2>5
    <3>3. QED
      BY <1>3, <2>1, <2>2, <2>5, <3>1, <3>2
  <2>6. QED
    BY <2>3, <2>4, <2>5
<1>10. Past(w, S) => Past(q, S) \/ Past(s, S) \/ (In(q, Done) /\ In(s, S))
  BY <1>9 DEF Past
<1>11. Past(q, S) \/ Past(s, S) \/ (In(q, Done) /\ In(s, S)) => Past(w, S)
  BY <1>2, <1>3, <1>4, <1>5, <1>6, <1>7, <1>8
<1>12. QED
  BY <1>10, <1>11 DEF w

LEMMA LateJoined ==
  ASSUME NEW T, NEW q \in Seq(T), NEW s \in Seq(T)
  PROVE  Late(q \o s) <=> Late(q) \/ Late(s) \/ (Shuts(q) /\ Early(s))
<1> DEFINE n == Len(q)  m == Len(s)  w == q \o s
           Bad(v, k, i, j) == /\ i \in 1..k /\ j \in 1..k /\ j < i /\ v[i] \in Data /\ v[j] = "disc"
                              /\ \A l \in j..i-1 : v[l] \notin Links
<1>1. /\ n \in Nat /\ m \in Nat /\ Len(w) = n + m
      /\ \A i \in 1..n : w[i] = q[i]
      /\ \A i \in 1..m : w[n + i] = s[i]
  BY Joined
<1>2. /\ Late(q) <=> \E i, j : Bad(q, n, i, j)
      /\ Late(s) <=> \E i, j : Bad(s, m, i, j)
      /\ Late(w) <=> \E i, j : Bad(w, Len(w), i, j)
  BY DEF Late
<1>3. Early(s) <=> \E i \in 1..m : s[i] \in Data /\ \A j \in 1..i-1 : s[j] \notin Links
  BY DEF Early
<1>4. Shuts(q) <=> \E i \in 1..n : q[i] = "disc" /\ \A j \in i..n : q[j] \notin Links
  BY DEF Shuts
<1> HIDE DEF n, m, w
<1>5. ASSUME NEW i, NEW j, Bad(q, n, i, j) PROVE Bad(w, Len(w), i, j)
  <2>1. \A l \in j..i-1 : l \in 1..n
    BY <1>1, <1>5
  <2>2. QED
    BY <1>1, <1>5, <2>1
<1>6. ASSUME NEW i, NEW j, Bad(s, m, i, j) PROVE Bad(w, Len(w), n + i, n + j)
  <2>1. i \in 1..m /\ j \in 1..m /\ j < i /\ s[i] \in Data /\ s[j] = "disc"
        /\ \A l \in j..i-1 : s[l] \notin Links
    BY <1>6
  <2>2. ASSUME NEW l \in (n + j)..(n + i)-1 PROVE w[l] \notin Links
    <3>1. l - n \in j..i-1 /\ l - n \in 1..m /\ l = n + (l - n)
      BY <1>1, <2>1
    <3>2. QED
      BY <1>1, <2>1, <3>1
  <2>3. n + i \in 1..Len(w) /\ n + j \in 1..Len(w) /\ n + j < n + i
    BY <1>1, <2>1
  <2>4. w[n + i] \in Data /\ w[n + j] = "disc"
    BY <1>1, <2>1
  <2>5. QED
    BY <2>2, <2>3, <2>4
<1>7. ASSUME Shuts(q), Early(s) PROVE Late(w)
  <2>1. PICK i \in 1..m : s[i] \in Data /\ \A j \in 1..i-1 : s[j] \notin Links
    BY <1>3, <1>7
  <2>2. PICK j \in 1..n : q[j] = "disc" /\ \A k \in j..n : q[k] \notin Links
    BY <1>4, <1>7
  <2>3. n + i \in 1..Len(w) /\ j \in 1..Len(w) /\ j < n + i
    BY <1>1
  <2>4. w[n + i] \in Data /\ w[j] = "disc"
    BY <1>1, <2>1, <2>2
  <2>5. ASSUME NEW l \in j..(n + i)-1 PROVE w[l] \notin Links
    <3>1. (l \in j..n /\ l \in 1..n) \/ (l - n \in 1..i-1 /\ l - n \in 1..m /\ l = n + (l - n))
      BY <1>1
    <3>2. QED
      BY <1>1, <2>1, <2>2, <3>1
  <2>6. Bad(w, Len(w), n + i, j)
    BY <2>3, <2>4, <2>5
  <2>7. QED
    BY <1>2, <2>6
<1>8. ASSUME NEW i, NEW j, Bad(w, Len(w), i, j)
      PROVE  Bad(q, n, i, j) \/ Bad(s, m, i - n, j - n) \/ (Shuts(q) /\ Early(s))
  <2>1. /\ i \in 1..Len(w) /\ j \in 1..Len(w) /\ j < i /\ w[i] \in Data /\ w[j] = "disc"
        /\ \A l \in j..i-1 : w[l] \notin Links
    BY <1>8
  <2>2. CASE i \in 1..n
    <3>1. j \in 1..n /\ \A l \in j..i-1 : l \in 1..n
      BY <1>1, <2>1, <2>2
    <3>2. QED
      BY <1>1, <2>1, <2>2, <3>1
  <2>3. CASE i \notin 1..n /\ j \notin 1..n
    <3>1. /\ i - n \in 1..m /\ i = n + (i - n) /\ j - n \in 1..m /\ j = n + (j - n)
          /\ j - n < i - n
      BY <1>1, <2>1, <2>3
    <3>2. s[i - n] \in Data /\ s[j - n] = "disc"
      BY <1>1, <2>1, <3>1
    <3>3. ASSUME NEW l \in (j - n)..(i - n)-1 PROVE s[l] \notin Links
      <4>1. l \in 1..m /\ n + l \in j..i-1
        BY <1>1, <2>1, <3>1
      <4>2. QED
        BY <1>1, <2>1, <4>1
    <3>4. Bad(s, m, i - n, j - n)
      BY <3>1, <3>2, <3>3
    <3>5. QED
      BY <3>4
  <2>4. CASE i \notin 1..n /\ j \in 1..n
    <3>1. i - n \in 1..m /\ i = n + (i - n)
      BY <1>1, <2>1, <2>4
    <3>2. s[i - n] \in Data /\ q[j] = "disc"
      BY <1>1, <2>1, <2>4, <3>1
    <3>3. ASSUME NEW l \in j..n PROVE q[l] \notin Links
      <4>1. l \in 1..n /\ l \in j..i-1
        BY <1>1, <2>1, <2>4, <3>1
      <4>2. QED
        BY <1>1, <2>1, <4>1
    <3>4. ASSUME NEW l \in 1..(i - n)-1 PROVE s[l] \notin Links
      <4>1. l \in 1..m /\ n + l \in j..i-1
        BY <1>1, <2>1, <2>4, <3>1
      <4>2. QED
        BY <1>1, <2>1, <4>1
    <3>5. QED
      BY <1>3, <1>4, <2>4, <3>1, <3>2, <3>3, <3>4
  <2>5. QED
    BY <2>2, <2>3, <2>4
<1> HIDE DEF Bad
<1>9. Late(w) => Late(q) \/ Late(s) \/ (Shuts(q) /\ Early(s))
  BY <1>2, <1>8
<1>10. Late(q) \/ Late(s) \/ (Shuts(q) /\ Early(s)) => Late(w)
  BY <1>2, <1>5, <1>6, <1>7
<1>11. QED
  BY <1>9, <1>10 DEF w

LEMMA CountType ==
  ASSUME NEW T, NEW q \in Seq(T), NEW S
  PROVE  /\ IsFiniteSet({i \in 1..Len(q) : q[i] \in S})
         /\ Count(q, S) \in Nat
         /\ Count(q, S) = 0 <=> ~In(q, S)
<1> DEFINE C == {i \in 1..Len(q) : q[i] \in S}
<1>1. Len(q) \in Nat
  BY LenProperties
<1>2. IsFiniteSet(1..Len(q))
  BY <1>1, FS_Interval
<1>3. C \in SUBSET (1..Len(q))
  OBVIOUS
<1>4. IsFiniteSet(C)
  BY <1>2, <1>3, FS_Subset
<1>5. Cardinality(C) \in Nat /\ (Cardinality(C) = 0 <=> C = {})
  BY <1>4, FS_CardinalityType, FS_EmptySet
<1>6. C = {} <=> ~In(q, S)
  BY DEF In
<1>7. QED
  BY <1>4, <1>5, <1>6 DEF Count

LEMMA CountJoined ==
  ASSUME NEW T, NEW q \in Seq(T), NEW s \in Seq(T), NEW S
  PROVE  Count(q \o s, S) = Count(q, S) + Count(s, S)
<1> DEFINE n == Len(q)  m == Len(s)  w == q \o s
           Q == {i \in 1..n : q[i] \in S}
           R == {i \in 1..m : s[i] \in S}
           W == {i \in 1..Len(w) : w[i] \in S}
           U == {i \in (n+1)..(n+m) : w[i] \in S}
           f == [i \in R |-> n + i]
<1>1. /\ n \in Nat /\ m \in Nat /\ Len(w) = n + m
      /\ \A i \in 1..n : w[i] = q[i]
      /\ \A i \in 1..m : w[n + i] = s[i]
  BY Joined
<1>2. IsFiniteSet(Q) /\ IsFiniteSet(R)
  BY CountType
<1>3. Cardinality(Q) = Count(q, S) /\ Cardinality(R) = Count(s, S) /\ Cardinality(W) = Count(w, S)
  BY DEF Count
<1> HIDE DEF n, m, w
<1>4. W = Q \cup U /\ Q \cap U = {}
  <2>1. \A i \in 1..n : i \in 1..Len(w) /\ i \notin (n+1)..(n+m) /\ w[i] = q[i]
    BY <1>1
  <2>2. \A i \in (n+1)..(n+m) : i \in 1..Len(w)
    BY <1>1
  <2>3. \A i \in 1..Len(w) : i \in 1..n \/ i \in (n+1)..(n+m)
    BY <1>1
  <2>4. QED
    BY <2>1, <2>2, <2>3
<1>5. f \in Bijection(R, U)
  <2>1. f \in [R -> U]
    <3>1. ASSUME NEW i \in R PROVE n + i \in U
      BY <1>1
    <3>2. QED
      BY <3>1
  <2>2. \A a, b \in R : f[a] = f[b] => a = b
    BY <1>1
  <2>3. ASSUME NEW u \in U PROVE \E i \in R : f[i] = u
    <3>1. u - n \in 1..m /\ n + (u - n) = u
      BY <1>1
    <3>2. u - n \in R
      BY <1>1, <3>1
    <3>3. QED
      BY <3>1, <3>2
  <2>4. QED
    BY <2>1, <2>2, <2>3 DEF Bijection, Injection, Surjection, IsInjective
<1>6. ExistsBijection(R, U)
  BY <1>5 DEF ExistsBijection
<1>7. IsFiniteSet(U) /\ Cardinality(U) = Cardinality(R)
  BY <1>2, <1>6, FS_Bijection
<1>8. Cardinality(Q \cup U) = Cardinality(Q) + Cardinality(U) - Cardinality(Q \cap U)
  BY <1>2, <1>7, FS_Union
<1>9. /\ Cardinality(Q \cap U) = 0 /\ Cardinality(Q) \in Nat /\ Cardinality(U) \in Nat
  BY <1>2, <1>4, <1>7, FS_EmptySet, FS_CardinalityType
<1>10. Count(w, S) = Count(q, S) + Count(s, S)
  <2> HIDE DEF Q, R, U, W
  <2>1. QED
    BY <1>3, <1>4, <1>7, <1>8, <1>9
<1>11. QED
  BY <1>10 DEF w

LEMMA One ==
  ASSUME NEW a
  PROVE  /\ Opens(<<a>>) <=> a \in Links
         /\ Shuts(<<a>>) <=> a = "disc"
         /\ Early(<<a>>) <=> a \in Data
         /\ ~Late(<<a>>)
         /\ \A S : /\ In(<<a>>, S) <=> a \in S
                   /\ ~Past(<<a>>, S)
                   /\ Count(<<a>>, S) = IF a \in S THEN 1 ELSE 0
<1>1. Len(<<a>>) = 1 /\ <<a>>[1] = a /\ 1..1 = {1} /\ 1..1-1 = {}
  OBVIOUS
<1>2. "disc" \notin Links
  BY DEF Links
<1>3. Opens(<<a>>) <=> a \in Links
  BY <1>1, <1>2 DEF Opens
<1>4. Shuts(<<a>>) <=> a = "disc"
  BY <1>1, <1>2 DEF Shuts
<1>5. Early(<<a>>) <=> a \in Data
  BY <1>1 DEF Early
<1>6. ~Late(<<a>>)
  BY <1>1 DEF Late
<1>7. ASSUME NEW S
      PROVE  /\ In(<<a>>, S) <=> a \in S
             /\ ~Past(<<a>>, S)
             /\ Count(<<a>>, S) = IF a \in S THEN 1 ELSE 0
  <2>1. In(<<a>>, S) <=> a \in S
    BY <1>1 DEF In
  <2>2. ~Past(<<a>>, S)
    BY <1>1 DEF Past
  <2>3. CASE a \in S
    <3>1. {i \in 1..Len(<<a>>) : <<a>>[i] \in S} = {1}
      BY <1>1, <2>3
    <3>2. QED
      BY <2>1, <2>2, <2>3, <3>1, FS_Singleton DEF Count
  <2>4. CASE a \notin S
    <3>1. {i \in 1..Len(<<a>>) : <<a>>[i] \in S} = {}
      BY <1>1, <2>4
    <3>2. QED
      BY <2>1, <2>2, <2>4, <3>1, FS_EmptySet DEF Count
  <2>5. QED
    BY <2>3, <2>4
<1>8. QED
  BY <1>3, <1>4, <1>5, <1>6, <1>7

LEMMA Empty ==
  /\ ~Opens(<<>>) /\ ~Early(<<>>) /\ ~Late(<<>>)
  /\ \A S : ~In(<<>>, S) /\ ~Past(<<>>, S) /\ Count(<<>>, S) = 0
<1>1. Len(<<>>) = 0 /\ 1..0 = {}
  OBVIOUS
<1>2. \A S : {i \in 1..Len(<<>>) : <<>>[i] \in S} = {}
  BY <1>1
<1>3. \A S : Count(<<>>, S) = 0
  BY <1>2, FS_EmptySet DEF Count
<1>4. QED
  BY <1>1, <1>3 DEF Opens, Early, Late, In, Past

\* What can be said of a socket from the packet that is read and the rest.
LEMMA Reading ==
  ASSUME NEW T, NEW q \in Seq(T), q # <<>>
  PROVE  /\ Head(q) \in T /\ Tail(q) \in Seq(T)
         /\ Opens(q) <=> Opens(Tail(q)) \/ (Head(q) \in Links /\ ~In(Tail(q), {"disc"}))
         /\ Early(q) <=> Head(q) \in Data \/ (Early(Tail(q)) /\ Head(q) \notin Links)
         /\ Late(q) <=> Late(Tail(q)) \/ (Head(q) = "disc" /\ Early(Tail(q)))
         /\ \A S : /\ In(q, S) <=> Head(q) \in S \/ In(Tail(q), S)
                   /\ Past(q, S) <=> Past(Tail(q), S) \/ (Head(q) \in Done /\ In(Tail(q), S))
                   /\ Count(q, S) = (IF Head(q) \in S THEN 1 ELSE 0) + Count(Tail(q), S)
<1> DEFINE h == <<Head(q)>>  t == Tail(q)
<1>1. /\ Head(q) \in T /\ t \in Seq(T) /\ Len(q) \in Nat \ {0} /\ Len(t) = Len(q) - 1
      /\ \A i \in 1..Len(t) : t[i] = q[i + 1]
  BY HeadTailProperties, EmptySeq
<1>2. h \in Seq(T) /\ Len(h) = 1 /\ h[1] = Head(q) /\ Head(q) = q[1]
  BY <1>1
<1>3. q = h \o t
  <2>1. /\ h \o t \in Seq(T) /\ Len(h \o t) = Len(q)
        /\ (h \o t)[1] = q[1]
        /\ \A i \in 1..Len(t) : (h \o t)[1 + i] = t[i]
    BY <1>1, <1>2, Joined
  <2>2. ASSUME NEW i \in 1..Len(q) PROVE q[i] = (h \o t)[i]
    <3>1. i = 1 \/ (i - 1 \in 1..Len(t) /\ i = 1 + (i - 1) /\ i = (i - 1) + 1)
      BY <1>1
    <3>2. QED
      BY <1>1, <2>1, <3>1
  <2>3. QED
    BY <2>1, <2>2, SeqEqual
<1>4. /\ Opens(h) <=> Head(q) \in Links
      /\ Shuts(h) <=> Head(q) = "disc"
      /\ Early(h) <=> Head(q) \in Data
      /\ ~Late(h)
      /\ \A S : /\ In(h, S) <=> Head(q) \in S
                /\ ~Past(h, S)
                /\ Count(h, S) = IF Head(q) \in S THEN 1 ELSE 0
  BY One
<1> HIDE DEF h, t
<1>5. Opens(h \o t) <=> Opens(t) \/ (Opens(h) /\ ~In(t, {"disc"}))
  BY <1>1, <1>2, OpensJoined
<1>6. Early(h \o t) <=> Early(h) \/ (Early(t) /\ ~In(h, Links))
  BY <1>1, <1>2, EarlyJoined
<1>7. Late(h \o t) <=> Late(h) \/ Late(t) \/ (Shuts(h) /\ Early(t))
  BY <1>1, <1>2, LateJoined
<1>8. ASSUME NEW S
      PROVE  /\ In(h \o t, S) <=> In(h, S) \/ In(t, S)
             /\ Past(h \o t, S) <=> Past(h, S) \/ Past(t, S) \/ (In(h, Done) /\ In(t, S))
             /\ Count(h \o t, S) = Count(h, S) + Count(t, S)
  BY <1>1, <1>2, InJoined, PastJoined, CountJoined
<1>9. QED
  BY <1>1, <1>3, <1>4, <1>5, <1>6, <1>7, <1>8 DEF t

\* And from what was there and what is put behind it.
LEMMA Writing ==
  ASSUME NEW T, NEW q \in Seq(T), NEW s \in Seq(T)
  PROVE  /\ q \o s \in Seq(T)
         /\ Opens(q \o s) <=> Opens(s) \/ (Opens(q) /\ ~In(s, {"disc"}))
         /\ Early(q \o s) <=> Early(q) \/ (Early(s) /\ ~In(q, Links))
         /\ Late(q \o s) <=> Late(q) \/ Late(s) \/ (Shuts(q) /\ Early(s))
         /\ \A S : /\ In(q \o s, S) <=> In(q, S) \/ In(s, S)
                   /\ Past(q \o s, S) <=> Past(q, S) \/ Past(s, S) \/ (In(q, Done) /\ In(s, S))
                   /\ Count(q \o s, S) = Count(q, S) + Count(s, S)
BY Joined, OpensJoined, EarlyJoined, LateJoined, InJoined, PastJoined, CountJoined

LEMMA LastSaid ==
  ASSUME NEW T, NEW q \in Seq(T)
  PROVE  /\ Shuts(q) => ~Opens(q) /\ In(q, {"disc"})
         /\ Opens(q) => In(q, Links)
         /\ Early(q) \/ Late(q) => In(q, Data)
         /\ \A S : Past(q, S) => In(q, S)
         /\ \A S, R : In(q, S) /\ S \subseteq R => In(q, R)
<1>1. Len(q) \in Nat
  BY LenProperties
<1>2. ASSUME NEW i \in 1..Len(q), q[i] = "disc", \A j \in i..Len(q) : q[j] \notin Links,
             NEW k \in 1..Len(q), q[k] \in Links, \A j \in k..Len(q) : q[j] # "disc"
      PROVE  FALSE
  <2>1. k \in i..Len(q) \/ i \in k..Len(q)
    BY <1>1
  <2>2. QED
    BY <1>2, <2>1
<1>3. Shuts(q) => ~Opens(q)
  BY <1>2 DEF Shuts, Opens
<1>4. QED
  BY <1>3 DEF Shuts, Opens, Early, Late, Past, In

-----------------------------------------------------------------------------
(***************************************************************************)
(* What a controller does with a packet: own goes to its host, other to    *)
(* that of the other controller.                                           *)
(***************************************************************************)

\* Events that say nothing of a connection, and answer no command.
Quiet == {"conn_fail", "le_conn_fail", "sent", "found", "inquiry_end", "adv_report", "remote", "voice"}

LEMMA QuietSays ==
  ASSUME NEW r \in Seq(Quiet)
  PROVE  /\ r \in Seq(Packets) /\ Count(r, Done) = 0 /\ Count(r, {"disc"}) = 0
         /\ ~Opens(r) /\ ~In(r, Links) /\ ~In(r, Data) /\ ~In(r, {"disc"}) /\ ~In(r, {"conn_request"})
         /\ ~In(r, Done)
<1>1. /\ Quiet \cap Done = {} /\ Quiet \cap Links = {} /\ Quiet \cap Data = {}
      /\ "disc" \notin Quiet /\ "conn_request" \notin Quiet /\ Quiet \subseteq Packets
  BY DEF Quiet, Done, Links, Data, Asking, Answers, Packets
<1>2. r \in Seq(Packets)
  BY <1>1, SeqMonotonic
<1>3. \A i \in 1..Len(r) : r[i] \in Quiet
  BY ElementOfSeq
<1>4. /\ ~In(r, Done) /\ ~In(r, Links) /\ ~In(r, Data) /\ ~In(r, {"disc"})
      /\ ~In(r, {"conn_request"})
  BY <1>1, <1>3 DEF In
<1>5. ~Opens(r)
  BY <1>2, <1>4, LastSaid
<1>6. Count(r, Done) = 0 /\ Count(r, {"disc"}) = 0
  BY <1>2, <1>4, CountType
<1>7. QED
  BY <1>2, <1>4, <1>5, <1>6

LEMMA AnswerSays ==
  ASSUME NEW a \in Done, NEW r \in Seq(Quiet)
  PROVE  /\ <<a>> \o r \in Seq(Packets)
         /\ Count(<<a>> \o r, Done) = 1 /\ Count(<<a>> \o r, {"disc"}) = 0
         /\ ~Opens(<<a>> \o r) /\ ~In(<<a>> \o r, Links) /\ ~In(<<a>> \o r, Data)
         /\ ~In(<<a>> \o r, {"disc"}) /\ ~In(<<a>> \o r, {"conn_request"})
<1>1. a \in Packets /\ a \notin Links /\ a \notin Data /\ a # "disc" /\ a # "conn_request"
  BY DEF Done, Links, Data, Asking, Answers, Packets
<1> DEFINE u == <<a>>  w == u \o r
<1>2. u \in Seq(Packets)
  BY <1>1
<1>3. /\ Count(u, Done) = 1 /\ Count(u, {"disc"}) = 0 /\ ~Opens(u)
      /\ ~In(u, Links) /\ ~In(u, Data) /\ ~In(u, {"disc"}) /\ ~In(u, {"conn_request"})
  BY <1>1, One
<1>4. /\ r \in Seq(Packets) /\ Count(r, Done) = 0 /\ Count(r, {"disc"}) = 0
      /\ ~Opens(r) /\ ~In(r, Links) /\ ~In(r, Data) /\ ~In(r, {"disc"}) /\ ~In(r, {"conn_request"})
  BY QuietSays
<1> HIDE DEF u
<1>5. /\ w \in Seq(Packets)
      /\ Opens(w) <=> Opens(r) \/ (Opens(u) /\ ~In(r, {"disc"}))
      /\ \A S : /\ In(w, S) <=> In(u, S) \/ In(r, S)
                /\ Count(w, S) = Count(u, S) + Count(r, S)
  BY <1>2, <1>4, Writing
<1> HIDE DEF w
<1>6. Count(w, Done) = 1 /\ Count(w, {"disc"}) = 0
  BY <1>3, <1>4, <1>5
<1>7. /\ ~Opens(w) /\ ~In(w, Links) /\ ~In(w, Data) /\ ~In(w, {"disc"})
      /\ ~In(w, {"conn_request"})
  BY <1>3, <1>4, <1>5
<1>8. QED
  BY <1>5, <1>6, <1>7 DEF w, u

LEMMA PairJoined ==
  ASSUME NEW a, NEW b
  PROVE  <<a>> \o <<b>> = <<a, b>>
<1> DEFINE T == {a, b}  w == <<a>> \o <<b>>
<1>1. <<a>> \in Seq(T) /\ <<b>> \in Seq(T) /\ <<a, b>> \in Seq(T)
  OBVIOUS
<1>2. Len(<<a>>) = 1 /\ Len(<<b>>) = 1 /\ Len(<<a, b>>) = 2
  OBVIOUS
<1>3. w \in Seq(T) /\ Len(w) = 2 /\ w[1] = <<a>>[1] /\ w[2] = <<b>>[1]
  BY <1>1, <1>2, Joined
<1> HIDE DEF w
<1>4. Len(w) = Len(<<a, b>>) /\ \A i \in 1..Len(w) : w[i] = <<a, b>>[i]
  <2>1. 1..2 = {1, 2}
    OBVIOUS
  <2>2. QED
    BY <1>2, <1>3, <2>1
<1>5. w = <<a, b>>
  BY <1>1, <1>3, <1>4, SeqEqual
<1>6. QED
  BY <1>5 DEF w

\* The answer to a command, and an event of the connection.
LEMMA EventSays ==
  ASSUME NEW a \in Done, NEW e \in Links \cup {"disc"}
  PROVE  /\ <<a, e>> \in Seq(Packets) /\ <<e>> \in Seq(Packets)
         /\ Count(<<a, e>>, Done) = 1 /\ Count(<<e>>, Done) = 0
         /\ Count(<<a, e>>, {"disc"}) <= 1
         /\ Opens(<<a, e>>) <=> e \in Links
         /\ Opens(<<e>>) <=> e \in Links
         /\ In(<<a, e>>, {"disc"}) <=> e = "disc"
         /\ In(<<e>>, {"disc"}) <=> e = "disc"
         /\ In(<<a, e>>, Links) <=> e \in Links
         /\ In(<<e>>, Links) <=> e \in Links
         /\ ~In(<<a, e>>, Data) /\ ~In(<<e>>, Data) /\ ~In(<<e>>, Done)
         /\ ~In(<<a, e>>, {"conn_request"}) /\ ~In(<<e>>, {"conn_request"})
<1>1. /\ a \in Packets /\ a \notin Links /\ a \notin Data /\ a # "disc" /\ a # "conn_request"
      /\ e \in Packets /\ e \notin Data /\ e \notin Done /\ e # "conn_request"
  BY DEF Done, Links, Data, Asking, Answers, Packets
<1> DEFINE u == <<a>>  v == <<e>>  w == u \o v
<1>2. u \in Seq(Packets) /\ v \in Seq(Packets)
  BY <1>1
<1>0. w = <<a, e>>
  BY PairJoined
<1>3. /\ Count(u, Done) = 1 /\ Count(u, {"disc"}) = 0 /\ ~Opens(u)
      /\ ~In(u, Links) /\ ~In(u, Data) /\ ~In(u, {"disc"}) /\ ~In(u, {"conn_request"})
  BY <1>1, One
<1>4. /\ Count(v, Done) = 0 /\ Count(v, {"disc"}) <= 1 /\ Count(v, {"disc"}) \in Nat
      /\ Opens(v) <=> e \in Links
      /\ In(v, Links) <=> e \in Links
      /\ In(v, {"disc"}) <=> e = "disc"
      /\ ~In(v, Data) /\ ~In(v, {"conn_request"}) /\ ~In(v, Done)
  BY <1>1, One
<1> HIDE DEF u, v
<1>5. /\ w \in Seq(Packets)
      /\ Opens(w) <=> Opens(v) \/ (Opens(u) /\ ~In(v, {"disc"}))
      /\ \A S : /\ In(w, S) <=> In(u, S) \/ In(v, S)
                /\ Count(w, S) = Count(u, S) + Count(v, S)
  BY <1>2, Writing
<1> HIDE DEF w
<1>6. Count(w, Done) = 1 /\ Count(w, {"disc"}) <= 1
  BY <1>3, <1>4, <1>5
<1>7. /\ Opens(w) <=> e \in Links
      /\ In(w, {"disc"}) <=> e = "disc"
      /\ In(w, Links) <=> e \in Links
      /\ ~In(w, Data) /\ ~In(w, {"conn_request"})
  BY <1>3, <1>4, <1>5
<1>8. QED
  BY <1>0, <1>2, <1>4, <1>5, <1>6, <1>7 DEF v

\* What is said: every command but ADD_SCO_CONN is answered once, and the other
\* host's commands are never; only a disconnection is reported as one.
Says(op, own, other) ==
  /\ own \in Seq(Packets) /\ other \in Seq(Packets)
  /\ Count(own, Done) \in {0, 1} /\ ~In(other, Done)
  /\ op \in Orders \ {"sco"} => Count(own, Done) = 1
  /\ op \notin Orders => Count(own, Done) = 0
  /\ ~In(own, Data) /\ ~Late(other) /\ ~In(own, {"conn_request"})
  /\ Count(own, {"disc"}) <= 1
  /\ op # "disconnect" => ~In(own, {"disc"}) /\ ~In(other, {"disc"})

\* What happens to the connection, as both hosts are told.
Tells(d, op, own, other) ==
  /\ linked' \in [Devices -> BOOLEAN] /\ (linked'[Peer(d)] <=> linked'[d])
  /\ linked'[d] <=> Opens(own) \/ (linked[d] /\ ~In(own, {"disc"}))
  /\ linked'[d] <=> Opens(other) \/ (linked[d] /\ ~In(other, {"disc"}))
  /\ In(own, Links) \/ In(other, Links) => linked'[d]
  /\ Early(other) => linked[d]
  /\ op # "disconnect" /\ linked[d] => linked'[d]
  /\ crashed' \in BOOLEAN /\ (crashed' <=> op = "disconnect" /\ ~linked[d])

\* One controller does not change the other one's settings, and says nothing to
\* a host that has not asked for anything.
Spares(d, op, other) ==
  /\ scan' \in [Devices -> BOOLEAN] /\ adv' \in [Devices -> BOOLEAN] /\ lescan' \in [Devices -> BOOLEAN]
  /\ scan'[Peer(d)] = scan[Peer(d)] /\ adv'[Peer(d)] = adv[Peer(d)] /\ lescan'[Peer(d)] = lescan[Peer(d)]
  /\ ~linked[d] /\ ~scan[Peer(d)] /\ ~adv[Peer(d)] /\ ~lescan[Peer(d)] /\ op # "accept"
       => other = <<>> /\ ~linked'[d]

\* Data is passed on over a connection, and nothing else comes to the other host
\* as data; a connection that is made takes over what is there.
Passes(d, op, own, other) ==
  /\ op \in Data => other = (IF linked[d] THEN <<op>> ELSE <<>>) /\ linked' = linked
  /\ op \notin Data => ~In(other, Data)
  /\ op = "disconnect" => ~linked'[d]
  /\ In(own, Links) => In(other, Links)
  /\ overlaid' \in BOOLEAN
  /\ overlaid' <=> \/ overlaid
                   \/ In(other, Links) /\ (linked["master"] \/ In(toDev["master"], {"config_req"}))

Serves(d, own, other) ==
  /\ toDev[d] # <<>> /\ toDev' = [toDev EXCEPT ![d] = Tail(@)]
  /\ toHost' = [toHost EXCEPT ![d] = @ \o own, ![Peer(d)] = @ \o other]
  /\ Says(Head(toDev[d]), own, other)
  /\ Tells(d, Head(toDev[d]), own, other)
  /\ Spares(d, Head(toDev[d]), other)
  /\ Passes(d, Head(toDev[d]), own, other)
  /\ UNCHANGED <<queue, bthost, kernel>>

LEMMA Both ==
  ASSUME NEW d \in Devices
  PROVE  Peer(d) \in Devices /\ Peer(d) # d /\ \A e \in Devices : e = d \/ e = Peer(d)
BY DEF Devices, Peer

LEMMA Kinds ==
  /\ Own \subseteq Orders /\ None \notin Own
  /\ Data \cap Orders = {} /\ Done \cap Links = {} /\ Done \cap Data = {} /\ Links \cap Data = {}
  /\ "disc" \notin Done \cup Links \cup Data
BY EmuAssumption DEF Own, Orders, Common, Classic, LowEnergy, None, Data, Asking, Answers, Done, Links

\* A command that makes and closes no connection.
LEMMA PassesNothing ==
  ASSUME TypeOK, NEW d \in Devices, NEW op \in Orders, op # "disconnect", UNCHANGED overlaid,
         NEW own, NEW other, ~In(own, Links), ~In(other, Links), ~In(other, Data)
  PROVE  Passes(d, op, own, other)
<1>1. op \notin Data
  BY Kinds
<1>2. overlaid \in BOOLEAN
  BY DEF TypeOK
<1>3. QED
  BY <1>1, <1>2 DEF Passes

\* A controller that leaves the connection and the settings alone.
LEMMA SaysLittle ==
  ASSUME TypeOK, NEW d \in Devices, NEW op, NEW own, NEW other,
         ~crashed, linked["master"] <=> linked["client"],
         Says(op, own, other), op # "disconnect",
         UNCHANGED <<linked, crashed>>,
         ~Opens(own), ~Opens(other), ~In(own, Links), ~In(other, Links),
         Early(other) => linked[d]
  PROVE  Tells(d, op, own, other)
<1>1. linked[Peer(d)] <=> linked[d]
  BY DEF Devices, Peer
<1>2. linked \in [Devices -> BOOLEAN] /\ crashed \in BOOLEAN
  BY DEF TypeOK
<1>3. ~In(own, {"disc"}) /\ ~In(other, {"disc"})
  BY DEF Says
<1>4. QED
  BY <1>1, <1>2, <1>3 DEF Tells

LEMMA SameSettings ==
  ASSUME TypeOK, NEW d \in Devices, NEW op, NEW other, UNCHANGED <<scan, adv, lescan>>,
         ~linked[d] /\ ~scan[Peer(d)] /\ ~adv[Peer(d)] /\ ~lescan[Peer(d)] /\ op # "accept"
           => other = <<>> /\ ~linked'[d]
  PROVE  Spares(d, op, other)
BY DEF TypeOK, Spares

\* A controller that answers a command and leaves the connection alone.
LEMMA AnswersOnly ==
  ASSUME TypeOK, NEW d \in Devices, NEW op \in Orders, op # "disconnect",
         NEW a \in Done, NEW r \in Seq(Quiet), NEW other \in Seq(Quiet),
         ~crashed, linked["master"] <=> linked["client"], UNCHANGED <<linked, crashed, overlaid>>
  PROVE  /\ Says(op, <<a>> \o r, other) /\ Tells(d, op, <<a>> \o r, other)
         /\ Passes(d, op, <<a>> \o r, other)
<1> DEFINE own == <<a>> \o r
<1>1. /\ own \in Seq(Packets)
      /\ Count(own, Done) = 1 /\ Count(own, {"disc"}) = 0
      /\ ~Opens(own) /\ ~In(own, Links) /\ ~In(own, Data)
      /\ ~In(own, {"disc"}) /\ ~In(own, {"conn_request"})
  BY AnswerSays
<1>2. /\ other \in Seq(Packets) /\ ~Opens(other) /\ ~In(other, Links) /\ ~In(other, Data)
      /\ ~In(other, {"disc"}) /\ ~In(other, Done)
  BY QuietSays
<1>3. ~Late(other) /\ ~Early(other)
  BY <1>2, LastSaid
<1> HIDE DEF own
<1>4. Says(op, own, other)
  BY <1>1, <1>2, <1>3 DEF Says
<1>5. Tells(d, op, own, other)
  BY <1>1, <1>2, <1>3, <1>4, SaysLittle
<1>6. Passes(d, op, own, other)
  BY <1>1, <1>2, PassesNothing
<1>7. QED
  BY <1>4, <1>5, <1>6 DEF own

\* The sequences the actions are written with.
LEMMA Written ==
  /\ <<>> \in Seq(Quiet)
  /\ \A e \in Quiet : <<e>> \in Seq(Quiet)
  /\ \A a : <<a>> \o <<>> = <<a>>
  /\ \A a, b : <<a>> \o <<b>> = <<a, b>>
<1>1. \A a : <<a>> \o <<>> = <<a>>
  <2>1. TAKE a
  <2>2. <<a>> \in Seq({a})
    OBVIOUS
  <2>3. QED
    BY <2>2, ConcatEmptySeq
<1>2. \A a, b : <<a>> \o <<b>> = <<a, b>>
  BY PairJoined
<1>3. <<>> \in Seq(Quiet)
  OBVIOUS
<1>4. \A e \in Quiet : <<e>> \in Seq(Quiet)
  OBVIOUS
<1>5. QED
  BY <1>1, <1>2, <1>3, <1>4

LEMMA DeviceAnswers ==
  ASSUME TypeOK, NEW d \in Devices, ~crashed, linked["master"] <=> linked["client"],
         \/ Unsupported(d) \/ Setting(d) \/ WriteScan(d) \/ SetAdv(d) \/ SetLeScan(d)
         \/ AskRemote(d) \/ CancelOrReject(d)
  PROVE  \E own, other : Serves(d, own, other)
<1> DEFINE op == Head(toDev[d])  p == Peer(d)
<1>1. /\ p \in Devices /\ p # d
  BY Both
<1>2. /\ {"error", "complete", "status"} = Done /\ "remote" \in Quiet /\ "conn_fail" \in Quiet
      /\ "adv_report" \in Quiet
  BY DEF Done, Quiet
<1>3. /\ toDev[d] # <<>> /\ toDev' = [toDev EXCEPT ![d] = Tail(@)]
      /\ UNCHANGED <<queue, bthost, kernel>> /\ UNCHANGED <<linked, crashed, overlaid>>
  BY DEF Unsupported, Setting, WriteScan, SetAdv, SetLeScan, AskRemote, CancelOrReject, Receives, device
<1>4. op \in Orders /\ op # "disconnect"
  BY DEF Unsupported, Setting, WriteScan, SetAdv, SetLeScan, AskRemote, CancelOrReject, Receives,
         Orders, Common, Classic, LowEnergy, Settings
<1>5. ASSUME NEW a \in Done, NEW r \in Seq(Quiet), NEW other \in Seq(Quiet),
             Send(d, <<a>> \o r, other), Spares(d, op, other)
      PROVE  \E own, o : Serves(d, own, o)
  <2>1. /\ Says(op, <<a>> \o r, other) /\ Tells(d, op, <<a>> \o r, other)
        /\ Passes(d, op, <<a>> \o r, other)
    BY <1>3, <1>4, AnswersOnly
  <2>2. Serves(d, <<a>> \o r, other)
    BY <1>3, <1>5, <2>1 DEF Serves, Send
  <2>3. QED
    BY <2>2
<1>6. ASSUME UNCHANGED <<scan, adv, lescan>> PROVE Spares(d, op, <<>>)
  <2>1. ~linked[d] => ~linked'[d]
    BY <1>3
  <2>2. QED
    BY <1>6, <2>1, SameSettings
<1> HIDE DEF op
<1>7. CASE Unsupported(d) \/ Setting(d)
  <2>1. UNCHANGED <<scan, adv, lescan>>
    BY <1>7 DEF Unsupported, Setting, device
  <2>2. \E a \in Done : Send(d, <<a>>, <<>>)
    BY <1>2, <1>7 DEF Unsupported, Setting
  <2>3. QED
    BY <1>5, <1>6, <2>1, <2>2, Written
<1>8. CASE WriteScan(d)
  <2>1. Send(d, <<"complete">>, <<>>) /\ UNCHANGED <<adv, lescan>>
    BY <1>8 DEF WriteScan
  <2>2. scan' \in [Devices -> BOOLEAN] /\ scan'[p] = scan[p]
    <3>1. scan' = [scan EXCEPT ![d] = op = "scan_on"]
      BY <1>8 DEF WriteScan, op
    <3>2. (op = "scan_on") \in BOOLEAN /\ scan \in [Devices -> BOOLEAN]
      BY DEF TypeOK
    <3>3. QED
      BY <1>1, <3>1, <3>2
  <2>3. Spares(d, op, <<>>)
    BY <1>3, <2>1, <2>2 DEF Spares, TypeOK
  <2>4. QED
    BY <1>2, <1>5, <2>1, <2>3, Written
<1>9. CASE SetAdv(d)
  <2>1. PICK a \in Done, o \in Seq(Quiet) :
             Send(d, <<a>>, o) /\ (o # <<>> => lescan[p])
    BY <1>2, <1>9, Written DEF SetAdv
  <2>2. UNCHANGED <<scan, lescan>>
    BY <1>9 DEF SetAdv
  <2>3. adv' \in [Devices -> BOOLEAN] /\ adv'[p] = adv[p]
    <3>1. adv' = [adv EXCEPT ![d] = op = "adv_on"]
      BY <1>9 DEF SetAdv, op
    <3>2. (op = "adv_on") \in BOOLEAN /\ adv \in [Devices -> BOOLEAN]
      BY DEF TypeOK
    <3>3. QED
      BY <1>1, <3>1, <3>2
  <2>4. Spares(d, op, o)
    BY <1>3, <2>1, <2>2, <2>3 DEF Spares, TypeOK
  <2>5. QED
    BY <1>5, <2>1, <2>4, Written
<1>10. CASE SetLeScan(d)
  <2>1. PICK a \in Done, r \in Seq(Quiet) : Send(d, <<a>> \o r, <<>>)
    <3>1. \/ Send(d, <<"error">>, <<>>) \/ Send(d, <<"complete">>, <<>>)
          \/ Send(d, <<"complete", "adv_report">>, <<>>)
      BY <1>10 DEF SetLeScan
    <3>2. /\ <<"error">> = <<"error">> \o <<>> /\ <<"complete">> = <<"complete">> \o <<>>
          /\ <<"complete", "adv_report">> = <<"complete">> \o <<"adv_report">>
      BY Written
    <3>3. /\ <<>> \in Seq(Quiet) /\ <<"adv_report">> \in Seq(Quiet)
          /\ "error" \in Done /\ "complete" \in Done
      BY <1>2, Written
    <3>4. CASE Send(d, <<"error">>, <<>>)
      <4>1. Send(d, <<"error">> \o <<>>, <<>>)
        BY <3>2, <3>4
      <4>2. QED
        BY <3>3, <4>1
    <3>5. CASE Send(d, <<"complete">>, <<>>)
      <4>1. Send(d, <<"complete">> \o <<>>, <<>>)
        BY <3>2, <3>5
      <4>2. QED
        BY <3>3, <4>1
    <3>6. CASE Send(d, <<"complete", "adv_report">>, <<>>)
      <4>1. Send(d, <<"complete">> \o <<"adv_report">>, <<>>)
        BY <3>2, <3>6
      <4>2. QED
        BY <3>3, <4>1
    <3>7. QED
      BY <3>1, <3>4, <3>5, <3>6
  <2>2. UNCHANGED <<scan, adv>>
    BY <1>10 DEF SetLeScan
  <2>3. lescan' \in [Devices -> BOOLEAN] /\ lescan'[p] = lescan[p]
    <3>1. lescan' = [lescan EXCEPT ![d] = op = "le_scan_on"]
      BY <1>10 DEF SetLeScan, op
    <3>2. (op = "le_scan_on") \in BOOLEAN /\ lescan \in [Devices -> BOOLEAN]
      BY DEF TypeOK
    <3>3. QED
      BY <1>1, <3>1, <3>2
  <2>4. Spares(d, op, <<>>)
    BY <1>3, <2>2, <2>3 DEF Spares, TypeOK
  <2>5. QED
    BY <1>5, <2>1, <2>4, Written
<1>11. CASE AskRemote(d) \/ CancelOrReject(d)
  <2>1. UNCHANGED <<scan, adv, lescan>>
    BY <1>11 DEF AskRemote, CancelOrReject, device
  <2>2. PICK a \in Done, e \in Quiet : Send(d, <<a, e>>, <<>>)
    BY <1>2, <1>11 DEF AskRemote, CancelOrReject
  <2>3. <<e>> \in Seq(Quiet) /\ Send(d, <<a>> \o <<e>>, <<>>)
    BY <2>2, Written
  <2>4. QED
    BY <1>5, <1>6, <2>1, <2>3, Written
<1>12. QED
  BY <1>7, <1>8, <1>9, <1>10, <1>11

\* The inquiry and the voice connection may say more than one thing.
LEMMA DeviceReports ==
  ASSUME TypeOK, NEW d \in Devices, ~crashed, linked["master"] <=> linked["client"],
         Inquiry(d) \/ Voice(d)
  PROVE  \E own, other : Serves(d, own, other)
<1> DEFINE op == Head(toDev[d])
<1>1. /\ toDev[d] # <<>> /\ toDev' = [toDev EXCEPT ![d] = Tail(@)]
      /\ UNCHANGED <<queue, bthost, kernel>> /\ UNCHANGED <<linked, crashed, overlaid, scan, adv, lescan>>
  BY DEF Inquiry, Voice, Receives, device
<1>2. op \in Orders /\ op # "disconnect"
  BY DEF Inquiry, Voice, Receives, Orders, Classic
<1>3. Spares(d, op, <<>>)
  <2>1. ~linked[d] => ~linked'[d]
    BY <1>1
  <2>2. QED
    BY <1>1, <2>1, SameSettings
<1>4. /\ "status" \in Done /\ "found" \in Quiet /\ "inquiry_end" \in Quiet /\ "voice" \in Quiet
  BY DEF Done, Quiet
<1>5. /\ <<>> \in Seq(Quiet) /\ <<"found">> \in Seq(Quiet) /\ <<"inquiry_end">> \in Seq(Quiet)
      /\ <<"voice">> \in Seq(Quiet)
  BY <1>4, Written
<1>6. ASSUME NEW r \in Seq(Quiet), Send(d, <<"status">> \o r, <<>>)
      PROVE  \E own, o : Serves(d, own, o)
  <2> DEFINE own == <<"status">> \o r
  <2>1. Says(op, own, <<>>) /\ Tells(d, op, own, <<>>) /\ Passes(d, op, own, <<>>)
    BY <1>1, <1>2, <1>4, <1>5, AnswersOnly
  <2>2. Serves(d, own, <<>>)
    BY <1>1, <1>3, <1>6, <2>1 DEF Serves, Send
  <2>3. QED
    BY <2>2
<1>7. ASSUME NEW r \in Seq(Quiet), op = "sco", Send(d, r, <<>>)
      PROVE  \E own, o : Serves(d, own, o)
  <2>1. /\ r \in Seq(Packets) /\ Count(r, Done) = 0 /\ Count(r, {"disc"}) = 0
        /\ ~Opens(r) /\ ~In(r, Links) /\ ~In(r, Data) /\ ~In(r, {"disc"}) /\ ~In(r, {"conn_request"})
    BY QuietSays
  <2>2. <<>> \in Seq(Packets) /\ ~In(<<>>, Done) /\ ~Late(<<>>) /\ ~In(<<>>, {"disc"}) /\ ~Opens(<<>>)
        /\ ~In(<<>>, Links) /\ ~In(<<>>, Data) /\ ~Early(<<>>)
    BY Empty
  <2>3. Says(op, r, <<>>)
    BY <1>2, <1>7, <2>1, <2>2 DEF Says
  <2>4. Tells(d, op, r, <<>>)
    BY <1>1, <1>2, <2>1, <2>2, <2>3, SaysLittle
  <2>5. Passes(d, op, r, <<>>)
    BY <1>1, <1>2, <2>1, <2>2, PassesNothing
  <2>6. Serves(d, r, <<>>)
    BY <1>1, <1>3, <1>7, <2>3, <2>4, <2>5 DEF Serves, Send
  <2>7. QED
    BY <2>6
<1>8. CASE Inquiry(d)
  <2> DEFINE f == IF scan[Peer(d)] THEN <<"found">> ELSE <<>>
             u == <<"status">>  e == <<"inquiry_end">>
  <2>1. Send(d, (u \o f) \o e, <<>>)
    BY <1>8 DEF Inquiry
  <2>2. f \in Seq(Quiet) /\ e \in Seq(Quiet)
    BY <1>5
  <2> DEFINE T == Quiet \cup {"status"}
  <2>3. u \in Seq(T) /\ f \in Seq(T) /\ e \in Seq(T)
    <3>1. "status" \in T /\ "found" \in T /\ "inquiry_end" \in T
      BY <1>4
    <3> HIDE DEF T
    <3>2. QED
      BY <3>1
  <2> HIDE DEF f, e, u
  <2>4. (u \o f) \o e = u \o (f \o e)
    BY <2>3, ConcatAssociative
  <2>5. f \o e \in Seq(Quiet)
    BY <2>2, ConcatProperties
  <2>6. QED
    BY <1>6, <2>1, <2>4, <2>5 DEF u
<1>9. CASE Voice(d)
  <2> DEFINE r == IF linked[d] THEN <<"voice">> ELSE <<>>
  <2>1. r \in Seq(Quiet)
    BY <1>5
  <2>2. CASE op = "sync"
    <3>1. Send(d, <<"status">> \o r, <<>>)
      BY <1>9, <2>2 DEF Voice
    <3> HIDE DEF r
    <3>2. QED
      BY <1>6, <2>1, <3>1
  <2>3. CASE op = "sco"
    <3>1. Send(d, <<>> \o r, <<>>)
      BY <1>9, <2>3 DEF Voice
    <3> HIDE DEF r
    <3>2. <<>> \o r = r
      BY <2>1, ConcatEmptySeq
    <3>3. QED
      BY <1>7, <2>1, <2>3, <3>1, <3>2
  <2>4. op = "sync" \/ op = "sco"
    BY <1>9 DEF Voice, Receives
  <2>5. QED
    BY <2>2, <2>3, <2>4
<1>10. QED
  BY <1>8, <1>9

\* A connection is made or closed, and both hosts hear of it.
LEMMA Connects ==
  ASSUME NEW d \in Devices, NEW op \in Orders, NEW e \in Links \cup {"disc"},
         e = "disc" <=> op = "disconnect",
         linked' \in [Devices -> BOOLEAN], \A x \in Devices : linked'[x] <=> e \in Links,
         crashed' \in BOOLEAN, crashed' <=> op = "disconnect" /\ ~linked[d]
  PROVE  /\ Says(op, <<"status", e>>, <<e>>)
         /\ Tells(d, op, <<"status", e>>, <<e>>)
<1> DEFINE own == <<"status", e>>  other == <<e>>
<1>1. "status" \in Done /\ "disc" \notin Links
  BY DEF Done, Links
<1>2. /\ own \in Seq(Packets) /\ other \in Seq(Packets)
      /\ Count(own, Done) = 1 /\ Count(own, {"disc"}) <= 1
      /\ Opens(own) <=> e \in Links
      /\ Opens(other) <=> e \in Links
      /\ In(own, {"disc"}) <=> e = "disc"
      /\ In(other, {"disc"}) <=> e = "disc"
      /\ In(own, Links) <=> e \in Links
      /\ In(other, Links) <=> e \in Links
      /\ ~In(own, Data) /\ ~In(other, Data) /\ ~In(other, Done) /\ ~In(own, {"conn_request"})
  BY <1>1, EventSays
<1>3. ~Late(other) /\ ~Early(other)
  BY <1>2, LastSaid
<1> HIDE DEF own, other
<1>4. Says(op, own, other)
  BY <1>2, <1>3 DEF Says
<1>5. Tells(d, op, own, other)
  <2>1. /\ linked'[d] <=> e \in Links
        /\ linked'[Peer(d)] <=> e \in Links
    BY Both
  <2>2. op # "disconnect" <=> e \in Links
    BY <1>1
  <2>3. QED
    BY <1>1, <1>2, <1>3, <2>1, <2>2 DEF Tells
<1>6. QED
  BY <1>4, <1>5 DEF own, other

LEMMA DeviceConnects ==
  ASSUME TypeOK, NEW d \in Devices, ~crashed, linked["master"] <=> linked["client"],
         CreateConn(d) \/ Accept(d) \/ LeCreate(d) \/ Disconnect(d)
  PROVE  \E own, other : Serves(d, own, other)
<1> DEFINE op == Head(toDev[d])
<1>1. /\ toDev[d] # <<>> /\ toDev' = [toDev EXCEPT ![d] = Tail(@)]
      /\ UNCHANGED <<queue, bthost, kernel>> /\ UNCHANGED <<scan, adv, lescan>>
  BY DEF CreateConn, Accept, LeCreate, Disconnect, Receives, device
<1>2. op \in Orders
  BY DEF CreateConn, Accept, LeCreate, Disconnect, Receives, Orders, Common, Classic, LowEnergy
<1>3. "status" \in Done /\ "conn_fail" \in Quiet /\ "le_conn_fail" \in Quiet
  BY DEF Done, Quiet
<1>4. linked[Peer(d)] <=> linked[d]
  BY DEF Devices, Peer
<1>5. <<"status">> \o <<>> = <<"status">>
  BY Written
<1>6. ASSUME op # "disconnect", NEW r \in Seq(Quiet), UNCHANGED <<linked, crashed, overlaid>>,
             Send(d, <<"status">> \o r, <<>>)
      PROVE  \E own, o : Serves(d, own, o)
  <2> DEFINE own == <<"status">> \o r
  <2>1. Says(op, own, <<>>) /\ Tells(d, op, own, <<>>) /\ Passes(d, op, own, <<>>)
    BY <1>2, <1>3, <1>6, AnswersOnly, Written
  <2>2. Spares(d, op, <<>>)
    <3>1. ~linked[d] => ~linked'[d]
      BY <1>6
    <3>2. QED
      BY <1>1, <3>1, SameSettings
  <2>3. Serves(d, own, <<>>)
    BY <1>1, <1>6, <2>1, <2>2 DEF Serves, Send
  <2>4. QED
    BY <2>3
<1>7. ASSUME NEW e \in Links \cup {"disc"}, e = "disc" <=> op = "disconnect",
             linked' \in [Devices -> BOOLEAN], \A x \in Devices : linked'[x] <=> e \in Links,
             crashed' \in BOOLEAN, crashed' <=> op = "disconnect" /\ ~linked[d],
             Send(d, <<"status", e>>, <<e>>),
             linked[d] \/ adv[Peer(d)] \/ op = "accept",
             overlaid' \in BOOLEAN,
             overlaid' <=> \/ overlaid
                           \/ e \in Links /\ (linked["master"] \/ In(toDev["master"], {"config_req"}))
      PROVE  \E own, o : Serves(d, own, o)
  <2>1. Says(op, <<"status", e>>, <<e>>) /\ Tells(d, op, <<"status", e>>, <<e>>)
    BY <1>2, <1>7, Connects
  <2>2. Spares(d, op, <<e>>)
    BY <1>1, <1>7 DEF Spares, TypeOK
  <2>3. Passes(d, op, <<"status", e>>, <<e>>)
    BY <1>2, <1>3, <1>7, EventSays, Kinds DEF Passes
  <2>4. Serves(d, <<"status", e>>, <<e>>)
    BY <1>1, <1>7, <2>1, <2>2, <2>3 DEF Serves, Send
  <2>5. QED
    BY <2>4
<1>8. CASE CreateConn(d)
  <2>1. UNCHANGED <<linked, crashed, overlaid>> /\ op # "disconnect"
    BY <1>8 DEF CreateConn, Receives, device
  <2>2. CASE op = "create" /\ scan[Peer(d)]
    <3> DEFINE own == <<"status">>  other == <<"conn_request">>
    <3>1. Send(d, own, other)
      BY <1>8, <2>2 DEF CreateConn
    <3>2. "conn_request" \in Packets \ (Done \cup Links \cup Data \cup {"disc"})
      BY DEF Packets, Done, Links, Data, Asking, Answers
    <3>3. /\ other \in Seq(Packets) /\ ~Opens(other) /\ ~In(other, Links) /\ ~In(other, Done)
          /\ ~In(other, {"disc"}) /\ ~In(other, Data) /\ ~Late(other) /\ ~Early(other)
      BY <3>2, One
    <3>4. /\ own \in Seq(Packets) /\ Count(own, Done) = 1 /\ Count(own, {"disc"}) = 0
          /\ ~Opens(own) /\ ~In(own, Links) /\ ~In(own, Data)
          /\ ~In(own, {"disc"}) /\ ~In(own, {"conn_request"})
      <4>1. <<>> \in Seq(Quiet)
        BY Written
      <4>2. QED
        BY <1>3, <1>5, <4>1, AnswerSays
    <3> HIDE DEF own, other
    <3>5. Says(op, own, other)
      BY <1>2, <3>3, <3>4 DEF Says
    <3>6. Tells(d, op, own, other)
      BY <2>1, <3>3, <3>4, <3>5, SaysLittle
    <3>7. Spares(d, op, other)
      BY <1>1, <2>2, SameSettings
    <3>8. Passes(d, op, own, other)
      BY <1>2, <2>1, <3>3, <3>4, PassesNothing
    <3>9. Serves(d, own, other)
      BY <1>1, <3>1, <3>5, <3>6, <3>7, <3>8 DEF Serves, Send
    <3>10. QED
      BY <3>9
  <2>3. CASE ~(op = "create" /\ scan[Peer(d)])
    <3>1. Send(d, <<"status", "conn_fail">>, <<>>)
      BY <1>8, <2>3 DEF CreateConn
    <3>2. Send(d, <<"status">> \o <<"conn_fail">>, <<>>)
      BY <3>1, Written
    <3>3. <<"conn_fail">> \in Seq(Quiet)
      BY <1>3, Written
    <3>4. QED
      BY <1>6, <2>1, <3>2, <3>3
  <2>4. QED
    BY <2>2, <2>3
<1>9. CASE Accept(d)
  <2>1. /\ op = "accept" /\ Send(d, <<"status", "conn_ok">>, <<"conn_ok">>)
        /\ linked' = [x \in Devices |-> TRUE] /\ crashed' = crashed
        /\ overlaid' = (overlaid \/ linked["master"] \/ In(toDev["master"], {"config_req"}))
    BY <1>9 DEF Accept, Receives, Link
  <2>2. "conn_ok" \in Links
    BY DEF Links
  <2>3. /\ linked' \in [Devices -> BOOLEAN] /\ \A x \in Devices : linked'[x] <=> "conn_ok" \in Links
        /\ crashed' = FALSE
    BY <2>1, <2>2
  <2>4. /\ overlaid' \in BOOLEAN
        /\ overlaid' <=> \/ overlaid
                         \/ "conn_ok" \in Links /\ (linked["master"] \/ In(toDev["master"], {"config_req"}))
    BY <2>1, <2>2 DEF TypeOK
  <2>5. QED
    BY <1>7, <2>1, <2>2, <2>3, <2>4
<1>10. CASE LeCreate(d)
  <2>1. op = "le_create" /\ crashed' = crashed
    BY <1>10 DEF LeCreate, Receives
  <2>2. CASE adv[Peer(d)]
    <3>1. /\ Send(d, <<"status", "le_conn_ok">>, <<"le_conn_ok">>)
          /\ linked' = [x \in Devices |-> TRUE]
          /\ overlaid' = (overlaid \/ linked["master"] \/ In(toDev["master"], {"config_req"}))
      BY <1>10, <2>2 DEF LeCreate, Link
    <3>2. "le_conn_ok" \in Links
      BY DEF Links
    <3>3. /\ linked' \in [Devices -> BOOLEAN] /\ \A x \in Devices : linked'[x] <=> "le_conn_ok" \in Links
          /\ crashed' = FALSE
      BY <2>1, <3>1, <3>2
    <3>4. /\ overlaid' \in BOOLEAN
          /\ overlaid' <=> \/ overlaid
                           \/ "le_conn_ok" \in Links /\ (linked["master"] \/ In(toDev["master"], {"config_req"}))
      BY <3>1, <3>2 DEF TypeOK
    <3>5. QED
      BY <1>7, <2>1, <2>2, <3>1, <3>2, <3>3, <3>4
  <2>3. CASE ~adv[Peer(d)]
    <3>1. UNCHANGED <<linked, overlaid>> /\ Send(d, <<"status", "le_conn_fail">>, <<>>)
      BY <1>10, <2>3 DEF LeCreate
    <3>2. Send(d, <<"status">> \o <<"le_conn_fail">>, <<>>)
      BY <3>1, Written
    <3>3. <<"le_conn_fail">> \in Seq(Quiet)
      BY <1>3, Written
    <3>4. QED
      BY <1>6, <2>1, <3>1, <3>2, <3>3
  <2>4. QED
    BY <2>2, <2>3
<1>11. CASE Disconnect(d)
  <2>1. /\ op = "disconnect" /\ linked' = [x \in Devices |-> FALSE]
        /\ crashed' = ~linked[d] /\ crashed' \in BOOLEAN /\ overlaid' = overlaid /\ overlaid \in BOOLEAN
    BY <1>11 DEF Disconnect, Receives, TypeOK
  <2>2. "disc" \notin Links
    BY DEF Links
  <2>3. CASE linked[d]
    <3>1. Send(d, <<"status", "disc">>, <<"disc">>)
      BY <1>11, <2>3 DEF Disconnect
    <3>2. linked' \in [Devices -> BOOLEAN] /\ \A x \in Devices : linked'[x] <=> "disc" \in Links
      BY <2>1, <2>2
    <3>3. QED
      BY <1>7, <2>1, <2>3, <3>1, <3>2
  <2>4. CASE ~linked[d]
    <3> DEFINE own == <<"status">>
    <3>1. Send(d, own, <<>>)
      BY <1>11, <2>4 DEF Disconnect
    <3>2. /\ own \in Seq(Packets) /\ Count(own, Done) = 1 /\ Count(own, {"disc"}) = 0
          /\ ~Opens(own) /\ ~In(own, Links) /\ ~In(own, Data)
          /\ ~In(own, {"disc"}) /\ ~In(own, {"conn_request"})
      <4>1. <<>> \in Seq(Quiet)
        BY Written
      <4>2. QED
        BY <1>3, <1>5, <4>1, AnswerSays
    <3>3. /\ <<>> \in Seq(Packets) /\ ~Opens(<<>>) /\ ~In(<<>>, Links) /\ ~In(<<>>, Done)
          /\ ~In(<<>>, {"disc"}) /\ ~In(<<>>, Data) /\ ~Late(<<>>) /\ ~Early(<<>>)
      BY Empty
    <3> HIDE DEF own
    <3>4. Says(op, own, <<>>)
      BY <2>1, <3>2, <3>3, <1>2 DEF Says
    <3>5. /\ linked' \in [Devices -> BOOLEAN] /\ ~linked'[d] /\ ~linked'[Peer(d)]
      BY <2>1, Both
    <3>6. Tells(d, op, own, <<>>)
      BY <2>1, <2>4, <3>2, <3>3, <3>5 DEF Tells
    <3>7. Spares(d, op, <<>>)
      BY <1>1, <3>5, SameSettings
    <3>8. Passes(d, op, own, <<>>)
      <4>1. op \notin Data
        BY <1>2, Kinds
      <4>2. QED
        BY <2>1, <3>2, <3>3, <3>5, <4>1 DEF Passes
    <3>9. Serves(d, own, <<>>)
      BY <1>1, <3>1, <3>4, <3>6, <3>7, <3>8 DEF Serves, Send
    <3>10. QED
      BY <3>9
  <2>5. QED
    BY <2>3, <2>4
<1>12. QED
  BY <1>8, <1>9, <1>10, <1>11

LEMMA DeviceForwards ==
  ASSUME TypeOK, NEW d \in Devices, ~crashed, linked["master"] <=> linked["client"], Forward(d)
  PROVE  \E own, other : Serves(d, own, other)
<1> DEFINE op == Head(toDev[d])
<1>1. /\ toDev[d] # <<>> /\ toDev' = [toDev EXCEPT ![d] = Tail(@)]
      /\ UNCHANGED <<queue, bthost, kernel>> /\ UNCHANGED <<linked, crashed, overlaid, scan, adv, lescan>>
  BY DEF Forward, Receives, device
<1>2. op \in Data
  BY DEF Forward, Receives
<1>3. /\ op \notin Orders /\ op \notin Links /\ op \notin Done /\ op # "disc" /\ op \in Packets
  BY <1>2 DEF Data, Asking, Answers, Orders, Common, Classic, LowEnergy, Links, Done, Packets
<1>4. op # "disconnect" /\ op # "sco"
  BY <1>3 DEF Orders, Common, Classic
<1> HIDE DEF op
<1>5. CASE linked[d]
  <2> DEFINE own == <<"sent">>  other == <<op>>
  <2>1. Send(d, own, other)
    BY <1>5 DEF Forward, op
  <2>2. "sent" \in Quiet
    BY DEF Quiet
  <2>3. /\ own \in Seq(Packets) /\ Count(own, Done) = 0 /\ Count(own, {"disc"}) = 0
        /\ ~Opens(own) /\ ~In(own, Links) /\ ~In(own, Data) /\ ~In(own, {"disc"})
        /\ ~In(own, {"conn_request"})
    BY <2>2, QuietSays, Written
  <2>4. /\ other \in Seq(Packets) /\ ~Opens(other) /\ ~In(other, Links) /\ ~In(other, Done)
        /\ ~In(other, {"disc"}) /\ ~Late(other)
    BY <1>3, One
  <2> HIDE DEF own, other
  <2>5. Says(op, own, other)
    BY <1>3, <2>3, <2>4 DEF Says
  <2>6. Tells(d, op, own, other)
    BY <1>1, <1>4, <1>5, <2>3, <2>4, <2>5, SaysLittle
  <2>7. Spares(d, op, other)
    BY <1>1, <1>5, SameSettings
  <2>8. Passes(d, op, own, other)
    <3>1. overlaid \in BOOLEAN
      BY DEF TypeOK
    <3>2. other = <<op>>
      BY DEF other
    <3>3. QED
      BY <1>1, <1>2, <1>4, <1>5, <2>3, <2>4, <3>1, <3>2 DEF Passes
  <2>9. Serves(d, own, other)
    BY <1>1, <2>1, <2>5, <2>6, <2>7, <2>8 DEF Serves, Send, op
  <2>10. QED
    BY <2>9
<1>6. CASE ~linked[d]
  <2>1. UNCHANGED toHost
    BY <1>6 DEF Forward
  <2>2. toHost' = [toHost EXCEPT ![d] = @ \o <<>>, ![Peer(d)] = @ \o <<>>]
    <3>1. toHost \in [Devices -> Seq(Packets)]
      BY DEF TypeOK
    <3>2. \A x \in Devices : toHost[x] \o <<>> = toHost[x]
      BY <3>1, ConcatEmptySeq
    <3>3. QED
      BY <2>1, <3>1, <3>2, Both
  <2>3. /\ <<>> \in Seq(Packets) /\ ~Opens(<<>>) /\ ~In(<<>>, Links) /\ ~In(<<>>, Done)
        /\ ~In(<<>>, {"disc"}) /\ ~Late(<<>>) /\ ~Early(<<>>) /\ ~In(<<>>, Data)
        /\ ~In(<<>>, {"conn_request"}) /\ Count(<<>>, Done) = 0 /\ Count(<<>>, {"disc"}) = 0
    BY Empty
  <2>4. Says(op, <<>>, <<>>)
    BY <1>3, <2>3 DEF Says
  <2>5. Tells(d, op, <<>>, <<>>)
    BY <1>1, <1>4, <2>3, <2>4, SaysLittle
  <2>6. Spares(d, op, <<>>)
    <3>1. ~linked'[d]
      BY <1>1, <1>6
    <3>2. QED
      BY <1>1, <3>1, SameSettings
  <2>7. Passes(d, op, <<>>, <<>>)
    <3>1. overlaid \in BOOLEAN
      BY DEF TypeOK
    <3>2. QED
      BY <1>1, <1>2, <1>4, <1>6, <2>3, <3>1 DEF Passes
  <2>8. Serves(d, <<>>, <<>>)
    BY <1>1, <2>2, <2>4, <2>5, <2>6, <2>7 DEF Serves, op
  <2>9. QED
    BY <2>8
<1>7. QED
  BY <1>5, <1>6

LEMMA DeviceServes ==
  ASSUME TypeOK, NEW d \in Devices, ~crashed, linked["master"] <=> linked["client"], Device(d)
  PROVE  \E own, other : Serves(d, own, other)
BY DeviceAnswers, DeviceReports, DeviceConnects, DeviceForwards DEF Device

-----------------------------------------------------------------------------
(***************************************************************************)
(* What bthost does with a packet: `s' goes to its controller.             *)
(***************************************************************************)

\* A command is sent for each credit that is spent, and one is kept back only
\* while there is no credit.
Spends(s, credit) ==
  /\ s \in Seq(Own \cup Data) /\ toDev' = [toDev EXCEPT !["client"] = @ \o s]
  /\ ncmd' \in {0, 1} /\ tail' \in Own \cup {None}
  /\ ncmd' = 1 => tail' = None
  /\ ncmd' + Count(s, Orders) = credit

Handles(h, s) ==
  /\ Spends(s, IF h \in Done THEN 1 ELSE ncmd)
  /\ conns' \in Seq(SUBSET {"own", "theirs"})
  /\ conns' # <<>> <=> h \in Links \/ (conns # <<>> /\ h # "disc")
  /\ unheard' \in BOOLEAN /\ (unheard' => unheard \/ (conns = <<>> /\ h \in Data))
  /\ refused' \in BOOLEAN
  /\ UNCHANGED <<device, started, call, called, kernel>>

Listens(s) ==
  /\ toHost["client"] # <<>>
  /\ toHost' = [toHost EXCEPT !["client"] = Tail(@)]
  /\ Handles(Head(toHost["client"]), s)

LEMMA DataSays ==
  ASSUME NEW s \in Seq(Data)
  PROVE  s \in Seq(Own \cup Data) /\ Count(s, Orders) = 0
<1>1. s \in Seq(Own \cup Data)
  BY SeqMonotonic
<1>2. \A i \in 1..Len(s) : s[i] \in Data
  BY ElementOfSeq
<1>3. ~In(s, Orders)
  BY <1>2, Kinds DEF In
<1>4. QED
  BY <1>1, <1>3, CountType

LEMMA Commanded ==
  ASSUME TypeOK, ncmd = 1 => tail = None, NEW ahead \in Seq(Data), NEW op \in Own,
         Command(ahead, op)
  PROVE  \E s : Spends(s, ncmd)
<1> DEFINE q == toDev["client"]  u == <<op>>
<1>1. q \in Seq(Own \cup Data) /\ toDev \in [Devices -> Seq(Orders \cup Data)] /\ ncmd \in {0, 1}
      /\ tail \in Own \cup {None}
  BY DEF TypeOK
<1>2. ahead \in Seq(Own \cup Data) /\ Count(ahead, Orders) = 0
  BY DataSays
<1>3. CASE ncmd = 1
  <2>1. /\ toDev' = [toDev EXCEPT !["client"] = (q \o ahead) \o u]
        /\ ncmd' = 0 /\ tail' = tail
    BY <1>3 DEF Command
  <2>2. u \in Seq(Own \cup Data) /\ Count(u, Orders) = 1
    BY Kinds, One
  <2> HIDE DEF u, q
  <2>3. (q \o ahead) \o u = q \o (ahead \o u)
    BY <1>1, <1>2, <2>2, ConcatAssociative
  <2>4. ahead \o u \in Seq(Own \cup Data) /\ Count(ahead \o u, Orders) = 1
    BY <1>2, <2>2, Writing
  <2>5. toDev' = [toDev EXCEPT !["client"] = @ \o (ahead \o u)]
    BY <2>1, <2>3 DEF q
  <2>6. Spends(ahead \o u, ncmd)
    <3>1. ncmd' + Count(ahead \o u, Orders) = ncmd
      BY <1>3, <2>1, <2>4
    <3>2. ncmd' \in {0, 1} /\ ncmd' # 1 /\ tail' \in Own \cup {None}
      BY <1>1, <2>1
    <3>3. QED
      BY <2>4, <2>5, <3>1, <3>2 DEF Spends
  <2>7. QED
    BY <2>6
<1>4. CASE ncmd # 1
  <2>1. /\ toDev' = [toDev EXCEPT !["client"] = q \o ahead]
        /\ ncmd' = 0 /\ tail' = op
    BY <1>1, <1>4 DEF Command
  <2>2. Spends(ahead, ncmd)
    BY <1>1, <1>2, <1>4, <2>1 DEF Spends
  <2>3. QED
    BY <2>2
<1>5. QED
  BY <1>3, <1>4

\* bthost answers with data, and its credit stays.
LEMMA Replied ==
  ASSUME TypeOK, ncmd = 1 => tail = None, NEW s \in Seq(Data), Reply(s), UNCHANGED queue
  PROVE  Spends(s, ncmd)
<1>1. s \in Seq(Own \cup Data) /\ Count(s, Orders) = 0
  BY DataSays
<1>2. ncmd' = ncmd /\ tail' = tail /\ ncmd \in {0, 1} /\ tail \in Own \cup {None}
  BY DEF queue, TypeOK
<1>3. QED
  BY <1>1, <1>2 DEF Spends, Reply

LEMMA Unanswered ==
  ASSUME TypeOK, ncmd = 1 => tail = None, UNCHANGED <<toDev, queue>>
  PROVE  Spends(<<>>, ncmd)
<1>1. toDev' = [toDev EXCEPT !["client"] = @ \o <<>>]
  <2>1. toDev \in [Devices -> Seq(Orders \cup Data)]
    BY DEF TypeOK
  <2>2. "client" \in Devices
    BY DEF Devices
  <2>3. toDev["client"] \o <<>> = toDev["client"]
    BY <2>1, <2>2, ConcatEmptySeq
  <2>4. QED
    BY <2>1, <2>3
<1>2. Reply(<<>>)
  BY <1>1 DEF Reply
<1>3. <<>> \in Seq(Data)
  OBVIOUS
<1>4. QED
  BY <1>2, <1>3, Replied

LEMMA Entered ==
  ASSUME TypeOK, conns # <<>>, NEW c \in {"own", "theirs"}, Channel(c)
  PROVE  conns' \in Seq(SUBSET {"own", "theirs"}) /\ conns' # <<>>
<1> DEFINE T == SUBSET {"own", "theirs"}
<1>1. conns \in Seq(T) /\ Len(conns) \in Nat /\ Len(conns) # 0
  BY EmptySeq, LenProperties DEF TypeOK
<1>2. 1 \in 1..Len(conns)
  BY <1>1
<1>3. conns[1] \in T
  BY <1>1, <1>2, ElementOfSeq
<1>4. conns[1] \cup {c} \in T
  BY <1>3
<1>5. conns' = [conns EXCEPT ![1] = conns[1] \cup {c}]
  BY DEF Channel
<1>6. conns' \in Seq(T) /\ Len(conns') = Len(conns)
  BY <1>1, <1>2, <1>4, <1>5, ExceptSeq
<1>7. QED
  BY <1>1, <1>6, EmptySeq

LEMMA HostListens ==
  ASSUME TypeOK, ncmd = 1 => tail = None, Host
  PROVE  \E s : Listens(s)
<1> DEFINE h == Head(toHost["client"])
<1>1. /\ toHost["client"] # <<>> /\ toHost' = [toHost EXCEPT !["client"] = Tail(@)]
      /\ UNCHANGED <<device, started, call, called, kernel>>
  BY DEF Host, EvtCmd, EvtConnRequest, EvtConnComplete, EvtDisconnComplete, EvtIgnored, AclUnknown,
         AclConnReq, AclConnRsp, AclConfigReq, AclOther, AclParamReq, Gets, bthost
<1>2. /\ conns \in Seq(SUBSET {"own", "theirs"}) /\ unheard \in BOOLEAN /\ refused \in BOOLEAN
  BY DEF TypeOK
<1>3. ASSUME NEW s, Handles(h, s) PROVE \E r : Listens(r)
  BY <1>1, <1>3 DEF Listens
<1>4. ASSUME h \notin Done, \E s : Spends(s, ncmd), UNCHANGED bthost,
             h \notin Links, h = "disc" => conns = <<>>
      PROVE  \E s : Handles(h, s)
  BY <1>1, <1>2, <1>4 DEF Handles, bthost
<1> HIDE DEF h
<1>5. CASE EvtCmd
  <2>1. h \in Done /\ UNCHANGED bthost
    BY <1>5 DEF EvtCmd, Gets, Done, h
  <2>2. h \notin Links /\ h # "disc"
    BY <2>1, Kinds
  <2>3. \E s : Spends(s, 1)
    <3>1. tail \in Own \cup {None}
      BY DEF TypeOK
    <3>2. CASE tail # None
      <4> DEFINE u == <<tail>>  q == toDev["client"]
      <4>1. toDev' = [toDev EXCEPT !["client"] = Append(q, tail)] /\ ncmd' = 0 /\ tail' = None
        BY <1>5, <3>2 DEF EvtCmd
      <4>2. u \in Seq(Own \cup Data) /\ Count(u, Orders) = 1
        BY <3>1, <3>2, Kinds, One
      <4>3. Append(q, tail) = q \o u
        <5>1. q \in Seq(Own \cup Data) /\ tail \in Own \cup Data
          BY <3>1, <3>2 DEF TypeOK
        <5>2. QED
          BY <5>1, AppendIsConcat
      <4> HIDE DEF u
      <4>4. Spends(u, 1)
        BY <4>1, <4>2, <4>3 DEF Spends
      <4>5. QED
        BY <4>4
    <3>3. CASE tail = None
      <4>1. ncmd' = 1 /\ UNCHANGED <<toDev, tail>>
        BY <1>5, <3>3 DEF EvtCmd
      <4>2. toDev' = [toDev EXCEPT !["client"] = @ \o <<>>]
        <5>1. toDev \in [Devices -> Seq(Orders \cup Data)] /\ "client" \in Devices
          BY DEF TypeOK, Devices
        <5>2. toDev["client"] \o <<>> = toDev["client"]
          BY <5>1, ConcatEmptySeq
        <5>3. QED
          BY <4>1, <5>1, <5>2
      <4>3. Count(<<>>, Orders) = 0 /\ <<>> \in Seq(Own \cup Data)
        BY Empty
      <4>4. Spends(<<>>, 1)
        <5>1. ncmd' + Count(<<>>, Orders) = 1
          BY <4>1, <4>3
        <5>2. ncmd' \in {0, 1} /\ tail' = None /\ tail' \in Own \cup {None}
          BY <3>3, <4>1
        <5>3. QED
          BY <4>2, <4>3, <5>1, <5>2 DEF Spends
      <4>5. QED
        BY <4>4
    <3>4. QED
      BY <3>2, <3>3
  <2>4. \E s : Handles(h, s)
    BY <1>1, <1>2, <2>1, <2>2, <2>3 DEF Handles, bthost
  <2>5. QED
    BY <1>3, <2>4
<1>6. CASE EvtConnRequest
  <2>1. h = "conn_request" /\ Command(<<>>, "accept") /\ UNCHANGED bthost
    BY <1>6 DEF EvtConnRequest, Gets, h
  <2>2. "accept" \in Own /\ <<>> \in Seq(Data)
    BY DEF Own
  <2>3. \E s : Spends(s, ncmd)
    BY <2>1, <2>2, Commanded
  <2>4. h \notin Done /\ h \notin Links /\ h # "disc"
    BY <2>1 DEF Done, Links
  <2>5. QED
    BY <1>3, <1>4, <2>1, <2>3, <2>4
<1>7. CASE EvtConnComplete
  <2>1. /\ h \in Links /\ conns' = <<{}>> \o conns /\ UNCHANGED <<queue, refused, unheard>>
    BY <1>7 DEF EvtConnComplete, Gets, h, Links
  <2>2. h \notin Done /\ h # "disc"
    BY <2>1, Kinds
  <2>3. conns' \in Seq(SUBSET {"own", "theirs"}) /\ conns' # <<>>
    <3> DEFINE u == <<{}>>  T == SUBSET {"own", "theirs"}
    <3>1. u \in Seq(T) /\ Len(u) = 1
      OBVIOUS
    <3> HIDE DEF u, T
    <3>2. conns \in Seq(T)
      BY <1>2 DEF T
    <3>3. u \o conns \in Seq(T) /\ Len(u \o conns) = 1 + Len(conns) /\ Len(conns) \in Nat
      <4>1. Len(u \o conns) = Len(u) + Len(conns) /\ u \o conns \in Seq(T) /\ Len(conns) \in Nat
        BY <3>1, <3>2, Joined
      <4>2. QED
        BY <3>1, <4>1
    <3>4. u \o conns # <<>>
      BY <3>3, EmptySeq
    <3>5. conns' = u \o conns
      BY <2>1 DEF u
    <3>6. QED
      BY <3>3, <3>4, <3>5 DEF T
  <2>4. \E s : Spends(s, ncmd)
    <3>1. CASE NewConnCb
      <4>1. Request \in Data
        BY DEF Request, Data, Asking
      <4> DEFINE u == <<Request>>
      <4>2. toDev' = [toDev EXCEPT !["client"] = Append(@, Request)]
        BY <1>7, <3>1 DEF EvtConnComplete
      <4>3. Append(toDev["client"], Request) = toDev["client"] \o u
        <5>1. toDev["client"] \in Seq(Own \cup Data) /\ Request \in Own \cup Data
          BY <4>1 DEF TypeOK
        <5>2. QED
          BY <5>1, AppendIsConcat
      <4>4. u \in Seq(Data)
        BY <4>1
      <4> HIDE DEF u
      <4>5. Reply(u)
        BY <4>2, <4>3 DEF Reply
      <4>6. QED
        BY <2>1, <4>4, <4>5, Replied
    <3>2. CASE ~NewConnCb
      <4>1. UNCHANGED toDev
        BY <1>7, <3>2 DEF EvtConnComplete
      <4>2. QED
        BY <2>1, <4>1, Unanswered
    <3>3. QED
      BY <3>1, <3>2
  <2>5. \E s : Handles(h, s)
    BY <1>1, <1>2, <2>1, <2>2, <2>3, <2>4 DEF Handles
  <2>6. QED
    BY <1>3, <2>5
<1>8. CASE EvtDisconnComplete
  <2>1. h = "disc" /\ conns' = <<>> /\ UNCHANGED <<toDev, queue, refused, unheard>>
    BY <1>8 DEF EvtDisconnComplete, Gets, h
  <2>2. h \notin Done /\ h \notin Links
    BY <2>1, Kinds
  <2>3. Spends(<<>>, ncmd)
    BY <2>1, Unanswered
  <2>4. conns' \in Seq(SUBSET {"own", "theirs"})
    BY <2>1
  <2>5. Handles(h, <<>>)
    BY <1>1, <1>2, <2>1, <2>2, <2>3, <2>4 DEF Handles
  <2>6. QED
    BY <1>3, <2>5
<1>9. CASE EvtIgnored
  <2>1. h \in {"conn_fail", "le_conn_fail", "sent", "adv_report"} /\ UNCHANGED <<toDev, queue, bthost>>
    BY <1>9 DEF EvtIgnored, Gets, h
  <2>2. h \notin Done /\ h \notin Links /\ h # "disc"
    BY <2>1 DEF Done, Links
  <2>3. Spends(<<>>, ncmd)
    BY <2>1, Unanswered
  <2>4. QED
    BY <1>3, <1>4, <2>1, <2>2, <2>3
<1>10. CASE AclUnknown
  <2>1. /\ h \in Data /\ conns = <<>> /\ unheard' = TRUE
        /\ UNCHANGED <<toDev, queue, conns, refused>>
    BY <1>10 DEF AclUnknown, Gets, h
  <2>2. h \notin Done /\ h \notin Links
    BY <2>1, Kinds
  <2>3. Spends(<<>>, ncmd)
    BY <2>1, Unanswered
  <2>4. Handles(h, <<>>)
    BY <1>1, <1>2, <2>1, <2>2, <2>3 DEF Handles
  <2>5. QED
    BY <1>3, <2>4
<1>11. CASE AclConnReq
  <2>1. /\ h = "conn_req" /\ conns # <<>> /\ Channel("theirs") /\ Reply(<<"conn_rsp", "config_req">>)
        /\ UNCHANGED <<queue, refused, unheard>>
    BY <1>11 DEF AclConnReq, Gets, h
  <2>2. h \notin Done /\ h \notin Links /\ h # "disc"
    BY <2>1 DEF Done, Links
  <2>3. <<"conn_rsp", "config_req">> \in Seq(Data)
    BY DEF Data, Asking, Answers
  <2>4. \E s : Spends(s, ncmd)
    BY <2>1, <2>3, Replied
  <2>5. conns' \in Seq(SUBSET {"own", "theirs"}) /\ conns' # <<>>
    BY <2>1, Entered
  <2>6. \E s : Handles(h, s)
    BY <1>1, <1>2, <2>1, <2>2, <2>4, <2>5 DEF Handles
  <2>7. QED
    BY <1>3, <2>6
<1>12. CASE AclConnRsp
  <2> DEFINE s == IF h = "conn_pend" THEN <<"config_req">> ELSE <<>>
  <2>1. /\ h \in {"conn_rsp", "conn_pend"} /\ conns # <<>> /\ Channel("own") /\ Reply(s)
        /\ UNCHANGED <<queue, refused, unheard>>
    BY <1>12 DEF AclConnRsp, Gets, h
  <2>2. h \notin Done /\ h \notin Links /\ h # "disc"
    BY <2>1 DEF Done, Links
  <2>3. s \in Seq(Data)
    <3>1. "config_req" \in Data
      BY DEF Data, Asking
    <3>2. <<"config_req">> \in Seq(Data) /\ <<>> \in Seq(Data)
      BY <3>1
    <3>3. QED
      BY <3>2
  <2>4. Spends(s, ncmd)
    BY <2>1, <2>3, Replied
  <2>5. conns' \in Seq(SUBSET {"own", "theirs"}) /\ conns' # <<>>
    BY <2>1, Entered
  <2>6. Handles(h, s)
    BY <1>1, <1>2, <2>1, <2>2, <2>4, <2>5 DEF Handles
  <2>7. QED
    BY <1>3, <2>6
<1>13. CASE AclConfigReq
  <2>1. /\ h = "config_req" /\ conns # <<>>
        /\ UNCHANGED <<queue, conns, unheard>>
    BY <1>13 DEF AclConfigReq, Gets, h
  <2>2. h \notin Done /\ h \notin Links /\ h # "disc"
    BY <2>1 DEF Done, Links
  <2>3. PICK s \in Seq(Data) : Reply(s) /\ refused' \in BOOLEAN
    <3>1. <<"config_rsp">> \in Seq(Data) /\ <<"reject">> \in Seq(Data)
      BY DEF Data, Answers
    <3>2. QED
      BY <1>2, <1>13, <3>1 DEF AclConfigReq
  <2>4. Spends(s, ncmd)
    BY <2>1, <2>3, Replied
  <2>5. Handles(h, s)
    BY <1>1, <1>2, <2>1, <2>2, <2>3, <2>4 DEF Handles
  <2>6. QED
    BY <1>3, <2>5
<1>14. CASE AclOther
  <2>1. /\ h \in {"ask", "config_rsp", "bad", "answer"} /\ conns # <<>> /\ UNCHANGED <<queue, bthost>>
    BY <1>14 DEF AclOther, Gets, h
  <2>2. h \notin Done /\ h \notin Links /\ h # "disc"
    BY <2>1 DEF Done, Links
  <2>3. PICK s \in Seq(Data) : Reply(s)
    <3>1. <<"answer">> \in Seq(Data) /\ <<"reject">> \in Seq(Data) /\ <<>> \in Seq(Data)
      BY DEF Data, Answers
    <3>2. CASE h = "ask"
      <4>1. Reply(<<"answer">>)
        BY <1>14, <3>2 DEF AclOther, h
      <4>2. QED
        BY <3>1, <4>1
    <3>3. CASE h = "bad"
      <4>1. Reply(<<"reject">>)
        BY <1>14, <3>3 DEF AclOther, h
      <4>2. QED
        BY <3>1, <4>1
    <3>4. CASE h # "ask" /\ h # "bad"
      <4>1. Reply(<<>>)
        BY <1>14, <3>4 DEF AclOther, h
      <4>2. QED
        BY <3>1, <4>1
    <3>5. QED
      BY <3>2, <3>3, <3>4
  <2>4. Spends(s, ncmd)
    BY <2>1, <2>3, Replied
  <2>5. QED
    BY <1>3, <1>4, <2>1, <2>2, <2>4
<1>15. CASE AclParamReq
  <2>1. /\ h = "param_req" /\ conns # <<>> /\ UNCHANGED bthost
    BY <1>15 DEF AclParamReq, Gets, h
  <2>2. h \notin Done /\ h \notin Links /\ h # "disc"
    BY <2>1 DEF Done, Links
  <2>3. "conn_update" \in Own /\ "answer" \in Data
    BY DEF Own, Data, Answers
  <2>4. \E s : Spends(s, ncmd)
    <3>1. CASE ncmd = 1
      <4> DEFINE u == <<"conn_update">>  v == <<"answer">>
      <4>1. /\ toDev' = [toDev EXCEPT !["client"] = @ \o <<"conn_update", "answer">>]
            /\ ncmd' = 0 /\ tail' = tail
        BY <1>15, <3>1 DEF AclParamReq
      <4>2. <<"conn_update", "answer">> = u \o v
        BY PairJoined
      <4>3. /\ u \in Seq(Own \cup Data) /\ v \in Seq(Own \cup Data)
            /\ Count(u, Orders) = 1 /\ Count(v, Orders) = 0
        BY <2>3, Kinds, One
      <4> HIDE DEF u, v
      <4>4. u \o v \in Seq(Own \cup Data) /\ Count(u \o v, Orders) = 1
        BY <4>3, Writing
      <4>5. tail \in Own \cup {None}
        BY DEF TypeOK
      <4> DEFINE w == u \o v
      <4> HIDE DEF w
      <4>8. toDev' = [toDev EXCEPT !["client"] = @ \o w]
        BY <4>1, <4>2 DEF w
      <4>9. w \in Seq(Own \cup Data) /\ Count(w, Orders) = 1
        BY <4>4 DEF w
      <4>6. Spends(w, ncmd)
        <5>1. ncmd' + Count(w, Orders) = ncmd
          BY <3>1, <4>1, <4>9
        <5>2. ncmd' \in {0, 1} /\ ncmd' # 1 /\ tail' \in Own \cup {None}
          BY <4>1, <4>5
        <5>3. QED
          BY <4>8, <4>9, <5>1, <5>2 DEF Spends
      <4>7. QED
        BY <4>6
    <3>2. CASE ncmd # 1
      <4>1. Command(<<"answer">>, "conn_update")
        BY <1>15, <3>2 DEF AclParamReq
      <4>2. <<"answer">> \in Seq(Data)
        BY <2>3
      <4>3. QED
        BY <2>3, <4>1, <4>2, Commanded
    <3>3. QED
      BY <3>1, <3>2
  <2>5. QED
    BY <1>3, <1>4, <2>1, <2>2, <2>4
<1>16. QED
  BY <1>5, <1>6, <1>7, <1>8, <1>9, <1>10, <1>11, <1>12, <1>13, <1>14, <1>15 DEF Host

-----------------------------------------------------------------------------
(***************************************************************************)
(* The inductive invariant.                                                *)
(***************************************************************************)

\* Before bthost starts nothing has reached it, and nothing will.
Asleep ==
  ~started =>
    /\ toDev["client"] = <<>> /\ toHost["client"] = <<>> /\ conns = <<>> /\ ~called
    /\ ~linked["client"] /\ ~scan["client"] /\ ~adv["client"] /\ ~lescan["client"]
    /\ ~kreq /\ ~In(toDev["master"], {"accept"}) /\ ~In(toHost["master"], {"conn_request"})
    /\ ncmd = 0 /\ tail = None

\* Of the kernel's commands only the one it waits for may still be unread.
FlowInv ==
  /\ CommandsFlow
  /\ kcmd = "sco" => Count(toDev["master"], Orders) + Count(toHost["master"], Done) <= 1
  /\ ~In(toDev["master"], Orders \ {kcmd})

LinkInv == HostsAgree /\ (kcmd = "reset" => forgot)

\* Data comes to bthost when it has an entry, or will have when it reads it.
FedInv == ~Late(toHost["client"]) /\ (Early(toHost["client"]) => conns # <<>>)

\* The kernel asks once for a connection to be closed, and while it is there;
\* during a reset, nothing that follows its completion was sent before it.
DiscInv ==
  /\ In(toDev["master"], {"disconnect"}) =>
       kdisc /\ linked["master"] /\ ~In(toHost["master"], {"disc"})
  /\ kcmd # "reset" =>
       /\ ~kdisc => ~In(toHost["master"], {"disc"})
       /\ Believes(toHost["master"], klink # None) => linked["master"]
       /\ Count(toHost["master"], {"disc"}) <= 1
  /\ kcmd = "reset" =>
       /\ ~kdisc /\ klink = None
       /\ ~Past(toHost["master"], {"disc"})
       /\ Past(toHost["master"], Links) => linked["master"]

EmuInv == TypeOK /\ Asleep /\ FlowInv /\ LinkInv /\ FedInv /\ DiscInv /\ NoStaleHandle

LEMMA Ends ==
  /\ Devices = {"master", "client"} /\ "master" # "client"
  /\ "master" \in Devices /\ "client" \in Devices
  /\ Peer("master") = "client" /\ Peer("client") = "master"
BY DEF Devices, Peer

\* The parts of the type invariant that most steps use.
LEMMA Sockets ==
  ASSUME TypeOK
  PROVE  /\ toDev \in [Devices -> Seq(Orders \cup Data)] /\ toHost \in [Devices -> Seq(Packets)]
         /\ toDev["master"] \in Seq(Commands \cup Sent) /\ toDev["client"] \in Seq(Own \cup Data)
         /\ toHost["master"] \in Seq(Packets) /\ toHost["client"] \in Seq(Packets)
         /\ toDev["master"] \in Seq(Orders \cup Data)
         /\ linked \in [Devices -> BOOLEAN] /\ linked["master"] \in BOOLEAN /\ linked["client"] \in BOOLEAN
BY Ends DEF TypeOK

LEMMA Counted ==
  ASSUME NEW q \in Seq(Orders \cup Data), NEW S
  PROVE  Count(q, S) \in Nat /\ (Count(q, S) = 0 <=> ~In(q, S))
BY CountType

LEMMA InitInv ==
  Init => EmuInv
<1>1. SUFFICES ASSUME Init PROVE EmuInv
  OBVIOUS
<1>2. /\ toDev["master"] = <<>> /\ toDev["client"] = <<>>
      /\ toHost["master"] = <<>> /\ toHost["client"] = <<>>
      /\ linked["master"] = FALSE /\ linked["client"] = FALSE
  BY <1>1, Ends DEF Init
<1>3. TypeOK
  <2>1. \A T : <<>> \in Seq(T)
    OBVIOUS
  <2>2. /\ toDev \in [Devices -> Seq(Orders \cup Data)] /\ toHost \in [Devices -> Seq(Packets)]
        /\ linked \in [Devices -> BOOLEAN] /\ scan \in [Devices -> BOOLEAN]
        /\ adv \in [Devices -> BOOLEAN] /\ lescan \in [Devices -> BOOLEAN]
    BY <1>1 DEF Init
  <2>3. kleft \in Nat \X Nat
    BY <1>1, EmuAssumption DEF Init
  <2>4. /\ called = FALSE /\ kreq = FALSE /\ kdisc = FALSE /\ kacl = TRUE /\ kasked = FALSE
        /\ crashed = FALSE /\ overlaid = FALSE /\ refused = FALSE /\ unheard = FALSE /\ forgot = FALSE
    BY <1>1 DEF Init
  <2>5. /\ started \in BOOLEAN /\ ncmd \in {0, 1} /\ tail \in Own \cup {None}
        /\ call \in Calls /\ kcmd \in Commands \cup {None}
        /\ kwait \in {None, "page", "le"} /\ klink \in {None, "classic", "le"}
        /\ kchan \in {None, "wait", "open"} /\ conns = <<>>
    BY <1>1 DEF Init
  <2>6. QED
    BY <1>2, <2>1, <2>2, <2>3, <2>4, <2>5 DEF TypeOK
<1>4. Asleep
  <2>1. scan["client"] = FALSE /\ adv["client"] = FALSE /\ lescan["client"] = FALSE
    BY <1>1, Ends DEF Init
  <2>2. QED
    BY <1>1, <1>2, <2>1, Empty DEF Init, Asleep
<1>5. FlowInv
  <2>1. kcmd = None /\ started = FALSE /\ ncmd = 0
    BY <1>1 DEF Init
  <2>2. None # "sco"
    BY DEF None
  <2>3. QED
    BY <1>2, <2>1, <2>2, Empty DEF FlowInv, CommandsFlow
<1>6. LinkInv
  <2>1. conns = <<>> /\ klink = None /\ kcmd = None /\ None # "reset"
    BY <1>1 DEF Init, None
  <2>2. QED
    BY <1>2, <2>1, Empty DEF LinkInv, HostsAgree, Believes
<1>7. FedInv
  BY <1>2, Empty DEF FedInv
<1>8. DiscInv
  <2>1. klink = None /\ kcmd = None /\ None # "reset"
    BY <1>1 DEF Init, None
  <2>2. QED
    BY <1>2, <2>1, Empty DEF DiscInv, Believes
<1>9. NoStaleHandle
  BY <1>1 DEF Init, NoStaleHandle
<1>10. QED
  BY <1>3, <1>4, <1>5, <1>6, <1>7, <1>8, <1>9 DEF EmuInv

-----------------------------------------------------------------------------
(***************************************************************************)
(* A step of a controller.                                                 *)
(***************************************************************************)

LEMMA Served ==
  ASSUME TypeOK, NEW d \in Devices, NEW own, NEW other, Serves(d, own, other)
  PROVE  /\ own \in Seq(Packets) /\ other \in Seq(Packets)
         /\ toDev'[d] = Tail(toDev[d]) /\ toDev'[Peer(d)] = toDev[Peer(d)]
         /\ toHost'[d] = toHost[d] \o own /\ toHost'[Peer(d)] = toHost[Peer(d)] \o other
         /\ Head(toDev[d]) \in Orders \cup Data
         /\ UNCHANGED <<started, ncmd, tail, conns, call, called, refused, unheard>>
         /\ UNCHANGED <<kcmd, kwait, kreq, klink, kdisc, kacl, kchan, kasked, kleft, forgot>>
         /\ TypeOK'
<1> DEFINE p == Peer(d)  o == toDev[d]
<1>1. p \in Devices /\ p # d /\ \A e \in Devices : e = d \/ e = p
  BY Both
<1>2. own \in Seq(Packets) /\ other \in Seq(Packets)
  BY DEF Serves, Says
<1>3. /\ toDev \in [Devices -> Seq(Orders \cup Data)] /\ toHost \in [Devices -> Seq(Packets)]
      /\ toDev["master"] \in Seq(Commands \cup Sent) /\ toDev["client"] \in Seq(Own \cup Data)
  BY Sockets
<1>4. o # <<>> /\ o \in Seq(Orders \cup Data)
  BY <1>3 DEF Serves
<1>5. Head(o) \in Orders \cup Data /\ Tail(o) \in Seq(Orders \cup Data)
  BY <1>4, Reading
<1>6. toDev' = [toDev EXCEPT ![d] = Tail(@)]
  BY DEF Serves
<1>7. toDev'[d] = Tail(o) /\ toDev'[p] = toDev[p] /\ toDev' \in [Devices -> Seq(Orders \cup Data)]
  BY <1>1, <1>3, <1>5, <1>6
<1>8. toHost' = [toHost EXCEPT ![d] = @ \o own, ![p] = @ \o other]
  BY DEF Serves
<1>9. toHost[d] \o own \in Seq(Packets) /\ toHost[p] \o other \in Seq(Packets)
  BY <1>1, <1>2, <1>3, ConcatProperties
<1>10. /\ toHost'[d] = toHost[d] \o own /\ toHost'[p] = toHost[p] \o other
       /\ toHost' \in [Devices -> Seq(Packets)]
  BY <1>1, <1>3, <1>8, <1>9
<1>11. /\ UNCHANGED <<started, ncmd, tail, conns, call, called, refused, unheard>>
       /\ UNCHANGED <<kcmd, kwait, kreq, klink, kdisc, kacl, kchan, kasked, kleft, forgot>>
  BY DEF Serves, queue, bthost, kernel
<1>12. toDev'["master"] \in Seq(Commands \cup Sent) /\ toDev'["client"] \in Seq(Own \cup Data)
  <2>1. \A T : o \in Seq(T) => Tail(o) \in Seq(T)
    BY <1>4, Reading
  <2>2. CASE d = "master"
    BY <1>3, <1>7, <2>1, <2>2, Ends
  <2>3. CASE d = "client"
    BY <1>3, <1>7, <2>1, <2>3, Ends
  <2>4. QED
    BY <2>2, <2>3, Ends
<1>13. TypeOK'
  <2>1. linked' \in [Devices -> BOOLEAN] /\ crashed' \in BOOLEAN
    BY DEF Serves, Tells
  <2>2. /\ scan' \in [Devices -> BOOLEAN] /\ adv' \in [Devices -> BOOLEAN]
        /\ lescan' \in [Devices -> BOOLEAN]
    BY DEF Serves, Spares
  <2>3. overlaid' \in BOOLEAN
    BY DEF Serves, Passes
  <2>4. /\ started' \in BOOLEAN /\ ncmd' \in {0, 1} /\ tail' \in Own \cup {None}
        /\ call' \in Calls /\ kcmd' \in Commands \cup {None}
        /\ kwait' \in {None, "page", "le"} /\ klink' \in {None, "classic", "le"}
        /\ kchan' \in {None, "wait", "open"} /\ kleft' \in Nat \X Nat
        /\ conns' \in Seq(SUBSET {"own", "theirs"})
    BY <1>11 DEF TypeOK
  <2>5. /\ called' \in BOOLEAN /\ kreq' \in BOOLEAN /\ kdisc' \in BOOLEAN /\ kacl' \in BOOLEAN
        /\ kasked' \in BOOLEAN /\ refused' \in BOOLEAN /\ unheard' \in BOOLEAN /\ forgot' \in BOOLEAN
    BY <1>11 DEF TypeOK
  <2>6. QED
    BY <1>7, <1>10, <1>12, <2>1, <2>2, <2>3, <2>4, <2>5, ZenonT(60) DEF TypeOK
<1>14. QED
  BY <1>2, <1>5, <1>7, <1>10, <1>11, <1>13

\* bthost disconnects nothing, and the kernel only what is there.
LEMMA ServedWell ==
  ASSUME EmuInv, NEW d \in Devices, NEW own, NEW other, Serves(d, own, other)
  PROVE  /\ linked'["master"] <=> linked'["client"]
         /\ d = "client" => \/ Head(toDev[d]) \in Own /\ Head(toDev[d]) # "disconnect"
                           \/ Head(toDev[d]) \in Data
         /\ Head(toDev[d]) = "disconnect" => d = "master" /\ linked["master"]
         /\ ~crashed'
<1> DEFINE h == Head(toDev[d])
<1>1. TypeOK
  BY DEF EmuInv
<1>2. linked'[Peer(d)] <=> linked'[d]
  BY DEF Serves, Tells
<1>3. linked'["master"] <=> linked'["client"]
  BY <1>2, Ends
<1>4. toDev[d] # <<>>
  BY DEF Serves
<1>5. d = "client" => h \in Own \cup Data
  BY <1>1, <1>4, Sockets, Reading
<1>6. "disconnect" \notin Own \cup Data
  BY EmuAssumption DEF Own, Data, Asking, Answers
<1>7. h = "disconnect" => d = "master" /\ linked["master"]
  <2>1. SUFFICES ASSUME h = "disconnect" PROVE d = "master" /\ linked["master"]
    OBVIOUS
  <2>2. d = "master"
    BY <1>5, <1>6, <2>1, Ends
  <2>3. toDev["master"] \in Seq(Commands \cup Sent)
    BY <1>1, Sockets
  <2>4. In(toDev["master"], {"disconnect"})
    BY <1>4, <2>1, <2>2, <2>3, Reading
  <2>5. QED
    BY <2>2, <2>4 DEF EmuInv, DiscInv
<1>8. crashed' <=> h = "disconnect" /\ ~linked[d]
  BY DEF Serves, Tells
<1>9. QED
  BY <1>3, <1>5, <1>6, <1>7, <1>8

LEMMA ServedFlow ==
  ASSUME EmuInv, NEW d \in Devices, NEW own, NEW other, Serves(d, own, other)
  PROVE  FlowInv'
<1> DEFINE h == Head(toDev[d])  p == Peer(d)  q == toDev[d]  r == toHost[d]
<1>1. TypeOK
  BY DEF EmuInv
<1>2. /\ own \in Seq(Packets) /\ other \in Seq(Packets)
      /\ toDev'[d] = Tail(q) /\ toDev'[p] = toDev[p]
      /\ toHost'[d] = r \o own /\ toHost'[p] = toHost[p] \o other
      /\ UNCHANGED <<started, ncmd, tail, kcmd>>
      /\ h \in Orders \cup Data
  BY <1>1, Served
<1>3. /\ q # <<>> /\ q \in Seq(Orders \cup Data) /\ r \in Seq(Packets) /\ toHost[p] \in Seq(Packets)
  BY <1>1, Sockets, Both DEF Serves
<1>4. /\ Count(own, Done) \in {0, 1} /\ ~In(other, Done)
      /\ h \in Orders \ {"sco"} => Count(own, Done) = 1
      /\ h \notin Orders => Count(own, Done) = 0
  BY DEF Serves, Says
<1>5. /\ \A S : Count(q, S) = (IF h \in S THEN 1 ELSE 0) + Count(Tail(q), S)
      /\ \A S : In(q, S) <=> h \in S \/ In(Tail(q), S)
      /\ Tail(q) \in Seq(Orders \cup Data)
  BY <1>3, Reading
<1>6. Count(r \o own, Done) = Count(r, Done) + Count(own, Done)
  BY <1>2, <1>3, CountJoined
<1>7. Count(toHost[p] \o other, Done) = Count(toHost[p], Done)
  <2>1. Count(toHost[p] \o other, Done) = Count(toHost[p], Done) + Count(other, Done)
    BY <1>2, <1>3, CountJoined
  <2>2. Count(other, Done) = 0 /\ Count(toHost[p], Done) \in Nat
    BY <1>2, <1>3, <1>4, CountType
  <2>3. QED
    BY <2>1, <2>2
<1>8. Count(r, Done) \in Nat /\ Count(Tail(q), Orders) \in Nat /\ Count(q, Orders) \in Nat
  BY <1>3, <1>5, CountType
<1> DEFINE sum == Count(q, Orders) + Count(r, Done)
           sumn == Count(Tail(q), Orders) + Count(r \o own, Done)
<1>9. sumn <= sum /\ (h # "sco" => sumn = sum) /\ sum \in Nat /\ sumn \in Nat
  <2>1. CASE h \in Orders
    <3>1. Count(q, Orders) = 1 + Count(Tail(q), Orders)
      BY <1>5, <2>1
    <3>2. CASE h = "sco"
      BY <1>4, <1>6, <1>8, <3>1, <3>2
    <3>3. CASE h # "sco"
      <4>1. Count(own, Done) = 1
        BY <1>4, <2>1, <3>3
      <4>2. QED
        BY <1>6, <1>8, <3>1, <4>1
    <3>4. QED
      BY <3>2, <3>3
  <2>2. CASE h \notin Orders
    <3>1. Count(q, Orders) = Count(Tail(q), Orders)
      BY <1>5, <1>8, <2>2
    <3>2. Count(own, Done) = 0
      BY <1>4, <2>2
    <3>3. QED
      BY <1>6, <1>8, <3>1, <3>2
  <2>3. QED
    BY <2>1, <2>2
<1>10. FlowInv /\ CommandsFlow /\ ncmd \in {0, 1}
  BY <1>1 DEF EmuInv, FlowInv, TypeOK
<1> HIDE DEF sum, sumn
<1>11. CASE d = "master"
  <2>1. /\ sum = Count(toDev["master"], Orders) + Count(toHost["master"], Done)
        /\ sumn = (Count(toDev["master"], Orders) + Count(toHost["master"], Done))'
    BY <1>2, <1>11 DEF sum, sumn
  <2>2. /\ Count(toDev["client"], Orders)' = Count(toDev["client"], Orders)
        /\ Count(toHost["client"], Done)' = Count(toHost["client"], Done)
    BY <1>2, <1>7, <1>11, Ends
  <2>3. h \in Orders => h = kcmd
    <3>1. In(q, {h})
      BY <1>5
    <3>2. ~In(q, Orders \ {kcmd})
      BY <1>10, <1>11 DEF FlowInv
    <3>3. QED
      BY <1>5, <3>2
  <2>4. kcmd # "sco" => sumn = sum
    <3>1. h # "sco" \/ kcmd = "sco"
      BY <2>3 DEF Orders, Classic
    <3>2. QED
      BY <1>9, <3>1
  <2>5. ~In(Tail(q), Orders \ {kcmd})
    BY <1>5, <1>10, <1>11 DEF FlowInv
  <2>6. CommandsFlow'
    BY <1>2, <1>10, <2>1, <2>2, <2>4 DEF CommandsFlow
  <2>7. kcmd = "sco" => sumn <= 1
    <3>1. kcmd = "sco" => sum <= 1
      BY <1>10, <2>1 DEF FlowInv
    <3>2. QED
      BY <1>9, <3>1
  <2>8. QED
    BY <1>2, <1>11, <2>1, <2>5, <2>6, <2>7 DEF FlowInv
<1>12. CASE d = "client"
  <2>1. /\ sum = Count(toDev["client"], Orders) + Count(toHost["client"], Done)
        /\ sumn = (Count(toDev["client"], Orders) + Count(toHost["client"], Done))'
    BY <1>2, <1>12 DEF sum, sumn
  <2>2. /\ Count(toDev["master"], Orders)' = Count(toDev["master"], Orders)
        /\ Count(toHost["master"], Done)' = Count(toHost["master"], Done)
    BY <1>2, <1>7, <1>12, Ends
  <2>3. sumn = sum
    <3>1. h \in Own \cup Data
      BY <1>12, ServedWell
    <3>2. "sco" \notin Own \cup Data
      BY EmuAssumption DEF Own, Data, Asking, Answers
    <3>3. QED
      BY <1>9, <3>1, <3>2
  <2>4. ncmd + sum = ncmd + Count(toDev["client"], Orders) + Count(toHost["client"], Done)
    <3>1. Count(q, Orders) \in Nat /\ Count(r, Done) \in Nat /\ ncmd \in Nat
      BY <1>8, <1>10
    <3>2. QED
      BY <1>12, <3>1 DEF sum
  <2>5. ncmd + sumn = (ncmd + Count(toDev["client"], Orders) + Count(toHost["client"], Done))'
    <3>1. Count(Tail(q), Orders) \in Nat /\ Count(r \o own, Done) \in Nat /\ ncmd \in Nat
      BY <1>4, <1>6, <1>8, <1>10
    <3>2. /\ Count(toDev["client"], Orders)' = Count(Tail(q), Orders)
          /\ Count(toHost["client"], Done)' = Count(r \o own, Done) /\ ncmd' = ncmd
      BY <1>2, <1>12
    <3>3. QED
      BY <3>1, <3>2 DEF sumn
  <2>6. CommandsFlow'
    BY <1>2, <1>10, <2>2, <2>3, <2>4, <2>5 DEF CommandsFlow
  <2>7. toDev'["master"] = toDev["master"]
    BY <1>2, <1>12, Ends
  <2>8. QED
    BY <1>2, <1>10, <2>2, <2>6, <2>7 DEF FlowInv
<1>13. QED
  BY <1>11, <1>12, Ends

LEMMA ServedAsleep ==
  ASSUME EmuInv, NEW d \in Devices, NEW own, NEW other, Serves(d, own, other)
  PROVE  Asleep'
<1>1. TypeOK
  BY DEF EmuInv
<1>2. SUFFICES ASSUME ~started PROVE Asleep'
  <2>1. started' = started
    BY <1>1, Served
  <2>2. QED
    BY <1>2, <2>1 DEF Asleep
<1>3. /\ toDev["client"] = <<>> /\ toHost["client"] = <<>> /\ conns = <<>> /\ ~called
      /\ ~linked["client"] /\ ~scan["client"] /\ ~adv["client"] /\ ~lescan["client"]
      /\ ~kreq /\ ~In(toDev["master"], {"accept"}) /\ ~In(toHost["master"], {"conn_request"})
      /\ ncmd = 0 /\ tail = None
  BY <1>2 DEF EmuInv, Asleep
<1>4. d = "master" /\ Peer(d) = "client"
  BY <1>3, Ends DEF Serves
<1> DEFINE q == toDev["master"]
<1>5. q # <<>> /\ q \in Seq(Orders \cup Data) /\ toHost["master"] \in Seq(Packets)
  BY <1>1, <1>4, Sockets DEF Serves
<1>6. ~In(Tail(q), {"accept"}) /\ Head(q) # "accept"
  BY <1>3, <1>5, Reading
<1>7. ~linked["master"]
  BY <1>3 DEF EmuInv, LinkInv, HostsAgree
<1>8. /\ toDev'["master"] = Tail(q) /\ toDev'["client"] = <<>>
      /\ toHost'["master"] = toHost["master"] \o own /\ toHost'["client"] = <<>> \o other
      /\ own \in Seq(Packets)
      /\ UNCHANGED <<started, conns, called, kreq, ncmd, tail>>
  BY <1>1, <1>3, <1>4, Served, ZenonT(90)
<1>9. other = <<>> /\ ~linked'["master"]
  BY <1>3, <1>4, <1>6, <1>7 DEF Serves, Spares
<1>10. toHost'["client"] = <<>>
  <2>1. <<>> \o <<>> = <<>>
    OBVIOUS
  <2>2. QED
    BY <1>8, <1>9, <2>1
<1>11. ~linked'["client"]
  BY <1>9, ServedWell
<1>12. ~scan'["client"] /\ ~adv'["client"] /\ ~lescan'["client"]
  BY <1>3, <1>4 DEF Serves, Spares
<1>13. ~In(toHost'["master"], {"conn_request"})
  <2>1. ~In(own, {"conn_request"})
    BY DEF Serves, Says
  <2>2. QED
    BY <1>3, <1>5, <1>8, <2>1, InJoined
<1>14. QED
  BY <1>3, <1>6, <1>8, <1>10, <1>11, <1>12, <1>13 DEF Asleep

LEMMA BelievesJoined ==
  ASSUME NEW q \in Seq(Packets), NEW s \in Seq(Packets), NEW was \in BOOLEAN
  PROVE  Believes(q \o s, was) <=> Opens(s) \/ (Believes(q, was) /\ ~In(s, {"disc"}))
BY OpensJoined, InJoined DEF Believes

LEMMA ServedLink ==
  ASSUME EmuInv, NEW d \in Devices, NEW own, NEW other, Serves(d, own, other)
  PROVE  LinkInv'
<1>1. TypeOK
  BY DEF EmuInv
<1>2. LinkInv /\ HostsAgree
  BY DEF EmuInv, LinkInv
<1>3. /\ linked'["master"] <=> linked'["client"]
      /\ linked' \in [Devices -> BOOLEAN]
  BY ServedWell DEF Serves, Tells
<1>4. UNCHANGED <<conns, klink, kcmd, forgot>>
  BY <1>1, Served
<1>5. /\ own \in Seq(Packets) /\ other \in Seq(Packets)
      /\ toHost'[d] = toHost[d] \o own /\ toHost'[Peer(d)] = toHost[Peer(d)] \o other
  BY <1>1, Served
<1>6. toHost["master"] \in Seq(Packets) /\ toHost["client"] \in Seq(Packets)
  BY <1>1, Sockets
<1>7. /\ linked'[d] <=> Opens(own) \/ (linked[d] /\ ~In(own, {"disc"}))
      /\ linked'[d] <=> Opens(other) \/ (linked[d] /\ ~In(other, {"disc"}))
  BY DEF Serves, Tells
<1>8. linked["master"] <=> linked["client"]
  BY <1>2 DEF HostsAgree
<1>9. \E s \in {own, other} :
         /\ toHost'["client"] = toHost["client"] \o s /\ s \in Seq(Packets)
         /\ linked'["client"] <=> Opens(s) \/ (linked["client"] /\ ~In(s, {"disc"}))
  <2>1. CASE d = "client"
    BY <1>5, <1>7, <2>1
  <2>2. CASE d = "master"
    BY <1>3, <1>5, <1>7, <1>8, <2>2, Ends
  <2>3. QED
    BY <2>1, <2>2, Ends
<1>10. \E s \in {own, other} :
         /\ toHost'["master"] = toHost["master"] \o s /\ s \in Seq(Packets)
         /\ linked'["master"] <=> Opens(s) \/ (linked["master"] /\ ~In(s, {"disc"}))
  <2>1. CASE d = "master"
    BY <1>5, <1>7, <2>1
  <2>2. CASE d = "client"
    BY <1>3, <1>5, <1>7, <1>8, <2>2, Ends
  <2>3. QED
    BY <2>1, <2>2, Ends
<1>11. Believes(toHost'["client"], conns # <<>>) <=> linked'["client"]
  <2> DEFINE was == conns # <<>>
  <2>1. was \in BOOLEAN
    OBVIOUS
  <2>2. Believes(toHost["client"], was) <=> linked["client"]
    BY <1>2 DEF HostsAgree
  <2> HIDE DEF was
  <2>3. Believes(toHost'["client"], was) <=> linked'["client"]
    BY <1>6, <1>9, <2>1, <2>2, BelievesJoined
  <2>4. QED
    BY <2>3 DEF was
<1>12. forgot \/ (Believes(toHost'["master"], klink # None) <=> linked'["master"])
  <2> DEFINE was == klink # None
  <2>1. was \in BOOLEAN
    OBVIOUS
  <2>2. forgot \/ (Believes(toHost["master"], was) <=> linked["master"])
    BY <1>2 DEF HostsAgree
  <2> HIDE DEF was
  <2>3. forgot \/ (Believes(toHost'["master"], was) <=> linked'["master"])
    BY <1>6, <1>10, <2>1, <2>2, BelievesJoined
  <2>4. QED
    BY <2>3 DEF was
<1>13. linked'["master"] = linked'["client"]
  BY <1>3, Ends
<1>14. QED
  BY <1>2, <1>4, <1>11, <1>12, <1>13 DEF LinkInv, HostsAgree

LEMMA ServedFed ==
  ASSUME EmuInv, NEW d \in Devices, NEW own, NEW other, Serves(d, own, other)
  PROVE  FedInv'
<1>1. TypeOK
  BY DEF EmuInv
<1> DEFINE q == toHost["client"]
<1>2. q \in Seq(Packets) /\ own \in Seq(Packets) /\ other \in Seq(Packets) /\ conns' = conns
  BY <1>1, Sockets, Served
<1>3. ~Late(q) /\ (Early(q) => conns # <<>>)
  BY DEF EmuInv, FedInv
<1>4. CASE d = "client"
  <2>1. toHost'["client"] = q \o own
    BY <1>1, <1>4, Served
  <2>2. ~In(own, Data)
    BY DEF Serves, Says
  <2>3. ~Early(own) /\ ~Late(own)
    BY <1>2, <2>2, LastSaid
  <2>4. ~Late(q \o own) /\ (Early(q \o own) => Early(q))
    BY <1>2, <1>3, <2>3, Writing
  <2>5. QED
    BY <1>2, <1>3, <2>1, <2>4 DEF FedInv
<1>5. CASE d = "master"
  <2>1. toHost'["client"] = q \o other
    BY <1>1, <1>5, Ends, Served
  <2>2. ~Late(other) /\ (Early(other) => linked["master"])
    BY <1>5 DEF Serves, Says, Tells
  <2>3. linked["master"] => Opens(q) \/ (conns # <<>> /\ ~In(q, {"disc"}))
    BY DEF EmuInv, LinkInv, HostsAgree, Believes
  <2>4. ~(Shuts(q) /\ Early(other))
    BY <1>2, <2>2, <2>3, LastSaid
  <2>5. Early(other) /\ ~In(q, Links) => conns # <<>>
    BY <1>2, <2>2, <2>3, LastSaid
  <2>6. ~Late(q \o other) /\ (Early(q \o other) => conns # <<>>)
    BY <1>2, <1>3, <2>2, <2>4, <2>5, Writing
  <2>7. QED
    BY <1>2, <2>1, <2>6 DEF FedInv
<1>6. QED
  BY <1>4, <1>5, Ends

LEMMA ServedDisc ==
  ASSUME EmuInv, NEW d \in Devices, NEW own, NEW other, Serves(d, own, other)
  PROVE  DiscInv'
<1> DEFINE h == Head(toDev[d])  q == toDev["master"]  r == toHost["master"]
<1>1. TypeOK /\ DiscInv /\ FlowInv /\ CommandsFlow
  BY DEF EmuInv, FlowInv
<1>2. /\ own \in Seq(Packets) /\ other \in Seq(Packets)
      /\ UNCHANGED <<kcmd, kdisc, klink>>
      /\ q \in Seq(Orders \cup Data) /\ r \in Seq(Packets)
  BY <1>1, Sockets, Served
<1>3. linked["master"] <=> linked["client"]
  BY DEF EmuInv, LinkInv, HostsAgree
<1>4. linked'["master"] <=> linked'["client"]
  BY ServedWell
\* What the kernel is told of the connection.
<1>5. \E s \in {own, other} :
         /\ toHost'["master"] = r \o s /\ s \in Seq(Packets)
         /\ linked'["master"] <=> Opens(s) \/ (linked["master"] /\ ~In(s, {"disc"}))
         /\ In(s, Links) => linked'["master"]
         /\ h # "disconnect" => ~In(s, {"disc"})
         /\ d = "client" => ~In(s, {"disc"})
         /\ Count(s, {"disc"}) <= 1
  <2>1. /\ h # "disconnect" => ~In(own, {"disc"}) /\ ~In(other, {"disc"})
        /\ Count(own, {"disc"}) <= 1
    BY DEF Serves, Says
  <2>2. /\ linked'[d] <=> Opens(own) \/ (linked[d] /\ ~In(own, {"disc"}))
        /\ linked'[d] <=> Opens(other) \/ (linked[d] /\ ~In(other, {"disc"}))
        /\ In(own, Links) \/ In(other, Links) => linked'[d]
    BY DEF Serves, Tells
  <2>3. CASE d = "master"
    <3>1. toHost'["master"] = r \o own
      BY <1>1, <2>3, Served
    <3>2. QED
      BY <1>2, <2>1, <2>2, <2>3, <3>1, Ends
  <2>4. CASE d = "client"
    <3>1. toHost'["master"] = r \o other
      BY <1>1, <2>4, Ends, Served
    <3>2. h # "disconnect" /\ ~In(other, {"disc"})
      BY <2>1, <2>4, Ends, ServedWell
    <3>3. Count(other, {"disc"}) = 0
      BY <1>2, <3>2, CountType
    <3>4. QED
      BY <1>2, <1>3, <1>4, <2>2, <2>4, <3>1, <3>2, <3>3
  <2>5. QED
    BY <2>3, <2>4, Ends
<1>6. PICK s \in {own, other} :
         /\ toHost'["master"] = r \o s /\ s \in Seq(Packets)
         /\ linked'["master"] <=> Opens(s) \/ (linked["master"] /\ ~In(s, {"disc"}))
         /\ In(s, Links) => linked'["master"]
         /\ h # "disconnect" => ~In(s, {"disc"})
         /\ d = "client" => ~In(s, {"disc"})
         /\ Count(s, {"disc"}) <= 1
  BY <1>5
<1>7. h # "disconnect" /\ linked["master"] => linked'["master"]
  <2>1. h # "disconnect" /\ linked[d] => linked'[d]
    BY DEF Serves, Tells
  <2>2. QED
    BY <1>3, <1>4, <2>1, Ends
<1>8. /\ toDev'["master"] = IF d = "master" THEN Tail(q) ELSE q
      /\ d = "master" => q # <<>>
  <2>1. CASE d = "master"
    BY <1>1, <2>1, Served DEF Serves
  <2>2. CASE d = "client"
    BY <1>1, <2>2, Served, Ends
  <2>3. QED
    BY <2>1, <2>2, Ends
\* The kernel's disconnection, when it is read, was the only one.
<1>9. In(toDev'["master"], {"disconnect"}) => In(q, {"disconnect"}) /\ h # "disconnect"
  <2>1. CASE d = "client"
    BY <1>8, <2>1, Ends, ServedWell
  <2>2. CASE d = "master"
    <3>1. /\ In(q, {"disconnect"}) <=> h = "disconnect" \/ In(Tail(q), {"disconnect"})
          /\ Count(q, Orders) = (IF h \in Orders THEN 1 ELSE 0) + Count(Tail(q), Orders)
          /\ Tail(q) \in Seq(Orders \cup Data)
          /\ In(q, Orders \ {kcmd}) <=> h \in Orders \ {kcmd} \/ In(Tail(q), Orders \ {kcmd})
      BY <1>2, <1>8, <2>2, Reading
    <3>2. ASSUME h = "disconnect", In(Tail(q), {"disconnect"}) PROVE FALSE
      <4>1. "disconnect" \in Orders /\ "disconnect" # "sco" /\ None # "disconnect"
        BY DEF Orders, Common, None
      <4>2. kcmd = "disconnect"
        BY <1>1, <3>1, <3>2, <4>1 DEF FlowInv
      <4>3. Count(q, Orders) + Count(r, Done) = 1
        BY <1>1, <4>1, <4>2 DEF CommandsFlow
      <4>4. Count(Tail(q), Orders) \in Nat /\ Count(r, Done) \in Nat
        BY <1>2, <3>1, CountType
      <4>5. Count(Tail(q), Orders) = 0
        BY <3>1, <3>2, <4>1, <4>3, <4>4
      <4>6. ~In(Tail(q), Orders)
        BY <3>1, <4>5, CountType
      <4>7. {"disconnect"} \subseteq Orders
        BY <4>1
      <4>8. QED
        BY <3>1, <3>2, <4>6, <4>7, LastSaid
    <3>3. QED
      BY <1>8, <2>2, <3>1, <3>2
  <2>3. QED
    BY <2>1, <2>2, Ends
<1>10. /\ In(r \o s, {"disc"}) <=> In(r, {"disc"}) \/ In(s, {"disc"})
       /\ Past(r \o s, {"disc"}) => Past(r, {"disc"}) \/ In(s, {"disc"})
       /\ Past(r \o s, Links) => Past(r, Links) \/ In(s, Links)
       /\ Count(r \o s, {"disc"}) = Count(r, {"disc"}) + Count(s, {"disc"})
       /\ Opens(r \o s) <=> Opens(s) \/ (Opens(r) /\ ~In(s, {"disc"}))
  <2>1. /\ Past(s, {"disc"}) => In(s, {"disc"})
        /\ Past(s, Links) => In(s, Links)
    BY <1>6, LastSaid
  <2>2. QED
    BY <1>2, <1>6, <2>1, Writing
<1>11. In(toDev'["master"], {"disconnect"}) =>
         kdisc /\ linked'["master"] /\ ~In(toHost'["master"], {"disc"})
  <2>1. In(q, {"disconnect"}) => kdisc /\ linked["master"] /\ ~In(r, {"disc"})
    BY <1>1 DEF DiscInv
  <2>2. QED
    BY <1>6, <1>7, <1>9, <1>10, <2>1
<1>12. h = "disconnect" => In(q, {"disconnect"}) /\ d = "master"
  <2>1. SUFFICES ASSUME h = "disconnect" PROVE In(q, {"disconnect"}) /\ d = "master"
    OBVIOUS
  <2>2. d = "master"
    BY <2>1, ServedWell
  <2>3. QED
    BY <1>2, <1>8, <2>1, <2>2, Reading
<1>13. ASSUME kcmd # "reset"
       PROVE  /\ ~kdisc => ~In(toHost'["master"], {"disc"})
              /\ Believes(toHost'["master"], klink # None) => linked'["master"]
              /\ Count(toHost'["master"], {"disc"}) <= 1
  <2>1. /\ ~kdisc => ~In(r, {"disc"})
        /\ Believes(r, klink # None) => linked["master"]
        /\ Count(r, {"disc"}) <= 1
        /\ In(q, {"disconnect"}) => kdisc /\ linked["master"] /\ ~In(r, {"disc"})
    BY <1>1, <1>13 DEF DiscInv
  <2>2. ~kdisc => ~In(r \o s, {"disc"})
    BY <1>6, <1>10, <1>12, <2>1
  <2>3. Believes(r \o s, klink # None) => linked'["master"]
    BY <1>6, <1>10, <2>1 DEF Believes
  <2>4. Count(r \o s, {"disc"}) <= 1
    <3>1. Count(r, {"disc"}) \in Nat /\ Count(s, {"disc"}) \in Nat
      BY <1>2, <1>6, CountType
    <3>2. CASE h = "disconnect"
      <4>1. ~In(r, {"disc"})
        BY <1>12, <2>1, <3>2
      <4>2. Count(r, {"disc"}) = 0
        BY <1>2, <4>1, CountType
      <4>3. QED
        BY <1>6, <1>10, <3>1, <4>2
    <3>3. CASE h # "disconnect"
      <4>1. Count(s, {"disc"}) = 0
        BY <1>6, <3>3, CountType
      <4>2. QED
        BY <1>10, <2>1, <3>1, <4>1
    <3>4. QED
      BY <3>2, <3>3
  <2>5. QED
    BY <1>6, <2>2, <2>3, <2>4
<1>14. ASSUME kcmd = "reset"
       PROVE  /\ ~kdisc /\ klink = None
              /\ ~Past(toHost'["master"], {"disc"})
              /\ Past(toHost'["master"], Links) => linked'["master"]
  <2>1. /\ ~kdisc /\ klink = None /\ ~Past(r, {"disc"})
        /\ Past(r, Links) => linked["master"]
        /\ In(q, {"disconnect"}) => kdisc
    BY <1>1, <1>14 DEF DiscInv
  <2>2. h # "disconnect"
    BY <1>12, <2>1
  <2>3. QED
    BY <1>6, <1>7, <1>10, <2>1, <2>2
<1>15. QED
  BY <1>2, <1>11, <1>13, <1>14 DEF DiscInv

LEMMA DeviceInv ==
  ASSUME EmuInv, NEW d \in Devices, Device(d)
  PROVE  EmuInv'
<1>1. TypeOK /\ ~crashed /\ ~unheard
  BY DEF EmuInv, NoStaleHandle
<1>2. linked["master"] <=> linked["client"]
  BY DEF EmuInv, LinkInv, HostsAgree
<1>3. PICK own, other : Serves(d, own, other)
  BY <1>1, <1>2, DeviceServes
<1>4. TypeOK' /\ Asleep' /\ FlowInv' /\ LinkInv' /\ FedInv' /\ DiscInv'
  BY <1>1, <1>3, Served, ServedAsleep, ServedFlow, ServedLink, ServedFed, ServedDisc
<1>5. ~crashed' /\ unheard' = unheard
  BY <1>1, <1>3, Served, ServedWell
<1>6. QED
  BY <1>1, <1>4, <1>5 DEF EmuInv, NoStaleHandle

-----------------------------------------------------------------------------
(***************************************************************************)
(* A step of bthost.                                                       *)
(***************************************************************************)

LEMMA HostSends ==
  ASSUME TypeOK, NEW s \in Seq(Own \cup Data), toDev' = [toDev EXCEPT !["client"] = @ \o s]
  PROVE  /\ toDev'["master"] = toDev["master"] /\ toDev'["client"] = toDev["client"] \o s
         /\ toDev' \in [Devices -> Seq(Orders \cup Data)] /\ toDev'["client"] \in Seq(Own \cup Data)
         /\ Count(toDev'["client"], Orders) = Count(toDev["client"], Orders) + Count(s, Orders)
         /\ Count(toDev["client"], Orders) \in Nat /\ Count(s, Orders) \in Nat
<1> DEFINE q == toDev["client"]
<1>1. toDev \in [Devices -> Seq(Orders \cup Data)] /\ q \in Seq(Own \cup Data)
  BY Sockets
<1>2. q \o s \in Seq(Own \cup Data) /\ Count(q \o s, Orders) = Count(q, Orders) + Count(s, Orders)
  BY <1>1, Writing
<1>3. q \o s \in Seq(Orders \cup Data)
  <2>1. Own \cup Data \subseteq Orders \cup Data
    BY Kinds
  <2>2. QED
    BY <1>2, <2>1, SeqMonotonic
<1>4. toDev' = [toDev EXCEPT !["client"] = q \o s]
  OBVIOUS
<1> HIDE DEF q
<1>5. /\ toDev'["master"] = toDev["master"] /\ toDev'["client"] = q \o s
      /\ toDev' \in [Devices -> Seq(Orders \cup Data)]
  BY <1>1, <1>3, <1>4, Ends
<1>6. Count(q, Orders) \in Nat /\ Count(s, Orders) \in Nat
  BY <1>1, CountType
<1>7. QED
  BY <1>2, <1>5, <1>6 DEF q

\* The credit that is spent is a command that is sent; an answer is a credit.
LEMMA Credits ==
  ASSUME NEW a \in Nat, NEW b \in Nat, NEW c \in Nat, NEW n \in Nat, NEW m \in Nat
  PROVE  /\ m + c + a + b = m + (a + c) + b
         /\ n + a + (1 + b) = 1 /\ m + c = 1 => m + (a + c) + b = 1
         /\ n + a + b = 1 /\ m + c = n => m + (a + c) + b = 1
         /\ 0 + b = b
OBVIOUS

LEMMA HostInv ==
  ASSUME EmuInv, Host
  PROVE  EmuInv'
<1> DEFINE q == toHost["client"]  h == Head(q)
<1>1. /\ TypeOK /\ CommandsFlow /\ FlowInv /\ LinkInv /\ HostsAgree /\ FedInv /\ DiscInv
      /\ ~crashed /\ ~unheard
  BY DEF EmuInv, FlowInv, LinkInv, NoStaleHandle
<1>2. PICK s : Listens(s)
  BY <1>1, HostListens DEF CommandsFlow
<1>3. /\ q # <<>> /\ q \in Seq(Packets) /\ toHost' = [toHost EXCEPT !["client"] = Tail(@)]
      /\ UNCHANGED <<device, started, call, called, kernel>>
  BY <1>1, <1>2, Sockets DEF Listens, Handles
<1>4. /\ UNCHANGED <<linked, scan, adv, lescan, crashed, overlaid>> /\ UNCHANGED <<started, call, called>>
      /\ UNCHANGED <<kcmd, kwait, kreq, klink, kdisc, kacl, kchan, kasked, kleft, forgot>>
  BY <1>3 DEF device, kernel
<1>5. /\ s \in Seq(Own \cup Data) /\ toDev' = [toDev EXCEPT !["client"] = @ \o s]
      /\ ncmd' \in {0, 1} /\ tail' \in Own \cup {None} /\ (ncmd' = 1 => tail' = None)
      /\ ncmd' + Count(s, Orders) = IF h \in Done THEN 1 ELSE ncmd
  BY <1>2 DEF Listens, Handles, Spends
<1>6. /\ conns' \in Seq(SUBSET {"own", "theirs"})
      /\ conns' # <<>> <=> h \in Links \/ (conns # <<>> /\ h # "disc")
      /\ unheard' => unheard \/ (conns = <<>> /\ h \in Data)
      /\ unheard' \in BOOLEAN /\ refused' \in BOOLEAN
  BY <1>2 DEF Listens, Handles
<1>7. /\ h \in Packets /\ Tail(q) \in Seq(Packets)
      /\ Opens(q) <=> Opens(Tail(q)) \/ (h \in Links /\ ~In(Tail(q), {"disc"}))
      /\ Early(q) <=> h \in Data \/ (Early(Tail(q)) /\ h \notin Links)
      /\ Late(q) <=> Late(Tail(q)) \/ (h = "disc" /\ Early(Tail(q)))
      /\ In(q, {"disc"}) <=> h = "disc" \/ In(Tail(q), {"disc"})
      /\ Count(q, Done) = (IF h \in Done THEN 1 ELSE 0) + Count(Tail(q), Done)
  BY <1>3, Reading
<1>8. /\ toDev'["master"] = toDev["master"] /\ toDev'["client"] = toDev["client"] \o s
      /\ toDev' \in [Devices -> Seq(Orders \cup Data)] /\ toDev'["client"] \in Seq(Own \cup Data)
      /\ Count(toDev'["client"], Orders) = Count(toDev["client"], Orders) + Count(s, Orders)
      /\ Count(toDev["client"], Orders) \in Nat /\ Count(s, Orders) \in Nat
  BY <1>1, <1>5, HostSends
<1>9. /\ toHost'["master"] = toHost["master"] /\ toHost'["client"] = Tail(q)
      /\ toHost' \in [Devices -> Seq(Packets)]
  <2>1. toHost \in [Devices -> Seq(Packets)]
    BY <1>1, Sockets
  <2>2. QED
    BY <1>3, <1>7, <2>1, Ends
<1>10. started
  BY <1>3 DEF EmuInv, Asleep
<1>11. TypeOK'
  BY <1>1, <1>4, <1>5, <1>6, <1>8, <1>9 DEF TypeOK
<1>12. Asleep'
  BY <1>4, <1>10 DEF Asleep
<1>13. FlowInv'
  <2> DEFINE A == Count(toDev["client"], Orders)  B == Count(Tail(q), Done)  C == Count(s, Orders)
  <2>1. A \in Nat /\ B \in Nat /\ C \in Nat /\ ncmd \in Nat /\ ncmd' \in Nat
    <3>1. B \in Nat
      BY <1>7, CountType
    <3>2. ncmd \in {0, 1}
      BY <1>1 DEF TypeOK
    <3>3. QED
      BY <1>5, <1>8, <3>1, <3>2
  <2>2. ncmd + A + Count(q, Done) = 1
    BY <1>1, <1>10 DEF CommandsFlow
  <2> HIDE DEF A, B, C
  <2>3. Count(q, Done) = (IF h \in Done THEN 1 ELSE 0) + B /\ ncmd' + C = IF h \in Done THEN 1 ELSE ncmd
    BY <1>5, <1>7 DEF B, C
  <2> HIDE DEF h
  <2>4. ncmd' + (A + C) + B = 1
    <3>1. PICK m \in Nat : m = ncmd'
      BY <2>1
    <3>2. CASE h \in Done
      <4>1. Count(q, Done) = 1 + B /\ m + C = 1
        BY <2>3, <3>1, <3>2
      <4>2. ncmd + A + (1 + B) = 1
        BY <2>2, <4>1
      <4>3. m + (A + C) + B = 1
        BY <2>1, <4>1, <4>2, Credits
      <4>4. QED
        BY <3>1, <4>3
    <3>3. CASE h \notin Done
      <4>1. Count(q, Done) = 0 + B /\ m + C = ncmd
        BY <2>3, <3>1, <3>3
      <4>2. ncmd + A + B = 1
        BY <2>1, <2>2, <4>1, Credits
      <4>3. m + (A + C) + B = 1
        BY <2>1, <4>1, <4>2, Credits
      <4>4. QED
        BY <3>1, <4>3
    <3>4. QED
      BY <3>2, <3>3
  <2>5. Count(toDev["client"], Orders)' = A + C /\ Count(toHost["client"], Done)' = B
    BY <1>8, <1>9 DEF A, B, C
  <2>6. CommandsFlow'
    BY <1>1, <1>4, <1>5, <1>8, <1>9, <2>4, <2>5 DEF CommandsFlow
  <2>7. QED
    BY <1>1, <1>4, <1>8, <1>9, <2>6 DEF FlowInv
<1>14. LinkInv'
  <2>1. Believes(q, conns # <<>>) <=> linked["client"]
    BY <1>1 DEF HostsAgree
  <2>2. "disc" \notin Links
    BY Kinds
  <2>3. Opens(Tail(q)) \/ (conns' # <<>> /\ ~In(Tail(q), {"disc"})) <=> linked["client"]
    BY <1>6, <1>7, <2>1, <2>2 DEF Believes
  <2>4. HostsAgree'
    BY <1>1, <1>4, <1>9, <2>3 DEF HostsAgree, Believes
  <2>5. QED
    BY <1>1, <1>4, <2>4 DEF LinkInv
<1>15. FedInv'
  <2>1. ~Late(q) /\ (Early(q) => conns # <<>>)
    BY <1>1 DEF FedInv
  <2>2. ~Late(Tail(q)) /\ (Early(Tail(q)) => conns' # <<>>)
    BY <1>6, <1>7, <2>1
  <2>3. QED
    BY <1>9, <2>2 DEF FedInv
<1>16. DiscInv'
  BY <1>1, <1>4, <1>8, <1>9 DEF DiscInv
<1>17. NoStaleHandle'
  <2>1. h \in Data => conns # <<>>
    BY <1>1, <1>7 DEF FedInv
  <2>2. QED
    BY <1>1, <1>4, <1>6, <2>1 DEF NoStaleHandle
<1>18. QED
  BY <1>11, <1>12, <1>13, <1>14, <1>15, <1>16, <1>17 DEF EmuInv

\* What a test asks of bthost, and its start: nothing is read.
LEMMA AskedInv ==
  ASSUME EmuInv, Start \/ Call
  PROVE  EmuInv'
<1>1. /\ TypeOK /\ CommandsFlow /\ FlowInv /\ LinkInv /\ HostsAgree /\ FedInv /\ DiscInv
      /\ NoStaleHandle
  BY DEF EmuInv, FlowInv, LinkInv
<1>2. /\ UNCHANGED <<device, toHost, conns, call, refused, unheard, kernel>>
      /\ started' = TRUE /\ called' \in BOOLEAN
  <2>1. started \in BOOLEAN /\ called \in BOOLEAN
    BY <1>1 DEF TypeOK
  <2>2. QED
    BY <2>1 DEF Start, Call
<1>3. /\ UNCHANGED <<linked, scan, adv, lescan, crashed, overlaid>>
      /\ UNCHANGED <<kcmd, kwait, kreq, klink, kdisc, kacl, kchan, kasked, kleft, forgot>>
  BY <1>2 DEF device, kernel
<1>4. \E s, credit : Spends(s, credit) /\ credit + Count(toDev["client"], Orders)
                                              + Count(toHost["client"], Done) = 1
  <2>1. CASE Start
    <3>1. /\ toDev["client"] = <<>> /\ toHost["client"] = <<>>
          /\ toDev' = [toDev EXCEPT !["client"] = Append(@, "reset")] /\ ncmd' = 0 /\ tail' = "read_addr"
      BY <2>1 DEF Start, EmuInv, Asleep
    <3> DEFINE u == <<"reset">>
    <3>2. "reset" \in Own /\ "read_addr" \in Own
      BY DEF Own
    <3>3. u \in Seq(Own \cup Data) /\ Count(u, Orders) = 1
      BY <3>2, Kinds, One
    <3>4. Append(toDev["client"], "reset") = toDev["client"] \o u
      <4>1. toDev["client"] \in Seq(Own \cup Data) /\ "reset" \in Own \cup Data
        BY <1>1, <3>2, Sockets
      <4>2. QED
        BY <4>1, AppendIsConcat
    <3> HIDE DEF u
    <3>5. toDev' = [toDev EXCEPT !["client"] = @ \o u]
      BY <3>1, <3>4
    <3>6. ncmd' + Count(u, Orders) = 1 /\ ncmd' \in {0, 1} /\ ncmd' # 1
      BY <3>1, <3>3
    <3>7. Spends(u, 1)
      BY <3>1, <3>2, <3>3, <3>5, <3>6 DEF Spends
    <3>8. 1 + Count(toDev["client"], Orders) + Count(toHost["client"], Done) = 1
      <4>1. Count(toDev["client"], Orders) = 0 /\ Count(toHost["client"], Done) = 0
        BY <3>1, Empty
      <4>2. QED
        BY <4>1
    <3>9. QED
      BY <3>7, <3>8
  <2>2. CASE Call
    <3>1. started /\ Command(<<>>, call)
      BY <2>2 DEF Call
    <3>2. call \in Own /\ <<>> \in Seq(Data)
      BY <1>1 DEF TypeOK, Own
    <3>3. ncmd = 1 => tail = None
      BY <1>1 DEF CommandsFlow
    <3>4. \E s : Spends(s, ncmd)
      BY <1>1, <3>1, <3>2, <3>3, Commanded
    <3>5. ncmd + Count(toDev["client"], Orders) + Count(toHost["client"], Done) = 1
      BY <1>1, <3>1 DEF CommandsFlow
    <3>6. QED
      BY <3>4, <3>5
  <2>3. QED
    BY <2>1, <2>2
<1>5. PICK s, credit : Spends(s, credit) /\ credit + Count(toDev["client"], Orders)
                                                  + Count(toHost["client"], Done) = 1
  BY <1>4
<1>6. /\ s \in Seq(Own \cup Data) /\ toDev' = [toDev EXCEPT !["client"] = @ \o s]
      /\ ncmd' \in {0, 1} /\ tail' \in Own \cup {None} /\ (ncmd' = 1 => tail' = None)
      /\ ncmd' + Count(s, Orders) = credit
  BY <1>5 DEF Spends
<1>7. /\ toDev'["master"] = toDev["master"]
      /\ toDev' \in [Devices -> Seq(Orders \cup Data)] /\ toDev'["client"] \in Seq(Own \cup Data)
      /\ Count(toDev'["client"], Orders) = Count(toDev["client"], Orders) + Count(s, Orders)
      /\ Count(toDev["client"], Orders) \in Nat /\ Count(s, Orders) \in Nat
  BY <1>1, <1>6, HostSends
<1>8. TypeOK'
  BY <1>1, <1>2, <1>3, <1>6, <1>7 DEF TypeOK
<1>9. Asleep'
  BY <1>2 DEF Asleep
<1>10. FlowInv'
  <2> DEFINE A == Count(toDev["client"], Orders)  B == Count(toHost["client"], Done)
             C == Count(s, Orders)
  <2>1. A \in Nat /\ B \in Nat /\ C \in Nat /\ ncmd' \in Nat
    <3>1. toHost["client"] \in Seq(Packets)
      BY <1>1, Sockets
    <3>2. B \in Nat
      BY <3>1, CountType
    <3>3. QED
      BY <1>6, <1>7, <3>2
  <2> HIDE DEF A, B, C
  <2>2. credit + A + B = 1 /\ ncmd' + C = credit
    BY <1>5, <1>6 DEF A, B, C
  <2>3. ncmd' + (A + C) + B = 1
    <3>1. PICK m \in Nat : m = ncmd'
      BY <2>1
    <3>2. m + C + A + B = 1
      BY <2>2, <3>1
    <3>3. m + (A + C) + B = 1
      BY <2>1, <3>2, Credits
    <3>4. QED
      BY <3>1, <3>3
  <2>4. Count(toDev["client"], Orders)' = A + C /\ Count(toHost["client"], Done)' = B
    BY <1>2, <1>7 DEF A, B, C
  <2>5. CommandsFlow'
    BY <1>1, <1>2, <1>3, <1>6, <1>7, <2>3, <2>4 DEF CommandsFlow
  <2>6. QED
    BY <1>1, <1>2, <1>3, <1>7, <2>5 DEF FlowInv
<1>11. LinkInv' /\ FedInv' /\ NoStaleHandle'
  BY <1>1, <1>2, <1>3 DEF LinkInv, HostsAgree, FedInv, NoStaleHandle
<1>12. DiscInv'
  BY <1>1, <1>2, <1>3, <1>7 DEF DiscInv
<1>13. QED
  BY <1>8, <1>9, <1>10, <1>11, <1>12 DEF EmuInv

-----------------------------------------------------------------------------
(***************************************************************************)
(* A step of the kernel.                                                   *)
(***************************************************************************)

LEMMA KernelSends ==
  ASSUME TypeOK, NEW op \in Commands \cup Sent, toDev' = [toDev EXCEPT !["master"] = Append(@, op)]
  PROVE  /\ toDev'["client"] = toDev["client"]
         /\ toDev' \in [Devices -> Seq(Orders \cup Data)] /\ toDev'["master"] \in Seq(Commands \cup Sent)
         /\ \A S : In(toDev'["master"], S) <=> In(toDev["master"], S) \/ op \in S
         /\ Count(toDev'["master"], Orders)
              = Count(toDev["master"], Orders) + (IF op \in Orders THEN 1 ELSE 0)
         /\ Count(toDev["master"], Orders) \in Nat
<1> DEFINE q == toDev["master"]  u == <<op>>  w == q \o u
<1>1. toDev \in [Devices -> Seq(Orders \cup Data)] /\ q \in Seq(Commands \cup Sent)
  BY Sockets
<1>2. /\ u \in Seq(Commands \cup Sent)
      /\ \A S : In(u, S) <=> op \in S
      /\ Count(u, Orders) = IF op \in Orders THEN 1 ELSE 0
  BY One
<1>3. Append(q, op) = w
  BY <1>1, AppendIsConcat
<1> HIDE DEF u
<1>4. /\ w \in Seq(Commands \cup Sent)
      /\ \A S : In(w, S) <=> In(q, S) \/ In(u, S)
      /\ Count(w, Orders) = Count(q, Orders) + Count(u, Orders)
  BY <1>1, <1>2, Writing
<1>5. w \in Seq(Orders \cup Data)
  <2>1. Commands \cup Sent \subseteq Orders \cup Data
    BY KernelAssumption
  <2>2. QED
    BY <1>4, <2>1, SeqMonotonic
<1>6. toDev' = [toDev EXCEPT !["master"] = w]
  BY <1>3
<1>7. Count(q, Orders) \in Nat
  BY <1>1, CountType
<1> HIDE DEF w
<1>8. toDev'["client"] = toDev["client"] /\ toDev'["master"] = w /\ toDev' \in [Devices -> Seq(Orders \cup Data)]
  BY <1>1, <1>5, <1>6, Ends
<1>9. QED
  BY <1>2, <1>4, <1>7, <1>8 DEF q

LEMMA Left ==
  ASSUME NEW k \in Nat \X Nat, NEW i \in {1, 2}, k[i] > 0
  PROVE  [k EXCEPT ![i] = @ - 1] \in Nat \X Nat
<1>1. PICK a \in Nat, b \in Nat : k = <<a, b>>
  OBVIOUS
<1>2. CASE i = 1
  <2>1. a - 1 \in Nat
    BY <1>1, <1>2
  <2>2. [k EXCEPT ![1] = @ - 1] = <<a - 1, b>>
    BY <1>1
  <2>3. QED
    BY <1>2, <2>1, <2>2
<1>3. CASE i = 2
  <2>1. b - 1 \in Nat
    BY <1>1, <1>3
  <2>2. [k EXCEPT ![2] = @ - 1] = <<a, b - 1>>
    BY <1>1
  <2>3. QED
    BY <1>3, <2>1, <2>2
<1>4. QED
  BY <1>2, <1>3

LEMMA KernelSendInv ==
  ASSUME EmuInv, NEW op \in Commands, KernelSend(op)
  PROVE  EmuInv'
<1> DEFINE q == toDev["master"]  r == toHost["master"]
<1>1. /\ TypeOK /\ Asleep /\ CommandsFlow /\ FlowInv /\ LinkInv /\ HostsAgree /\ FedInv /\ DiscInv
      /\ NoStaleHandle
  BY DEF EmuInv, FlowInv, LinkInv
<1>2. /\ UNCHANGED <<linked, scan, adv, lescan, crashed, overlaid>> /\ UNCHANGED <<toHost, ncmd, tail>>
      /\ UNCHANGED <<started, conns, call, called, refused, unheard>>
      /\ toDev' = [toDev EXCEPT !["master"] = Append(@, op)]
      /\ kcmd = None /\ kcmd' = op
  BY DEF KernelSend, device, queue, bthost
<1>3. op \in Orders /\ op # None /\ op # "conn_update"
  BY KernelAssumption DEF Orders, Common, Classic, LowEnergy, None
<1>4. /\ toDev'["client"] = toDev["client"]
      /\ toDev' \in [Devices -> Seq(Orders \cup Data)] /\ toDev'["master"] \in Seq(Commands \cup Sent)
      /\ \A S : In(toDev'["master"], S) <=> In(q, S) \/ op \in S
      /\ Count(toDev'["master"], Orders) = Count(q, Orders) + 1
      /\ Count(q, Orders) \in Nat
  BY <1>1, <1>2, <1>3, KernelSends
<1>5. /\ r \in Seq(Packets) /\ q \in Seq(Orders \cup Data)
      /\ Count(r, Done) \in Nat /\ Count(q, Orders) = 0 /\ Count(r, Done) = 0
  <2>1. r \in Seq(Packets) /\ q \in Seq(Orders \cup Data)
    BY <1>1, Sockets
  <2>2. Count(r, Done) \in Nat
    BY <2>1, CountType
  <2>3. None # "sco"
    BY DEF None
  <2>4. Count(q, Orders) + Count(r, Done) = 0
    BY <1>1, <1>2, <2>3 DEF CommandsFlow
  <2>5. QED
    BY <1>4, <2>1, <2>2, <2>4
<1>6. ~In(q, Orders) /\ ~In(r, Done)
  BY <1>5, CountType
<1>7. /\ kreq' = (kreq /\ op \notin {"accept", "reject_conn", "reset"})
      /\ kdisc' = (op # "reset" /\ (kdisc \/ op = "disconnect"))
      /\ klink' = IF op = "reset" THEN None ELSE klink
      /\ forgot' = (forgot \/ op = "reset")
  BY DEF KernelSend
<1>8. TypeOK'
  <2>1. /\ kreq \in BOOLEAN /\ kdisc \in BOOLEAN /\ kacl \in BOOLEAN /\ kasked \in BOOLEAN
        /\ forgot \in BOOLEAN /\ kwait \in {None, "page", "le"} /\ klink \in {None, "classic", "le"}
        /\ kchan \in {None, "wait", "open"} /\ kleft \in Nat \X Nat
    BY <1>1 DEF TypeOK
  <2>2. kreq' \in BOOLEAN /\ kdisc' \in BOOLEAN /\ forgot' \in BOOLEAN /\ klink' \in {None, "classic", "le"}
    BY <1>7, <2>1
  <2>3. kasked' \in BOOLEAN /\ kacl' \in BOOLEAN
    BY <2>1 DEF KernelSend
  <2>4. kwait' \in {None, "page", "le"} /\ kchan' \in {None, "wait", "open"}
    BY <2>1 DEF KernelSend
  <2>5. kleft' \in Nat \X Nat
    BY <2>1, Left DEF KernelSend
  <2>6. toHost' = toHost /\ toDev'["client"] = toDev["client"]
    BY <1>2, <1>4
  <2>7. QED
    BY <1>1, <1>2, <1>4, <2>2, <2>3, <2>4, <2>5, <2>6 DEF TypeOK
<1>9. Asleep'
  <2>1. op = "accept" => kreq
    BY DEF KernelSend, Fits
  <2>2. ~started => ~kreq /\ ~In(q, {"accept"})
    BY <1>1 DEF Asleep
  <2>3. ~started => ~kreq' /\ ~In(toDev'["master"], {"accept"})
    BY <1>4, <1>7, <2>1, <2>2
  <2>4. QED
    BY <1>1, <1>2, <1>4, <2>3 DEF Asleep
<1>10. FlowInv'
  <2>1. Count(toDev["master"], Orders)' = 1 /\ Count(toHost["master"], Done)' = 0
    BY <1>2, <1>4, <1>5
  <2>2. /\ Count(toDev["client"], Orders)' = Count(toDev["client"], Orders)
        /\ Count(toHost["client"], Done)' = Count(toHost["client"], Done)
    BY <1>2, <1>4
  <2>3. CommandsFlow'
    <3>1. Count(toDev["master"], Orders)' + Count(toHost["master"], Done)' = 1
      BY <2>1
    <3>2. QED
      BY <1>1, <1>2, <1>3, <2>2, <3>1 DEF CommandsFlow
  <2>4. ~In(toDev'["master"], Orders \ {op})
    <3>1. ~In(q, Orders \ {op})
      <4>1. Orders \ {op} \subseteq Orders
        OBVIOUS
      <4>2. QED
        BY <1>5, <1>6, <4>1, LastSaid
    <3>2. QED
      BY <1>4, <3>1
  <2>5. Count(toDev["master"], Orders)' + Count(toHost["master"], Done)' <= 1
    BY <2>1
  <2>6. QED
    BY <1>2, <2>3, <2>4, <2>5 DEF FlowInv
<1>11. LinkInv'
  <2>1. forgot' \/ (Believes(r, klink' # None) <=> linked["master"])
    BY <1>1, <1>7 DEF HostsAgree
  <2>2. HostsAgree'
    BY <1>1, <1>2, <2>1 DEF HostsAgree
  <2>3. op = "reset" => forgot'
    BY <1>7
  <2>4. QED
    BY <1>2, <2>2, <2>3 DEF LinkInv
<1>12. FedInv' /\ NoStaleHandle'
  BY <1>1, <1>2 DEF FedInv, NoStaleHandle
<1>13. DiscInv'
  <2>1. /\ ~kdisc => ~In(r, {"disc"})
        /\ Believes(r, klink # None) => linked["master"]
        /\ Count(r, {"disc"}) <= 1
    <3>1. None # "reset"
      BY DEF None
    <3>2. QED
      BY <1>1, <1>2, <3>1 DEF DiscInv
  <2>2. ~In(q, {"disconnect"})
    <3>1. {"disconnect"} \subseteq Orders
      BY DEF Orders, Common
    <3>2. QED
      BY <1>5, <1>6, <3>1, LastSaid
  <2>3. In(toDev'["master"], {"disconnect"}) => op = "disconnect"
    BY <1>4, <2>2
  <2>4. op = "disconnect" => kdisc' /\ linked["master"] /\ ~In(r, {"disc"})
    <3>1. op = "disconnect" => klink # None /\ ~kdisc
      BY DEF KernelSend, Fits
    <3>2. QED
      BY <1>7, <2>1, <3>1 DEF Believes
  <2>5. op # "reset" => /\ ~kdisc' => ~In(r, {"disc"})
                        /\ Believes(r, klink' # None) => linked["master"]
                        /\ Count(r, {"disc"}) <= 1
    BY <1>7, <2>1
  <2>6. op = "reset" => /\ ~kdisc' /\ klink' = None
                        /\ ~Past(r, {"disc"}) /\ ~Past(r, Links)
    <3>1. ~Past(r, {"disc"}) /\ ~Past(r, Links)
      BY <1>6 DEF Past, In
    <3>2. QED
      BY <1>7, <3>1
  <2>7. QED
    BY <1>2, <2>3, <2>4, <2>5, <2>6 DEF DiscInv
<1>14. QED
  BY <1>8, <1>9, <1>10, <1>11, <1>12, <1>13 DEF EmuInv

LEMMA KernelDataInv ==
  ASSUME EmuInv, NEW pdu \in Sent, KernelData(pdu)
  PROVE  EmuInv'
<1> DEFINE q == toDev["master"]
<1>1. /\ TypeOK /\ Asleep /\ CommandsFlow /\ FlowInv /\ LinkInv /\ HostsAgree /\ FedInv /\ DiscInv
      /\ NoStaleHandle
  BY DEF EmuInv, FlowInv, LinkInv
<1>2. /\ UNCHANGED <<linked, scan, adv, lescan, crashed>> /\ UNCHANGED <<toHost, ncmd, tail>>
      /\ UNCHANGED <<started, conns, call, called, refused, unheard>>
      /\ UNCHANGED <<kcmd, kwait, kreq, klink, kdisc, forgot>>
      /\ toDev' = [toDev EXCEPT !["master"] = Append(@, pdu)]
  BY DEF KernelData, device, queue, bthost
<1>3. pdu \in Data /\ pdu \notin Orders
  BY KernelAssumption, Kinds
<1>4. /\ toDev'["client"] = toDev["client"]
      /\ toDev' \in [Devices -> Seq(Orders \cup Data)] /\ toDev'["master"] \in Seq(Commands \cup Sent)
      /\ \A S : In(toDev'["master"], S) <=> In(q, S) \/ pdu \in S
      /\ Count(toDev'["master"], Orders) = Count(q, Orders) + 0
      /\ Count(q, Orders) \in Nat
  BY <1>1, <1>2, <1>3, KernelSends
<1>5. Count(toDev'["master"], Orders) = Count(q, Orders)
  BY <1>4
<1>6. /\ In(toDev'["master"], {"accept"}) => In(q, {"accept"})
      /\ In(toDev'["master"], {"disconnect"}) => In(q, {"disconnect"})
      /\ In(toDev'["master"], Orders \ {kcmd}) => In(q, Orders \ {kcmd})
  <2>1. pdu # "accept" /\ pdu # "disconnect"
    BY <1>3 DEF Orders, Common, Classic
  <2>2. QED
    BY <1>3, <1>4, <2>1
<1>7. TypeOK'
  <2>1. /\ kacl' \in BOOLEAN /\ kasked' \in BOOLEAN /\ kchan' \in {None, "wait", "open"}
        /\ overlaid' \in BOOLEAN
    <3>1. kasked \in BOOLEAN /\ overlaid \in BOOLEAN /\ linked["master"] \in BOOLEAN /\ kchan \in {None, "wait", "open"}
      BY <1>1, Sockets DEF TypeOK
    <3>2. QED
      BY <3>1 DEF KernelData
  <2>2. kleft' \in Nat \X Nat
    <3>1. kleft \in Nat \X Nat
      BY <1>1 DEF TypeOK
    <3>2. QED
      BY <3>1, Left DEF KernelData
  <2>3. QED
    BY <1>1, <1>2, <1>4, <2>1, <2>2 DEF TypeOK
<1>8. Asleep'
  BY <1>1, <1>2, <1>4, <1>6 DEF Asleep
<1>9. FlowInv'
  <2>1. /\ Count(toDev["master"], Orders)' = Count(toDev["master"], Orders)
        /\ Count(toDev["client"], Orders)' = Count(toDev["client"], Orders)
    BY <1>4, <1>5
  <2>2. CommandsFlow'
    BY <1>1, <1>2, <2>1 DEF CommandsFlow
  <2>3. QED
    BY <1>1, <1>2, <1>6, <2>1, <2>2 DEF FlowInv
<1>10. LinkInv' /\ FedInv' /\ NoStaleHandle'
  BY <1>1, <1>2 DEF LinkInv, HostsAgree, FedInv, NoStaleHandle
<1>11. DiscInv'
  BY <1>1, <1>2, <1>6 DEF DiscInv
<1>12. QED
  BY <1>7, <1>8, <1>9, <1>10, <1>11 DEF EmuInv

\* Only ADD_SCO_CONN is ever given up.
LEMMA KernelTimeoutInv ==
  ASSUME EmuInv, KernelTimeout
  PROVE  EmuInv'
<1> DEFINE q == toDev["master"]  r == toHost["master"]
<1>1. /\ TypeOK /\ Asleep /\ CommandsFlow /\ FlowInv /\ LinkInv /\ HostsAgree /\ FedInv /\ DiscInv
      /\ NoStaleHandle
  BY DEF EmuInv, FlowInv, LinkInv
<1>2. /\ UNCHANGED <<linked, scan, adv, lescan, crashed, overlaid>> /\ UNCHANGED <<toDev, toHost, ncmd, tail>>
      /\ UNCHANGED <<started, conns, call, called, refused, unheard>>
      /\ UNCHANGED <<kwait, kreq, klink, kdisc, kacl, kchan, kasked, kleft, forgot>>
      /\ kcmd # None /\ kcmd' = None
  BY DEF KernelTimeout, device, queue, bthost
<1>3. ~In(q, {kcmd}) /\ ~In(r, Done)
  <2>1. DOMAIN q = 1..Len(q) /\ DOMAIN r = 1..Len(r)
    BY <1>1, Sockets
  <2>2. QED
    BY <2>1 DEF KernelTimeout, In
<1>4. ~In(q, Orders)
  BY <1>1, <1>3 DEF FlowInv, In
<1>5. Count(q, Orders) = 0 /\ Count(r, Done) = 0
  BY <1>1, <1>3, <1>4, Sockets, CountType
<1>6. kcmd = "sco"
  <2>1. kcmd # "sco" => Count(q, Orders) + Count(r, Done) = 1
    BY <1>1, <1>2 DEF CommandsFlow
  <2>2. QED
    BY <1>5, <2>1
<1>7. None # "sco" /\ None # "reset"
  BY DEF None
<1>8. TypeOK'
  BY <1>1, <1>2 DEF TypeOK
<1>9. Asleep' /\ FedInv' /\ NoStaleHandle'
  BY <1>1, <1>2 DEF Asleep, FedInv, NoStaleHandle
<1>10. FlowInv'
  <2>1. CommandsFlow'
    <3>1. Count(q, Orders) + Count(r, Done) = 0
      BY <1>5
    <3>2. QED
      BY <1>1, <1>2, <3>1 DEF CommandsFlow
  <2>2. ~In(q, Orders \ {None})
    BY <1>4 DEF In
  <2>3. QED
    BY <1>2, <1>7, <2>1, <2>2 DEF FlowInv
<1>11. LinkInv'
  BY <1>1, <1>2, <1>7 DEF LinkInv, HostsAgree
<1>12. DiscInv'
  BY <1>1, <1>2, <1>6, <1>7 DEF DiscInv
<1>13. QED
  BY <1>8, <1>9, <1>10, <1>11, <1>12 DEF EmuInv

LEMMA KernelReadsInv ==
  ASSUME EmuInv, KernelReads
  PROVE  EmuInv'
<1> DEFINE q == toDev["master"]  r == toHost["master"]  ev == Head(r)
           hears == kcmd # "reset"
<1>1. /\ TypeOK /\ Asleep /\ CommandsFlow /\ FlowInv /\ LinkInv /\ HostsAgree /\ FedInv /\ DiscInv
      /\ NoStaleHandle
  BY DEF EmuInv, FlowInv, LinkInv
<1>2. /\ UNCHANGED <<linked, scan, adv, lescan, crashed, overlaid>> /\ UNCHANGED <<toDev, ncmd, tail>>
      /\ UNCHANGED <<started, conns, call, called, refused, unheard>>
      /\ UNCHANGED <<kleft, forgot>>
      /\ r # <<>> /\ toHost' = [toHost EXCEPT !["master"] = Tail(@)]
  BY DEF KernelReads, device, queue, bthost
<1>3. r \in Seq(Packets) /\ q \in Seq(Orders \cup Data) /\ toHost \in [Devices -> Seq(Packets)]
  BY <1>1, Sockets
<1>4. /\ ev \in Packets /\ Tail(r) \in Seq(Packets)
      /\ Opens(r) <=> Opens(Tail(r)) \/ (ev \in Links /\ ~In(Tail(r), {"disc"}))
      /\ \A S : /\ In(r, S) <=> ev \in S \/ In(Tail(r), S)
                /\ Past(r, S) <=> Past(Tail(r), S) \/ (ev \in Done /\ In(Tail(r), S))
                /\ Count(r, S) = (IF ev \in S THEN 1 ELSE 0) + Count(Tail(r), S)
  BY <1>2, <1>3, Reading
<1>5. /\ toHost'["client"] = toHost["client"] /\ toHost'["master"] = Tail(r)
      /\ toHost' \in [Devices -> Seq(Packets)]
  BY <1>2, <1>3, <1>4, Ends
<1>6. /\ kcmd' = IF ev \in Done THEN None ELSE kcmd
      /\ kreq' = (kreq \/ (hears /\ ev = "conn_request"))
      /\ klink' = CASE hears /\ ev = "disc" -> None
                    [] hears /\ ev = "conn_ok" -> "classic"
                    [] hears /\ ev = "le_conn_ok" -> "le"
                    [] OTHER -> klink
      /\ kdisc' = (kdisc /\ ~(hears /\ ev = "disc"))
  BY DEF KernelReads
<1> HIDE DEF hears, ev
<1>7. /\ hears /\ ev = "disc" => klink' = None
      /\ hears /\ ev \in Links => klink' # None
      /\ ~hears \/ (ev # "disc" /\ ev \notin Links) => klink' = klink
      /\ klink' \in {None, "classic", "le"}
  <2>1. klink \in {None, "classic", "le"}
    BY <1>1 DEF TypeOK
  <2>2. CASE ~hears
    BY <1>6, <2>1, <2>2
  <2>3. CASE hears /\ ev = "disc"
    BY <1>6, <2>1, <2>3 DEF Links
  <2>4. CASE hears /\ ev = "conn_ok"
    BY <1>6, <2>1, <2>4 DEF Links, None
  <2>5. CASE hears /\ ev = "le_conn_ok"
    BY <1>6, <2>1, <2>5 DEF Links, None
  <2>6. CASE hears /\ ev # "disc" /\ ev \notin Links
    BY <1>6, <2>1, <2>6 DEF Links
  <2>7. QED
    BY <2>2, <2>3, <2>4, <2>5, <2>6 DEF Links
<1>8. Count(Tail(r), Done) \in Nat /\ Count(q, Orders) \in Nat /\ Count(Tail(r), {"disc"}) \in Nat
  BY <1>3, <1>4, CountType
\* An answer answers the command that was waited for.
<1>9. ev \in Done => /\ kcmd # None
                     /\ Count(q, Orders) = 0 /\ Count(Tail(r), Done) = 0 /\ ~In(q, Orders)
  <2>1. SUFFICES ASSUME ev \in Done
                 PROVE  /\ kcmd # None
                        /\ Count(q, Orders) = 0 /\ Count(Tail(r), Done) = 0 /\ ~In(q, Orders)
    OBVIOUS
  <2>2. Count(r, Done) = 1 + Count(Tail(r), Done)
    BY <1>4, <2>1
  <2>3. Count(q, Orders) + Count(r, Done) <= 1
    <3>1. CASE kcmd = "sco"
      BY <1>1, <3>1 DEF FlowInv
    <3>2. CASE kcmd # "sco"
      <4>1. Count(q, Orders) + Count(r, Done) = IF kcmd = None THEN 0 ELSE 1
        BY <1>1, <3>2 DEF CommandsFlow
      <4>2. QED
        BY <4>1
    <3>3. QED
      BY <3>1, <3>2
  <2>4. Count(q, Orders) = 0 /\ Count(Tail(r), Done) = 0
    BY <1>8, <2>2, <2>3
  <2>5. kcmd # None
    <3>1. ASSUME kcmd = None PROVE FALSE
      <4>1. kcmd # "sco"
        BY <3>1 DEF None
      <4>2. Count(q, Orders) + Count(r, Done) = 0
        BY <1>1, <3>1, <4>1 DEF CommandsFlow
      <4>3. QED
        BY <1>8, <2>2, <4>2
    <3>2. QED
      BY <3>1
  <2>6. ~In(q, Orders)
    BY <1>3, <2>4, CountType
  <2>7. QED
    BY <2>4, <2>5, <2>6
<1>10. ev \notin Done => Count(Tail(r), Done) = Count(r, Done)
  BY <1>4, <1>8
<1>11. /\ ev \in Done => ev # "disc" /\ ev \notin Links
       /\ ev = "disc" => ev \notin Links
       /\ None # "sco" /\ None # "reset"
  BY Kinds DEF None
<1>12. TypeOK'
  <2>1. kcmd \in Commands \cup {None} /\ kcmd' \in Commands \cup {None}
    <3>1. kcmd \in Commands \cup {None}
      BY <1>1 DEF TypeOK
    <3>2. QED
      BY <1>6, <3>1
  <2>2. kreq' \in BOOLEAN /\ kdisc' \in BOOLEAN
    <3>1. kreq \in BOOLEAN /\ kdisc \in BOOLEAN
      BY <1>1 DEF TypeOK
    <3>2. QED
      BY <1>6, <3>1
  <2>3. kacl' \in BOOLEAN
    BY <1>1 DEF TypeOK, KernelReads
  <2>4. kasked' \in BOOLEAN
    BY <1>1 DEF TypeOK, KernelReads
  <2>5. kwait' \in {None, "page", "le"}
    BY <1>1 DEF TypeOK, KernelReads
  <2>6. kchan' \in {None, "wait", "open"}
    BY <1>1 DEF TypeOK, KernelReads
  <2>7. QED
    BY <1>1, <1>2, <1>5, <1>7, <2>1, <2>2, <2>3, <2>4, <2>5, <2>6 DEF TypeOK
<1>13. Asleep'
  <2>1. ~started => ev # "conn_request" /\ ~In(Tail(r), {"conn_request"}) /\ ~kreq
    BY <1>1, <1>4 DEF Asleep
  <2>2. ~started => ~kreq'
    BY <1>6, <2>1
  <2>3. QED
    BY <1>1, <1>2, <1>5, <2>1, <2>2 DEF Asleep
<1>14. FlowInv'
  <2>1. /\ Count(toDev["master"], Orders)' = Count(q, Orders)
        /\ Count(toHost["master"], Done)' = Count(Tail(r), Done)
        /\ Count(toDev["client"], Orders)' = Count(toDev["client"], Orders)
        /\ Count(toHost["client"], Done)' = Count(toHost["client"], Done)
    BY <1>2, <1>5
  <2>2. CASE ev \in Done
    <3>1. kcmd' = None
      BY <1>6, <2>2
    <3>2. Count(toDev["master"], Orders)' + Count(toHost["master"], Done)' = 0
      BY <1>9, <2>1, <2>2
    <3>3. CommandsFlow'
      BY <1>1, <1>2, <2>1, <3>1, <3>2 DEF CommandsFlow
    <3>4. ~In(q, Orders \ {None})
      BY <1>9, <2>2 DEF In
    <3>5. QED
      BY <1>2, <1>11, <3>1, <3>3, <3>4 DEF FlowInv
  <2>3. CASE ev \notin Done
    <3>1. kcmd' = kcmd
      BY <1>6, <2>3
    <3>2. Count(toDev["master"], Orders)' + Count(toHost["master"], Done)'
          = Count(q, Orders) + Count(r, Done)
      BY <1>10, <2>1, <2>3
    <3>3. CommandsFlow'
      BY <1>1, <1>2, <2>1, <3>1, <3>2 DEF CommandsFlow
    <3>4. QED
      BY <1>1, <1>2, <3>1, <3>2, <3>3 DEF FlowInv
  <2>4. QED
    BY <2>2, <2>3
\* A kernel that hears believes in the end what it did before.
<1>15. hears => (Believes(Tail(r), klink' # None) <=> Believes(r, klink # None))
  <2>1. SUFFICES ASSUME hears
                 PROVE  Believes(Tail(r), klink' # None) <=> Believes(r, klink # None)
    OBVIOUS
  <2>2. In(r, {"disc"}) <=> ev = "disc" \/ In(Tail(r), {"disc"})
    BY <1>4
  <2>3. CASE ev = "disc"
    BY <1>4, <1>7, <1>11, <2>1, <2>2, <2>3 DEF Believes
  <2>4. CASE ev \in Links
    BY <1>4, <1>7, <1>11, <2>1, <2>2, <2>4 DEF Believes
  <2>5. CASE ev # "disc" /\ ev \notin Links
    BY <1>4, <1>7, <2>1, <2>2, <2>5 DEF Believes
  <2>6. QED
    BY <2>3, <2>4, <2>5
<1>16. LinkInv'
  <2>1. forgot \/ hears
    BY <1>1 DEF LinkInv, hears
  <2>2. forgot \/ (Believes(Tail(r), klink' # None) <=> linked["master"])
    BY <1>1, <1>15, <2>1 DEF HostsAgree
  <2>3. HostsAgree'
    BY <1>1, <1>2, <1>5, <2>2 DEF HostsAgree
  <2>4. kcmd' = "reset" => forgot
    BY <1>1, <1>6, <1>11 DEF LinkInv
  <2>5. QED
    BY <1>2, <2>3, <2>4 DEF LinkInv
<1>17. FedInv' /\ NoStaleHandle'
  BY <1>1, <1>2, <1>5 DEF FedInv, NoStaleHandle
<1>18. In(q, {"disconnect"}) => kdisc' /\ linked["master"] /\ ~In(Tail(r), {"disc"})
  <2>1. In(q, {"disconnect"}) => kdisc /\ linked["master"] /\ ~In(r, {"disc"})
    BY <1>1 DEF DiscInv
  <2>2. In(r, {"disc"}) <=> ev = "disc" \/ In(Tail(r), {"disc"})
    BY <1>4
  <2>3. QED
    BY <1>6, <2>1, <2>2
<1>19. kcmd' # "reset" =>
         /\ ~kdisc' => ~In(Tail(r), {"disc"})
         /\ Believes(Tail(r), klink' # None) => linked["master"]
         /\ Count(Tail(r), {"disc"}) <= 1
  <2>1. SUFFICES ASSUME kcmd' # "reset"
                 PROVE  /\ ~kdisc' => ~In(Tail(r), {"disc"})
                        /\ Believes(Tail(r), klink' # None) => linked["master"]
                        /\ Count(Tail(r), {"disc"}) <= 1
    OBVIOUS
  <2>2. CASE hears
    <3>1. /\ ~kdisc => ~In(r, {"disc"})
          /\ Believes(r, klink # None) => linked["master"]
          /\ Count(r, {"disc"}) <= 1
      BY <1>1, <2>2 DEF DiscInv, hears
    <3>2. /\ In(r, {"disc"}) <=> ev = "disc" \/ In(Tail(r), {"disc"})
          /\ Count(r, {"disc"}) = (IF ev = "disc" THEN 1 ELSE 0) + Count(Tail(r), {"disc"})
      BY <1>4
    <3>3. Count(Tail(r), {"disc"}) <= 1
      BY <1>8, <3>1, <3>2
    <3>4. ~kdisc' => ~In(Tail(r), {"disc"})
      <4>1. CASE ev = "disc"
        <5>1. Count(Tail(r), {"disc"}) = 0
          BY <1>8, <3>1, <3>2, <4>1
        <5>2. QED
          BY <1>4, <5>1, CountType
      <4>2. CASE ev # "disc"
        BY <1>6, <3>1, <3>2, <4>2
      <4>3. QED
        BY <4>1, <4>2
    <3>5. QED
      BY <1>15, <2>2, <3>1, <3>3, <3>4
  <2>3. CASE ~hears
    <3>1. /\ ~kdisc /\ klink = None /\ ~Past(r, {"disc"})
          /\ Past(r, Links) => linked["master"]
      BY <1>1, <2>3 DEF DiscInv, hears
    <3>2. ev \in Done
      BY <1>6, <2>1, <2>3 DEF hears
    <3>3. ~In(Tail(r), {"disc"}) /\ (In(Tail(r), Links) => linked["master"])
      BY <1>4, <3>1, <3>2
    <3>4. klink' = None
      BY <1>7, <2>3, <3>1
    <3>5. Believes(Tail(r), klink' # None) => linked["master"]
      <4>1. Opens(Tail(r)) => In(Tail(r), Links)
        BY <1>4, LastSaid
      <4>2. QED
        BY <3>3, <3>4, <4>1 DEF Believes
    <3>6. Count(Tail(r), {"disc"}) = 0
      BY <1>4, <3>3, CountType
    <3>7. QED
      BY <3>3, <3>5, <3>6
  <2>4. QED
    BY <2>2, <2>3
<1>20. kcmd' = "reset" =>
         /\ ~kdisc' /\ klink' = None
         /\ ~Past(Tail(r), {"disc"})
         /\ Past(Tail(r), Links) => linked["master"]
  <2>1. SUFFICES ASSUME kcmd' = "reset"
                 PROVE  /\ ~kdisc' /\ klink' = None
                        /\ ~Past(Tail(r), {"disc"})
                        /\ Past(Tail(r), Links) => linked["master"]
    OBVIOUS
  <2>2. kcmd = "reset" /\ ~hears
    BY <1>6, <1>11, <2>1 DEF hears
  <2>3. /\ ~kdisc /\ klink = None /\ ~Past(r, {"disc"})
        /\ Past(r, Links) => linked["master"]
    BY <1>1, <2>2 DEF DiscInv
  <2>4. QED
    BY <1>4, <1>6, <1>7, <2>2, <2>3
<1>21. DiscInv'
  BY <1>2, <1>5, <1>18, <1>19, <1>20 DEF DiscInv
<1>22. QED
  BY <1>12, <1>13, <1>14, <1>16, <1>17, <1>21 DEF EmuInv

-----------------------------------------------------------------------------
LEMMA StepInv ==
  ASSUME EmuInv, [Next]_vars
  PROVE  EmuInv'
<1>1. ASSUME NEW d \in Devices, Device(d) PROVE EmuInv'
  BY <1>1, DeviceInv
<1>2. CASE Start \/ Call
  BY <1>2, AskedInv
<1>3. CASE Host
  BY <1>3, HostInv
<1>4. CASE Kernel
  <2>1. ASSUME NEW op \in Commands, KernelSend(op) PROVE EmuInv'
    BY <2>1, KernelSendInv
  <2>2. ASSUME NEW pdu \in Sent, KernelData(pdu) PROVE EmuInv'
    BY <2>2, KernelDataInv
  <2>3. QED
    BY <1>4, <2>1, <2>2, KernelTimeoutInv, KernelReadsInv DEF Kernel
<1>5. CASE UNCHANGED vars
  <2>1. /\ UNCHANGED <<linked, scan, adv, lescan, crashed, overlaid, toDev, toHost>>
        /\ UNCHANGED <<started, ncmd, tail, conns, call, called, refused, unheard>>
        /\ UNCHANGED <<kcmd, kwait, kreq, klink, kdisc, kacl, kchan, kasked, kleft, forgot>>
    BY <1>5 DEF vars, device, queue, bthost, kernel
  <2>2. TypeOK' /\ Asleep' /\ FlowInv'
    BY <2>1 DEF EmuInv, TypeOK, Asleep, FlowInv, CommandsFlow
  <2>3. LinkInv' /\ FedInv' /\ DiscInv' /\ NoStaleHandle'
    BY <2>1 DEF EmuInv, LinkInv, HostsAgree, FedInv, DiscInv, NoStaleHandle
  <2>4. QED
    BY <2>2, <2>3 DEF EmuInv
<1>6. QED
  BY <1>1, <1>2, <1>3, <1>4, <1>5 DEF Next

LEMMA AlwaysEmuInv ==
  Spec => []EmuInv
BY InitInv, StepInv, PTL DEF Spec

-----------------------------------------------------------------------------
(***************************************************************************)
(* The channel a configuration is for.                                     *)
(***************************************************************************)

\* A connection begins or ends here.
Cut == Links \cup {"disc"}

\* bthost knows the channel: it has granted it on the connection it entered last.
Granted == conns # <<>> /\ "theirs" \in conns[1]

\* It will, when it has read the first n packets: the request is among them, or
\* was read before, and the connection is not another one since.
KnowsAt(q, n, had) ==
  \/ \E j \in 1..n : q[j] = "conn_req" /\ \A k \in j..n : q[k] \notin Cut
  \/ had /\ \A k \in 1..n : q[k] \notin Cut
Knows(q, had) == KnowsAt(q, Len(q), had)

\* Every configuration finds its channel.
Backed(q, had) == \A i \in 1..Len(q) : q[i] = "config_req" => KnowsAt(q, i - 1, had)
Asked(q) == \A i \in 1..Len(q) : q[i] = "config_req" => \E j \in 1..i-1 : q[j] = "conn_req"

LEMMA KnowsPrefix ==
  ASSUME NEW T, NEW q \in Seq(T), NEW s \in Seq(T), NEW had, NEW n \in Nat, n <= Len(q)
  PROVE  KnowsAt(q \o s, n, had) <=> KnowsAt(q, n, had)
<1>1. \A i \in 1..n : (q \o s)[i] = q[i]
  BY Joined
<1>2. \A j \in 1..n : j..n \subseteq 1..n
  OBVIOUS
<1>3. QED
  BY <1>1, <1>2 DEF KnowsAt

LEMMA KnowsJoined ==
  ASSUME NEW T, NEW q \in Seq(T), NEW s \in Seq(T), NEW had, ~In(s, Cut), Knows(q, had)
  PROVE  Knows(q \o s, had)
<1> DEFINE n == Len(q)  m == Len(s)  w == q \o s
<1>1. /\ n \in Nat /\ m \in Nat /\ Len(w) = n + m
      /\ \A i \in 1..n : w[i] = q[i]
      /\ \A i \in 1..m : w[n + i] = s[i]
  BY Joined
<1>2. \A i \in 1..m : s[i] \notin Cut
  BY DEF In
<1> HIDE DEF n, m, w
<1>3. ASSUME NEW j \in 1..(n + 1), \A k \in j..n : q[k] \notin Cut
      PROVE  \A k \in j..(n + m) : w[k] \notin Cut
  <2>1. TAKE k \in j..(n + m)
  <2>2. k \in j..n \/ (k - n \in 1..m /\ k = n + (k - n))
    BY <1>1
  <2>3. k \in j..n => k \in 1..n
    BY <1>1
  <2>4. QED
    BY <1>1, <1>2, <1>3, <2>2, <2>3
<1>4. CASE had /\ \A k \in 1..n : q[k] \notin Cut
  <2>1. 1 \in 1..(n + 1)
    BY <1>1
  <2>2. \A k \in 1..(n + m) : w[k] \notin Cut
    BY <1>3, <1>4, <2>1
  <2>3. QED
    BY <1>1, <1>4, <2>2 DEF Knows, KnowsAt, w
<1>5. CASE \E j \in 1..n : q[j] = "conn_req" /\ \A k \in j..n : q[k] \notin Cut
  <2>1. PICK j \in 1..n : q[j] = "conn_req" /\ \A k \in j..n : q[k] \notin Cut
    BY <1>5
  <2>2. j \in 1..(n + 1) /\ j \in 1..(n + m) /\ w[j] = "conn_req"
    BY <1>1, <2>1
  <2>3. \A k \in j..(n + m) : w[k] \notin Cut
    BY <1>3, <2>1, <2>2
  <2>4. QED
    BY <1>1, <2>2, <2>3 DEF Knows, KnowsAt, w
<1>6. QED
  BY <1>4, <1>5 DEF Knows, KnowsAt, n

\* The request is put behind.
LEMMA KnowsAsked ==
  ASSUME NEW T, NEW q \in Seq(T), "conn_req" \in T, NEW had
  PROVE  Knows(q \o <<"conn_req">>, had)
<1> DEFINE s == <<"conn_req">>  w == q \o s
<1>1. s \in Seq(T)
  OBVIOUS
<1>2. Len(s) = 1 /\ s[1] = "conn_req"
  OBVIOUS
<1> HIDE DEF s
<1>3. Len(q) \in Nat /\ Len(w) = Len(q) + 1 /\ w[Len(q) + 1] = "conn_req"
  <2>1. /\ Len(q) \in Nat /\ Len(w) = Len(q) + Len(s)
        /\ \A i \in 1..Len(s) : w[Len(q) + i] = s[i]
    BY <1>1, Joined
  <2>2. 1 \in 1..Len(s)
    BY <1>2
  <2> HIDE DEF w
  <2>3. QED
    BY <1>2, <2>1, <2>2
<1>4. "conn_req" \notin Cut
  BY DEF Cut, Links
<1> HIDE DEF w
<1>5. Len(w) \in 1..Len(w) /\ w[Len(w)] = "conn_req" /\ \A k \in Len(w)..Len(w) : k = Len(w)
  BY <1>3
<1>6. KnowsAt(w, Len(w), had)
  BY <1>4, <1>5 DEF KnowsAt
<1>7. QED
  BY <1>6 DEF Knows, w, s

LEMMA BackedJoined ==
  ASSUME NEW T, NEW q \in Seq(T), NEW s \in Seq(T), NEW had, Backed(q, had),
         In(s, {"config_req"}) => s = <<"config_req">> /\ Knows(q, had)
  PROVE  Backed(q \o s, had)
<1> DEFINE n == Len(q)  m == Len(s)  w == q \o s
<1>1. /\ n \in Nat /\ m \in Nat /\ Len(w) = n + m
      /\ \A i \in 1..n : w[i] = q[i]
      /\ \A i \in 1..m : w[n + i] = s[i]
  BY Joined
<1>2. \A k \in Nat : k <= n => (KnowsAt(w, k, had) <=> KnowsAt(q, k, had))
  BY KnowsPrefix
<1>3. \A i \in 1..n : q[i] = "config_req" => KnowsAt(q, i - 1, had)
  BY DEF Backed
<1>4. (\E i \in 1..m : s[i] = "config_req") => m = 1 /\ KnowsAt(q, n, had)
  BY DEF In, Knows
<1> HIDE DEF n, m, w
<1>5. ASSUME NEW i \in 1..Len(w), w[i] = "config_req" PROVE KnowsAt(w, i - 1, had)
  <2>1. CASE i \in 1..n
    <3>1. i - 1 \in Nat /\ i - 1 <= n /\ q[i] = "config_req"
      BY <1>1, <1>5, <2>1
    <3>2. QED
      BY <1>2, <1>3, <2>1, <3>1
  <2>2. CASE i \notin 1..n
    <3>1. i - n \in 1..m /\ i = n + (i - n)
      BY <1>1, <2>2
    <3>2. s[i - n] = "config_req"
      BY <1>1, <1>5, <3>1
    <3>3. m = 1 /\ KnowsAt(q, n, had)
      BY <1>4, <3>1, <3>2
    <3>4. i - 1 = n /\ n <= n
      BY <1>1, <3>1, <3>3
    <3>5. QED
      BY <1>1, <1>2, <3>3, <3>4
  <2>3. QED
    BY <2>1, <2>2
<1>6. QED
  BY <1>5 DEF Backed, w

\* When a packet is read: what is known now replaces what was.
LEMMA KnowsRead ==
  ASSUME NEW T, NEW q \in Seq(T), q # <<>>, NEW had, NEW now,
         Head(q) = "conn_req" => now, had /\ Head(q) \notin Cut => now
  PROVE  /\ \A n \in 0..Len(Tail(q)) : KnowsAt(q, n + 1, had) => KnowsAt(Tail(q), n, now)
         /\ Knows(q, had) => Knows(Tail(q), now)
         /\ Backed(q, had) => Backed(Tail(q), now)
<1> DEFINE t == Tail(q)
<1>1. /\ Len(q) \in Nat \ {0} /\ Len(t) = Len(q) - 1 /\ Len(t) \in Nat
      /\ \A i \in 1..Len(t) : t[i] = q[i + 1]
      /\ q[1] = Head(q)
  BY HeadTailProperties, EmptySeq
<1> HIDE DEF t
<1>2. ASSUME NEW n \in 0..Len(t), KnowsAt(q, n + 1, had) PROVE KnowsAt(t, n, now)
  <2>1. ASSUME NEW j \in 1..(n + 1), \A k \in j..(n + 1) : q[k] \notin Cut
        PROVE  \A k \in 1..n : k + 1 >= j => t[k] \notin Cut
    <3>1. TAKE k \in 1..n
    <3>2. k \in 1..Len(t) /\ (k + 1 >= j => k + 1 \in j..(n + 1))
      BY <1>1
    <3>3. QED
      BY <1>1, <2>1, <3>2
  <2>2. CASE had /\ \A k \in 1..(n + 1) : q[k] \notin Cut
    <3>1. 1 \in 1..(n + 1) /\ \A k \in 1..n : k + 1 >= 1
      OBVIOUS
    <3>2. \A k \in 1..n : t[k] \notin Cut
      BY <2>1, <2>2, <3>1
    <3>3. now
      BY <1>1, <2>2, <3>1
    <3>4. QED
      BY <3>2, <3>3 DEF KnowsAt
  <2>3. ASSUME NEW j \in 1..(n + 1), q[j] = "conn_req", \A k \in j..(n + 1) : q[k] \notin Cut
        PROVE  KnowsAt(t, n, now)
    <3>1. CASE j = 1
      <4>1. \A k \in 1..n : k + 1 >= j
        BY <3>1
      <4>2. \A k \in 1..n : t[k] \notin Cut
        BY <2>1, <2>3, <4>1
      <4>3. now
        BY <1>1, <2>3, <3>1
      <4>4. QED
        BY <4>2, <4>3 DEF KnowsAt
    <3>2. CASE j # 1
      <4>1. /\ j - 1 \in 1..n /\ j - 1 \in 1..Len(t) /\ (j - 1) + 1 = j
            /\ \A k \in (j - 1)..n : k \in 1..n /\ k + 1 >= j
        BY <1>1, <3>2
      <4>2. t[j - 1] = "conn_req"
        BY <1>1, <2>3, <4>1
      <4>3. \A k \in (j - 1)..n : t[k] \notin Cut
        BY <2>1, <2>3, <4>1
      <4>4. QED
        BY <4>1, <4>2, <4>3 DEF KnowsAt
    <3>3. QED
      BY <3>1, <3>2
  <2>4. QED
    BY <1>2, <2>2, <2>3 DEF KnowsAt
<1>3. ASSUME Knows(q, had) PROVE Knows(t, now)
  <2>1. Len(t) \in 0..Len(t) /\ Len(t) + 1 = Len(q)
    BY <1>1
  <2>2. QED
    BY <1>2, <1>3, <2>1 DEF Knows
<1>4. ASSUME Backed(q, had), NEW i \in 1..Len(t), t[i] = "config_req"
      PROVE  KnowsAt(t, i - 1, now)
  <2>1. /\ i + 1 \in 1..Len(q) /\ q[i + 1] = "config_req" /\ (i + 1) - 1 = (i - 1) + 1
        /\ i - 1 \in 0..Len(t)
    BY <1>1, <1>4
  <2>2. KnowsAt(q, (i - 1) + 1, had)
    BY <1>4, <2>1 DEF Backed
  <2>3. QED
    BY <1>2, <2>1, <2>2
<1>5. QED
  BY <1>2, <1>3, <1>4 DEF Backed, t

LEMMA AskedRead ==
  ASSUME NEW T, NEW q \in Seq(T), q # <<>>, Head(q) # "conn_req", Asked(q)
  PROVE  Asked(Tail(q))
<1> DEFINE t == Tail(q)
<1>1. /\ Len(q) \in Nat \ {0} /\ Len(t) = Len(q) - 1 /\ Len(t) \in Nat
      /\ \A i \in 1..Len(t) : t[i] = q[i + 1]
      /\ q[1] = Head(q)
  BY HeadTailProperties, EmptySeq
<1> HIDE DEF t
<1>2. ASSUME NEW i \in 1..Len(t), t[i] = "config_req" PROVE \E j \in 1..i-1 : t[j] = "conn_req"
  <2>1. i + 1 \in 1..Len(q) /\ q[i + 1] = "config_req" /\ (i + 1) - 1 = i
    BY <1>1, <1>2
  <2>2. PICK j \in 1..i : q[j] = "conn_req"
    BY <2>1 DEF Asked
  <2>3. j # 1
    BY <1>1, <2>2
  <2>4. j - 1 \in 1..i-1 /\ j - 1 \in 1..Len(t) /\ (j - 1) + 1 = j
    BY <1>1, <2>3
  <2>5. t[j - 1] = "conn_req"
    BY <1>1, <2>2, <2>4
  <2>6. QED
    BY <2>4, <2>5
<1>3. QED
  BY <1>2 DEF Asked, t

LEMMA AskedJoined ==
  ASSUME NEW T, NEW q \in Seq(T), NEW x \in T, Asked(q),
         x = "config_req" => In(q, {"conn_req"})
  PROVE  Asked(Append(q, x))
<1> DEFINE n == Len(q)  w == Append(q, x)
<1>1. /\ n \in Nat /\ Len(w) = n + 1 /\ w[n + 1] = x
      /\ \A i \in 1..n : w[i] = q[i]
  BY AppendProperties, LenProperties
<1>2. \A i \in 1..n : q[i] = "config_req" => \E j \in 1..i-1 : q[j] = "conn_req"
  BY DEF Asked
<1>3. x = "config_req" => \E j \in 1..n : q[j] = "conn_req"
  BY DEF In
<1> HIDE DEF n, w
<1>4. ASSUME NEW i \in 1..(n + 1), w[i] = "config_req" PROVE \E j \in 1..i-1 : w[j] = "conn_req"
  <2>1. CASE i \in 1..n
    <3>1. PICK j \in 1..i-1 : q[j] = "conn_req"
      BY <1>1, <1>2, <1>4, <2>1
    <3>2. j \in 1..n
      BY <1>1, <2>1
    <3>3. QED
      BY <1>1, <3>1, <3>2
  <2>2. CASE i \notin 1..n
    <3>1. i = n + 1 /\ i - 1 = n
      BY <1>1, <2>2
    <3>2. x = "config_req"
      BY <1>1, <1>4, <3>1
    <3>3. PICK j \in 1..n : q[j] = "conn_req"
      BY <1>3, <3>2
    <3>4. QED
      BY <1>1, <3>1, <3>3
  <2>3. QED
    BY <2>1, <2>2
<1>5. QED
  BY <1>1, <1>4 DEF Asked, w

\* A kernel with a channel has a connection.
ChanInv == kchan # None => klink # None

\* As long as no connection has taken over another, bthost will know the channel
\* of every configuration that reaches it, or that the kernel may still send.
GrantInv ==
  ~overlaid =>
    /\ Backed(toHost["client"], Granted)
    /\ linked["master"] => Asked(toDev["master"]) \/ Knows(toHost["client"], Granted)
    /\ kchan # None /\ linked["master"] /\ ~In(toHost["master"], {"disc"}) =>
         In(toDev["master"], {"conn_req"}) \/ Knows(toHost["client"], Granted)
    /\ ~refused

\* The connection of its channel is there, or the kernel will read that it is not.
LEMMA ChanThere ==
  ASSUME EmuInv, ChanInv, kchan # None, ~In(toHost["master"], {"disc"})
  PROVE  linked["master"]
BY DEF EmuInv, ChanInv, DiscInv, Believes

LEMMA NoRequest ==
  ASSUME NEW q, ~In(q, {"config_req"})
  PROVE  Asked(q)
BY DEF In, Asked

LEMMA ServedGrant ==
  ASSUME EmuInv, ChanInv, GrantInv, NEW d \in Devices, NEW own, NEW other, Serves(d, own, other)
  PROVE  GrantInv'
<1> DEFINE C == toHost["client"]  M == toDev["master"]  H == toHost["master"]
           h == Head(toDev[d])
           x == IF d = "client" THEN own ELSE other
           y == IF d = "client" THEN other ELSE own
<1>1. TypeOK /\ (linked["master"] <=> linked["client"])
  BY DEF EmuInv, LinkInv, HostsAgree
<1>2. /\ own \in Seq(Packets) /\ other \in Seq(Packets)
      /\ toDev'[d] = Tail(toDev[d]) /\ toDev'[Peer(d)] = toDev[Peer(d)]
      /\ toHost'[d] = toHost[d] \o own /\ toHost'[Peer(d)] = toHost[Peer(d)] \o other
      /\ UNCHANGED <<conns, refused, kchan>>
      /\ Head(toDev[d]) \in Orders \cup Data
  BY <1>1, Served
<1>3. /\ C \in Seq(Packets) /\ H \in Seq(Packets) /\ M \in Seq(Orders \cup Data)
  BY <1>1, Sockets
<1>4. d = "master" \/ d = "client"
  BY Ends
<1>5. /\ x \in Seq(Packets) /\ y \in Seq(Packets)
      /\ toHost'["client"] = C \o x /\ toHost'["master"] = H \o y
  BY <1>2, <1>4, Ends
<1>6. /\ d = "master" => M # <<>> /\ h = Head(M) /\ toDev'["master"] = Tail(M)
      /\ d = "client" => toDev'["master"] = M
  BY <1>2, Ends DEF Serves
<1>7. /\ linked[d] <=> linked["master"]
      /\ linked'[d] <=> linked'["master"]
  <2>1. linked'["master"] <=> linked'["client"]
    BY ServedWell
  <2>2. CASE d = "master"
    BY <2>2
  <2>3. CASE d = "client"
    BY <1>1, <2>1, <2>3
  <2>4. QED
    BY <1>4, <2>2, <2>3
<1>8. SUFFICES ASSUME ~overlaid'
               PROVE  /\ Backed(C \o x, Granted)
                      /\ linked'["master"] => Asked(toDev'["master"]) \/ Knows(C \o x, Granted)
                      /\ kchan # None /\ linked'["master"] /\ ~In(H \o y, {"disc"}) =>
                           In(toDev'["master"], {"conn_req"}) \/ Knows(C \o x, Granted)
                      /\ ~refused
  <2>1. Granted' = Granted /\ kchan' = kchan /\ refused' = refused
    BY <1>2 DEF Granted
  <2>2. QED
    BY <1>5, <1>8, <2>1 DEF GrantInv
<1>9. /\ ~overlaid
      /\ In(own, Links) => In(other, Links)
      /\ In(other, Links) => ~linked["master"] /\ ~In(M, {"config_req"})
      /\ h \in Data => other = (IF linked[d] THEN <<h>> ELSE <<>>) /\ linked' = linked
      /\ h \notin Data => ~In(other, Data)
      /\ h = "disconnect" => ~linked'[d]
  BY <1>8 DEF Serves, Passes
<1>10. /\ Backed(C, Granted) /\ ~refused
       /\ linked["master"] => Asked(M) \/ Knows(C, Granted)
       /\ kchan # None /\ linked["master"] /\ ~In(H, {"disc"}) =>
            In(M, {"conn_req"}) \/ Knows(C, Granted)
  BY <1>9 DEF GrantInv
<1>11. /\ ~In(own, Data)
       /\ h # "disconnect" => ~In(own, {"disc"}) /\ ~In(other, {"disc"})
       /\ linked'[d] <=> Opens(own) \/ (linked[d] /\ ~In(own, {"disc"}))
  BY DEF Serves, Says, Tells
<1> HIDE DEF C, M, H, h, x, y
<1>12. /\ In(toDev'["master"], {"config_req"}) => In(M, {"config_req"})
       /\ In(M, {"conn_req"}) => \/ In(toDev'["master"], {"conn_req"})
                                 \/ d = "master" /\ h = "conn_req"
  <2>1. CASE d = "client"
    BY <1>6, <2>1
  <2>2. CASE d = "master"
    <3>1. M # <<>> /\ h = Head(M) /\ toDev'["master"] = Tail(M)
      BY <1>6, <2>2
    <3>2. \A S : In(M, S) <=> Head(M) \in S \/ In(Tail(M), S)
      BY <1>3, <3>1, Reading
    <3>3. /\ In(M, {"config_req"}) <=> Head(M) = "config_req" \/ In(Tail(M), {"config_req"})
          /\ In(M, {"conn_req"}) <=> Head(M) = "conn_req" \/ In(Tail(M), {"conn_req"})
      BY <3>2
    <3>4. QED
      BY <2>2, <3>1, <3>3
  <2>3. QED
    BY <1>4, <2>1, <2>2
<1>13. ASSUME In(x, {"config_req"})
       PROVE  d = "master" /\ linked["master"] /\ h = "config_req" /\ x = <<"config_req">>
  <2>1. {"config_req"} \subseteq Data
    BY DEF Data, Asking
  <2>2. In(x, Data)
    BY <1>5, <1>13, <2>1, LastSaid
  <2>3. d = "master" /\ x = other
    BY <1>4, <1>11, <2>2 DEF x
  <2>4. h \in Data /\ other = (IF linked[d] THEN <<h>> ELSE <<>>)
    BY <1>9, <2>2, <2>3
  <2>5. linked[d]
    BY <1>13, <2>3, <2>4, Empty
  <2>6. x = <<h>>
    BY <2>3, <2>4, <2>5
  <2>7. h = "config_req"
    BY <1>13, <2>6, One
  <2>8. QED
    BY <2>3, <2>5, <2>6, <2>7
<1>14. Backed(C \o x, Granted)
  <2>1. ASSUME In(x, {"config_req"}) PROVE x = <<"config_req">> /\ Knows(C, Granted)
    <3>1. d = "master" /\ linked["master"] /\ h = "config_req" /\ x = <<"config_req">>
      BY <1>13, <2>1
    <3>2. M # <<>> /\ Head(M) = "config_req"
      BY <1>6, <3>1
    <3>3. ~Asked(M)
      <4>1. 1 \in 1..Len(M) /\ M[1] = "config_req" /\ 1..1-1 = {}
        BY <1>3, <3>2, HeadTailProperties, EmptySeq
      <4>2. QED
        BY <4>1 DEF Asked
    <3>4. QED
      BY <1>10, <3>1, <3>3
  <2>2. QED
    BY <1>3, <1>5, <1>10, <2>1, BackedJoined
<1>15. ASSUME linked["master"], linked'["master"], Knows(C, Granted) PROVE Knows(C \o x, Granted)
  <2>1. ~In(own, Links) /\ ~In(other, Links)
    BY <1>9, <1>15
  <2>2. ~In(own, {"disc"}) /\ ~In(other, {"disc"})
    BY <1>7, <1>9, <1>11, <1>15
  <2>3. ~In(x, Links) /\ ~In(x, {"disc"})
    BY <2>1, <2>2 DEF x
  <2>4. ~In(x, Cut)
    BY <2>3 DEF In, Cut
  <2>5. QED
    BY <1>3, <1>5, <1>15, <2>4, KnowsJoined
<1>16. ASSUME d = "master", linked["master"], h = "conn_req" PROVE Knows(C \o x, Granted)
  <2>1. h \in Data
    BY <1>16 DEF Data, Asking
  <2>2. x = <<"conn_req">>
    BY <1>9, <1>16, <2>1, Ends DEF x
  <2>3. "conn_req" \in Packets
    BY DEF Packets, Data, Asking
  <2>4. QED
    BY <1>3, <2>2, <2>3, KnowsAsked
<1>17. ASSUME linked'["master"] PROVE Asked(toDev'["master"]) \/ Knows(C \o x, Granted)
  <2>1. CASE ~linked["master"]
    <3>1. Opens(own)
      BY <1>7, <1>11, <1>17, <2>1
    <3>2. In(own, Links)
      BY <1>2, <3>1, LastSaid
    <3>3. ~In(M, {"config_req"})
      BY <1>9, <3>2
    <3>4. ~In(toDev'["master"], {"config_req"})
      BY <1>12, <3>3
    <3>5. QED
      BY <3>4, NoRequest
  <2>2. CASE linked["master"]
    <3>1. Asked(M) \/ Knows(C, Granted)
      BY <1>10, <2>2
    <3>2. CASE Asked(M) /\ ~(d = "master" /\ h = "conn_req")
      BY <1>3, <1>4, <1>6, <3>2, AskedRead
    <3>3. QED
      BY <1>15, <1>16, <1>17, <2>2, <3>1, <3>2
  <2>3. QED
    BY <2>1, <2>2
<1>18. ASSUME kchan # None, linked'["master"], ~In(H \o y, {"disc"})
       PROVE  In(toDev'["master"], {"conn_req"}) \/ Knows(C \o x, Granted)
  <2>1. ~In(H, {"disc"})
    BY <1>3, <1>5, <1>18, Writing
  <2>2. linked["master"]
    BY <1>18, <2>1, ChanThere DEF H
  <2>3. In(M, {"conn_req"}) \/ Knows(C, Granted)
    BY <1>10, <1>18, <2>1, <2>2
  <2>4. CASE In(M, {"conn_req"}) /\ ~(d = "master" /\ h = "conn_req")
    BY <1>12, <2>4
  <2>5. QED
    BY <1>15, <1>16, <1>18, <2>2, <2>3, <2>4
<1>19. QED
  BY <1>10, <1>14, <1>17, <1>18

\* A channel that is entered is one of the newest entry.
LEMMA EnteredFirst ==
  ASSUME TypeOK, conns # <<>>, NEW c \in {"own", "theirs"}, Channel(c)
  PROVE  conns' # <<>> /\ conns'[1] = conns[1] \cup {c}
<1>1. conns \in Seq(SUBSET {"own", "theirs"})
  BY DEF TypeOK
<1>2. 1 \in DOMAIN conns
  BY <1>1, EmptySeq, LenProperties
<1>3. conns' = [conns EXCEPT ![1] = conns[1] \cup {c}]
  BY DEF Channel
<1>4. QED
  BY <1>2, <1>3, Entered

\* What bthost reads makes the channels it knows, and a rejection is of one it
\* does not know.
LEMMA HostGrants ==
  ASSUME TypeOK, Host, ~unheard', NEW h, h = Head(toHost["client"])
  PROVE  /\ h = "conn_req" => Granted'
         /\ Granted /\ h \notin Cut => Granted'
         /\ refused' => refused \/ (h = "config_req" /\ ~Granted)
<1>1. Links \cup {"disc"} = Cut
  BY DEF Cut
<1>2. CASE EvtCmd \/ EvtConnRequest \/ EvtIgnored \/ AclOther \/ AclParamReq
  <2>1. conns' = conns /\ refused' = refused
    BY <1>2 DEF EvtCmd, EvtConnRequest, EvtIgnored, AclOther, AclParamReq, bthost
  <2>2. h # "conn_req"
    BY <1>2 DEF EvtCmd, EvtConnRequest, EvtIgnored, AclOther, AclParamReq, Gets
  <2>3. QED
    BY <2>1, <2>2 DEF Granted
<1>3. CASE EvtConnComplete \/ EvtDisconnComplete
  <2>1. h \in Cut /\ refused' = refused
    BY <1>1, <1>3 DEF EvtConnComplete, EvtDisconnComplete, Gets, Links
  <2>2. h # "conn_req"
    BY <2>1 DEF Cut, Links
  <2>3. QED
    BY <2>1, <2>2
<1>4. CASE AclUnknown
  BY <1>4 DEF AclUnknown
<1>5. CASE AclConnReq
  <2>1. conns # <<>> /\ Channel("theirs") /\ refused' = refused
    BY <1>5 DEF AclConnReq
  <2>2. conns' # <<>> /\ conns'[1] = conns[1] \cup {"theirs"}
    BY <2>1, EnteredFirst
  <2>3. QED
    BY <2>1, <2>2 DEF Granted
<1>6. CASE AclConnRsp
  <2>1. conns # <<>> /\ Channel("own") /\ refused' = refused /\ h # "conn_req"
    BY <1>6 DEF AclConnRsp, Gets
  <2>2. conns' # <<>> /\ conns'[1] = conns[1] \cup {"own"}
    BY <2>1, EnteredFirst
  <2>3. QED
    BY <2>1, <2>2 DEF Granted
<1>7. CASE AclConfigReq
  <2>1. conns' = conns /\ h = "config_req"
    BY <1>7 DEF AclConfigReq, Gets
  <2>2. refused' => refused \/ "theirs" \notin conns[1]
    BY <1>7 DEF AclConfigReq
  <2>3. QED
    BY <2>1, <2>2 DEF Granted
<1>8. QED
  BY <1>2, <1>3, <1>4, <1>5, <1>6, <1>7 DEF Host

LEMMA HostGrant ==
  ASSUME EmuInv, EmuInv', GrantInv, Host
  PROVE  GrantInv'
<1> DEFINE C == toHost["client"]
<1>1. TypeOK /\ ~unheard' /\ (ncmd = 1 => tail = None)
  BY DEF EmuInv, NoStaleHandle, FlowInv, CommandsFlow
<1>2. PICK s : Listens(s)
  BY <1>1, HostListens
<1>3. C \in Seq(Packets) /\ C # <<>> /\ toHost' = [toHost EXCEPT !["client"] = Tail(@)]
  BY <1>1, <1>2, Sockets DEF Listens
<1>4. /\ toHost'["client"] = Tail(C) /\ toHost'["master"] = toHost["master"]
      /\ toDev'["master"] = toDev["master"]
  <2>1. toHost \in [Devices -> Seq(Packets)]
    BY <1>1, Sockets
  <2>2. s \in Seq(Own \cup Data) /\ toDev' = [toDev EXCEPT !["client"] = @ \o s]
    BY <1>2 DEF Listens, Handles, Spends
  <2>3. QED
    BY <1>1, <1>3, <2>1, <2>2, HostSends, Ends
<1>5. UNCHANGED <<linked, overlaid, kchan>>
  BY <1>2 DEF Listens, Handles, device, kernel
<1>6. /\ Head(C) = "conn_req" => Granted'
      /\ Granted /\ Head(C) \notin Cut => Granted'
      /\ refused' => refused \/ (Head(C) = "config_req" /\ ~Granted)
  BY <1>1, HostGrants
<1>7. SUFFICES ASSUME ~overlaid
               PROVE  /\ Backed(Tail(C), Granted')
                      /\ linked["master"] => Asked(toDev["master"]) \/ Knows(Tail(C), Granted')
                      /\ kchan # None /\ linked["master"] /\ ~In(toHost["master"], {"disc"}) =>
                           In(toDev["master"], {"conn_req"}) \/ Knows(Tail(C), Granted')
                      /\ ~refused'
  BY <1>4, <1>5 DEF GrantInv
<1>8. /\ Backed(C, Granted) /\ ~refused
      /\ linked["master"] => Asked(toDev["master"]) \/ Knows(C, Granted)
      /\ kchan # None /\ linked["master"] /\ ~In(toHost["master"], {"disc"}) =>
           In(toDev["master"], {"conn_req"}) \/ Knows(C, Granted)
  BY <1>7 DEF GrantInv
<1> HIDE DEF C
<1>9. /\ Knows(C, Granted) => Knows(Tail(C), Granted')
      /\ Backed(C, Granted) => Backed(Tail(C), Granted')
  BY <1>3, <1>6, KnowsRead
<1>10. Head(C) = "config_req" => Granted
  <2>1. SUFFICES ASSUME Head(C) = "config_req" PROVE Granted
    OBVIOUS
  <2>2. 1 \in 1..Len(C) /\ C[1] = "config_req" /\ 1 - 1 = 0
    BY <1>3, <2>1, HeadTailProperties, EmptySeq
  <2>3. KnowsAt(C, 0, Granted)
    BY <1>8, <2>2 DEF Backed
  <2>4. 1..0 = {}
    OBVIOUS
  <2>5. QED
    BY <2>3, <2>4 DEF KnowsAt
<1>11. QED
  BY <1>6, <1>8, <1>9, <1>10

\* A step that leaves what bthost reads, and what it knows.
LEMMA SameGrant ==
  ASSUME GrantInv, UNCHANGED <<linked, overlaid, kchan, conns, refused>>,
         toHost' = toHost, toDev'["master"] = toDev["master"]
  PROVE  GrantInv'
BY DEF GrantInv, Granted

\* The kernel gives a command: a reset makes it forget its channel.
LEMMA KernelSendGrant ==
  ASSUME EmuInv, GrantInv, NEW op \in Commands, KernelSend(op)
  PROVE  GrantInv'
<1> DEFINE M == toDev["master"]
<1>1. TypeOK
  BY DEF EmuInv
<1>2. /\ UNCHANGED <<linked, overlaid, conns, refused, toHost>>
      /\ toDev' = [toDev EXCEPT !["master"] = Append(@, op)]
      /\ kchan' # None => kchan # None
  BY DEF KernelSend, device, bthost
<1>3. op \in Orders \cup Data /\ op # "config_req" /\ M \in Seq(Orders \cup Data)
  BY <1>1, KernelAssumption, Kinds, Sockets DEF Data, Asking
<1>4. \A S : In(toDev'["master"], S) <=> In(M, S) \/ op \in S
  BY <1>1, <1>2, KernelSends
<1>5. toDev'["master"] = Append(M, op)
  BY <1>1, <1>2, Sockets, Ends
<1>6. Asked(M) => Asked(toDev'["master"])
  BY <1>3, <1>5, AskedJoined
<1>7. Granted' = Granted
  BY <1>2 DEF Granted
<1>8. QED
  BY <1>2, <1>4, <1>6, <1>7 DEF GrantInv

\* It sends a configuration on a channel that was granted, and on the connection
\* the channel is of unless it has yet to read that it was closed.
LEMMA KernelDataGrant ==
  ASSUME EmuInv, ChanInv, GrantInv, NEW pdu \in Sent, KernelData(pdu)
  PROVE  GrantInv'
<1> DEFINE M == toDev["master"]  H == toHost["master"]
<1>1. TypeOK
  BY DEF EmuInv
<1>2. /\ UNCHANGED <<linked, conns, refused, toHost>>
      /\ toDev' = [toDev EXCEPT !["master"] = Append(@, pdu)]
      /\ kchan' = IF pdu = "conn_req" THEN "wait" ELSE kchan
      /\ overlaid' = (overlaid \/ (pdu = "config_req" /\ linked["master"] /\ In(H, {"disc"})))
      /\ pdu = "config_req" => kchan = "open"
  BY DEF KernelData, bthost, May
<1>3. pdu \in Orders \cup Data /\ M \in Seq(Orders \cup Data)
  BY <1>1, KernelAssumption, Sockets
<1>4. \A S : In(toDev'["master"], S) <=> In(M, S) \/ pdu \in S
  BY <1>1, <1>2, KernelSends
<1>5. toDev'["master"] = Append(M, pdu)
  BY <1>1, <1>2, Sockets, Ends
<1>6. Granted' = Granted
  BY <1>2 DEF Granted
<1>7. SUFFICES ASSUME ~overlaid'
               PROVE  /\ linked["master"] => Asked(toDev'["master"]) \/ Knows(toHost["client"], Granted)
                      /\ kchan' # None /\ linked["master"] /\ ~In(H, {"disc"}) =>
                           In(toDev'["master"], {"conn_req"}) \/ Knows(toHost["client"], Granted)
  BY <1>2, <1>6 DEF GrantInv
<1>8. /\ ~overlaid /\ ~(pdu = "config_req" /\ linked["master"] /\ In(H, {"disc"}))
      /\ linked["master"] => Asked(M) \/ Knows(toHost["client"], Granted)
      /\ kchan # None /\ linked["master"] /\ ~In(H, {"disc"}) =>
           In(M, {"conn_req"}) \/ Knows(toHost["client"], Granted)
  BY <1>2, <1>7 DEF GrantInv
<1>9. "open" # None
  BY DEF None
<1> HIDE DEF M, H
<1>10. ASSUME linked["master"], ~Knows(toHost["client"], Granted) PROVE Asked(toDev'["master"])
  <2>1. Asked(M)
    BY <1>8, <1>10
  <2>2. pdu = "config_req" => In(M, {"conn_req"})
    BY <1>2, <1>8, <1>9, <1>10
  <2>3. QED
    BY <1>3, <1>5, <2>1, <2>2, AskedJoined
<1>11. ASSUME kchan' # None, linked["master"], ~In(H, {"disc"}), ~Knows(toHost["client"], Granted)
       PROVE  In(toDev'["master"], {"conn_req"})
  BY <1>2, <1>4, <1>8, <1>11
<1>12. QED
  BY <1>10, <1>11

\* It forgets its channel with the connection, and keeps it otherwise.
LEMMA KernelReadsGrant ==
  ASSUME EmuInv, ChanInv, GrantInv, KernelReads
  PROVE  GrantInv'
<1> DEFINE H == toHost["master"]  ev == Head(H)
<1>1. TypeOK /\ (kcmd = "reset" => klink = None)
  BY DEF EmuInv, DiscInv
<1>2. /\ UNCHANGED <<linked, overlaid, conns, refused, toDev>>
      /\ H # <<>> /\ toHost' = [toHost EXCEPT !["master"] = Tail(@)]
      /\ kchan' = CASE kcmd # "reset" /\ ev = "disc" -> None
                    [] kcmd # "reset" /\ ev = "conn_rsp" /\ kchan = "wait" -> "open"
                    [] OTHER -> kchan
  BY DEF KernelReads, device, bthost
<1>3. "wait" # None /\ "open" # None
  BY DEF None
<1>4. kchan' # None => kchan # None /\ ev # "disc"
  <2>1. CASE kcmd = "reset"
    BY <1>1, <1>2, <2>1 DEF ChanInv
  <2>2. CASE kcmd # "reset"
    BY <1>2, <1>3, <2>2
  <2>3. QED
    BY <2>1, <2>2
<1>5. H \in Seq(Packets) /\ toHost \in [Devices -> Seq(Packets)]
  BY <1>1, Sockets
<1>6. toHost'["client"] = toHost["client"] /\ toHost'["master"] = Tail(H)
  BY <1>2, <1>5, Ends
<1>7. In(H, {"disc"}) <=> ev = "disc" \/ In(Tail(H), {"disc"})
  BY <1>2, <1>5, Reading
<1>8. Granted' = Granted
  BY <1>2 DEF Granted
<1> HIDE DEF ev
<1>9. QED
  BY <1>2, <1>4, <1>6, <1>7, <1>8 DEF GrantInv

LEMMA KeepsChannel ==
  ASSUME ChanInv, EmuInv, Next
  PROVE  ChanInv'
<1>1. CASE (\E d \in Devices : Device(d)) \/ Start \/ Call \/ Host \/ KernelTimeout
  <2>1. UNCHANGED <<kchan, klink>>
    <3>1. ASSUME NEW d \in Devices, Device(d) PROVE UNCHANGED kernel
      BY <3>1 DEF Device, Unsupported, Setting, WriteScan, SetAdv, SetLeScan, Inquiry, AskRemote,
                  CreateConn, CancelOrReject, Accept, LeCreate, Disconnect, Voice, Forward
    <3>2. CASE Host
      BY <3>2 DEF Host, EvtCmd, EvtConnRequest, EvtConnComplete, EvtDisconnComplete, EvtIgnored,
                  AclUnknown, AclConnReq, AclConnRsp, AclConfigReq, AclOther, AclParamReq, kernel
    <3>3. QED
      BY <1>1, <3>1, <3>2 DEF Start, Call, KernelTimeout, kernel
  <2>2. QED
    BY <2>1 DEF ChanInv
<1>2. CASE \E op \in Commands : KernelSend(op)
  BY <1>2 DEF KernelSend, ChanInv
<1>3. CASE KernelReads
  <2> DEFINE ends == kcmd # "reset" /\ Head(toHost["master"]) = "disc"
  <2>1. "wait" # None /\ "open" # None /\ "classic" # None /\ "le" # None
    BY DEF None
  <2>2. /\ ends => kchan' = None
        /\ ~ends => (kchan' # None => kchan # None) /\ (klink # None => klink' # None)
    BY <1>3, <2>1 DEF KernelReads
  <2>3. QED
    BY <2>2 DEF ChanInv
<1>4. CASE \E pdu \in Sent : KernelData(pdu)
  <2>1. PICK pdu \in Sent : KernelData(pdu)
    BY <1>4
  <2>2. "classic" # None /\ klink' = klink
    BY <2>1 DEF None, KernelData
  <2>3. CASE pdu = "conn_req"
    BY <2>1, <2>2, <2>3 DEF KernelData, May, ChanInv
  <2>4. CASE pdu # "conn_req"
    BY <2>1, <2>2, <2>4 DEF KernelData, ChanInv
  <2>5. QED
    BY <2>3, <2>4
<1>5. QED
  BY <1>1, <1>2, <1>3, <1>4 DEF Next, Kernel

RefusalInv == EmuInv /\ ChanInv /\ GrantInv

LEMMA RefusalStep ==
  ASSUME RefusalInv, [Next]_vars
  PROVE  RefusalInv'
<1>1. EmuInv /\ ChanInv /\ GrantInv
  BY DEF RefusalInv
<1>2. EmuInv'
  BY <1>1, StepInv
<1>3. CASE Next
  <2>1. ChanInv'
    BY <1>1, <1>3, KeepsChannel
  <2>2. ASSUME NEW d \in Devices, Device(d) PROVE GrantInv'
    <3>1. TypeOK /\ ~crashed /\ (linked["master"] <=> linked["client"])
      BY <1>1 DEF EmuInv, NoStaleHandle, LinkInv, HostsAgree
    <3>2. PICK own, other : Serves(d, own, other)
      BY <2>2, <3>1, DeviceServes
    <3>3. QED
      BY <1>1, <3>2, ServedGrant
  <2>3. ASSUME Start \/ Call PROVE GrantInv'
    <3>1. UNCHANGED <<device, toHost, conns, refused, kernel>>
      BY <2>3 DEF Start, Call
    <3>2. toDev'["master"] = toDev["master"]
      <4>1. toDev \in [Devices -> Seq(Orders \cup Data)]
        BY <1>1, Sockets DEF EmuInv
      <4>2. QED
        BY <2>3, <4>1, Ends DEF Start, Call, Command
    <3>3. QED
      BY <1>1, <3>1, <3>2, SameGrant DEF device, kernel
  <2>4. ASSUME Host PROVE GrantInv'
    BY <1>1, <1>2, <2>4, HostGrant
  <2>5. ASSUME NEW op \in Commands, KernelSend(op) PROVE GrantInv'
    BY <1>1, <2>5, KernelSendGrant
  <2>6. ASSUME NEW pdu \in Sent, KernelData(pdu) PROVE GrantInv'
    BY <1>1, <2>6, KernelDataGrant
  <2>7. ASSUME KernelTimeout PROVE GrantInv'
    <3>1. UNCHANGED <<linked, overlaid, kchan, conns, refused, toDev, toHost>>
      BY <2>7 DEF KernelTimeout, device, bthost
    <3>2. QED
      BY <1>1, <3>1, SameGrant
  <2>8. ASSUME KernelReads PROVE GrantInv'
    BY <1>1, <2>8, KernelReadsGrant
  <2>9. QED
    BY <1>2, <1>3, <2>1, <2>2, <2>3, <2>4, <2>5, <2>6, <2>7, <2>8 DEF Next, Kernel, RefusalInv
<1>4. CASE UNCHANGED vars
  <2>1. UNCHANGED <<linked, overlaid, toDev, toHost, conns, refused, kchan, klink>>
    BY <1>4 DEF vars, device, bthost, kernel
  <2>2. GrantInv' /\ ChanInv'
    BY <1>1, <2>1, SameGrant DEF ChanInv
  <2>3. QED
    BY <1>2, <2>2 DEF RefusalInv
<1>5. QED
  BY <1>3, <1>4

LEMMA RefusalInit ==
  Init => RefusalInv
<1>1. SUFFICES ASSUME Init PROVE RefusalInv
  OBVIOUS
<1>2. EmuInv
  BY <1>1, InitInv
<1>3. /\ toHost["client"] = <<>> /\ toDev["master"] = <<>> /\ kchan = None /\ ~refused
      /\ linked["master"] = FALSE
  BY <1>1, Ends DEF Init
<1>4. Backed(<<>>, Granted)
  BY DEF Backed
<1>5. QED
  BY <1>2, <1>3, <1>4 DEF RefusalInv, ChanInv, GrantInv

-----------------------------------------------------------------------------
\* Every state of the emulation is well typed: a packet in a socket is one that
\* socket can carry, and bthost's command credit is 0 or 1 (bthost.c:218-410).
THEOREM TypeCorrect == Spec => []TypeOK
BY AlwaysEmuInv, PTL DEF EmuInv

\* The two controllers and the two hosts come to agree on whether there is a
\* connection, whatever the kernel and the test do (btdev.c:714-880).
THEOREM HostsAgreeAlways == Spec => []HostsAgree
<1>1. EmuInv => HostsAgree
  BY DEF EmuInv, LinkInv
<1>2. QED
  BY <1>1, AlwaysEmuInv, PTL

\* No data reaches bthost without an entry for its handle, and no controller
\* follows a pointer to a connection that is gone (btdev.c:869-874, bthost.c:985-988).
THEOREM HandlesGood == Spec => []NoStaleHandle
BY AlwaysEmuInv, PTL DEF EmuInv

\* In each direction one command at most is under way, every one is answered
\* once, and bthost keeps none back while it may send (bthost.c:373-410).
THEOREM CommandsAnswered == Spec => []CommandsFlow
<1>1. EmuInv => CommandsFlow
  BY DEF EmuInv, FlowInv
<1>2. QED
  BY <1>1, AlwaysEmuInv, PTL

\* bthost rejects the configuration of a channel it has granted only when the
\* controllers made a connection over one that was there, or passed the request
\* on over a later connection than it was sent on (bthost.c:727-729,
\* btdev.c:714-760).
THEOREM GrantedKnown == Spec => []RefusedOnlyOverlaid
<1>1. RefusalInv => RefusedOnlyOverlaid
  BY DEF RefusalInv, GrantInv, RefusedOnlyOverlaid
<1>2. QED
  BY <1>1, RefusalInit, RefusalStep, PTL DEF Spec

=============================================================================
