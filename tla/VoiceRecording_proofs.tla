----------------------- MODULE VoiceRecording_proofs -----------------------
(***************************************************************************)
(* Proofs about VoiceRecording: what is in the two queues between the main *)
(* thread and its worker, and what the worker knows of the participants    *)
(* when it comes to each message.  The last part is about                  *)
(* VoiceDirectional: what a user finds in such a recording afterwards.     *)
(***************************************************************************)
EXTENDS VoiceRecording, FiniteSetTheorems, SequenceTheorems, TLAPS

\* A set that is not empty and holds natural numbers only has a least one.
LEMMA LeastNumber ==
  ASSUME NEW S \in SUBSET Nat, S # {}
  PROVE  Min(S) \in S /\ \A n \in S : Min(S) <= n
<1>1. IsWellFoundedOn(OpToRel(<, Nat), Nat)
  BY NatLessThanWellFounded
<1>2. PICK m \in S : \A n \in S : ~(<<n, m>> \in OpToRel(<, Nat))
  BY <1>1, WFMin
<1>3. \A n \in S : ~(n < m)
  BY <1>2 DEF OpToRel
<1>4. \A n \in S : m =< n
  BY <1>3
<1> QED
  BY <1>4 DEF Min

\* Induction over the natural numbers, for a set of them.
LEMMA AllNaturals ==
  ASSUME NEW S \in SUBSET Nat, 0 \in S, \A n \in S : n + 1 \in S
  PROVE  \A n \in Nat : n \in S
<1> SUFFICES ASSUME Nat \ S # {} PROVE FALSE
  OBVIOUS
<1>1. PICK n \in Nat \ S : \A m \in Nat \ S : n <= m
  BY LeastNumber
<1>2. n - 1 \in Nat /\ n - 1 \in S
  BY <1>1
<1> QED
  BY <1>1, <1>2

\* SetToSeq lists the elements of a set of connections.
LEMMA ListOf ==
  ASSUME NEW S \in SUBSET Connections
  PROVE  /\ Cardinality(S) \in Nat
         /\ SetToSeq(S) \in [1 .. Cardinality(S) -> S]
         /\ \A c \in S : \E i \in 1 .. Cardinality(S) : SetToSeq(S)[i] = c
<1>1. IsFiniteSet(S)
  BY RecordingAssumption, FS_Subset
<1>2. Cardinality(S) \in Nat /\ ExistsBijection(1 .. Cardinality(S), S)
  BY <1>1, FS_CardinalityType
<1>3. \E f \in [1 .. Cardinality(S) -> S] : \A a, b \in DOMAIN f : f[a] = f[b] => a = b
  BY <1>2 DEF ExistsBijection, Bijection, Injection, IsInjective
<1> DEFINE list == SetToSeq(S)
<1>4. /\ list \in [1 .. Cardinality(S) -> S]
      /\ \A a, b \in DOMAIN list : list[a] = list[b] => a = b
  BY <1>3, Zenon DEF SetToSeq, IsInjective
<1>5. list \in Injection(1 .. Cardinality(S), S)
  BY <1>4 DEF Injection, IsInjective
<1>6. IsFiniteSet(1 .. Cardinality(S)) /\ Cardinality(1 .. Cardinality(S)) = Cardinality(S)
  BY <1>2, FS_Interval
<1>7. list \in Surjection(1 .. Cardinality(S), S)
  BY <1>1, <1>2, <1>5, <1>6, FS_Injection DEF Injection
<1> QED
  BY <1>2, <1>4, <1>7 DEF Surjection

-----------------------------------------------------------------------------
(* What the worker knows as it works off its queue *)

Kinds == {"unknown", "left", "no", "yes"}

Views == [Connections -> Kinds]

Reports == {About(type, c) : type \in {"joined", "left", "granted", "revoked", "frame"},
                             c \in Connections}

\* w has what the worker knows before each of the first n messages of q, and after them.
Learns(w, v, q, n) ==
  /\ w \in [1 .. n + 1 -> Views]
  /\ w[1] = v
  /\ \A i \in 1 .. n : w[i + 1] = After(w[i], q[i])

\* A report is about one participant; a start replaces what the worker knows.
LEMMA AfterReport ==
  ASSUME NEW v \in Views, NEW m \in Reports
  PROVE  /\ m.of \in Connections /\ m.type # "start" /\ m.type # "stop"
         /\ After(v, m) \in Views
         /\ After(v, m)[m.of] = Turned(v[m.of], m.type)
         /\ \A c \in Connections : c # m.of => After(v, m)[c] = v[c]
<1>1. PICK type \in {"joined", "left", "granted", "revoked", "frame"},
           c \in Connections : m = About(type, c)
  BY DEF Reports
<1>2. m.of = c /\ m.type = type /\ m.type # "start" /\ m.type # "stop"
  BY <1>1 DEF About
<1>3. After(v, m) = [v EXCEPT ![c] = Turned(v[c], type)]
  BY <1>2 DEF After
<1>4. Turned(v[c], type) \in Kinds
  BY DEF Turned, Views, Kinds
<1> QED BY <1>2, <1>3, <1>4 DEF Views

\* What is known stays of its type.
LEMMA AfterType ==
  ASSUME NEW v \in Views, NEW m \in Messages
  PROVE  After(v, m) \in Views
<1>1. CASE m \in Reports
  BY <1>1, AfterReport
<1>2. CASE \E u \in [Connections -> {"unknown", "no", "yes"}] : m = Start(u)
  BY <1>2 DEF After, Start, Views, Kinds
<1>3. CASE m = Stop
  BY <1>3 DEF After, Stop
<1> QED BY <1>1, <1>2, <1>3 DEF Messages, Reports

\* Whatever the queue holds, the worker learns something from it.
LEMMA LearnsFrom ==
  ASSUME NEW v \in Views, NEW q \in Seq(Messages)
  PROVE  \E w : Learns(w, v, q, Len(q))
<1> DEFINE S == {n \in Nat : n <= Len(q) => \E w : Learns(w, v, q, n)}
<1>1. 0 \in S
  <2>1. Learns([i \in 1 .. 1 |-> v], v, q, 0)
    BY DEF Learns
  <2> QED BY <2>1
<1>2. ASSUME NEW n \in S PROVE n + 1 \in S
  <2>1. SUFFICES ASSUME n + 1 <= Len(q) PROVE \E w : Learns(w, v, q, n + 1)
    OBVIOUS
  <2>2. PICK w : Learns(w, v, q, n)
    BY <2>1
  <2>3. q[n + 1] \in Messages /\ w[n + 1] \in Views
    BY <2>1, <2>2 DEF Learns
  <2> DEFINE next == [i \in 1 .. n + 2 |-> IF i = n + 2 THEN After(w[n + 1], q[n + 1]) ELSE w[i]]
  <2>4. next \in [1 .. (n + 1) + 1 -> Views]
    BY <2>2, <2>3, AfterType DEF Learns
  <2>5. \A i \in 1 .. n + 1 : next[i + 1] = After(next[i], q[i])
    BY <2>2 DEF Learns
  <2>6. next[1] = v
    BY <2>2 DEF Learns
  <2>7. Learns(next, v, q, n + 1)
    BY <2>4, <2>5, <2>6 DEF Learns
  <2> QED BY <2>7
<1>3. S \in SUBSET Nat
  OBVIOUS
<1> HIDE DEF S
<1>4. Len(q) \in S
  BY <1>1, <1>2, <1>3, AllNaturals
<1> QED BY <1>4 DEF S

\* all is what it learns from q, which is w, and after that from r, which is u.
LearnsBoth(all, v, q, w, r, u) ==
  /\ Learns(all, v, q \o r, Len(q) + Len(r))
  /\ \A i \in 1 .. Len(q) + 1 : all[i] = w[i]
  /\ \A i \in 1 .. Len(r) + 1 : all[Len(q) + i] = u[i]

\* What is learned from one queue after another is learned from both.
LEMMA LearnsMore ==
  ASSUME NEW v, NEW q \in Seq(Messages), NEW r \in Seq(Messages), NEW w, NEW u,
         Learns(w, v, q, Len(q)), Learns(u, w[Len(q) + 1], r, Len(r))
  PROVE  \E all : LearnsBoth(all, v, q, w, r, u)
<1>1. Len(q \o r) = Len(q) + Len(r) /\ Len(q) \in Nat /\ Len(r) \in Nat
  OBVIOUS
<1> DEFINE all == [i \in 1 .. Len(q) + Len(r) + 1 |->
                     IF i <= Len(q) + 1 THEN w[i] ELSE u[i - Len(q)]]
<1>2. all \in [1 .. Len(q \o r) + 1 -> Views]
  BY <1>1 DEF Learns
<1>3. \A i \in 1 .. Len(q) + 1 : all[i] = w[i]
  BY <1>1
<1>4. \A i \in 1 .. Len(r) + 1 : all[Len(q) + i] = u[i]
  BY <1>1 DEF Learns
<1>5. \A i \in 1 .. Len(q \o r) : all[i + 1] = After(all[i], (q \o r)[i])
  <2>1. ASSUME NEW i \in 1 .. Len(q) PROVE all[i + 1] = After(all[i], (q \o r)[i])
    <3>1. (q \o r)[i] = q[i]
      OBVIOUS
    <3> QED BY <1>1, <1>3, <3>1 DEF Learns
  <2>2. ASSUME NEW i \in 1 .. Len(r)
        PROVE  all[Len(q) + i + 1] = After(all[Len(q) + i], (q \o r)[Len(q) + i])
    <3>1. (q \o r)[Len(q) + i] = r[i]
      OBVIOUS
    <3>2. all[Len(q) + i] = u[i] /\ all[Len(q) + (i + 1)] = u[i + 1]
      BY <1>4
    <3> HIDE DEF all
    <3> QED BY <1>1, <3>1, <3>2 DEF Learns
  <2> HIDE DEF all
  <2>3. \A i \in 1 .. Len(q) + Len(r) : i \in 1 .. Len(q) \/ i - Len(q) \in 1 .. Len(r)
    BY <1>1
  <2>4. ASSUME NEW i \in 1 .. Len(q \o r), i - Len(q) \in 1 .. Len(r)
        PROVE  all[i + 1] = After(all[i], (q \o r)[i])
    <3>1. i = Len(q) + (i - Len(q)) /\ i + 1 = Len(q) + (i - Len(q)) + 1
      BY <1>1
    <3> QED BY <2>2, <2>4, <3>1
  <2> QED BY <1>1, <2>1, <2>3, <2>4
<1>6. all[1] = v
  BY <1>1, <1>3 DEF Learns
<1>7. Learns(all, v, q \o r, Len(q) + Len(r))
  BY <1>1, <1>2, <1>5, <1>6 DEF Learns
<1> HIDE DEF all
<1> QED BY <1>3, <1>4, <1>7 DEF LearnsBoth

\* What the reports about a participant from the j-th on keep true of him stays so.
LEMMA KeptBy ==
  ASSUME NEW v, NEW q \in Seq(Reports), NEW w, Learns(w, v, q, Len(q)),
         NEW c \in Connections, NEW T, NEW j \in 1 .. Len(q) + 1, w[j][c] \in T,
         \A i \in j .. Len(q) : \A x \in T : q[i].of = c => Turned(x, q[i].type) \in T
  PROVE  w[Len(q) + 1][c] \in T
<1> DEFINE S == {n \in Nat : j + n <= Len(q) + 1 => w[j + n][c] \in T}
<1>1. 0 \in S
  OBVIOUS
<1>2. ASSUME NEW n \in S PROVE n + 1 \in S
  <2>1. SUFFICES ASSUME j + (n + 1) <= Len(q) + 1 PROVE w[j + (n + 1)][c] \in T
    OBVIOUS
  <2>2. j + n \in j .. Len(q) /\ j + n \in 1 .. Len(q) /\ w[j + n][c] \in T
    BY <2>1
  <2>3. w[(j + n) + 1] = After(w[j + n], q[j + n]) /\ w[j + n] \in Views
    BY <2>2 DEF Learns
  <2>4. q[j + n] \in Reports
    BY <2>2
  <2>5. w[(j + n) + 1][c] \in T
    <3>1. CASE q[j + n].of = c
      <4>1. Turned(w[j + n][c], q[j + n].type) \in T
        BY <2>2, <3>1
      <4>2. After(w[j + n], q[j + n])[q[j + n].of] = Turned(w[j + n][q[j + n].of], q[j + n].type)
        BY <2>3, <2>4, AfterReport
      <4> QED BY <2>3, <3>1, <4>1, <4>2
    <3>2. CASE q[j + n].of # c
      <4>1. After(w[j + n], q[j + n])[c] = w[j + n][c]
        BY <2>3, <2>4, <3>2, AfterReport
      <4> QED BY <2>2, <2>3, <4>1
    <3> QED BY <3>1, <3>2
  <2> QED BY <2>5
<1>3. S \in SUBSET Nat
  OBVIOUS
<1> HIDE DEF S
<1>4. Len(q) + 1 - j \in Nat /\ Len(q) + 1 - j \in S
  BY <1>1, <1>2, <1>3, AllNaturals
<1> QED BY <1>4 DEF S

-----------------------------------------------------------------------------
(* Messages about members and consents *)

\* Does the worker know enough for the frames of those who consent?
Fits(v, given) ==
  \A c \in Connections : /\ (given[c] = "no" => v[c] # "left")
                         /\ (given[c] = "yes" => v[c] \in {"yes", "unknown"})

MemberTypes ==
  /\ consents \in [Connections -> {"none", "no", "yes"}]
  /\ waiting \subseteq Connections /\ detached \subseteq Connections

\* The messages of two queues, one after the other.
LEMMA OfBoth ==
  ASSUME NEW X, NEW a \in Seq(X), NEW b \in Seq(X)
  PROVE  /\ a \o b \in Seq(X)
         /\ \A i \in 1 .. Len(a \o b) : \/ i \in 1 .. Len(a) /\ (a \o b)[i] = a[i]
                                        \/ \E k \in 1 .. Len(b) : (a \o b)[i] = b[k]
         /\ \A k \in 1 .. Len(b) : /\ Len(a) + k \in 1 .. Len(a \o b)
                                   /\ (a \o b)[Len(a) + k] = b[k]
<1>1. a \o b \in Seq(X) /\ Len(a \o b) = Len(a) + Len(b) /\ Len(a) \in Nat /\ Len(b) \in Nat
  OBVIOUS
<1>2. \A k \in 1 .. Len(b) : (a \o b)[Len(a) + k] = b[k]
  OBVIOUS
<1>3. ASSUME NEW i \in 1 .. Len(a \o b)
      PROVE  \/ i \in 1 .. Len(a) /\ (a \o b)[i] = a[i]
             \/ \E k \in 1 .. Len(b) : (a \o b)[i] = b[k]
  <2>1. CASE i <= Len(a)
    BY <1>1, <2>1
  <2>2. CASE i > Len(a)
    <3>1. i - Len(a) \in 1 .. Len(b) /\ i = Len(a) + (i - Len(a))
      BY <1>1, <2>2
    <3> QED BY <1>2, <3>1
  <2> QED BY <1>1, <2>1, <2>2
<1> QED BY <1>1, <1>2, <1>3

\* Changes reports a departure of each member that S lacks, the arrival of each that
\* it adds, and nothing else.
LEMMA ChangesAre ==
  ASSUME MemberTypes, NEW S \in SUBSET Connections
  PROVE  /\ Changes(S) \in Seq(Reports)
         /\ \A i \in 1 .. Len(Changes(S)) :
              \/ Changes(S)[i].of \in Members \ S /\ Changes(S)[i].type = "left"
              \/ Changes(S)[i].of \in S \ Members /\ Changes(S)[i].type = "joined"
         /\ \A c \in S \ Members : \E i \in 1 .. Len(Changes(S)) :
              Changes(S)[i] = About("joined", c)
<1> DEFINE Gone == Members \ S
           Added == S \ Members
           gone == [i \in 1 .. Cardinality(Gone) |-> About("left", SetToSeq(Gone)[i])]
           added == [i \in 1 .. Cardinality(Added) |-> About("joined", SetToSeq(Added)[i])]
<1>1. Gone \subseteq Connections /\ Added \subseteq Connections
  BY DEF Members
<1> HIDE DEF Gone, Added
<1>2. /\ Cardinality(Gone) \in Nat /\ SetToSeq(Gone) \in [1 .. Cardinality(Gone) -> Gone]
      /\ Cardinality(Added) \in Nat /\ SetToSeq(Added) \in [1 .. Cardinality(Added) -> Added]
      /\ \A c \in Added : \E i \in 1 .. Cardinality(Added) : SetToSeq(Added)[i] = c
  BY <1>1, ListOf
<1>3. gone \in Seq(Reports) /\ Len(gone) = Cardinality(Gone)
  BY <1>1, <1>2 DEF Reports
<1>4. added \in Seq(Reports) /\ Len(added) = Cardinality(Added)
  BY <1>1, <1>2 DEF Reports
<1>5. \A i \in 1 .. Len(gone) : gone[i].of \in Gone /\ gone[i].type = "left"
  BY <1>2, <1>3 DEF About
<1>6. \A i \in 1 .. Len(added) : added[i].of \in Added /\ added[i].type = "joined"
  BY <1>2, <1>4 DEF About
<1>7. \A c \in Added : \E i \in 1 .. Len(added) : added[i] = About("joined", c)
  BY <1>2, <1>4
<1>8. Changes(S) = gone \o added
  BY DEF Changes, Gone, Added
<1> HIDE DEF gone, added
<1>9. \A i \in 1 .. Len(Changes(S)) :
        \/ i \in 1 .. Len(gone) /\ Changes(S)[i] = gone[i]
        \/ \E k \in 1 .. Len(added) : Changes(S)[i] = added[k]
  BY <1>3, <1>4, <1>8, OfBoth
<1>10. \A i \in 1 .. Len(added) : /\ Len(gone) + i \in 1 .. Len(Changes(S))
                                  /\ Changes(S)[Len(gone) + i] = added[i]
  BY <1>3, <1>4, <1>8
<1>11. \A c \in Added : \E i \in 1 .. Len(Changes(S)) : Changes(S)[i] = About("joined", c)
  BY <1>7, <1>10
<1>12. Changes(S) \in Seq(Reports)
  BY <1>3, <1>4, <1>8
<1> QED BY <1>5, <1>6, <1>9, <1>11, <1>12 DEF Gone, Added

\* What the worker learns from Changes fits the synchronized consents.
LEMMA ChangesFit ==
  ASSUME MemberTypes, NEW S \in SUBSET Connections,
         NEW v \in Views, Fits(v, consents),
         NEW w, Learns(w, v, Changes(S), Len(Changes(S)))
  PROVE  Fits(w[Len(Changes(S)) + 1], Synchronized(S))
<1> DEFINE q == Changes(S)
           last == w[Len(q) + 1]
<1>1. q \in Seq(Reports) /\ Len(q) \in Nat
  BY ChangesAre
<1>2. \A i \in 1 .. Len(q) : \/ q[i].of \in Members \ S /\ q[i].type = "left"
                             \/ q[i].of \in S \ Members /\ q[i].type = "joined"
  BY ChangesAre
<1>3. \A c \in S \ Members : \E i \in 1 .. Len(q) : q[i] = About("joined", c)
  BY ChangesAre
<1>4. Learns(w, v, q, Len(q))
  OBVIOUS
<1> HIDE DEF q
<1>5. ASSUME NEW c \in Connections, c \in S, c \in Members PROVE last[c] = v[c]
  <2>1. w[1][c] \in {v[c]}
    BY <1>4 DEF Learns
  <2>2. \A i \in 1 .. Len(q) : \A x \in {v[c]} : q[i].of = c => Turned(x, q[i].type) \in {v[c]}
    BY <1>2, <1>5
  <2>3. 1 \in 1 .. Len(q) + 1
    BY <1>1
  <2>4. last[c] \in {v[c]}
    BY <1>1, <1>4, <2>1, <2>2, <2>3, KeptBy
  <2> QED BY <2>4
<1>6. ASSUME NEW c \in Connections, c \in S, c \notin Members PROVE last[c] = "no"
  <2>1. PICK i \in 1 .. Len(q) : q[i] = About("joined", c)
    BY <1>3, <1>6
  <2>2. w[i + 1] = After(w[i], q[i]) /\ w[i] \in Views /\ q[i] \in Reports
    BY <1>1, <1>4 DEF Learns
  <2>3. q[i].of = c /\ q[i].type = "joined"
    BY <2>1 DEF About
  <2>4. w[i + 1][c] \in {"no"}
    BY <2>2, <2>3, AfterReport DEF Turned
  <2>5. \A k \in i + 1 .. Len(q) : \A x \in {"no"} : q[k].of = c => Turned(x, q[k].type) \in {"no"}
    BY <1>1, <1>2, <1>6 DEF Turned
  <2>6. i + 1 \in 1 .. Len(q) + 1
    BY <1>1
  <2>7. last[c] \in {"no"}
    BY <1>1, <1>4, <2>4, <2>5, <2>6, KeptBy
  <2> QED BY <2>7
<1>7. \A c \in Connections :
        /\ Synchronized(S)[c] = "no" => c \in S /\ (c \in Members => consents[c] = "no")
        /\ Synchronized(S)[c] = "yes" => c \in S /\ c \in Members /\ consents[c] = "yes"
  BY DEF Synchronized
<1> QED BY <1>5, <1>6, <1>7 DEF Fits, q

\* Resumed reports the consents that wait, as given when they are still held.
LEMMA ResumedAre ==
  ASSUME MemberTypes
  PROVE  /\ Resumed \in Seq(Reports)
         /\ \A i \in 1 .. Len(Resumed) :
              \/ Resumed[i].of \in detached /\ Resumed[i].type = "granted"
              \/ /\ Resumed[i].of \in waiting
                 /\ Resumed[i].type = IF consents[Resumed[i].of] = "yes" THEN "granted" ELSE "revoked"
         /\ \A c \in waiting : \E i \in 1 .. Len(Resumed) :
              /\ Resumed[i].of = c
              /\ Resumed[i].type = IF consents[c] = "yes" THEN "granted" ELSE "revoked"
<1> DEFINE Said(c) == About(IF consents[c] = "yes" THEN "granted" ELSE "revoked", c)
           lost == [i \in 1 .. Cardinality(detached) |->
                      About("granted", SetToSeq(detached)[i])]
           held == [i \in 1 .. Cardinality(waiting) |-> Said(SetToSeq(waiting)[i])]
<1>1. /\ Cardinality(detached) \in Nat
      /\ SetToSeq(detached) \in [1 .. Cardinality(detached) -> detached]
      /\ Cardinality(waiting) \in Nat
      /\ SetToSeq(waiting) \in [1 .. Cardinality(waiting) -> waiting]
      /\ \A c \in waiting : \E i \in 1 .. Cardinality(waiting) : SetToSeq(waiting)[i] = c
  BY ListOf DEF MemberTypes
<1>2. Resumed = lost \o held
  BY DEF Resumed
<1>3. lost \in Seq(Reports) /\ Len(lost) = Cardinality(detached)
  <2>1. ASSUME NEW i \in 1 .. Cardinality(detached)
        PROVE  About("granted", SetToSeq(detached)[i]) \in Reports
    <3>1. SetToSeq(detached)[i] \in Connections
      BY <1>1 DEF MemberTypes
    <3> QED BY <3>1 DEF Reports
  <2>2. lost \in [1 .. Cardinality(detached) -> Reports]
    BY <2>1
  <2>3. Cardinality(detached) \in Nat
    BY <1>1
  <2> QED BY <2>2, <2>3
<1>4. \A c \in waiting : Said(c) \in Reports
  BY DEF Reports, MemberTypes
<1>5. \A c \in waiting : /\ Said(c).of = c
                         /\ Said(c).type = IF consents[c] = "yes" THEN "granted" ELSE "revoked"
  BY DEF About
<1> HIDE DEF Said
<1>6. held \in Seq(Reports) /\ Len(held) = Cardinality(waiting)
  BY <1>1, <1>4
<1>7. \A i \in 1 .. Len(lost) : lost[i].of \in detached /\ lost[i].type = "granted"
  BY <1>1, <1>3 DEF About
<1>8. \A i \in 1 .. Len(held) :
        /\ held[i].of \in waiting
        /\ held[i].type = IF consents[held[i].of] = "yes" THEN "granted" ELSE "revoked"
  BY <1>1, <1>5, <1>6
<1>9. \A c \in waiting : \E i \in 1 .. Len(held) : held[i] = Said(c)
  BY <1>1, <1>6
<1> HIDE DEF lost, held
<1>10. \A i \in 1 .. Len(Resumed) :
        \/ i \in 1 .. Len(lost) /\ Resumed[i] = lost[i]
        \/ \E k \in 1 .. Len(held) : Resumed[i] = held[k]
  BY <1>2, <1>3, <1>6, OfBoth
<1>11. \A i \in 1 .. Len(held) : /\ Len(lost) + i \in 1 .. Len(Resumed)
                                 /\ Resumed[Len(lost) + i] = held[i]
  BY <1>2, <1>3, <1>6
<1>12. \A c \in waiting : \E i \in 1 .. Len(Resumed) : Resumed[i] = Said(c)
  BY <1>9, <1>11
<1>13. \A c \in waiting : \E i \in 1 .. Len(Resumed) :
         /\ Resumed[i].of = c
         /\ Resumed[i].type = IF consents[c] = "yes" THEN "granted" ELSE "revoked"
  BY <1>5, <1>12
<1>14. \A i \in 1 .. Len(Resumed) :
         \/ Resumed[i].of \in detached /\ Resumed[i].type = "granted"
         \/ /\ Resumed[i].of \in waiting
            /\ Resumed[i].type = IF consents[Resumed[i].of] = "yes" THEN "granted" ELSE "revoked"
  BY <1>7, <1>8, <1>10
<1>15. Resumed \in Seq(Reports)
  BY <1>2, <1>3, <1>6
<1> QED BY <1>13, <1>14, <1>15

\* What a start told the worker: nobody has left, and who consents was named or waits.
Told(v) ==
  /\ v \in [Connections -> {"unknown", "no", "yes"}]
  /\ \A c \in Connections : (consents[c] = "yes" => c \in waiting \/ v[c] = "yes")

\* What the worker learns when the start has ended fits the consents.
LEMMA ResumedFit ==
  ASSUME MemberTypes, NEW v, Told(v),
         NEW w, Learns(w, v, Resumed, Len(Resumed))
  PROVE  Fits(w[Len(Resumed) + 1], consents)
<1> DEFINE q == Resumed
           last == w[Len(q) + 1]
<1>1. q \in Seq(Reports) /\ Len(q) \in Nat
  BY ResumedAre
<1>2. \A i \in 1 .. Len(q) :
         \/ q[i].of \in detached /\ q[i].type = "granted"
         \/ /\ q[i].of \in waiting
            /\ q[i].type = IF consents[q[i].of] = "yes" THEN "granted" ELSE "revoked"
  BY ResumedAre
<1>3. \A c \in waiting : \E i \in 1 .. Len(q) :
         q[i].of = c /\ q[i].type = IF consents[c] = "yes" THEN "granted" ELSE "revoked"
  BY ResumedAre
<1>4. Learns(w, v, q, Len(q))
  OBVIOUS
<1> HIDE DEF q
<1>5. \A i \in 1 .. Len(q) : q[i].type \in {"granted", "revoked"}
  BY <1>2
<1>6. \A c \in Connections : \A i \in 1 .. Len(q) :
        consents[c] = "yes" /\ q[i].of = c => q[i].type = "granted"
  BY <1>2
<1>7. \A n \in 1 .. Len(q) + 1 : w[n] \in Views
  BY <1>1, <1>4 DEF Learns
<1>8. ASSUME NEW c \in Connections, NEW n \in 1 .. Len(q) + 1
      PROVE  w[n][c] # "left"
  <2> DEFINE S == {k \in Nat : k <= Len(q) => w[k + 1][c] \in {"unknown", "no", "yes"}}
  <2>1. 0 \in S
    BY <1>4 DEF Learns, Told
  <2>2. ASSUME NEW k \in S PROVE k + 1 \in S
    <3>1. SUFFICES ASSUME k + 1 <= Len(q) PROVE w[(k + 1) + 1][c] \in {"unknown", "no", "yes"}
      OBVIOUS
    <3>2. /\ w[(k + 1) + 1] = After(w[k + 1], q[k + 1]) /\ w[k + 1] \in Views
          /\ q[k + 1] \in Reports /\ k + 1 \in 1 .. Len(q)
      BY <1>1, <1>4, <3>1 DEF Learns
    <3>3. w[k + 1][c] \in {"unknown", "no", "yes"}
      BY <1>1, <3>1
    <3>4. CASE q[k + 1].of # c
      BY <3>2, <3>3, <3>4, AfterReport
    <3>5. CASE q[k + 1].of = c
      <4>1. After(w[k + 1], q[k + 1])[q[k + 1].of]
              = Turned(w[k + 1][q[k + 1].of], q[k + 1].type)
        BY <3>2, AfterReport
      <4>2. Turned(w[k + 1][c], q[k + 1].type) \in {"unknown", "no", "yes"}
        BY <1>5, <3>2, <3>3 DEF Turned
      <4> QED BY <3>2, <3>5, <4>1, <4>2
    <3> QED BY <3>4, <3>5
  <2>3. S \in SUBSET Nat
    OBVIOUS
  <2> HIDE DEF S
  <2>4. n - 1 \in Nat /\ n - 1 \in S
    BY <1>1, <2>1, <2>2, <2>3, AllNaturals
  <2> QED BY <1>1, <2>4 DEF S
<1>9. ASSUME NEW c \in Connections, consents[c] = "yes"
      PROVE  last[c] \in {"yes", "unknown"}
  <2>1. ASSUME NEW k \in 1 .. Len(q) + 1, w[k][c] \in {"yes", "unknown"}
        PROVE  last[c] \in {"yes", "unknown"}
    <3>1. \A i \in k .. Len(q) : \A x \in {"yes", "unknown"} :
            q[i].of = c => Turned(x, q[i].type) \in {"yes", "unknown"}
      BY <1>1, <1>6, <1>9 DEF Turned
    <3> QED BY <1>1, <1>4, <2>1, <3>1, KeptBy
  <2>2. CASE c \notin waiting
    <3>1. w[1][c] = "yes"
      BY <1>4, <1>9, <2>2 DEF Learns, Told
    <3> QED BY <1>1, <2>1, <3>1
  <2>3. CASE c \in waiting
    <3>1. PICK i \in 1 .. Len(q) : q[i].of = c /\ q[i].type = "granted"
      BY <1>3, <1>9, <2>3
    <3>2. w[i + 1] = After(w[i], q[i]) /\ w[i] \in Views /\ q[i] \in Reports
      BY <1>1, <1>4 DEF Learns
    <3>3. After(w[i], q[i])[q[i].of] = Turned(w[i][q[i].of], q[i].type)
      BY <3>2, AfterReport
    <3>4. w[i][c] \in Kinds /\ w[i][c] # "left"
      BY <1>1, <1>8, <3>2 DEF Views
    <3>5. w[i + 1][c] \in {"yes", "unknown"}
      BY <3>1, <3>2, <3>3, <3>4 DEF Turned, Kinds
    <3> QED BY <1>1, <2>1, <3>5
  <2> QED BY <2>2, <2>3
<1>10. \A c \in Connections : last[c] # "left"
  BY <1>1, <1>8
<1> QED BY <1>9, <1>10 DEF Fits, q

-----------------------------------------------------------------------------
(* The invariant *)

Early == {"none", "waiting_consent"}

\* Before the recording has started the queues hold a start, its answer, or nothing.
StartInv ==
  /\ state \in Early => ~client.started
  /\ starting => state = "waiting_consent" /\ client = NoClient
  /\ closing => starting
  /\ state \in Early /\ ~starting => inbox = <<>> /\ outbox = <<>>
  /\ starting => \/ \E v : Told(v) /\ inbox = <<Start(v)>> /\ outbox = <<>>
                 \/ inbox = <<>> /\ outbox = <<"failed">>
                 \/ inbox = <<>> /\ outbox = <<"started">> /\ Told(view)

\* After that there is no other start.
LaterInv ==
  state \notin Early => /\ inbox \in Seq(Reports \cup {Stop})
                        /\ outbox \in Seq({"frame_written", "failed", "ready"})

\* Only a worker with complete files answers that they are.
FilesInv ==
  files # "complete" => /\ state # "ready"
                        /\ outbox \in Seq({"started", "frame_written", "failed"})

\* Nothing follows a stop.
StopInv ==
  /\ \A i \in 1 .. Len(inbox) : (inbox[i] = Stop => i = Len(inbox) /\ client.stopped)
  /\ state = "recording" => ~client.stopped
  /\ Writable => state = "recording"

\* Each frame is of somebody who consents, as far as the worker knows when it comes
\* to it, and what it knows in the end fits the consents.
FramesInv ==
  \E w : /\ Learns(w, view, inbox, Len(inbox))
         /\ \A i \in 1 .. Len(inbox) :
              (inbox[i].type = "frame" => w[i][inbox[i].of] \in {"yes", "unknown"})
         /\ (Writable => Fits(w[Len(inbox) + 1], consents))

RecordingInv == TypeOK /\ StartInv /\ LaterInv /\ FilesInv /\ StopInv /\ FramesInv

-----------------------------------------------------------------------------
(* What a step does to the queue *)

\* The queue stays as it is, and nobody is told more.
LEMMA SameQueue ==
  ASSUME FramesInv, UNCHANGED <<view, inbox>>, Writable' => Writable /\ consents' = consents
  PROVE  FramesInv'
<1>1. PICK w : /\ Learns(w, view, inbox, Len(inbox))
               /\ \A i \in 1 .. Len(inbox) :
                    (inbox[i].type = "frame" => w[i][inbox[i].of] \in {"yes", "unknown"})
               /\ (Writable => Fits(w[Len(inbox) + 1], consents))
  BY DEF FramesInv
<1>2. Learns(w, view', inbox', Len(inbox'))
  BY <1>1
<1>3. \A i \in 1 .. Len(inbox') :
        (inbox'[i].type = "frame" => w[i][inbox'[i].of] \in {"yes", "unknown"})
  BY <1>1
<1>4. Writable' => Fits(w[Len(inbox') + 1], consents')
  BY <1>1
<1> QED BY <1>2, <1>3, <1>4 DEF FramesInv

\* No frame waits and none may be added.
LEMMA NoFrames ==
  ASSUME inbox' \in Seq(Messages), \A i \in 1 .. Len(inbox') : inbox'[i].type # "frame",
         view' \in Views, ~Writable'
  PROVE  FramesInv'
<1>1. PICK w : Learns(w, view', inbox', Len(inbox'))
  BY LearnsFrom
<1> QED BY <1>1 DEF FramesInv

\* Messages come to the queue that fit what the worker learns before them.
LEMMA QueueGrows ==
  ASSUME view \in Views, inbox \in Seq(Messages), FramesInv,
         NEW r \in Seq(Messages), inbox' = inbox \o r, view' = view,
         \A v \in Views : \A w :
           Learns(w, v, r, Len(r)) /\ (Writable => Fits(v, consents)) =>
             /\ \A i \in 1 .. Len(r) :
                  (r[i].type = "frame" => w[i][r[i].of] \in {"yes", "unknown"})
             /\ (Writable' => Fits(w[Len(r) + 1], consents'))
  PROVE  FramesInv'
<1>1. PICK w : /\ Learns(w, view, inbox, Len(inbox))
               /\ \A i \in 1 .. Len(inbox) :
                    (inbox[i].type = "frame" => w[i][inbox[i].of] \in {"yes", "unknown"})
               /\ (Writable => Fits(w[Len(inbox) + 1], consents))
  BY DEF FramesInv
<1> DEFINE v == w[Len(inbox) + 1]
<1>2. v \in Views
  <2>1. Len(inbox) \in Nat /\ Len(inbox) + 1 \in 1 .. Len(inbox) + 1
    OBVIOUS
  <2>2. \A i \in 1 .. Len(inbox) + 1 : w[i] \in Views
    BY <1>1 DEF Learns
  <2> QED BY <2>1, <2>2
<1>3. PICK u : Learns(u, v, r, Len(r))
  BY <1>2, LearnsFrom
<1>4. /\ \A i \in 1 .. Len(r) :
           (r[i].type = "frame" => u[i][r[i].of] \in {"yes", "unknown"})
      /\ (Writable' => Fits(u[Len(r) + 1], consents'))
  BY <1>1, <1>2, <1>3
<1>5. PICK all : LearnsBoth(all, view, inbox, w, r, u)
  BY <1>1, <1>3, LearnsMore
<1>6. /\ Learns(all, view, inbox \o r, Len(inbox) + Len(r))
      /\ \A i \in 1 .. Len(inbox) + 1 : all[i] = w[i]
      /\ \A i \in 1 .. Len(r) + 1 : all[Len(inbox) + i] = u[i]
  BY <1>5 DEF LearnsBoth
<1>7. ASSUME NEW i \in 1 .. Len(inbox'), inbox'[i].type = "frame"
      PROVE  all[i][inbox'[i].of] \in {"yes", "unknown"}
  <2>1. CASE i \in 1 .. Len(inbox)
    <3>1. inbox'[i] = inbox[i]
      BY <2>1
    <3>2. Len(inbox) \in Nat /\ i \in 1 .. Len(inbox) + 1
      BY <2>1
    <3>3. all[i] = w[i]
      BY <1>6, <3>2
    <3>4. inbox[i].type = "frame"
      BY <1>7, <3>1
    <3>5. w[i][inbox[i].of] \in {"yes", "unknown"}
      BY <1>1, <2>1, <3>4
    <3> QED BY <3>1, <3>3, <3>5
  <2>2. CASE i > Len(inbox)
    <3>1. PICK k \in 1 .. Len(r) : i = Len(inbox) + k
      <4>1. Len(inbox') = Len(inbox) + Len(r)
        OBVIOUS
      <4>2. i - Len(inbox) \in 1 .. Len(r) /\ i = Len(inbox) + (i - Len(inbox))
        BY <2>2, <4>1
      <4> QED BY <4>2
    <3>2. inbox'[i] = r[k]
      BY <3>1
    <3>3. k \in 1 .. Len(r) + 1
      OBVIOUS
    <3>4. all[i] = u[k]
      BY <1>6, <3>1, <3>3
    <3> QED BY <1>4, <1>7, <3>2, <3>4
  <2> QED BY <2>1, <2>2
<1>8. Len(inbox') = Len(inbox) + Len(r) /\ Len(inbox) \in Nat /\ Len(r) \in Nat
  OBVIOUS
<1>9. Learns(all, view', inbox', Len(inbox'))
  BY <1>6, <1>8
<1>10. all[Len(inbox') + 1] = u[Len(r) + 1]
  <2>1. all[Len(inbox) + (Len(r) + 1)] = u[Len(r) + 1]
    BY <1>6, <1>8
  <2> QED BY <1>8, <2>1
<1>11. Writable' => Fits(all[Len(inbox') + 1], consents')
  BY <1>4, <1>10
<1> QED BY <1>7, <1>9, <1>11 DEF FramesInv

\* The worker takes a message out of the queue.  When it does not get to know of a
\* departure, it knows more than it was to, about somebody who sends no frames.
LEMMA QueueShrinks ==
  ASSUME view \in Views, inbox \in Seq(Reports \cup {Stop}), inbox # <<>>, FramesInv,
         inbox' = Tail(inbox), view' \in Views, UNCHANGED <<client, consents>>,
         MemberTypes,
         \A c \in Connections : \/ view'[c] = After(view, Head(inbox))[c]
                                \/ After(view, Head(inbox))[c] = "left"
  PROVE  FramesInv'
<1>1. PICK w : /\ Learns(w, view, inbox, Len(inbox))
               /\ \A i \in 1 .. Len(inbox) :
                    (inbox[i].type = "frame" => w[i][inbox[i].of] \in {"yes", "unknown"})
               /\ (Writable => Fits(w[Len(inbox) + 1], consents))
  BY DEF FramesInv
<1> DEFINE q == Tail(inbox)
<1>2. /\ Len(inbox) \in Nat /\ Len(q) = Len(inbox) - 1 /\ Len(q) \in Nat
      /\ q \in Seq(Reports \cup {Stop}) /\ q \in Seq(Messages)
      /\ \A i \in 1 .. Len(q) : q[i] = inbox[i + 1] /\ i + 1 \in 1 .. Len(inbox)
      /\ 1 \in 1 .. Len(inbox) /\ Head(inbox) = inbox[1]
  BY DEF Messages, Reports
<1>3. PICK u : Learns(u, view', q, Len(q))
  BY <1>2, LearnsFrom
<1> HIDE DEF q
<1> DEFINE Same(i) == \A c \in Connections : u[i][c] = w[i + 1][c] \/ w[i + 1][c] = "left"
           S == {n \in Nat : n <= Len(q) => Same(n + 1)}
<1>4. 0 \in S
  <2>1. w[2] = After(view, Head(inbox)) /\ u[1] = view'
    BY <1>1, <1>2, <1>3 DEF Learns
  <2> QED BY <2>1
<1>5. ASSUME NEW n \in S PROVE n + 1 \in S
  <2>1. SUFFICES ASSUME n + 1 <= Len(q) PROVE Same((n + 1) + 1)
    <3>1. n + 1 \in Nat
      OBVIOUS
    <3> HIDE DEF Same
    <3> QED BY <3>1
  <2> DEFINE k == n + 1
  <2>2. k \in 1 .. Len(q) /\ Same(k)
    BY <1>2, <2>1
  <2> HIDE DEF k
  <2>3. /\ u[k + 1] = After(u[k], q[k]) /\ w[(k + 1) + 1] = After(w[k + 1], q[k])
        /\ u[k] \in Views /\ w[k + 1] \in Views
    <3>1. u[k + 1] = After(u[k], q[k]) /\ u[k] \in Views
      BY <1>2, <1>3, <2>2 DEF Learns
    <3>2. k + 1 \in 1 .. Len(inbox) /\ inbox[k + 1] = q[k]
      BY <1>2, <2>2
    <3>3. w[(k + 1) + 1] = After(w[k + 1], q[k]) /\ w[k + 1] \in Views
      BY <1>1, <1>2, <3>2 DEF Learns
    <3> QED BY <3>1, <3>3
  <2>4. CASE q[k] = Stop
    <3>1. u[k + 1] = u[k] /\ w[(k + 1) + 1] = w[k + 1]
      BY <2>3, <2>4 DEF After, Stop
    <3> QED BY <2>2, <3>1 DEF k
  <2>5. CASE q[k] \in Reports
    <3>1. ASSUME NEW c \in Connections, c # q[k].of
          PROVE  u[k + 1][c] = w[(k + 1) + 1][c] \/ w[(k + 1) + 1][c] = "left"
      <4>1. After(u[k], q[k])[c] = u[k][c] /\ After(w[k + 1], q[k])[c] = w[k + 1][c]
        BY <2>3, <2>5, <3>1, AfterReport
      <4> QED BY <2>2, <2>3, <4>1
    <3>2. ASSUME NEW c \in Connections, c = q[k].of
          PROVE  u[k + 1][c] = w[(k + 1) + 1][c] \/ w[(k + 1) + 1][c] = "left"
      <4>1. /\ After(u[k], q[k])[q[k].of] = Turned(u[k][q[k].of], q[k].type)
            /\ After(w[k + 1], q[k])[q[k].of] = Turned(w[k + 1][q[k].of], q[k].type)
        BY <2>3, <2>5, AfterReport
      <4>2. /\ u[k + 1][c] = Turned(u[k][c], q[k].type)
            /\ w[(k + 1) + 1][c] = Turned(w[k + 1][c], q[k].type)
        BY <2>3, <3>2, <4>1
      <4>3. CASE u[k][c] = w[k + 1][c]
        BY <4>2, <4>3
      <4>4. CASE w[k + 1][c] = "left"
        BY <4>2, <4>4 DEF Turned
      <4> QED BY <2>2, <4>3, <4>4
    <3> QED BY <3>1, <3>2 DEF k
  <2> QED BY <1>2, <2>2, <2>4, <2>5
<1>6. S \in SUBSET Nat
  OBVIOUS
<1>7. ASSUME NEW i \in 1 .. Len(q) + 1 PROVE Same(i)
  <2> HIDE DEF S
  <2>1. i - 1 \in Nat /\ i - 1 \in S
    <3>1. \A n \in Nat : n \in S
      BY <1>4, <1>5, <1>6, AllNaturals
    <3> QED BY <1>2, <3>1
  <2>2. i - 1 <= Len(q) => Same((i - 1) + 1)
    BY <2>1 DEF S
  <2>3. i - 1 <= Len(q) /\ (i - 1) + 1 = i
    BY <1>2
  <2> HIDE DEF Same
  <2> QED BY <2>2, <2>3
<1>8. ASSUME NEW i \in 1 .. Len(q), q[i].type = "frame"
      PROVE  u[i][q[i].of] \in {"yes", "unknown"}
  <2>1. w[i + 1][q[i].of] \in {"yes", "unknown"}
    <3>1. inbox[i + 1] = q[i] /\ i + 1 \in 1 .. Len(inbox)
      BY <1>2
    <3>2. inbox[i + 1].type = "frame" => w[i + 1][inbox[i + 1].of] \in {"yes", "unknown"}
      BY <1>1, <3>1
    <3> QED BY <1>8, <3>1, <3>2
  <2>2. q[i] \in Reports
    BY <1>2, <1>8 DEF Stop
  <2>3. q[i].of \in Connections
    BY <2>2 DEF Reports, About
  <2>4. Same(i)
    <3>1. i - 1 \in Nat /\ (i - 1) + 1 = i /\ i - 1 <= Len(q)
      BY <1>2
    <3>2. Same((i - 1) + 1)
      BY <1>7, <3>1
    <3> QED BY <3>1, <3>2
  <2> QED BY <2>1, <2>3, <2>4
<1>9. ASSUME Writable PROVE Fits(u[Len(q) + 1], consents)
  <2>1. Fits(w[(Len(q) + 1) + 1], consents) /\ Same(Len(q) + 1)
    BY <1>1, <1>2, <1>7, <1>9
  <2> QED BY <2>1 DEF Fits
<1>10. Writable' = Writable
  BY DEF Writable
<1>11. inbox' = q
  BY DEF q
<1> QED BY <1>3, <1>8, <1>9, <1>10, <1>11 DEF FramesInv

-----------------------------------------------------------------------------
(* The steps *)

\* A report is neither a start nor a stop.
LEMMA ReportsAreMessages ==
  /\ Reports \subseteq Messages /\ Stop \in Messages /\ Stop \notin Reports
  /\ \A m \in Reports : m.type # "start" /\ m.type # "stop"
  /\ Seq(Reports) \subseteq Seq(Messages)
<1>1. Reports \subseteq Messages /\ Stop \in Messages
  BY DEF Reports, Messages
<1>2. \A m \in Reports : m.type # "start" /\ m.type # "stop"
  BY DEF Reports, About
<1>3. Stop.type = "stop"
  BY DEF Stop
<1>4. Seq(Reports) \subseteq Seq(Messages)
  BY <1>1
<1> QED BY <1>1, <1>2, <1>3, <1>4

\* Reports are posted, if the client takes any, and what they are about follows.
LEMMA ReportsKeep ==
  ASSUME RecordingInv, NEW r \in Seq(Reports), \A i \in 1 .. Len(r) : r[i].type # "frame",
         inbox' = Posted(r), session' \subseteq Connections, MemberTypes',
         UNCHANGED <<state, starting, closing, client, outbox, view, files>>,
         \A c \in Connections :
           consents'[c] = "yes" /\ starting =>
             c \in waiting' \/ (consents[c] = "yes" /\ c \notin waiting),
         Writable => \A v \in Views : \A w :
           Fits(v, consents) /\ Learns(w, v, r, Len(r)) => Fits(w[Len(r) + 1], consents')
  PROVE  RecordingInv'
<1> USE DEF RecordingInv
<1>1. Writable' = Writable
  BY DEF Writable
<1>2. inbox' = inbox \/ (Writable /\ inbox' = inbox \o r)
  BY DEF Posted
<1>3. r \in Seq(Messages) /\ inbox \in Seq(Messages) /\ view \in Views
  BY ReportsAreMessages DEF TypeOK, Views, Kinds
<1>4. TypeOK'
  <2>1. inbox \o r \in Seq(Messages)
    BY <1>3, OfBoth
  <2>2. inbox' \in Seq(Messages)
    BY <1>2, <1>3, <2>1
  <2> QED BY <2>2 DEF TypeOK, MemberTypes
<1>5. StartInv'
  <2>1. ASSUME NEW v, starting, Told(v) PROVE Told(v)'
    BY <2>1 DEF Told
  <2>2. PICK known : known = view
    OBVIOUS
  <2>3. starting /\ Told(view) => Told(view)'
    <3>1. starting /\ Told(known) => Told(known)'
      BY <2>1
    <3>2. Told(view) = Told(known) /\ (Told(known)' => Told(view)')
      BY <2>2
    <3> QED BY <3>1, <3>2
  <2>4. state \in Early => inbox' = inbox
    BY <1>2 DEF StartInv, Writable
  <2>5. starting => state \in Early
    BY DEF StartInv, Early
  <2>6. starting' => \/ \E v : Told(v)' /\ inbox' = <<Start(v)>> /\ outbox' = <<>>
                     \/ inbox' = <<>> /\ outbox' = <<"failed">>
                     \/ inbox' = <<>> /\ outbox' = <<"started">> /\ Told(view)'
    BY <2>1, <2>3, <2>4, <2>5 DEF StartInv
  <2> QED BY <2>4, <2>6 DEF StartInv
<1>6. LaterInv'
  <2>1. r \in Seq(Reports \cup {Stop})
    OBVIOUS
  <2>2. inbox \in Seq(Reports \cup {Stop}) => inbox \o r \in Seq(Reports \cup {Stop})
    BY <2>1, OfBoth
  <2> QED BY <1>2, <2>2 DEF LaterInv
<1>7. FilesInv'
  BY DEF FilesInv
<1>8. StopInv'
  <2>1. CASE inbox' = inbox
    BY <1>1, <2>1 DEF StopInv
  <2>2. CASE Writable /\ inbox' = inbox \o r
    <3>1. ~client.stopped
      BY <2>2 DEF Writable
    <3>2. \A i \in 1 .. Len(inbox) : inbox[i] # Stop
      BY <3>1 DEF StopInv
    <3>3. \A k \in 1 .. Len(r) : r[k] # Stop
      BY ReportsAreMessages
    <3>4. \A i \in 1 .. Len(inbox') : inbox'[i] # Stop
      <4>1. \A i \in 1 .. Len(inbox \o r) :
              \/ i \in 1 .. Len(inbox) /\ (inbox \o r)[i] = inbox[i]
              \/ \E k \in 1 .. Len(r) : (inbox \o r)[i] = r[k]
        BY <1>3, OfBoth
      <4> QED BY <2>2, <3>2, <3>3, <4>1
    <3> QED BY <1>1, <3>1, <3>4 DEF StopInv
  <2> QED BY <1>2, <2>1, <2>2
<1>9. FramesInv'
  <2>1. CASE ~Writable
    BY <1>1, <1>2, <2>1, SameQueue
  <2>2. CASE Writable
    <3>1. inbox' = inbox \o r /\ view' = view
      BY <2>2 DEF Posted
    <3>2. \A v \in Views : \A w :
            Learns(w, v, r, Len(r)) /\ (Writable => Fits(v, consents)) =>
              /\ \A i \in 1 .. Len(r) :
                   (r[i].type = "frame" => w[i][r[i].of] \in {"yes", "unknown"})
              /\ (Writable' => Fits(w[Len(r) + 1], consents'))
      BY <2>2
    <3> QED BY <1>3, <3>1, <3>2, QueueGrows
  <2> QED BY <2>1, <2>2
<1> QED BY <1>4, <1>5, <1>6, <1>7, <1>8, <1>9

\* The session has members S, and the record follows.
LEMMA SynchronizeKeeps ==
  ASSUME RecordingInv, NEW S \in SUBSET Connections, Synchronize(S),
         session' \subseteq Connections,
         UNCHANGED <<state, starting, closing, client, outbox, view, files>>
  PROVE  RecordingInv'
<1>1. MemberTypes
  BY DEF RecordingInv, TypeOK, MemberTypes
<1>2. /\ Changes(S) \in Seq(Reports)
      /\ \A i \in 1 .. Len(Changes(S)) : Changes(S)[i].type # "frame"
  BY <1>1, ChangesAre
<1>3. MemberTypes'
  BY <1>1 DEF MemberTypes, Synchronize, Synchronized
<1>4. \A v \in Views : \A w :
        Fits(v, consents) /\ Learns(w, v, Changes(S), Len(Changes(S))) =>
          Fits(w[Len(Changes(S)) + 1], consents')
  BY <1>1, ChangesFit DEF Synchronize
<1>5. \A c \in Connections :
        consents'[c] = "yes" =>
          c \in waiting' \/ (consents[c] = "yes" /\ c \notin waiting)
  BY <1>1 DEF Synchronize, Synchronized, Members, MemberTypes
<1>6. inbox' = Posted(Changes(S))
  BY DEF Synchronize
<1> QED BY <1>2, <1>3, <1>4, <1>5, <1>6, ReportsKeep

\* The finalization of a recording that does not start, and of one that does.
LEMMA CloseKeeps ==
  ASSUME RecordingInv, ~starting, Close, session' \subseteq Connections,
         UNCHANGED <<consents, startVars, outbox, view, files>>
  PROVE  RecordingInv'
<1> USE DEF RecordingInv, startVars
<1>1. CASE state = "recording"
  <2>1. /\ state' \in {"failed", "finalizing"}
        /\ client' = [client EXCEPT !.stopped = TRUE]
        /\ inbox' = Append(inbox, Stop)
    BY <1>1 DEF Close
  <2>2. inbox \in Seq(Reports \cup {Stop}) /\ inbox \in Seq(Messages) /\ view \in Views
    BY <1>1 DEF LaterInv, Early, TypeOK, Views, Kinds
  <2>3. client'.stopped /\ ~Writable'
    BY <2>1 DEF Writable, TypeOK
  <2>4. TypeOK'
    <3>1. inbox' \in Seq(Messages)
      BY <2>1, <2>2, ReportsAreMessages
    <3>2. client' \in [started : BOOLEAN, stopped : BOOLEAN, failed : BOOLEAN, pending : Nat]
      BY <2>1 DEF TypeOK
    <3> QED BY <2>1, <3>1, <3>2 DEF TypeOK
  <2>5. StartInv'
    BY <1>1, <2>1 DEF StartInv, Early
  <2>6. LaterInv'
    BY <1>1, <2>1, <2>2 DEF LaterInv, Early
  <2>7. FilesInv'
    BY <2>1 DEF FilesInv
  <2>8. StopInv'
    <3>1. \A i \in 1 .. Len(inbox) : inbox[i] # Stop
      BY <1>1 DEF StopInv
    <3>2. \A i \in 1 .. Len(inbox') : inbox'[i] = Stop => i = Len(inbox')
      BY <2>1, <2>2, <3>1
    <3> QED BY <2>1, <2>3, <3>2 DEF StopInv
  <2>9. FramesInv'
    <3>1. inbox' = inbox \o <<Stop>> /\ <<Stop>> \in Seq(Messages) /\ view' = view
      BY <2>1, <2>2, ReportsAreMessages
    <3>2. \A i \in 1 .. Len(<<Stop>>) : <<Stop>>[i].type # "frame"
      BY DEF Stop
    <3>3. FramesInv
      OBVIOUS
    <3> QED BY <2>2, <2>3, <3>1, <3>2, <3>3, QueueGrows
  <2> QED BY <2>4, <2>5, <2>6, <2>7, <2>8, <2>9
<1>2. CASE state \in {"ready", "finalizing"}
  <2>1. UNCHANGED <<state, client, inbox>>
    BY <1>2 DEF Close
  <2>2. Writable' = Writable
    BY <2>1 DEF Writable
  <2>3. TypeOK' /\ StartInv' /\ LaterInv' /\ FilesInv' /\ StopInv'
    <3>1. StartInv'
      BY <2>1 DEF StartInv
    <3> QED BY <2>1, <2>2, <3>1 DEF TypeOK, LaterInv, FilesInv, StopInv
  <2> QED BY <2>1, <2>2, <2>3, SameQueue
<1>3. CASE state \notin {"recording", "ready", "finalizing"}
  <2>1. state' = "declined" /\ UNCHANGED <<client, inbox>>
    BY <1>3 DEF Close
  <2>2. ~Writable /\ ~Writable'
    BY <1>3, <2>1 DEF StopInv, Writable
  <2>3. TypeOK' /\ StartInv' /\ FilesInv' /\ StopInv'
    <3>1. StartInv'
      BY <2>1 DEF StartInv, Early
    <3> QED BY <2>1, <2>2, <3>1 DEF TypeOK, FilesInv, StopInv
  <2>4. LaterInv'
    <3>1. CASE state \in Early
      <4>1. inbox' = <<>> /\ outbox' = <<>>
        BY <2>1, <3>1 DEF StartInv
      <4> QED BY <4>1 DEF LaterInv
    <3>2. CASE state \notin Early
      BY <2>1, <3>2 DEF LaterInv
    <3> QED BY <3>1, <3>2
  <2> QED BY <2>1, <2>2, <2>3, <2>4, SameQueue
<1> QED BY <1>1, <1>2, <1>3

\* A finalization that comes during the start waits for it.
LEMMA FinalizeKeeps ==
  ASSUME RecordingInv, Finalize, session' \subseteq Connections,
         UNCHANGED <<consents, starting, waiting, detached, outbox, view, files>>
  PROVE  RecordingInv'
<1>1. CASE ~starting
  BY <1>1, CloseKeeps DEF Finalize, startVars
<1>2. CASE starting
  <2> USE DEF RecordingInv
  <2>1. closing' = TRUE /\ UNCHANGED <<state, client, inbox>>
    BY <1>2 DEF Finalize
  <2>2. Writable' = Writable
    BY <2>1 DEF Writable
  <2>3. TypeOK' /\ LaterInv' /\ FilesInv' /\ StopInv'
    BY <2>1, <2>2 DEF TypeOK, LaterInv, FilesInv, StopInv
  <2>4. StartInv'
    <3>1. ASSUME NEW v, Told(v) PROVE Told(v)'
      BY <3>1 DEF Told
    <3>2. Told(view) => Told(view)'
      BY DEF Told
    <3> QED BY <1>2, <2>1, <3>1, <3>2 DEF StartInv
  <2> QED BY <2>1, <2>2, <2>3, <2>4, SameQueue
<1> QED BY <1>1, <1>2

\* A session is created before there is a client, so the queues are empty.
LEMMA SessionCreatedKeeps ==
  ASSUME RecordingInv, NEW S \in SUBSET Connections, SessionCreated(S)
  PROVE  RecordingInv'
<1> USE DEF RecordingInv, SessionCreated, startVars, threadVars
<1>1. inbox = <<>> /\ outbox = <<>> /\ ~starting /\ ~client.started /\ ~closing
  BY DEF StartInv, Early
<1>2. ~Writable /\ ~Writable'
  BY <1>1 DEF Writable
<1>3. TypeOK'
  BY DEF TypeOK
<1>4. StartInv'
  BY <1>1 DEF StartInv, Early
<1>5. LaterInv' /\ FilesInv' /\ StopInv'
  BY <1>1, <1>2 DEF LaterInv, FilesInv, StopInv, Early
<1> QED BY <1>2, <1>3, <1>4, <1>5, SameQueue

\* A first consent tells the new worker who consents.
LEMMA FirstConsentKeeps ==
  ASSUME RecordingInv, NEW c \in Connections, c \in session, state = "waiting_consent", ~starting,
         UpdateConsent(c, TRUE)
  PROVE  RecordingInv'
<1> DEFINE now == [Synchronized(session) EXCEPT ![c] = "yes"]
           begin == [d \in Connections |-> IF d \in session THEN now[d] ELSE "unknown"]
<1>1. PICK told : told = begin
  OBVIOUS
<1>2. /\ consents' = now
      /\ waiting' = (waiting \cap session) \cup {c}
      /\ starting' = TRUE
      /\ detached' = detached \cup (waiting \ session)
      /\ client' = NoClient /\ outbox' = <<>> /\ view' = Unknown
      /\ UNCHANGED <<session, state, closing, files>>
  BY DEF UpdateConsent
<1>3. inbox' = <<Start(told)>>
  BY <1>1 DEF UpdateConsent
<1>4. TypeOK /\ ~closing
  BY DEF RecordingInv, StartInv
<1>5. now \in [Connections -> {"none", "no", "yes"}]
  BY <1>4 DEF TypeOK, Synchronized
<1>6. \A d \in session : now[d] \in {"no", "yes"}
  BY <1>4 DEF TypeOK, Synchronized, Members
<1>7. \A d \in Connections : d \notin session => now[d] = "none"
  BY <1>4 DEF TypeOK, Synchronized
<1> HIDE DEF now
<1>8. begin \in [Connections -> {"unknown", "no", "yes"}]
  BY <1>4, <1>6 DEF TypeOK
<1>9. \A d \in Connections : now[d] = "yes" => begin[d] = "yes"
  BY <1>7
<1>10. /\ told \in [Connections -> {"unknown", "no", "yes"}]
       /\ \A d \in Connections : now[d] = "yes" => told[d] = "yes"
  BY <1>1, <1>8, <1>9
<1> HIDE DEF begin
<1>11. Told(told)'
  BY <1>2, <1>10 DEF Told
<1>12. Start(told) \in Messages /\ Start(told).type = "start" /\ Start(told) # Stop
  BY <1>10 DEF Messages, Start, Stop
<1>13. Unknown \in Views /\ NoClient.pending = 0 /\ ~NoClient.started
       /\ NoClient \in [started : BOOLEAN, stopped : BOOLEAN, failed : BOOLEAN, pending : Nat]
  BY DEF Unknown, Views, Kinds, NoClient
<1>14. TypeOK'
  BY <1>2, <1>3, <1>4, <1>5, <1>12, <1>13 DEF TypeOK, Views, Kinds
<1>15. StartInv'
  BY <1>2, <1>3, <1>4, <1>11, <1>13 DEF StartInv, Early
<1>16. LaterInv' /\ FilesInv'
  BY <1>2, <1>3 DEF LaterInv, FilesInv, Early
<1>17. ~Writable'
  BY <1>2, <1>3, <1>13 DEF Writable
<1>18. StopInv'
  BY <1>2, <1>3, <1>12, <1>17 DEF StopInv
<1>19. \A i \in 1 .. Len(inbox') : inbox'[i].type # "frame"
  BY <1>2, <1>3, <1>12
<1>20. FramesInv'
  BY <1>2, <1>3, <1>12, <1>13, <1>17, <1>19, NoFrames
<1> QED BY <1>14, <1>15, <1>16, <1>18, <1>20 DEF RecordingInv

\* A later consent, or a revocation, is told to the worker after the changes of the
\* members, to which whom it is about belongs.
LEMMA LaterConsentKeeps ==
  ASSUME RecordingInv, NEW c \in Connections, c \in session,
         NEW consented \in BOOLEAN,
         ~(consented /\ state = "waiting_consent" /\ ~starting),
         UpdateConsent(c, consented)
  PROVE  RecordingInv'
<1> DEFINE said == About(IF consented THEN "granted" ELSE "revoked", c)
           q == Changes(session)
           r == IF state = "recording" THEN Append(q, said) ELSE q
<1>1. /\ consents' = [Synchronized(session) EXCEPT ![c] = IF consented THEN "yes" ELSE "no"]
      /\ waiting' = (waiting \cap session)
                      \cup (IF consented /\ state = "waiting_consent" THEN {c} ELSE {})
      /\ detached' = detached \cup (waiting \ session)
      /\ starting' = starting
      /\ inbox' = Posted(r)
      /\ UNCHANGED <<session, state, closing, client, outbox, view, files>>
  BY DEF UpdateConsent, RecordingInv, TypeOK
<1>2. MemberTypes /\ session \in SUBSET Connections
  BY DEF RecordingInv, TypeOK, MemberTypes
<1>3. MemberTypes' /\ session' \subseteq Connections
  BY <1>1, <1>2 DEF MemberTypes, Synchronized
<1>4. said \in Reports /\ said.of = c /\ said.type = (IF consented THEN "granted" ELSE "revoked")
  BY DEF Reports, About
<1>5. /\ q \in Seq(Reports) /\ Len(q) \in Nat
      /\ \A i \in 1 .. Len(q) : q[i].type # "frame"
  BY <1>2, ChangesAre
<1>6. \A v \in Views : \A w :
        Fits(v, consents) /\ Learns(w, v, q, Len(q)) =>
          Fits(w[Len(q) + 1], Synchronized(session))
  BY <1>2, ChangesFit
<1> HIDE DEF q, said
<1>7. r \in Seq(Reports) /\ \A i \in 1 .. Len(r) : r[i].type # "frame"
  BY <1>4, <1>5
<1>8. \A d \in Connections :
        consents'[d] = "yes" /\ starting =>
          d \in waiting' \/ (consents[d] = "yes" /\ d \notin waiting)
  <2>1. starting => state = "waiting_consent"
    BY DEF RecordingInv, StartInv
  <2> QED BY <1>1, <1>2, <2>1 DEF Synchronized, Members, MemberTypes
<1>9. ASSUME Writable, NEW v \in Views, NEW w, Fits(v, consents), Learns(w, v, r, Len(r))
      PROVE  Fits(w[Len(r) + 1], consents')
  <2>1. r = Append(q, said) /\ Len(r) = Len(q) + 1
    BY <1>4, <1>5, <1>9 DEF RecordingInv, StopInv
  <2>2. \A i \in 1 .. Len(q) : r[i] = q[i]
    BY <1>5, <2>1
  <2>3. r[Len(q) + 1] = said
    BY <1>5, <2>1
  <2> HIDE DEF r
  <2> DEFINE u == [i \in 1 .. Len(q) + 1 |-> w[i]]
  <2>4. Learns(u, v, q, Len(q)) /\ u[Len(q) + 1] = w[Len(q) + 1]
    BY <1>5, <1>9, <2>1, <2>2 DEF Learns
  <2> HIDE DEF u
  <2>5. Fits(w[Len(q) + 1], Synchronized(session))
    BY <1>6, <1>9, <2>4
  <2>6. /\ w[(Len(q) + 1) + 1] = After(w[Len(q) + 1], said)
        /\ w[Len(q) + 1] \in Views
    BY <1>5, <1>9, <2>1, <2>3 DEF Learns
  <2> DEFINE before == w[Len(q) + 1]
             after == w[(Len(q) + 1) + 1]
  <2>7. before[c] \in Kinds /\ before[c] # "left"
    BY <1>2, <2>5, <2>6 DEF Fits, Synchronized, Members, Views, MemberTypes
  <2>8. /\ after[said.of] = Turned(before[said.of], said.type)
        /\ \A d \in Connections : d # said.of => after[d] = before[d]
    BY <1>4, <2>6, AfterReport
  <2>9. after[c] = Turned(before[c], IF consented THEN "granted" ELSE "revoked")
    BY <1>4, <2>8
  <2>10. \A d \in Connections : d # c => after[d] = before[d]
    BY <1>4, <2>8
  <2>11. /\ (consented => after[c] \in {"yes", "unknown"})
         /\ after[c] # "left"
    BY <2>7, <2>9 DEF Turned, Kinds
  <2>12. \A d \in Connections : d # c => consents'[d] = Synchronized(session)[d]
    BY <1>1 DEF Synchronized
  <2>13. consents'[c] = IF consented THEN "yes" ELSE "no"
    BY <1>1 DEF Synchronized
  <2>14. Fits(after, consents')
    BY <2>5, <2>10, <2>11, <2>12, <2>13 DEF Fits
  <2> QED BY <2>1, <2>14
<1> HIDE DEF r
<1> QED BY <1>1, <1>3, <1>7, <1>8, <1>9, ReportsKeep

\* A frame is written only of a participant whose consent the record has.
LEMMA CaptureFrameKeeps ==
  ASSUME RecordingInv, NEW c \in Connections, CaptureFrame(c)
  PROVE  RecordingInv'
<1> USE DEF RecordingInv
<1> DEFINE frame == About("frame", c)
           r == <<frame>>
<1>1. /\ Writable /\ state = "recording" /\ consents[c] = "yes" /\ inbox' = Append(inbox, frame)
      /\ client' = [client EXCEPT !.pending = @ + 1]
      /\ UNCHANGED <<session, recordVars, startVars, outbox, view, files>>
  BY DEF CaptureFrame, Captures
<1>2. frame \in Reports /\ frame.of = c /\ frame.type = "frame" /\ frame # Stop
  BY ReportsAreMessages DEF Reports, About
<1> HIDE DEF frame
<1>3. inbox \in Seq(Messages) /\ inbox \in Seq(Reports \cup {Stop}) /\ view \in Views
      /\ frame \in Messages
  BY <1>1, <1>2, ReportsAreMessages DEF LaterInv, Early, TypeOK, Views, Kinds
<1>4. client'.started = client.started /\ client'.stopped = client.stopped
      /\ client'.failed = client.failed
      /\ client' \in [started : BOOLEAN, stopped : BOOLEAN, failed : BOOLEAN, pending : Nat]
  <2>1. client.pending + 1 \in Nat
    BY DEF TypeOK
  <2> QED BY <1>1, <2>1 DEF TypeOK
<1>5. Writable' = Writable /\ Writable
  BY <1>1, <1>4 DEF Writable
<1>6. TypeOK'
  <2>1. inbox' \in Seq(Messages)
    BY <1>1, <1>3
  <2> QED BY <1>1, <1>4, <2>1 DEF TypeOK, recordVars, startVars
<1>7. StartInv'
  BY <1>1 DEF StartInv, Early, recordVars, startVars
<1>8. LaterInv'
  BY <1>1, <1>2, <1>3 DEF LaterInv, Early, recordVars
<1>9. FilesInv'
  BY <1>1 DEF FilesInv, recordVars
<1>10. StopInv'
  <2>1. \A i \in 1 .. Len(inbox) : inbox[i] # Stop
    BY <1>1 DEF StopInv
  <2>2. \A i \in 1 .. Len(inbox') : inbox'[i] # Stop
    BY <1>1, <1>2, <1>3, <2>1
  <2> QED BY <1>1, <1>4, <1>5, <2>2 DEF StopInv, recordVars
<1>11. FramesInv'
  <2>1. inbox' = inbox \o r /\ r \in Seq(Messages) /\ view' = view /\ consents' = consents
    BY <1>1, <1>3 DEF recordVars
  <2>2. ASSUME NEW v \in Views, NEW w, Learns(w, v, r, Len(r)), Fits(v, consents)
        PROVE  /\ \A i \in 1 .. Len(r) :
                    (r[i].type = "frame" => w[i][r[i].of] \in {"yes", "unknown"})
               /\ Fits(w[Len(r) + 1], consents')
    <3>1. Len(r) = 1 /\ r[1] = frame
      OBVIOUS
    <3>2. w[1] = v /\ w[1 + 1] = After(v, frame)
      BY <2>2, <3>1 DEF Learns
    <3>3. v[c] \in {"yes", "unknown"}
      BY <1>1, <2>2 DEF Fits
    <3>4. \A d \in Connections : After(v, frame)[d] = v[d]
      <4>1. After(v, frame)[frame.of] = Turned(v[frame.of], frame.type)
        BY <1>2, AfterReport
      <4>2. After(v, frame)[c] = v[c]
        BY <1>2, <4>1 DEF Turned
      <4> QED BY <1>2, <4>2, AfterReport
    <3>5. Fits(w[1 + 1], consents')
      BY <2>1, <2>2, <3>2, <3>4 DEF Fits
    <3> QED BY <1>2, <3>1, <3>2, <3>3, <3>5
  <2> HIDE DEF r
  <2> QED BY <1>3, <1>5, <2>1, <2>2, QueueGrows
<1> QED BY <1>6, <1>7, <1>8, <1>9, <1>10, <1>11

\* The client fails where too many frames wait for their answers.
LEMMA CaptureOverflowsKeeps ==
  ASSUME RecordingInv, NEW c \in Connections, CaptureOverflows(c)
  PROVE  RecordingInv'
<1> USE DEF RecordingInv
<1>1. /\ state = "recording" /\ state' = "failed"
      /\ client' = [client EXCEPT !.failed = TRUE] /\ inbox' = <<>>
      /\ UNCHANGED <<session, consents, startVars, outbox, view, files>>
  BY DEF CaptureOverflows, Captures
<1>2. /\ client'.failed /\ ~Writable'
      /\ client' \in [started : BOOLEAN, stopped : BOOLEAN, failed : BOOLEAN, pending : Nat]
  BY <1>1 DEF TypeOK, Writable
<1>3. TypeOK'
  BY <1>1, <1>2 DEF TypeOK, startVars
<1>4. StartInv' /\ LaterInv' /\ FilesInv' /\ StopInv'
  <2>1. StartInv'
    BY <1>1 DEF StartInv, Early, startVars
  <2>2. LaterInv'
    BY <1>1 DEF LaterInv, Early
  <2>3. FilesInv'
    BY <1>1 DEF FilesInv
  <2>4. StopInv'
    BY <1>1, <1>2 DEF StopInv
  <2> QED BY <2>1, <2>2, <2>3, <2>4
<1>5. FramesInv'
  BY <1>1, <1>2, NoFrames DEF TypeOK, Views, Kinds
<1> QED BY <1>3, <1>4, <1>5

\* Facts about queues that the steps of the worker need.
LEMMA EmptyQueue ==
  ASSUME NEW q, q = <<>>
  PROVE  (\A X : q \in Seq(X)) /\ \A i \in 1 .. Len(q) : FALSE
OBVIOUS

\* The first message of a queue is one of its messages.
LEMMA HeadOf ==
  ASSUME NEW X, NEW q \in Seq(X), q # <<>>
  PROVE  Head(q) \in X
OBVIOUS

\* A queue that grows by a message keeps its type.
LEMMA Appended ==
  ASSUME NEW X, NEW q \in Seq(X), NEW m \in X
  PROVE  Append(q, m) \in Seq(X)
OBVIOUS

\* A message that the worker takes in a queue without a start.
LEMMA MessageTaken ==
  ASSUME RecordingInv, state \notin Early, inbox # <<>>, inbox' = Tail(inbox), view' \in Views,
         UNCHANGED <<session, recordVars, startVars, client>>,
         files' \in {files} \cup {"partial"}, files = "complete" => files' = files,
         \/ outbox' = outbox
         \/ \E answer \in {"frame_written", "failed"} : outbox' = Append(outbox, answer),
         \A c \in Connections : \/ view'[c] = After(view, Head(inbox))[c]
                                \/ After(view, Head(inbox))[c] = "left"
  PROVE  RecordingInv'
<1> USE DEF RecordingInv, recordVars, startVars
<1>1. /\ inbox \in Seq(Reports \cup {Stop}) /\ inbox \in Seq(Messages)
      /\ view \in Views /\ MemberTypes
      /\ outbox \in Seq({"frame_written", "failed", "ready"})
  BY DEF LaterInv, TypeOK, Views, Kinds, MemberTypes
<1>2. inbox' \in Seq(Reports \cup {Stop}) /\ inbox' \in Seq(Messages)
  BY <1>1
<1>3. outbox' \in Seq({"frame_written", "failed", "ready"})
  <2>1. CASE outbox' = outbox
    BY <1>1, <2>1
  <2>2. ASSUME NEW answer \in {"frame_written", "failed"}, outbox' = Append(outbox, answer)
        PROVE  outbox' \in Seq({"frame_written", "failed", "ready"})
    BY <1>1, <2>2
  <2> QED BY <2>1, <2>2
<1>4. TypeOK'
  <2>1. outbox' \in Seq({"started", "frame_written", "failed", "ready"})
    BY <1>3
  <2> QED BY <1>2, <2>1 DEF TypeOK, Views, Kinds
<1>5. StartInv'
  BY DEF StartInv, Early
<1>6. LaterInv'
  BY <1>2, <1>3 DEF LaterInv
<1>7. FilesInv'
  <2>1. files' # "complete" => files # "complete"
    OBVIOUS
  <2>2. outbox \in Seq({"started", "frame_written", "failed"}) =>
          outbox' \in Seq({"started", "frame_written", "failed"})
    <3>1. CASE outbox' = outbox
      BY <3>1
    <3>2. ASSUME NEW answer \in {"frame_written", "failed"}, outbox' = Append(outbox, answer),
                 outbox \in Seq({"started", "frame_written", "failed"})
          PROVE  outbox' \in Seq({"started", "frame_written", "failed"})
      BY <3>2
    <3> QED BY <3>1, <3>2
  <2> QED BY <2>1, <2>2 DEF FilesInv
<1>8. Writable' = Writable
  BY DEF Writable
<1>9. StopInv'
  <2>1. PICK q, n : q = inbox' /\ n = Len(inbox)
    OBVIOUS
  <2>2. /\ n \in Nat /\ Len(q) = n - 1
        /\ \A i \in 1 .. Len(q) : q[i] = inbox[i + 1] /\ i + 1 \in 1 .. n
    BY <1>1, <2>1
  <2>3. ASSUME NEW i \in 1 .. Len(q), q[i] = Stop
        PROVE  i = Len(q) /\ client.stopped
    <3>1. i + 1 = n /\ client.stopped
      BY <2>1, <2>2, <2>3 DEF StopInv
    <3> QED BY <2>2, <3>1
  <2>4. \A i \in 1 .. Len(inbox') : (inbox'[i] = Stop => i = Len(inbox') /\ client'.stopped)
    BY <2>1, <2>3
  <2> QED BY <1>8, <2>4 DEF StopInv
<1>10. FramesInv'
  BY <1>1, QueueShrinks
<1> QED BY <1>4, <1>5, <1>6, <1>7, <1>9, <1>10

\* The start is the only message before the recording has started.
LEMMA StartTaken ==
  ASSUME RecordingInv, state \in Early, inbox # <<>>, inbox' = Tail(inbox),
         UNCHANGED <<session, recordVars, startVars, client>>, files' \in {files, "partial"},
         \/ view' = After(view, Head(inbox)) /\ outbox' = Append(outbox, "started")
         \/ view' = view /\ outbox' = Append(outbox, "failed"),
         Head(inbox).type = "start" => files' = "partial" \/ files' = files
  PROVE  RecordingInv'
<1> USE DEF RecordingInv, recordVars, startVars
<1>1. starting /\ ~client.started /\ state = "waiting_consent"
  BY DEF StartInv
<1>2. PICK v : Told(v) /\ inbox = <<Start(v)>> /\ outbox = <<>>
  BY <1>1 DEF StartInv
<1>3. Head(inbox) = Start(v) /\ inbox' = <<>> /\ After(view, Start(v)) = v
  BY <1>2 DEF After, Start
<1>4. \/ view' = v /\ outbox' = <<"started">>
      \/ view' = view /\ outbox' = <<"failed">>
  BY <1>2, <1>3
<1>5. Told(v)'
  BY <1>2 DEF Told
<1>6. view' \in Views
  BY <1>2, <1>4 DEF Told, TypeOK, Views, Kinds
<1>7. TypeOK'
  <2>1. outbox' \in Seq({"started", "frame_written", "failed", "ready"})
    BY <1>4
  <2> QED BY <1>3, <1>6, <2>1 DEF TypeOK, Views, Kinds
<1>8. StartInv'
  <2>1. view' = v => Told(view)'
    BY <1>5 DEF Told
  <2> QED BY <1>1, <1>3, <1>4, <2>1 DEF StartInv
<1>9. LaterInv' /\ FilesInv'
  BY <1>1, <1>4 DEF LaterInv, FilesInv
<1>10. ~Writable' /\ Writable' = Writable
  BY <1>1 DEF Writable
<1>11. StopInv'
  BY <1>1, <1>3, <1>10 DEF StopInv
<1>12. FramesInv'
  <2>1. inbox' \in Seq(Messages) /\ \A i \in 1 .. Len(inbox') : inbox'[i].type # "frame"
    BY <1>3, EmptyQueue
  <2> QED BY <1>6, <1>10, <2>1, NoFrames
<1> QED BY <1>7, <1>8, <1>9, <1>11, <1>12

\* While a record is written, what the worker takes is a report or the stop.
LEMMA HeadIsReport ==
  ASSUME RecordingInv, state \notin Early, inbox # <<>>
  PROVE  /\ Head(inbox) \in Reports \cup {Stop}
         /\ view \in Views /\ After(view, Head(inbox)) \in Views
<1>1. inbox \in Seq(Reports \cup {Stop}) /\ view \in Views
  BY DEF RecordingInv, LaterInv, TypeOK, Views, Kinds
<1>2. Head(inbox) \in Reports \cup {Stop}
  BY <1>1
<1> QED BY <1>1, <1>2, ReportsAreMessages, AfterType

\* The worker handles a message, and learns what it reports.
LEMMA HandleMessageKeeps ==
  ASSUME RecordingInv, HandleMessage
  PROVE  RecordingInv'
<1> USE DEF HandleMessage
<1>1. CASE state \in Early
  <2>1. PICK v : inbox = <<Start(v)>>
    BY <1>1 DEF RecordingInv, StartInv
  <2>2. Head(inbox).type = "start"
    BY <2>1 DEF Start
  <2> QED BY <1>1, <2>2, StartTaken DEF Answer
<1>2. CASE state \notin Early
  <2>1. Head(inbox) \in Reports
    BY <1>2, HeadIsReport DEF Stop
  <2>2. Head(inbox).type # "start"
    BY <2>1, ReportsAreMessages
  <2>3. view' = After(view, Head(inbox)) /\ view' \in Views /\ files' = files
    BY <1>2, <2>2, HeadIsReport
  <2>4. \/ outbox' = outbox
        \/ \E answer \in {"frame_written", "failed"} : outbox' = Append(outbox, answer)
    BY <2>2 DEF Answer
  <2> QED BY <1>2, <2>3, <2>4, MessageTaken
<1> QED BY <1>1, <1>2

\* A message that the worker cannot handle is taken all the same.
LEMMA MessageFailsKeeps ==
  ASSUME RecordingInv, MessageFails
  PROVE  RecordingInv'
<1> USE DEF MessageFails
<1>1. CASE state \in Early
  <2>1. PICK v : inbox = <<Start(v)>>
    BY <1>1 DEF RecordingInv, StartInv
  <2>2. Head(inbox).type = "start"
    BY <2>1 DEF Start
  <2> QED BY <1>1, <2>2, StartTaken DEF Answer
<1>2. CASE state \notin Early
  <2> DEFINE m == Head(inbox)
  <2>1. m \in Reports \cup {Stop} /\ view \in Views /\ After(view, m) \in Views
    BY <1>2, HeadIsReport
  <2>2. m.type # "start" /\ m.type # "joined"
    <3>1. m.type # "start"
      BY <2>1, ReportsAreMessages DEF Stop
    <3> QED BY <2>1, <3>1, ReportsAreMessages DEF Stop, Rejects
  <2>3. files' = files /\ outbox' = Append(outbox, "failed")
    BY <2>2 DEF Answer
  <2>4. view' \in {view, After(view, m)} /\ (m.type = "revoked" => view' = After(view, m))
    OBVIOUS
  <2>5. Rejects(view, m) \/ m.type \in {"left", "revoked", "frame", "stop"}
    BY <2>2
  <2> HIDE DEF m
  <2>6. \A c \in Connections : \/ view'[c] = After(view, m)[c]
                               \/ After(view, m)[c] = "left"
    <3>1. CASE m = Stop
      BY <2>1, <2>4, <3>1 DEF After, Stop
    <3>2. CASE m \in Reports
      <4>1. /\ m.of \in Connections /\ view[m.of] \in Kinds
            /\ After(view, m)[m.of] = Turned(view[m.of], m.type)
            /\ \A c \in Connections : c # m.of => After(view, m)[c] = view[c]
        BY <2>1, <3>2, AfterReport DEF Views
      <4>2. \/ m.type = "revoked"
            \/ Turned(view[m.of], m.type) \in {view[m.of], "left"}
        BY <2>2, <2>5, <3>2, <4>1, ReportsAreMessages DEF Turned, Rejects, Kinds
      <4> QED BY <2>4, <4>1, <4>2
    <3> QED BY <2>1, <3>1, <3>2
  <2> QED BY <1>2, <2>1, <2>3, <2>4, <2>6, MessageTaken DEF m
<1> QED BY <1>1, <1>2

\* The worker writes audio, which the queues have nothing to do with.
LEMMA WriteAudioKeeps ==
  ASSUME RecordingInv, WriteAudio
  PROVE  RecordingInv'
<1> USE DEF RecordingInv, WriteAudio, recordVars, startVars, threadVars
<1>1. Writable' = Writable
  BY DEF Writable
<1>2. TypeOK' /\ LaterInv' /\ FilesInv' /\ StopInv'
  BY <1>1 DEF TypeOK, LaterInv, FilesInv, StopInv
<1>3. StartInv'
  <2>1. Told(view)' = Told(view) /\ \A v : Told(v)' = Told(v)
    BY DEF Told
  <2> QED BY <2>1 DEF StartInv
<1> QED BY <1>1, <1>2, <1>3, SameQueue

\* The metadata is written by the worker that was stopped.
LEMMA WriteMetadataKeeps ==
  ASSUME RecordingInv, WriteMetadata
  PROVE  RecordingInv'
<1> USE DEF RecordingInv, WriteMetadata, recordVars, startVars
<1>1. state \notin Early
  <2>1. SUFFICES ASSUME state \in Early PROVE FALSE
    OBVIOUS
  <2>2. PICK v : inbox = <<Start(v)>>
    BY <2>1 DEF StartInv
  <2> QED BY <2>2 DEF Start, Stop
<1>2. /\ inbox \in Seq(Reports \cup {Stop})
      /\ outbox \in Seq({"frame_written", "failed", "ready"})
  BY <1>1 DEF LaterInv
<1>3. inbox[1] = Stop /\ 1 \in 1 .. Len(inbox)
  BY <1>2
<1>4. Len(inbox) = 1 /\ client.stopped
  BY <1>3 DEF StopInv
<1>5. inbox' = <<>> /\ Len(inbox') = 0
  BY <1>2, <1>4
<1>6. outbox' \in Seq({"frame_written", "failed", "ready"})
  BY <1>2 DEF Answer
<1>7. ~Writable'
  BY <1>4 DEF Writable
<1>8. view' \in Views
  BY DEF Unknown, Views, Kinds
<1>9. TypeOK'
  <2>1. outbox' \in Seq({"started", "frame_written", "failed", "ready"})
    BY <1>6
  <2> QED BY <1>5, <1>8, <2>1 DEF TypeOK, Views, Kinds
<1>10. StartInv'
  BY <1>1 DEF StartInv, Early
<1>11. LaterInv' /\ FilesInv'
  BY <1>5, <1>6 DEF LaterInv, FilesInv
<1>12. inbox' \in Seq(Messages)
       /\ \A i \in 1 .. Len(inbox') : inbox'[i].type # "frame" /\ inbox'[i] # Stop
  BY <1>5, EmptyQueue
<1>13. StopInv'
  BY <1>4, <1>7, <1>12 DEF StopInv
<1>14. FramesInv'
  BY <1>7, <1>8, <1>12, NoFrames
<1> QED BY <1>9, <1>10, <1>11, <1>13, <1>14

\* The answer to the start: the consents that waited are told.
LEMMA HandleStartedKeeps ==
  ASSUME RecordingInv, HandleStarted
  PROVE  RecordingInv'
<1> USE DEF RecordingInv, HandleStarted
<1>1. /\ starting /\ state = "waiting_consent" /\ client = NoClient
      /\ inbox = <<>> /\ outbox = <<"started">> /\ Told(view)
  <2>1. state \in Early
    <3>1. SUFFICES ASSUME state \notin Early PROVE FALSE
      OBVIOUS
    <3>2. outbox \in Seq({"frame_written", "failed", "ready"})
      BY <3>1 DEF LaterInv
    <3>3. Head(outbox) \in {"frame_written", "failed", "ready"}
      BY <3>2, HeadOf
    <3> QED BY <3>3
  <2>2. outbox # <<>> /\ Head(outbox) = "started"
    OBVIOUS
  <2> HIDE DEF HandleStarted
  <2>3. starting /\ outbox # <<"failed">>
    BY <2>1, <2>2 DEF StartInv
  <2> QED BY <2>2, <2>3 DEF StartInv
<1>2. MemberTypes /\ view \in Views
  BY DEF TypeOK, MemberTypes, Views, Kinds
<1>3. /\ Resumed \in Seq(Reports) /\ Resumed \in Seq(Messages)
      /\ \A i \in 1 .. Len(Resumed) : Resumed[i].type # "frame" /\ Resumed[i] # Stop
  <2>1. /\ Resumed \in Seq(Reports)
        /\ \A i \in 1 .. Len(Resumed) : Resumed[i].type \in {"granted", "revoked"}
    <3>1. Resumed \in Seq(Reports)
      BY <1>2, ResumedAre
    <3>2. \A i \in 1 .. Len(Resumed) :
            \/ Resumed[i].type = "granted"
            \/ Resumed[i].type = IF consents[Resumed[i].of] = "yes"
                                THEN "granted" ELSE "revoked"
      BY <1>2, ResumedAre
    <3> QED BY <3>1, <3>2
  <2>2. Resumed \in Seq(Messages)
    BY <2>1, ReportsAreMessages
  <2>3. ASSUME NEW i \in 1 .. Len(Resumed)
        PROVE  Resumed[i].type # "frame" /\ Resumed[i] # Stop
    <3>1. Resumed[i] \in Reports
      BY <2>1
    <3> QED BY <2>1, <3>1, ReportsAreMessages
  <2> QED BY <2>1, <2>2, <2>3
<1>4. /\ outbox' = <<>> /\ ~starting' /\ ~closing'
      /\ UNCHANGED <<session, consents, view, files>> /\ waiting' = {} /\ detached' = {}
  BY <1>1
<1>5. PICK told : told = Resumed
  OBVIOUS
<1>6. inbox' = IF closing THEN told \o <<Stop>> ELSE told
  <2>1. inbox' = (<<>> \o told) \o (IF closing THEN <<Stop>> ELSE <<>>)
    BY <1>1, <1>5
  <2>2. told \in Seq(Reports) /\ <<>> \o told = told /\ told \o <<>> = told
    BY <1>3, <1>5
  <2> QED BY <2>1, <2>2
<1>7. /\ told \o <<Stop>> = Append(told, Stop) /\ told \in Seq(Messages)
      /\ told \in Seq(Reports \cup {Stop})
      /\ Append(told, Stop) \in Seq(Messages)
      /\ Append(told, Stop) \in Seq(Reports \cup {Stop})
  <2>1. told \in Seq(Messages) /\ told \in Seq(Reports)
    BY <1>3, <1>5
  <2>2. told \in Seq(Reports \cup {Stop})
    BY <2>1
  <2>3. told \o <<Stop>> = Append(told, Stop)
    BY <2>1
  <2>4. Append(told, Stop) \in Seq(Messages)
    BY <2>1, Appended, ReportsAreMessages
  <2>5. Append(told, Stop) \in Seq(Reports \cup {Stop})
    BY <2>2, Appended
  <2> QED BY <2>1, <2>2, <2>3, <2>4, <2>5
<1>8. outbox' \in Seq({"frame_written", "failed", "ready"})
       /\ outbox' \in Seq({"started", "frame_written", "failed", "ready"})
       /\ outbox' \in Seq({"started", "frame_written", "failed"})
  BY <1>4, EmptyQueue
<1>9. client.stopped = FALSE /\ client.failed = FALSE /\ client.pending = 0
  BY <1>1 DEF NoClient
<1>10. CASE ~closing
  <2>1. state' = "recording" /\ inbox' = told /\ ~client'.stopped /\ client'.started
        /\ client' \in [started : BOOLEAN, stopped : BOOLEAN, failed : BOOLEAN, pending : Nat]
    BY <1>6, <1>9, <1>10 DEF TypeOK
  <2>2. TypeOK'
    BY <1>4, <1>7, <1>8, <2>1 DEF TypeOK
  <2>3. StartInv'
    BY <1>4, <2>1 DEF StartInv, Early
  <2>4. LaterInv'
    BY <1>7, <1>8, <2>1 DEF LaterInv
  <2>5. FilesInv'
    BY <1>8, <2>1 DEF FilesInv
  <2>6. StopInv'
    BY <1>3, <1>5, <2>1 DEF StopInv
  <2>7. FramesInv'
    <3>1. PICK w : Learns(w, view', inbox', Len(inbox'))
      BY <1>2, <1>4, <1>7, <2>1, LearnsFrom
    <3>2. PICK known : known = view
      OBVIOUS
    <3>3. Told(known) /\ Learns(w, known, Resumed, Len(Resumed))
      BY <1>1, <1>4, <1>5, <2>1, <3>1, <3>2
    <3>4. Fits(w[Len(Resumed) + 1], consents)
      BY <1>2, <3>3, ResumedFit
    <3>5. Fits(w[Len(inbox') + 1], consents')
      BY <1>4, <1>5, <2>1, <3>4
    <3>6. \A i \in 1 .. Len(inbox') : inbox'[i].type # "frame"
      BY <1>3, <1>5, <2>1
    <3> QED BY <3>1, <3>5, <3>6 DEF FramesInv
  <2> QED BY <2>2, <2>3, <2>4, <2>5, <2>6, <2>7
<1>11. CASE closing
  <2>1. state' = "finalizing" /\ inbox' = Append(told, Stop) /\ client'.stopped
        /\ client' \in [started : BOOLEAN, stopped : BOOLEAN, failed : BOOLEAN, pending : Nat]
    BY <1>6, <1>7, <1>9, <1>11 DEF TypeOK
  <2>2. inbox' \in Seq(Messages) /\ inbox' \in Seq(Reports \cup {Stop})
    BY <1>7, <2>1
  <2>3. TypeOK'
    BY <1>4, <1>8, <2>1, <2>2 DEF TypeOK
  <2>4. StartInv'
    BY <1>4, <2>1 DEF StartInv, Early
  <2>5. LaterInv'
    BY <1>8, <2>1, <2>2 DEF LaterInv
  <2>6. FilesInv'
    BY <1>8, <2>1 DEF FilesInv
  <2>7. ~Writable'
    BY <2>1 DEF Writable
  <2>8. \A i \in 1 .. Len(inbox') : \/ i \in 1 .. Len(told) /\ inbox'[i] = told[i]
                                    \/ i = Len(inbox') /\ inbox'[i] = Stop
    <3>1. told \in Seq(Messages) /\ Stop \in Messages
      BY <1>7, ReportsAreMessages
    <3>2. \A i \in 1 .. Len(Append(told, Stop)) :
            \/ i \in 1 .. Len(told) /\ Append(told, Stop)[i] = told[i]
            \/ i = Len(Append(told, Stop)) /\ Append(told, Stop)[i] = Stop
      BY <3>1
    <3> QED BY <2>1, <3>2
  <2>9. StopInv'
    BY <1>3, <1>5, <2>1, <2>7, <2>8 DEF StopInv
  <2>10. \A i \in 1 .. Len(inbox') : inbox'[i].type # "frame"
    <3>1. Stop.type # "frame"
      BY DEF Stop
    <3> QED BY <1>3, <1>5, <2>8, <3>1
  <2>11. FramesInv'
    BY <1>2, <1>4, <2>2, <2>7, <2>10, NoFrames
  <2> QED BY <2>3, <2>4, <2>5, <2>6, <2>9, <2>11
<1> QED BY <1>10, <1>11

\* The other answers of the worker leave the queue to it alone.
LEMMA AnswerKeeps ==
  ASSUME RecordingInv, HandleFrameWritten \/ HandleFailed \/ HandleReady
  PROVE  RecordingInv'
<1> USE DEF RecordingInv, recordVars, startVars
<1>1. /\ outbox # <<>> /\ outbox' = Tail(outbox)
      /\ UNCHANGED <<session, consents, inbox, view, files>>
  BY DEF HandleFrameWritten, HandleFailed, HandleReady
<1>2. /\ client'.started = client.started /\ client'.stopped = client.stopped
      /\ client.failed => client'.failed
      /\ client' \in [started : BOOLEAN, stopped : BOOLEAN, failed : BOOLEAN, pending : Nat]
  <2>1. CASE HandleFrameWritten
    <3>1. (IF client.pending > 0 THEN client.pending - 1 ELSE 0) \in Nat
      BY DEF TypeOK
    <3> QED BY <2>1, <3>1 DEF HandleFrameWritten, TypeOK
  <2>2. CASE HandleFailed
    BY <2>2 DEF HandleFailed, TypeOK
  <2>3. CASE HandleReady
    BY <2>3 DEF HandleReady, TypeOK
  <2> QED BY <2>1, <2>2, <2>3
<1>3. Writable' => Writable
  BY <1>2 DEF Writable
<1>4. \A X : outbox \in Seq(X) => outbox' \in Seq(X) /\ Head(outbox) \in X
  BY <1>1
<1>5. /\ state' = state \/ (state = "finalizing" /\ state' \in {"failed", "ready"})
      /\ state' = "ready" => state = "ready" \/ Head(outbox) = "ready"
  BY DEF HandleFrameWritten, HandleFailed, HandleReady
<1>6. \/ UNCHANGED startVars
      \/ starting' = FALSE /\ waiting' = {} /\ detached' = {} /\ closing' = FALSE
  BY DEF HandleFrameWritten, HandleFailed, HandleReady
<1>7. TypeOK'
  <2>1. outbox' \in Seq({"started", "frame_written", "failed", "ready"})
    BY <1>4 DEF TypeOK
  <2> QED BY <1>1, <1>2, <1>5, <1>6, <2>1 DEF TypeOK
<1>8. StartInv'
  <2>1. CASE state \notin Early
    <3>1. ~starting' /\ ~closing' /\ state' \notin Early
      BY <1>5, <1>6, <2>1 DEF StartInv, Early
    <3> QED BY <3>1 DEF StartInv
  <2>2. CASE state \in Early
    <3>1. starting /\ inbox = <<>> /\ outbox \in {<<"failed">>, <<"started">>} /\ ~client.started
      BY <1>1, <2>2 DEF StartInv
    <3>2. Head(outbox) \in {"failed", "started"} /\ outbox' = <<>>
      BY <1>1, <3>1
    <3>3. HandleFailed
      BY <3>2 DEF HandleFrameWritten, HandleReady
    <3>4. ~starting' /\ ~closing' /\ state' = state
      BY <2>2, <3>3 DEF HandleFailed, Early
    <3> QED BY <1>1, <1>2, <3>1, <3>2, <3>4 DEF StartInv
  <2> QED BY <2>1, <2>2
<1>9. LaterInv'
  BY <1>1, <1>4, <1>5 DEF LaterInv, Early
<1>10. FilesInv'
  <2>1. ASSUME files # "complete" PROVE Head(outbox) # "ready"
    <3>1. Head(outbox) \in {"started", "frame_written", "failed"}
      BY <1>4, <2>1 DEF FilesInv
    <3> QED BY <3>1
  <2> QED BY <1>1, <1>4, <1>5, <2>1 DEF FilesInv
<1>11. StopInv'
  <2>1. state' = "recording" <=> state = "recording"
    BY <1>5
  <2> QED BY <1>1, <1>2, <1>3, <2>1 DEF StopInv
<1>12. FramesInv'
  BY <1>1, <1>3, SameQueue
<1> QED BY <1>7, <1>8, <1>9, <1>10, <1>11, <1>12

\* A restart leaves nothing but the files.
LEMMA RestartKeeps ==
  ASSUME RecordingInv, Restart
  PROVE  RecordingInv'
<1> USE DEF RecordingInv, Restart
<1>1. ~NoClient.started /\ Unknown \in Views
      /\ NoClient \in [started : BOOLEAN, stopped : BOOLEAN, failed : BOOLEAN, pending : Nat]
  BY DEF NoClient, Unknown, Views, Kinds
<1>2. ~Writable'
  BY <1>1 DEF Writable
<1>3. TypeOK'
  <2>1. inbox' \in Seq(Messages) /\ outbox' \in Seq({"started", "frame_written", "failed", "ready"})
    BY EmptyQueue
  <2> QED BY <1>1, <2>1 DEF TypeOK, Views, Kinds
<1>4. StartInv' /\ LaterInv' /\ FilesInv'
  BY <1>1 DEF StartInv, LaterInv, FilesInv, Early
<1>5. StopInv'
  BY <1>2, EmptyQueue DEF StopInv
<1>6. FramesInv'
  BY <1>1, <1>2, EmptyQueue, NoFrames
<1> QED BY <1>3, <1>4, <1>5, <1>6

\* The invariant holds when the program starts.
LEMMA RecordingInit == Init => RecordingInv
<1> SUFFICES ASSUME Init PROVE RecordingInv
  OBVIOUS
<1> USE DEF Init
<1>1. ~NoClient.started /\ Unknown \in Views
      /\ NoClient \in [started : BOOLEAN, stopped : BOOLEAN, failed : BOOLEAN, pending : Nat]
  BY DEF NoClient, Unknown, Views, Kinds
<1>2. ~Writable
  BY <1>1 DEF Writable
<1>3. TypeOK
  <2>1. inbox \in Seq(Messages) /\ outbox \in Seq({"started", "frame_written", "failed", "ready"})
    BY EmptyQueue
  <2> QED BY <1>1, <2>1 DEF TypeOK, Views, Kinds
<1>4. StartInv /\ LaterInv /\ FilesInv
  BY <1>1 DEF StartInv, LaterInv, FilesInv, Early
<1>5. StopInv
  BY <1>2, EmptyQueue DEF StopInv
<1>6. FramesInv
  <2>1. PICK w : Learns(w, view, inbox, Len(inbox))
    BY <1>1, EmptyQueue, LearnsFrom
  <2> QED BY <1>2, <2>1, EmptyQueue DEF FramesInv
<1> QED BY <1>3, <1>4, <1>5, <1>6 DEF RecordingInv

\* Every step keeps the invariant.
LEMMA RecordingStep ==
  ASSUME RecordingInv, [Next]_vars
  PROVE  RecordingInv'
<1>1. TypeOK
  BY DEF RecordingInv
<1>2. ASSUME NEW S \in SUBSET Connections, SessionCreated(S) PROVE RecordingInv'
  BY <1>2, SessionCreatedKeeps
<1>3. ASSUME NEW c \in Connections, MemberJoined(c) PROVE RecordingInv'
  <2>1. session \cup {c} \in SUBSET Connections
    BY <1>1 DEF TypeOK
  <2> QED BY <1>3, <2>1, SynchronizeKeeps DEF MemberJoined
<1>4. ASSUME NEW c \in Connections, MemberLeft(c) PROVE RecordingInv'
  <2>1. session \ {c} \in SUBSET Connections
    BY <1>1 DEF TypeOK
  <2> QED BY <1>4, <2>1, SynchronizeKeeps DEF MemberLeft
<1>5. ASSUME NEW c \in Connections, ConnectionExpires(c) PROVE RecordingInv'
  <2>1. UNCHANGED <<recordVars, startVars, threadVars, files>> /\ session' \subseteq Connections
    BY <1>1, <1>5 DEF ConnectionExpires, TypeOK
  <2> USE DEF RecordingInv, recordVars, startVars, threadVars
  <2>2. Writable' = Writable
    BY <2>1 DEF Writable
  <2>3. TypeOK' /\ LaterInv' /\ FilesInv' /\ StopInv'
    BY <2>1, <2>2 DEF TypeOK, LaterInv, FilesInv, StopInv
  <2>4. StartInv'
    <3>1. Told(view)' = Told(view) /\ \A v : Told(v)' = Told(v)
      BY <2>1 DEF Told
    <3> QED BY <2>1, <3>1 DEF StartInv
  <2> QED BY <2>1, <2>2, <2>3, <2>4, SameQueue
<1>6. ASSUME NEW c \in Connections, NEW consented \in BOOLEAN,
             RecordingConsentChanged(c, consented)
      PROVE  RecordingInv'
  <2>1. c \in session /\ UpdateConsent(c, consented)
    BY <1>6 DEF RecordingConsentChanged
  <2>2. CASE consented /\ state = "waiting_consent" /\ ~starting
    <3>1. consented = TRUE
      BY <2>2
    <3> QED BY <2>1, <2>2, <3>1, FirstConsentKeeps
  <2>3. CASE ~(consented /\ state = "waiting_consent" /\ ~starting)
    BY <2>1, <2>3, LaterConsentKeeps
  <2> QED BY <2>2, <2>3
<1>7. state = "recording" => ~starting
  BY DEF RecordingInv, StartInv
<1>8. ASSUME NEW c \in Connections, CaptureFrame(c) PROVE RecordingInv'
  BY <1>8, CaptureFrameKeeps
<1>9. ASSUME NEW c \in Connections, CaptureOverflows(c) PROVE RecordingInv'
  BY <1>9, CaptureOverflowsKeeps
<1>10. ASSUME NEW c \in Connections, CaptureEnds(c) PROVE RecordingInv'
  BY <1>1, <1>7, <1>10, CloseKeeps DEF CaptureEnds, Captures, TypeOK
<1>11. CASE SessionClosed
  <2>1. session' \subseteq Connections
    BY <1>11 DEF SessionClosed
  <2> QED BY <1>11, <2>1, FinalizeKeeps DEF SessionClosed
<1>12. CASE Shutdown
  BY <1>1, <1>7, <1>12, CloseKeeps DEF Shutdown, TypeOK
<1>13. CASE Restart
  BY <1>13, RestartKeeps
<1>14. CASE WorkerSteps
  BY <1>14, HandleMessageKeeps, MessageFailsKeeps, WriteAudioKeeps, WriteMetadataKeeps
  DEF WorkerSteps
<1>15. CASE Answers
  BY <1>15, HandleStartedKeeps, AnswerKeeps DEF Answers
<1>16. CASE UNCHANGED vars
  <2> USE <1>16 DEF RecordingInv, vars, recordVars, startVars, threadVars
  <2>1. Writable' = Writable
    BY DEF Writable
  <2>2. TypeOK' /\ LaterInv' /\ FilesInv' /\ StopInv'
    BY <2>1 DEF TypeOK, LaterInv, FilesInv, StopInv
  <2>3. StartInv'
    <3>1. Told(view)' = Told(view) /\ \A v : Told(v)' = Told(v)
      BY DEF Told
    <3> QED BY <3>1 DEF StartInv
  <2> QED BY <2>1, <2>2, <2>3, SameQueue
<1>17. CASE Next
  BY <1>2, <1>3, <1>4, <1>5, <1>6, <1>8, <1>9, <1>10, <1>11, <1>12, <1>13, <1>14, <1>15, <1>17
  DEF Next
<1> QED BY <1>16, <1>17

\* The view that the property follows is what the worker learns.
LEMMA ViewIsLearned ==
  ASSUME NEW w, Learns(w, view, inbox, Len(inbox)), inbox \in Seq(Messages)
  PROVE  \A i \in 1 .. Len(inbox) + 1 : ViewAt[i] = w[i]
<1>1. w = [i \in 1 .. Len(inbox) + 1 |->
            IF i = 1 THEN view ELSE After(w[i - 1], inbox[i - 1])]
  <2>1. \A i \in 1 .. Len(inbox) + 1 : i # 1 => w[i] = After(w[i - 1], inbox[i - 1])
    <3>1. ASSUME NEW i \in 1 .. Len(inbox) + 1, i # 1
          PROVE  w[i] = After(w[i - 1], inbox[i - 1])
      <4>1. i - 1 \in 1 .. Len(inbox) /\ (i - 1) + 1 = i
        BY <3>1
      <4> QED BY <4>1 DEF Learns
    <3> QED BY <3>1
  <2> QED BY <2>1 DEF Learns
<1>2. \E x : x = [i \in 1 .. Len(inbox) + 1 |->
                   IF i = 1 THEN view ELSE After(x[i - 1], inbox[i - 1])]
  BY <1>1
<1>3. ViewAt = [i \in 1 .. Len(inbox) + 1 |->
                 IF i = 1 THEN view ELSE After(ViewAt[i - 1], inbox[i - 1])]
  BY <1>2, Zenon DEF ViewAt
<1> DEFINE S == {n \in Nat : n <= Len(inbox) => ViewAt[n + 1] = w[n + 1]}
<1>4. 0 \in S
  BY <1>3 DEF Learns
<1>5. ASSUME NEW n \in S PROVE n + 1 \in S
  <2>1. SUFFICES ASSUME n + 1 <= Len(inbox) PROVE ViewAt[(n + 1) + 1] = w[(n + 1) + 1]
    OBVIOUS
  <2>2. n + 1 \in 1 .. Len(inbox) /\ (n + 1) + 1 \in 1 .. Len(inbox) + 1 /\ (n + 1) + 1 # 1
        /\ ((n + 1) + 1) - 1 = n + 1
    BY <2>1
  <2>3. ViewAt[(n + 1) + 1] = After(ViewAt[n + 1], inbox[n + 1])
    BY <1>3, <2>2
  <2>4. w[(n + 1) + 1] = After(w[n + 1], inbox[n + 1])
    BY <2>2 DEF Learns
  <2>5. ViewAt[n + 1] = w[n + 1]
    BY <2>1
  <2> QED BY <2>3, <2>4, <2>5
<1>6. S \in SUBSET Nat
  OBVIOUS
<1> HIDE DEF S
<1>7. \A n \in Nat : n \in S
  BY <1>4, <1>5, <1>6, AllNaturals
<1>8. ASSUME NEW i \in 1 .. Len(inbox) + 1 PROVE ViewAt[i] = w[i]
  <2>1. i - 1 \in Nat /\ i - 1 <= Len(inbox) /\ (i - 1) + 1 = i
    OBVIOUS
  <2>2. ViewAt[(i - 1) + 1] = w[(i - 1) + 1]
    BY <1>7, <2>1 DEF S
  <2> QED BY <2>1, <2>2
<1> QED BY <1>8

\* The invariant implies the properties.
LEMMA RecordingMeans ==
  RecordingInv => TypeOK /\ ReadyIsComplete /\ FramesFollowConsent
<1> SUFFICES ASSUME RecordingInv PROVE TypeOK /\ ReadyIsComplete /\ FramesFollowConsent
  OBVIOUS
<1>1. TypeOK /\ ReadyIsComplete
  BY DEF RecordingInv, FilesInv, ReadyIsComplete
<1>2. PICK w : /\ Learns(w, view, inbox, Len(inbox))
               /\ \A i \in 1 .. Len(inbox) :
                    (inbox[i].type = "frame" => w[i][inbox[i].of] \in {"yes", "unknown"})
  BY DEF RecordingInv, FramesInv
<1>3. inbox \in Seq(Messages) /\ DOMAIN inbox = 1 .. Len(inbox)
  BY <1>1 DEF TypeOK
<1>4. \A i \in 1 .. Len(inbox) : ViewAt[i] = w[i]
  <2>1. \A i \in 1 .. Len(inbox) + 1 : ViewAt[i] = w[i]
    BY <1>2, <1>3, ViewIsLearned
  <2>2. \A i \in 1 .. Len(inbox) : i \in 1 .. Len(inbox) + 1
    BY <1>3
  <2> QED BY <2>1, <2>2
<1>5. FramesFollowConsent
  BY <1>2, <1>3, <1>4 DEF FramesFollowConsent
<1> QED BY <1>1, <1>5

\* The invariant holds in every state.
LEMMA RecordingHolds == Spec => []RecordingInv
<1>1. Init => RecordingInv
  BY RecordingInit
<1>2. RecordingInv /\ [Next]_vars => RecordingInv'
  BY RecordingStep
<1> QED BY <1>1, <1>2, PTL DEF Spec

\* The record, the worker client, the worker and the queues between them keep their
\* types, for every set of connections and every number of pending frames.
THEOREM RecordingTypes == Spec => []TypeOK
<1>1. RecordingInv => TypeOK
  BY RecordingMeans
<1> QED BY <1>1, RecordingHolds, PTL

\* The worker never finds a frame of a participant whom it knows to be gone or not to
\* consent, so that no recording is given up for the order of its messages.
THEOREM FramesAreConsented == Spec => []FramesFollowConsent
<1>1. RecordingInv => FramesFollowConsent
  BY RecordingMeans
<1> QED BY <1>1, RecordingHolds, PTL

\* A recording that the service reports as ready has its audio and its metadata.
THEOREM ReadyMeansComplete == Spec => []ReadyIsComplete
<1>1. RecordingInv => ReadyIsComplete
  BY RecordingMeans
<1> QED BY <1>1, RecordingHolds, PTL

\* A step leaves what has ended as it is.
Stays ==
  /\ state \in {"ready", "declined"} => state' \in {state, "none"}
  /\ state = "failed" => state' \in {"failed", "declined", "none"}

\* What has ended stays so until the process restarts: a start or an answer that comes
\* late does not turn it on again, and a ready recording does not fail.
THEOREM EndedRecordingsStay == Spec => EndedStaysEnded
<1>1. ASSUME RecordingInv, [Next]_vars, state \in {"ready", "declined", "failed"}
      PROVE  Stays
  <2>1. state # "recording" /\ state \notin Early /\ ~starting
    BY <1>1 DEF RecordingInv, StartInv, Early
  <2>2. outbox \in Seq({"frame_written", "failed", "ready"})
    BY <1>1, <2>1 DEF RecordingInv, LaterInv
  <2>3. ASSUME Close PROVE Stays
    BY <1>1, <2>1, <2>3 DEF Close, Stays
  <2>4. ASSUME NEW c \in Connections, NEW consented \in BOOLEAN,
               RecordingConsentChanged(c, consented)
        PROVE  Stays
    BY <1>1, <2>4 DEF RecordingConsentChanged, UpdateConsent, Stays
  <2>5. CASE WorkerSteps
    BY <1>1, <2>5 DEF WorkerSteps, HandleMessage, MessageFails, WriteAudio, WriteMetadata,
       recordVars, Stays
  <2>6. CASE Answers
    <3>1. ~HandleStarted
      BY <2>2, HeadOf DEF HandleStarted
    <3> QED BY <1>1, <2>6, <3>1 DEF Answers, HandleFrameWritten, HandleFailed, HandleReady,
            recordVars, Stays
  <2>7. CASE SessionClosed
    BY <2>1, <2>3, <2>7 DEF SessionClosed, Finalize
  <2>8. CASE Restart
    BY <1>1, <2>8 DEF Restart, Stays
  <2>9. ASSUME NEW S \in SUBSET Connections, SessionCreated(S) PROVE Stays
    BY <2>1, <2>9 DEF SessionCreated, Early
  <2>10. ASSUME NEW c \in Connections,
                MemberJoined(c) \/ MemberLeft(c) \/ ConnectionExpires(c)
         PROVE  Stays
    BY <1>1, <2>10 DEF MemberJoined, MemberLeft, ConnectionExpires, recordVars, Stays
  <2>11. ASSUME NEW c \in Connections,
                CaptureFrame(c) \/ CaptureOverflows(c) \/ CaptureEnds(c)
         PROVE  Stays
    BY <2>1, <2>11 DEF CaptureFrame, CaptureOverflows, CaptureEnds, Captures
  <2>12. CASE Shutdown
    BY <2>1, <2>12 DEF Shutdown
  <2>13. CASE UNCHANGED vars
    BY <1>1, <2>13 DEF vars, recordVars, Stays
  <2> QED BY <1>1, <2>4, <2>5, <2>6, <2>7, <2>8, <2>9, <2>10, <2>11, <2>12, <2>13 DEF Next
<1>2. RecordingInv /\ [Next]_vars => [Stays]_vars
  <2>1. ASSUME RecordingInv, [Next]_vars, state \notin {"ready", "declined", "failed"}
        PROVE  Stays
    BY <2>1 DEF Stays
  <2> QED BY <1>1, <2>1
<1> QED BY <1>2, RecordingHolds, PTL DEF Spec, EndedStaysEnded, Stays

-----------------------------------------------------------------------------
(* What a user finds in a recording that has ended (VoiceDirectional): first *)
(* what its operators on intervals compute, as sets of moments, then what    *)
(* the timeline and the intervals of the participants say of each moment.    *)

CONSTANTS UserOf, Controlled, MaxTime, MaxControls, MaxChanges, MaxRemovals
VARIABLES clock, connected, members, cleanups, policy, muted, noted, phase, intervals,
          timeline, downloads, registered, controls, changes, history, untold, gone

Mix == INSTANCE VoiceDirectional

\* The operators of the library are those of the instance.
LEMMA SameCardinality ==
  ASSUME NEW S
  PROVE  Mix!Cardinality(S) = Cardinality(S)
BY DEF Mix!Cardinality, Cardinality

\* Finite sets are the same.
LEMMA SameFiniteness ==
  ASSUME NEW S
  PROVE  Mix!IsFiniteSet(S) <=> IsFiniteSet(S)
BY DEF Mix!IsFiniteSet, IsFiniteSet

\* So are the lists of sets.
LEMMA SameList ==
  ASSUME NEW S
  PROVE  Mix!SetToSeq(S) = SetToSeq(S)
BY SameCardinality DEF Mix!SetToSeq, SetToSeq, Mix!IsInjective, IsInjective

\* w starts with b and goes on as F says.
Goes(w, N, S, b, F) ==
  w \in [0..N -> S] /\ w[0] = b /\ \A n \in 1..N : w[n] = F[<<n, w[n - 1]>>]

\* Recursion along 0..N: there is a function that starts with b and goes on as F says.
LEMMA Recursion ==
  ASSUME NEW N, N \in Nat, NEW S, NEW b, b \in S, NEW F, F \in [(1..N) \X S -> S]
  PROVE  \E w : Goes(w, N, S, b, F)
<1> DEFINE T == {n \in Nat : n <= N => \E w \in [0..n -> S] :
                               w[0] = b /\ \A k \in 1..n : w[k] = F[<<k, w[k - 1]>>]}
<1>1. 0 \in T
  <2>1. [k \in 0..0 |-> b] \in [0..0 -> S] /\ [k \in 0..0 |-> b][0] = b /\ 1..0 = {}
    OBVIOUS
  <2> QED BY <2>1
<1>2. ASSUME NEW n \in T PROVE n + 1 \in T
  <2> SUFFICES ASSUME n + 1 <= N
               PROVE  \E w \in [0..n + 1 -> S] :
                        w[0] = b /\ \A k \in 1..n + 1 : w[k] = F[<<k, w[k - 1]>>]
    OBVIOUS
  <2>1. PICK w \in [0..n -> S] : w[0] = b /\ \A k \in 1..n : w[k] = F[<<k, w[k - 1]>>]
    OBVIOUS
  <2> DEFINE v == [k \in 0..n + 1 |-> IF k = n + 1 THEN F[<<n + 1, w[n]>>] ELSE w[k]]
  <2>2. n + 1 \in 1..N /\ w[n] \in S /\ F[<<n + 1, w[n]>>] \in S
    <3>1. n + 1 \in 1..N /\ w[n] \in S
      BY <2>1
    <3>2. <<n + 1, w[n]>> \in (1..N) \X S
      BY <3>1
    <3> QED BY <3>1, <3>2
  <2>3. v \in [0..n + 1 -> S]
    BY <2>1, <2>2
  <2>4. v[n + 1] = F[<<n + 1, w[n]>>] /\ \A k \in 0..n : v[k] = w[k]
    OBVIOUS
  <2>5. v[0] = b
    BY <2>1, <2>4
  <2> HIDE DEF v
  <2>6. ASSUME NEW k \in 1..n + 1 PROVE v[k] = F[<<k, v[k - 1]>>]
    <3>1. CASE k = n + 1
      BY <2>4, <3>1
    <3>2. CASE k # n + 1
      BY <2>1, <2>4, <3>2
    <3> QED BY <3>1, <3>2
  <2> QED BY <2>3, <2>5, <2>6
<1>3. \A n \in Nat : n \in T
  <2> HIDE DEF T
  <2>1. T \in SUBSET Nat
    BY DEF T
  <2> QED BY <1>1, <1>2, <2>1, AllNaturals
<1>4. N \in T
  BY <1>3
<1> QED BY <1>4 DEF Goes

\* What holds for 0 and goes on from one number to the next holds up to N.
LEMMA UpTo ==
  ASSUME NEW N \in Nat, NEW P, 0 \in P, \A n \in 1..N : n - 1 \in P => n \in P
  PROVE  \A n \in 0..N : n \in P
<1> DEFINE T == {n \in Nat : n <= N => n \in P}
<1>1. 0 \in T
  OBVIOUS
<1>2. ASSUME NEW n \in T PROVE n + 1 \in T
  <2>1. n + 1 <= N => n + 1 \in 1..N /\ (n + 1) - 1 = n /\ n <= N
    OBVIOUS
  <2> QED BY <2>1
<1>3. \A n \in Nat : n \in T
  <2> HIDE DEF T
  <2>1. T \in SUBSET Nat
    BY DEF T
  <2> QED BY <1>1, <1>2, <2>1, AllNaturals
<1> QED BY <1>3

\* A function on 0..N that starts in S and stays there has its values in S.
LEMMA TypedRun ==
  ASSUME NEW N \in Nat, NEW S, NEW f, f \in [0..N -> {f[n] : n \in 0..N}], f[0] \in S,
         \A n \in 1..N : f[n - 1] \in S => f[n] \in S
  PROVE  f \in [0..N -> S]
<1> DEFINE T == {n \in Nat : f[n] \in S}
<1>1. 0 \in T /\ \A n \in 1..N : n - 1 \in T => n \in T
  OBVIOUS
<1>2. \A n \in 0..N : n \in T
  <2> HIDE DEF T
  <2> QED BY <1>1, UpTo
<1> QED BY <1>2

-----------------------------------------------------------------------------
(* Sequences of spans *)

Pairs == Nat \X Nat

Ascending(seq) == \A i, j \in DOMAIN seq : i < j => ~Mix!Before(seq[j], seq[i])

\* No span starts before the one in front of it.
Advancing(seq) == \A i, j \in DOMAIN seq : i < j => seq[i][1] <= seq[j][1]

\* Every span has a moment.
Proper(seq) == \A i \in DOMAIN seq : seq[i][1] < seq[i][2]

\* A moment is one of a sequence's if one of its spans has it.
LEMMA InMoments ==
  ASSUME NEW seq \in Seq(Pairs), NEW t
  PROVE  t \in Mix!Moments(seq) <=>
           t \in Nat /\ \E i \in DOMAIN seq : seq[i][1] <= t /\ t < seq[i][2]
<1>1. \A i \in DOMAIN seq : seq[i][1] \in Nat /\ seq[i][2] \in Nat
  BY DEF Pairs
<1>2. \A i \in DOMAIN seq : t \in seq[i][1]..(seq[i][2] - 1) <=>
                              t \in Nat /\ seq[i][1] <= t /\ t < seq[i][2]
  BY <1>1
<1> QED BY <1>2 DEF Mix!Moments

\* The same, for spans in no order.
LEMMA RangeHasMoments ==
  ASSUME NEW seq \in Seq(Pairs), NEW t
  PROVE  t \in Mix!Moments(seq) <=>
           t \in Nat /\ \E p \in Range(seq) : p[1] <= t /\ t < p[2]
BY InMoments DEF Range

\* The range of a sequence that grows
LEMMA RangeOfAppend ==
  ASSUME NEW S, NEW seq \in Seq(S), NEW x \in S
  PROVE  Range(Append(seq, x)) = Range(seq) \cup {x}
<1>1. /\ Len(Append(seq, x)) = Len(seq) + 1 /\ Append(seq, x)[Len(seq) + 1] = x
      /\ \A i \in 1..Len(seq) : Append(seq, x)[i] = seq[i]
  OBVIOUS
<1>2. DOMAIN Append(seq, x) = 1..(Len(seq) + 1) /\ DOMAIN seq = 1..Len(seq) /\ Len(seq) \in Nat
  OBVIOUS
<1>3. \A i : i \in 1..(Len(seq) + 1) <=> i \in 1..Len(seq) \/ i = Len(seq) + 1
  BY <1>2
<1> QED BY <1>1, <1>2, <1>3 DEF Range

\* What is sorted by both ends is sorted by the first.
LEMMA AscendingAdvances ==
  ASSUME NEW seq \in Seq(Pairs), Ascending(seq)
  PROVE  Advancing(seq)
<1> SUFFICES ASSUME NEW i \in DOMAIN seq, NEW j \in DOMAIN seq, i < j
             PROVE  seq[i][1] <= seq[j][1]
  BY DEF Advancing
<1>1. seq[i] \in Pairs /\ seq[j] \in Pairs
  OBVIOUS
<1>2. ~Mix!Before(seq[j], seq[i])
  BY DEF Ascending
<1> QED BY <1>1, <1>2 DEF Mix!Before, Pairs

\* What Lasting computes, span by span.
LEMMA LastingRuns ==
  ASSUME NEW seq \in Seq(Pairs)
  PROVE  \E kept \in [0..Len(seq) -> Seq(Pairs)] :
           /\ Mix!Lasting(seq) = kept[Len(seq)]
           /\ kept[0] = <<>>
           /\ \A n \in 1..Len(seq) :
                kept[n] = IF seq[n][2] > seq[n][1] THEN Append(kept[n - 1], seq[n])
                          ELSE kept[n - 1]
<1> DEFINE N == Len(seq)
           S == Seq(Pairs)
           b == <<>>
           G(n, v) == IF seq[n][2] > seq[n][1] THEN Append(v, seq[n]) ELSE v
           F == [p \in (1..N) \X S |-> G(p[1], p[2])]
           Is(k) == k = [n \in 0..N |-> IF n = 0 THEN b ELSE G(n, k[n - 1])]
           f == CHOOSE k : Is(k)
<1>1. \A n \in 1..N, v \in S : G(n, v) \in S
  OBVIOUS
<1>2. Mix!Lasting(seq) = f[N]
  BY DEF Mix!Lasting
<1>3. N \in Nat /\ b \in S
  OBVIOUS
<1> HIDE DEF G, S, N, b
<1>4. PICK w : Goes(w, N, S, b, F)
  <2>1. F \in [(1..N) \X S -> S]
    BY <1>1
  <2> HIDE DEF F
  <2>2. N \in Nat
    BY <1>3
  <2>3. b \in S
    BY <1>3
  <2> QED BY <2>1, <2>2, <2>3, Recursion
<1>5. Is(f)
  <2>1. \A n \in 1..N : n - 1 \in 0..N /\ w[n - 1] \in S
    BY <1>3, <1>4 DEF Goes
  <2>2. w \in [0..N -> S] /\ w[0] = b
    BY <1>4 DEF Goes
  <2>3. \A n \in 1..N : w[n] = F[<<n, w[n - 1]>>]
    BY <1>4 DEF Goes
  <2>4. \A n \in 1..N : w[n] = G(n, w[n - 1])
    BY <2>1, <2>3
  <2>5. Is(w)
    BY <1>3, <2>2, <2>4
  <2> HIDE DEF Is
  <2> QED BY <2>5
<1>6. f = [n \in 0..N |-> f[n]] /\ f[0] = b /\ \A n \in 1..N : f[n] = G(n, f[n - 1])
  <2>1. f = [n \in 0..N |-> IF n = 0 THEN b ELSE G(n, f[n - 1])]
    BY <1>5
  <2> HIDE DEF f
  <2>2. 0 \in 0..N /\ \A n \in 1..N : n \in 0..N /\ n # 0
    BY <1>3
  <2> QED BY <2>1, <2>2
<1> HIDE DEF f, Is
<1>7. f \in [0..N -> S]
  <2>1. f[0] \in S
    BY <1>3, <1>6
  <2>2. \A n \in 1..N : f[n - 1] \in S => f[n] \in S
    BY <1>1, <1>6
  <2> HIDE DEF F
  <2>3. f \in [0..N -> {f[n] : n \in 0..N}]
    BY <1>6
  <2>4. N \in Nat
    BY <1>3
  <2> QED BY <2>1, <2>2, <2>3, <2>4, TypedRun
<1> QED BY <1>2, <1>6, <1>7 DEF N, S, G, b

\* Lasting keeps the spans that have a moment.
LEMMA LastingIs ==
  ASSUME NEW seq \in Seq(Pairs)
  PROVE  /\ Mix!Lasting(seq) \in Seq(Pairs)
         /\ Range(Mix!Lasting(seq)) = {p \in Range(seq) : p[2] > p[1]}
<1>1. PICK kept \in [0..Len(seq) -> Seq(Pairs)] :
           /\ Mix!Lasting(seq) = kept[Len(seq)]
           /\ kept[0] = <<>>
           /\ \A n \in 1..Len(seq) :
                kept[n] = IF seq[n][2] > seq[n][1] THEN Append(kept[n - 1], seq[n])
                          ELSE kept[n - 1]
  BY LastingRuns
<1> DEFINE Some(n) == {seq[i] : i \in {j \in 1..n : seq[j][2] > seq[j][1]}}
           P == {n \in 0..Len(seq) : Range(kept[n]) = Some(n)}
<1>2. 0 \in P
  BY <1>1 DEF Range
<1>3. ASSUME NEW n \in 1..Len(seq), n - 1 \in P PROVE n \in P
  <2>1. kept[n - 1] \in Seq(Pairs) /\ seq[n] \in Pairs
    BY <1>1
  <2>2. Some(n) = IF seq[n][2] > seq[n][1] THEN Some(n - 1) \cup {seq[n]} ELSE Some(n - 1)
    <3>1. \A j : j \in 1..n <=> j = n \/ j \in 1..n - 1
      OBVIOUS
    <3> QED BY <3>1
  <2>3. Range(Append(kept[n - 1], seq[n])) = Range(kept[n - 1]) \cup {seq[n]}
    BY <2>1, RangeOfAppend
  <2> QED BY <1>1, <1>3, <2>2, <2>3
<1>4. Len(seq) \in P
  <2> HIDE DEF P
  <2>1. Len(seq) \in Nat
    OBVIOUS
  <2>2. \A n \in 1..Len(seq) : n - 1 \in P => n \in P
    BY <1>3
  <2>3. \A n \in 0..Len(seq) : n \in P
    BY <1>2, <2>1, <2>2, UpTo
  <2> QED BY <2>1, <2>3
<1>5. Some(Len(seq)) = {p \in Range(seq) : p[2] > p[1]}
  BY DEF Range
<1> QED BY <1>1, <1>4, <1>5

\* There is one place for a span in an ascending sequence.
LEMMA PlaceExists ==
  ASSUME NEW seq \in Seq(Pairs), Ascending(seq), NEW span \in Pairs
  PROVE  \E n \in 0..Len(seq) : \A i \in DOMAIN seq : i <= n <=> ~Mix!Before(span, seq[i])
<1> DEFINE S == {i \in DOMAIN seq : Mix!Before(span, seq[i])}
<1>1. CASE S = {}
  <2>1. Len(seq) \in 0..Len(seq) /\ \A i \in DOMAIN seq : i <= Len(seq)
    OBVIOUS
  <2> QED BY <1>1, <2>1
<1>2. CASE S # {}
  <2>1. S \in SUBSET Nat
    OBVIOUS
  <2>2. PICK m \in S : \A i \in S : m <= i
    <3> HIDE DEF S
    <3> QED BY <1>2, <2>1, LeastNumber
  <2>3. m \in 1..Len(seq) /\ m - 1 \in 0..Len(seq) /\ Mix!Before(span, seq[m])
    OBVIOUS
  <2>4. ASSUME NEW i \in DOMAIN seq, i > m PROVE Mix!Before(span, seq[i])
    <3>1. ~Mix!Before(seq[i], seq[m])
      BY <2>3, <2>4 DEF Ascending
    <3> DEFINE o == seq[i]
               q == seq[m]
    <3>2. o \in Pairs /\ q \in Pairs
      BY <2>3
    <3>3. Mix!Before(span, q) /\ ~Mix!Before(o, q)
      BY <2>3, <3>1
    <3> HIDE DEF o, q
    <3>4. /\ o[1] \in Nat /\ o[2] \in Nat /\ q[1] \in Nat /\ q[2] \in Nat
          /\ span[1] \in Nat /\ span[2] \in Nat
      BY <3>2 DEF Pairs
    <3>5. Mix!Before(span, o)
      BY <3>3, <3>4 DEF Mix!Before
    <3> QED BY <3>5 DEF o
  <2>5. \A i \in DOMAIN seq : i <= m - 1 <=> ~Mix!Before(span, seq[i])
    <3>1. ASSUME NEW i \in DOMAIN seq, i < m PROVE ~Mix!Before(span, seq[i])
      BY <2>2, <3>1
    <3>2. \A i \in DOMAIN seq : i \in Nat /\ m \in Nat
      OBVIOUS
    <3> QED BY <2>3, <2>4, <3>1, <3>2
  <2> QED BY <2>3, <2>5
<1> QED BY <1>1, <1>2

\* A span that takes its place leaves the sequence ascending.
LEMMA PlacedIs ==
  ASSUME NEW seq \in Seq(Pairs), Ascending(seq), NEW span \in Pairs
  PROVE  /\ Mix!Placed(seq, span) \in Seq(Pairs)
         /\ Ascending(Mix!Placed(seq, span))
         /\ Range(Mix!Placed(seq, span)) = Range(seq) \cup {span}
<1> DEFINE k == CHOOSE n \in 0..Len(seq) :
                   \A i \in DOMAIN seq : i <= n <=> ~Mix!Before(span, seq[i])
           res == [i \in 1..(Len(seq) + 1) |->
                     IF i <= k THEN seq[i] ELSE IF i = k + 1 THEN span ELSE seq[i - 1]]
<1>1. k \in 0..Len(seq) /\ \A i \in DOMAIN seq : i <= k <=> ~Mix!Before(span, seq[i])
  BY PlaceExists
<1>2. Mix!Placed(seq, span) = res
  BY DEF Mix!Placed
<1> HIDE DEF k
<1>3. Len(seq) \in Nat /\ DOMAIN seq = 1..Len(seq) /\ \A i \in DOMAIN seq : seq[i] \in Pairs
  OBVIOUS
<1>4. \A i \in 1..(Len(seq) + 1) : i < k + 1 => res[i] = seq[i] /\ i \in DOMAIN seq
  BY <1>1, <1>3
<1>5. \A i \in 1..(Len(seq) + 1) : i > k + 1 => res[i] = seq[i - 1] /\ i - 1 \in DOMAIN seq
  BY <1>1, <1>3
<1>6. k + 1 \in 1..(Len(seq) + 1) /\ res[k + 1] = span
  BY <1>1, <1>3
<1>7. DOMAIN res = 1..(Len(seq) + 1) /\ res \in Seq(Pairs)
  BY <1>1, <1>3, <1>4, <1>5, <1>6
<1>8. \A i \in DOMAIN seq : \E j \in DOMAIN res : res[j] = seq[i]
  <2> TAKE i \in DOMAIN seq
  <2>1. CASE i <= k
    <3>1. i \in 1..(Len(seq) + 1) /\ i < k + 1
      BY <1>1, <1>3, <2>1
    <3> QED BY <1>4, <1>7, <3>1
  <2>2. CASE ~(i <= k)
    <3>1. i + 1 \in 1..(Len(seq) + 1) /\ i + 1 > k + 1 /\ (i + 1) - 1 = i
      BY <1>1, <1>3, <2>2
    <3> QED BY <1>5, <1>7, <3>1
  <2> QED BY <2>1, <2>2
<1> HIDE DEF res
<1>9. Range(res) = Range(seq) \cup {span}
  <2>1. ASSUME NEW j \in DOMAIN res PROVE res[j] \in Range(seq) \cup {span}
    <3>1. j \in 1..(Len(seq) + 1) /\ (j < k + 1 \/ j = k + 1 \/ j > k + 1)
      BY <1>1, <1>3, <1>7
    <3> QED BY <1>4, <1>5, <1>6, <3>1 DEF Range
  <2> QED BY <1>6, <1>7, <1>8, <2>1 DEF Range
<1>10. Ascending(res)
  <2> SUFFICES ASSUME NEW i \in DOMAIN res, NEW j \in DOMAIN res, i < j
               PROVE  ~Mix!Before(res[j], res[i])
    BY DEF Ascending
  <2>1. i \in 1..(Len(seq) + 1) /\ j \in 1..(Len(seq) + 1) /\ k \in Nat
    BY <1>1, <1>7
  <2>2. CASE i < k + 1 /\ j < k + 1
    BY <1>4, <2>1, <2>2 DEF Ascending
  <2>3. CASE i < k + 1 /\ j = k + 1
    <3>1. ~Mix!Before(span, seq[i])
      BY <1>1, <1>4, <2>1, <2>3
    <3> QED BY <1>4, <1>6, <2>1, <2>3, <3>1
  <2>4. CASE i < k + 1 /\ j > k + 1
    <3>1. i \in DOMAIN seq /\ j - 1 \in DOMAIN seq /\ i < j - 1
      BY <1>4, <1>5, <2>1, <2>4
    <3> QED BY <1>4, <1>5, <2>1, <2>4, <3>1 DEF Ascending
  <2>5. CASE i = k + 1
    <3>1. j > k + 1 /\ j - 1 \in DOMAIN seq /\ ~(j - 1 <= k)
      BY <1>5, <2>1, <2>5
    <3>2. Mix!Before(span, seq[j - 1])
      BY <1>1, <3>1
    <3>3. seq[j - 1] \in Pairs
      BY <1>3, <3>1
    <3>4. ~Mix!Before(seq[j - 1], span)
      BY <3>2, <3>3 DEF Mix!Before, Pairs
    <3> QED BY <1>5, <1>6, <2>1, <2>5, <3>1, <3>4
  <2>6. CASE i > k + 1
    <3>1. j > k + 1 /\ i - 1 \in DOMAIN seq /\ j - 1 \in DOMAIN seq /\ i - 1 < j - 1
      BY <1>5, <2>1, <2>6
    <3> QED BY <1>5, <2>1, <2>6, <3>1 DEF Ascending
  <2> QED BY <2>1, <2>2, <2>3, <2>4, <2>5, <2>6
<1> QED BY <1>2, <1>7, <1>9, <1>10

\* What Sorted computes.
LEMMA SortedRuns ==
  ASSUME NEW seq \in Seq(Pairs)
  PROVE  \E sorted \in [0..Len(seq) -> {s \in Seq(Pairs) : Ascending(s)}] :
           /\ Mix!Sorted(seq) = sorted[Len(seq)]
           /\ sorted[0] = <<>>
           /\ \A n \in 1..Len(seq) : sorted[n] = Mix!Placed(sorted[n - 1], seq[n])
<1> DEFINE N == Len(seq)
           S == {s \in Seq(Pairs) : Ascending(s)}
           b == <<>>
           G(n, v) == Mix!Placed(v, seq[n])
           F == [p \in (1..N) \X S |-> G(p[1], p[2])]
           Is(k) == k = [n \in 0..N |-> IF n = 0 THEN b ELSE G(n, k[n - 1])]
           f == CHOOSE k : Is(k)
<1>1. \A n \in 1..N, v \in S : G(n, v) \in S
  <2>1. \A n \in 1..N : seq[n] \in Pairs
    OBVIOUS
  <2> QED BY <2>1, PlacedIs
<1>2. Mix!Sorted(seq) = f[N]
  BY DEF Mix!Sorted
<1>3. N \in Nat /\ b \in S
  BY DEF Ascending
<1> HIDE DEF G, S, N, b
<1>4. PICK w : Goes(w, N, S, b, F)
  <2>1. F \in [(1..N) \X S -> S]
    BY <1>1
  <2> HIDE DEF F
  <2>2. N \in Nat
    BY <1>3
  <2>3. b \in S
    BY <1>3
  <2> QED BY <2>1, <2>2, <2>3, Recursion
<1>5. Is(f)
  <2>1. \A n \in 1..N : n - 1 \in 0..N /\ w[n - 1] \in S
    BY <1>3, <1>4 DEF Goes
  <2>2. w \in [0..N -> S] /\ w[0] = b
    BY <1>4 DEF Goes
  <2>3. \A n \in 1..N : w[n] = F[<<n, w[n - 1]>>]
    BY <1>4 DEF Goes
  <2>4. \A n \in 1..N : w[n] = G(n, w[n - 1])
    BY <2>1, <2>3
  <2>5. Is(w)
    BY <1>3, <2>2, <2>4
  <2> HIDE DEF Is
  <2> QED BY <2>5
<1>6. f = [n \in 0..N |-> f[n]] /\ f[0] = b /\ \A n \in 1..N : f[n] = G(n, f[n - 1])
  <2>1. f = [n \in 0..N |-> IF n = 0 THEN b ELSE G(n, f[n - 1])]
    BY <1>5
  <2> HIDE DEF f
  <2>2. 0 \in 0..N /\ \A n \in 1..N : n \in 0..N /\ n # 0
    BY <1>3
  <2> QED BY <2>1, <2>2
<1> HIDE DEF f, Is
<1>7. f \in [0..N -> S]
  <2>1. f[0] \in S
    BY <1>3, <1>6
  <2>2. \A n \in 1..N : f[n - 1] \in S => f[n] \in S
    BY <1>1, <1>6
  <2> HIDE DEF F
  <2>3. f \in [0..N -> {f[n] : n \in 0..N}]
    BY <1>6
  <2>4. N \in Nat
    BY <1>3
  <2> QED BY <2>1, <2>2, <2>3, <2>4, TypedRun
<1> QED BY <1>2, <1>6, <1>7 DEF N, S, G, b

\* Sorted has the same spans in ascending order.
LEMMA SortedIs ==
  ASSUME NEW seq \in Seq(Pairs)
  PROVE  /\ Mix!Sorted(seq) \in Seq(Pairs)
         /\ Ascending(Mix!Sorted(seq))
         /\ Range(Mix!Sorted(seq)) = Range(seq)
<1>1. PICK sorted \in [0..Len(seq) -> {s \in Seq(Pairs) : Ascending(s)}] :
           /\ Mix!Sorted(seq) = sorted[Len(seq)]
           /\ sorted[0] = <<>>
           /\ \A n \in 1..Len(seq) : sorted[n] = Mix!Placed(sorted[n - 1], seq[n])
  BY SortedRuns
<1> DEFINE Some(n) == {seq[i] : i \in 1..n}
           P == {n \in 0..Len(seq) : Range(sorted[n]) = Some(n)}
<1>2. 0 \in P
  BY <1>1 DEF Range
<1>3. ASSUME NEW n \in 1..Len(seq), n - 1 \in P PROVE n \in P
  <2>1. n - 1 \in 0..Len(seq) /\ seq[n] \in Pairs
    OBVIOUS
  <2>2. sorted[n - 1] \in Seq(Pairs) /\ Ascending(sorted[n - 1])
    BY <1>1, <2>1
  <2>3. Some(n) = Some(n - 1) \cup {seq[n]}
    <3>1. \A j : j \in 1..n <=> j = n \/ j \in 1..n - 1
      OBVIOUS
    <3> QED BY <3>1
  <2>4. Range(Mix!Placed(sorted[n - 1], seq[n])) = Range(sorted[n - 1]) \cup {seq[n]}
    BY <2>1, <2>2, PlacedIs
  <2> QED BY <1>1, <1>3, <2>3, <2>4
<1>4. Len(seq) \in P
  <2> HIDE DEF P
  <2>1. Len(seq) \in Nat
    OBVIOUS
  <2>2. \A n \in 1..Len(seq) : n - 1 \in P => n \in P
    BY <1>3
  <2>3. \A n \in 0..Len(seq) : n \in P
    BY <1>2, <2>1, <2>2, UpTo
  <2> QED BY <2>1, <2>3
<1>5. Some(Len(seq)) = Range(seq)
  BY DEF Range
<1>6. Len(seq) \in 0..Len(seq)
  OBVIOUS
<1> QED BY <1>1, <1>4, <1>5, <1>6

\* A span joins merged ones.
Joins(done, span) ==
  IF done # <<>> /\ span[1] <= Mix!Last(done)[2]
  THEN Append(Mix!Front(done), <<Mix!Last(done)[1], Mix!Longer(Mix!Last(done)[2], span[2])>>)
  ELSE Append(done, span)

\* The last span grows, or another one follows.
LEMMA JoinsIs ==
  ASSUME NEW done \in Seq(Pairs), NEW span \in Pairs
  PROVE  /\ Joins(done, span) \in Seq(Pairs)
         /\ done # <<>> => Len(done) \in 1..Len(done)
         /\ IF done # <<>> /\ span[1] <= done[Len(done)][2]
            THEN /\ Len(Joins(done, span)) = Len(done)
                 /\ \A i \in 1..(Len(done) - 1) : Joins(done, span)[i] = done[i]
                 /\ Joins(done, span)[Len(done)] =
                      <<done[Len(done)][1], Mix!Longer(done[Len(done)][2], span[2])>>
            ELSE Joins(done, span) = Append(done, span)
<1>1. CASE done # <<>>
  <2>1. /\ Len(done) \in Nat /\ Len(done) > 0
        /\ done[Len(done)] \in Nat \X Nat
    BY <1>1 DEF Pairs
  <2>2. <<done[Len(done)][1], Mix!Longer(done[Len(done)][2], span[2])>> \in Pairs
    BY <2>1 DEF Mix!Longer, Pairs
  <2>3. Mix!Last(done) = done[Len(done)]
    BY DEF Mix!Last
  <2>4. /\ Mix!Front(done) \in Seq(Pairs) /\ Len(Mix!Front(done)) = Len(done) - 1
        /\ \A i \in 1..(Len(done) - 1) : Mix!Front(done)[i] = done[i]
    <3>1. Mix!Front(done) = SubSeq(done, 1, Len(done) - 1)
      BY DEF Mix!Front
    <3>2. 1 \in 1..(Len(done) + 1) /\ Len(done) - 1 \in 0..Len(done)
      BY <2>1
    <3>3. \A i \in 1..(Len(done) - 1) : done[i] \in Pairs
      BY <2>1
    <3>4. /\ Mix!Front(done) \in Seq(Pairs)
          /\ Len(Mix!Front(done)) = IF 1 <= Len(done) - 1 THEN (Len(done) - 1) - 1 + 1 ELSE 0
          /\ \A i \in 1..((Len(done) - 1) - 1 + 1) : Mix!Front(done)[i] = done[1 + i - 1]
      BY <2>1, <3>1, <3>3, SubSeqProperties
    <3> DEFINE L == Len(done)
               front == Mix!Front(done)
    <3>5. L \in Nat /\ L > 0
      BY <2>1
    <3>6. /\ Len(front) = IF 1 <= L - 1 THEN (L - 1) - 1 + 1 ELSE 0
          /\ \A i \in 1..((L - 1) - 1 + 1) : front[i] = done[1 + i - 1]
      BY <3>4
    <3> HIDE DEF L, front
    <3>7. Len(front) = L - 1
      BY <3>5, <3>6
    <3>8. \A i \in 1..(L - 1) : i \in 1..((L - 1) - 1 + 1) /\ 1 + i - 1 = i
      BY <3>5
    <3>9. \A i \in 1..(L - 1) : front[i] = done[i]
      BY <3>6, <3>8
    <3> QED BY <3>4, <3>7, <3>9 DEF L, front
  <2>5. CASE span[1] <= done[Len(done)][2]
    <3>1. Joins(done, span) =
            Append(Mix!Front(done),
                   <<done[Len(done)][1], Mix!Longer(done[Len(done)][2], span[2])>>)
      BY <1>1, <2>3, <2>5 DEF Joins
    <3> QED BY <1>1, <2>1, <2>2, <2>4, <2>5, <3>1
  <2>6. CASE ~(span[1] <= done[Len(done)][2])
    BY <1>1, <2>1, <2>3, <2>6 DEF Joins
  <2> QED BY <2>5, <2>6
<1>2. CASE done = <<>>
  BY <1>2 DEF Joins
<1> QED BY <1>1, <1>2

\* What MergeSorted computes.
LEMMA MergeRuns ==
  ASSUME NEW seq \in Seq(Pairs)
  PROVE  \E merged \in [0..Len(seq) -> Seq(Pairs)] :
           /\ Mix!MergeSorted(seq) = merged[Len(seq)]
           /\ merged[0] = <<>>
           /\ \A n \in 1..Len(seq) :
                merged[n] = Joins(merged[n - 1], seq[n])
<1> DEFINE N == Len(seq)
           S == Seq(Pairs)
           b == <<>>
           G(n, v) == Joins(v, seq[n])
           F == [p \in (1..N) \X S |-> G(p[1], p[2])]
           Is(k) == k = [n \in 0..N |-> IF n = 0 THEN b ELSE G(n, k[n - 1])]
           f == CHOOSE k : Is(k)
<1>1. \A n \in 1..N, v \in S : G(n, v) \in S
  <2>1. \A n \in 1..N : seq[n] \in Pairs
    OBVIOUS
  <2> QED BY <2>1, JoinsIs
<1>2. Mix!MergeSorted(seq) = f[N]
  BY DEF Mix!MergeSorted, Joins
<1>3. N \in Nat /\ b \in S
  OBVIOUS
<1> HIDE DEF G, S, N, b
<1>4. PICK w : Goes(w, N, S, b, F)
  <2>1. F \in [(1..N) \X S -> S]
    BY <1>1
  <2> HIDE DEF F
  <2>2. N \in Nat
    BY <1>3
  <2>3. b \in S
    BY <1>3
  <2> QED BY <2>1, <2>2, <2>3, Recursion
<1>5. Is(f)
  <2>1. \A n \in 1..N : n - 1 \in 0..N /\ w[n - 1] \in S
    BY <1>3, <1>4 DEF Goes
  <2>2. w \in [0..N -> S] /\ w[0] = b
    BY <1>4 DEF Goes
  <2>3. \A n \in 1..N : w[n] = F[<<n, w[n - 1]>>]
    BY <1>4 DEF Goes
  <2>4. \A n \in 1..N : w[n] = G(n, w[n - 1])
    BY <2>1, <2>3
  <2>5. Is(w)
    BY <1>3, <2>2, <2>4
  <2> HIDE DEF Is
  <2> QED BY <2>5
<1>6. f = [n \in 0..N |-> f[n]] /\ f[0] = b /\ \A n \in 1..N : f[n] = G(n, f[n - 1])
  <2>1. f = [n \in 0..N |-> IF n = 0 THEN b ELSE G(n, f[n - 1])]
    BY <1>5
  <2> HIDE DEF f
  <2>2. 0 \in 0..N /\ \A n \in 1..N : n \in 0..N /\ n # 0
    BY <1>3
  <2> QED BY <2>1, <2>2
<1> HIDE DEF f, Is
<1>7. f \in [0..N -> S]
  <2>1. f[0] \in S
    BY <1>3, <1>6
  <2>2. \A n \in 1..N : f[n - 1] \in S => f[n] \in S
    BY <1>1, <1>6
  <2> HIDE DEF F
  <2>3. f \in [0..N -> {f[n] : n \in 0..N}]
    BY <1>6
  <2>4. N \in Nat
    BY <1>3
  <2> QED BY <2>1, <2>2, <2>3, <2>4, TypedRun
<1> QED BY <1>2, <1>6, <1>7 DEF N, S, G, b

\* Spans that advance are merged into spans that advance and have the same moments.
LEMMA MergeSortedIs ==
  ASSUME NEW seq \in Seq(Pairs), Advancing(seq), Proper(seq)
  PROVE  /\ Mix!MergeSorted(seq) \in Seq(Pairs)
         /\ Advancing(Mix!MergeSorted(seq)) /\ Proper(Mix!MergeSorted(seq))
         /\ Mix!Moments(Mix!MergeSorted(seq)) = Mix!Moments(seq)
<1>1. PICK merged \in [0..Len(seq) -> Seq(Pairs)] :
           /\ Mix!MergeSorted(seq) = merged[Len(seq)]
           /\ merged[0] = <<>>
           /\ \A n \in 1..Len(seq) : merged[n] = Joins(merged[n - 1], seq[n])
  BY MergeRuns
<1> DEFINE Has(p, t) == p[1] <= t /\ t < p[2]
           Same(n) == \A t \in Nat : (\E i \in DOMAIN merged[n] : Has(merged[n][i], t)) <=>
                                       \E i \in 1..n : Has(seq[i], t)
           P == {n \in 0..Len(seq) :
                   /\ Advancing(merged[n]) /\ Proper(merged[n]) /\ Same(n)
                   /\ merged[n] # <<>> =>
                        n # 0 /\ merged[n][Len(merged[n])][1] <= seq[n][1]}
<1>2. 0 \in P
  <2>1. merged[0] = <<>> /\ Len(merged[0]) = 0
    BY <1>1
  <2>2. 0 \in 0..Len(seq)
    OBVIOUS
  <2>3. merged[0] \in Seq(Pairs)
    BY <1>1, <2>2
  <2>4. DOMAIN merged[0] = 1..0 /\ \A i \in 1..0 : FALSE
    BY <2>1, <2>3
  <2> QED BY <2>1, <2>2, <2>4 DEF Advancing, Proper
<1>3. ASSUME NEW n \in 1..Len(seq), n - 1 \in P PROVE n \in P
  <2> DEFINE done == merged[n - 1]
             span == seq[n]
             new == merged[n]
             L == Len(done)
  <2>1. /\ done \in Seq(Pairs) /\ span \in Pairs /\ new = Joins(done, span)
        /\ new \in Seq(Pairs)
        /\ n - 1 \in 0..Len(seq)
    <3>1. n - 1 \in 0..Len(seq) /\ n \in 0..Len(seq) /\ span \in Pairs
      OBVIOUS
    <3> QED BY <1>1, <3>1
  <2>2. /\ L \in Nat /\ DOMAIN done = 1..L
        /\ \A i \in 1..L : done[i] \in Nat \X Nat
        /\ span \in Nat \X Nat
    BY <2>1 DEF Pairs
  <2>3. Advancing(done) /\ Proper(done) /\ Same(n - 1) /\ span[1] < span[2]
    BY <1>3 DEF Proper
  <2>4. done # <<>> => L \in 1..L /\ done[L][1] <= span[1]
    <3> SUFFICES ASSUME done # <<>> PROVE L \in 1..L /\ done[L][1] <= span[1]
      OBVIOUS
    <3>1. n - 1 # 0 /\ done[L][1] <= seq[n - 1][1]
      BY <1>3
    <3>2. n - 1 \in DOMAIN seq /\ n \in DOMAIN seq /\ n - 1 < n
      BY <3>1
    <3>3. seq[n - 1][1] <= span[1]
      BY <3>2 DEF Advancing
    <3>4. L \in 1..L
      BY <2>1, JoinsIs
    <3>5. seq[n - 1] \in Nat \X Nat
      BY <3>2 DEF Pairs
    <3>6. done[L] \in Nat \X Nat
      BY <2>2, <3>4
    <3> HIDE DEF done, span, L
    <3>7. done[L][1] \in Nat /\ span[1] \in Nat /\ seq[n - 1][1] \in Nat
      BY <2>2, <3>5, <3>6
    <3> QED BY <3>1, <3>3, <3>4, <3>7
  <2>5. \A t \in Nat : (\E i \in 1..n : Has(seq[i], t)) <=>
                         (\E i \in 1..L : Has(done[i], t)) \/ Has(span, t)
    <3>1. \A i : i \in 1..n <=> i = n \/ i \in 1..n - 1
      OBVIOUS
    <3> HIDE DEF Has
    <3> QED BY <2>2, <2>3, <3>1
  <2> HIDE DEF new, done, span, L
  <2>6. CASE done # <<>> /\ span[1] <= done[L][2]
    <3>1. /\ Len(new) = L /\ \A i \in 1..(L - 1) : new[i] = done[i]
          /\ new[L] = <<done[L][1], Mix!Longer(done[L][2], span[2])>>
      BY <2>1, <2>6, JoinsIs DEF L
    <3>2. DOMAIN new = 1..L
      BY <2>1, <3>1
    <3>3. \A i \in 1..L : new[i][1] = done[i][1]
      BY <2>2, <3>1
    <3>4. Advancing(new)
      BY <2>2, <2>3, <3>2, <3>3 DEF Advancing
    <3>5. \A t \in Nat : Has(new[L], t) <=> Has(done[L], t) \/ Has(span, t)
      <4>1. new[L][1] = done[L][1] /\ new[L][2] = Mix!Longer(done[L][2], span[2])
        BY <3>1
      <4>2. done[L][1] <= span[1] /\ done[L] \in Nat \X Nat
        BY <2>2, <2>4, <2>6
      <4> QED BY <2>2, <2>6, <4>1, <4>2 DEF Mix!Longer
    <3>6. Same(n)
      <4>1. \A i : i \in 1..L <=> i = L \/ i \in 1..(L - 1)
        BY <2>2, <2>4, <2>6
      <4>2. L \in 1..L
        BY <2>4, <2>6
      <4> HIDE DEF Has
      <4>3. \A t \in Nat : (\E i \in 1..L : Has(new[i], t)) <=>
                             (\E i \in 1..(L - 1) : Has(done[i], t)) \/ Has(new[L], t)
        BY <3>1, <4>1, <4>2
      <4>4. \A t \in Nat : (\E i \in 1..L : Has(done[i], t)) <=>
                             (\E i \in 1..(L - 1) : Has(done[i], t)) \/ Has(done[L], t)
        BY <4>1, <4>2
      <4>5. \A t \in Nat : (\E i \in DOMAIN new : Has(new[i], t)) <=>
                             \E i \in 1..n : Has(seq[i], t)
        BY <2>5, <3>2, <3>5, <4>3, <4>4
      <4> QED BY <4>5 DEF new
    <3>7. new[Len(new)][1] <= span[1]
      BY <2>4, <2>6, <3>1, <3>3
    <3>8. Proper(new)
      <4>1. ASSUME NEW i \in 1..L PROVE new[i][1] < new[i][2]
        <5>1. done[i][1] < done[i][2] /\ done[i] \in Nat \X Nat
          BY <2>2, <2>3 DEF Proper
        <5>2. CASE i = L
          BY <2>2, <3>1, <5>1, <5>2 DEF Mix!Longer
        <5>3. CASE i # L
          BY <2>2, <3>1, <5>1, <5>3
        <5> QED BY <5>2, <5>3
      <4> QED BY <3>2, <4>1 DEF Proper
    <3> QED BY <3>4, <3>6, <3>7, <3>8 DEF new, span
  <2>7. CASE ~(done # <<>> /\ span[1] <= done[L][2])
    <3>1. new = Append(done, span)
      BY <2>1, <2>7, JoinsIs DEF L
    <3>2. /\ Len(new) = L + 1 /\ DOMAIN new = 1..(L + 1) /\ new[L + 1] = span
          /\ \A i \in 1..L : new[i] = done[i]
      BY <2>1, <2>2, <3>1 DEF L
    <3>3. Advancing(new)
      <4> SUFFICES ASSUME NEW i \in 1..(L + 1), NEW j \in 1..(L + 1), i < j
                   PROVE  new[i][1] <= new[j][1]
        BY <3>2 DEF Advancing
      <4>1. CASE j \in 1..L
        <5>1. i \in 1..L
          BY <2>2, <4>1
        <5>2. done[i][1] <= done[j][1]
          BY <2>2, <2>3, <4>1, <5>1 DEF Advancing
        <5> QED BY <3>2, <4>1, <5>1, <5>2
      <4>2. CASE j = L + 1
        <5>1. i \in 1..L /\ done # <<>> /\ L \in 1..L
          BY <2>1, <2>2, <2>4, <4>2 DEF L
        <5>2. done[i][1] <= done[L][1] /\ done[L][1] <= span[1]
          <6>1. i < L \/ i = L
            BY <2>2, <5>1
          <6>2. done[L][1] <= done[L][1]
            BY <2>2, <5>1
          <6> QED BY <2>2, <2>3, <2>4, <5>1, <6>1, <6>2 DEF Advancing
        <5>3. done[i][1] \in Nat /\ done[L][1] \in Nat /\ span[1] \in Nat
          BY <2>2, <5>1
        <5> QED BY <3>2, <4>2, <5>1, <5>2, <5>3
      <4> QED BY <2>2, <4>1, <4>2
    <3>4. Same(n)
      <4>1. \A i : i \in 1..(L + 1) <=> i = L + 1 \/ i \in 1..L
        BY <2>2
      <4> HIDE DEF Has
      <4>2. \A t \in Nat : (\E i \in DOMAIN new : Has(new[i], t)) <=>
                             \E i \in 1..n : Has(seq[i], t)
        BY <2>5, <3>2, <4>1
      <4> QED BY <4>2 DEF new
    <3>5. new[Len(new)][1] <= span[1]
      BY <2>2, <3>2
    <3>6. Proper(new)
      <4>1. \A i : i \in 1..(L + 1) <=> i = L + 1 \/ i \in 1..L
        BY <2>2
      <4> QED BY <2>2, <2>3, <3>2, <4>1 DEF Proper
    <3> QED BY <3>3, <3>4, <3>5, <3>6 DEF new, span
  <2> QED BY <2>6, <2>7
<1>4. Len(seq) \in P
  <2> HIDE DEF P
  <2>1. Len(seq) \in Nat
    OBVIOUS
  <2>2. \A n \in 1..Len(seq) : n - 1 \in P => n \in P
    BY <1>3
  <2>3. \A n \in 0..Len(seq) : n \in P
    BY <1>2, <2>1, <2>2, UpTo
  <2> QED BY <2>1, <2>3
<1>5. Len(seq) \in 0..Len(seq)
  OBVIOUS
<1>6. Mix!Moments(merged[Len(seq)]) = Mix!Moments(seq)
  <2>1. merged[Len(seq)] \in Seq(Pairs) /\ DOMAIN seq = 1..Len(seq)
    BY <1>1, <1>5
  <2>2. Same(Len(seq))
    BY <1>4
  <2>3. \A t : t \in Mix!Moments(merged[Len(seq)]) <=>
                 t \in Nat /\ \E i \in DOMAIN merged[Len(seq)] : Has(merged[Len(seq)][i], t)
    BY <2>1, InMoments
  <2>4. \A t : t \in Mix!Moments(seq) <=> t \in Nat /\ \E i \in DOMAIN seq : Has(seq[i], t)
    BY InMoments
  <2> QED BY <2>1, <2>2, <2>3, <2>4
<1> QED BY <1>1, <1>4, <1>5, <1>6

\* The order of spans does not matter for their moments.
LEMMA SameRangeSameMoments ==
  ASSUME NEW p \in Seq(Pairs), NEW q \in Seq(Pairs), Range(p) = Range(q)
  PROVE  Mix!Moments(p) = Mix!Moments(q)
BY RangeHasMoments

\* Spans of no length have no moments.
LEMMA LastingMoments ==
  ASSUME NEW seq \in Seq(Pairs)
  PROVE  /\ Mix!Lasting(seq) \in Seq(Pairs) /\ Proper(Mix!Lasting(seq))
         /\ Mix!Moments(Mix!Lasting(seq)) = Mix!Moments(seq)
<1>1. /\ Mix!Lasting(seq) \in Seq(Pairs)
      /\ Range(Mix!Lasting(seq)) = {p \in Range(seq) : p[2] > p[1]}
  BY LastingIs
<1>2. \A p \in Range(seq) : p \in Nat \X Nat
  BY DEF Range, Pairs
<1>3. Proper(Mix!Lasting(seq))
  BY <1>1, <1>2 DEF Proper, Range
<1>4. ASSUME NEW t PROVE t \in Mix!Moments(Mix!Lasting(seq)) <=> t \in Mix!Moments(seq)
  <2>1. t \in Mix!Moments(seq) <=> t \in Nat /\ \E p \in Range(seq) : p[1] <= t /\ t < p[2]
    BY RangeHasMoments
  <2>2. t \in Mix!Moments(Mix!Lasting(seq)) <=>
          t \in Nat /\ \E p \in Range(Mix!Lasting(seq)) : p[1] <= t /\ t < p[2]
    BY <1>1, RangeHasMoments
  <2>3. \A p \in Range(seq) : t \in Nat /\ p[1] <= t /\ t < p[2] => p[2] > p[1]
    BY <1>2
  <2> QED BY <1>1, <2>1, <2>2, <2>3
<1> QED BY <1>1, <1>3, <1>4

\* Merge keeps the moments.
LEMMA MergeIs ==
  ASSUME NEW seq \in Seq(Pairs)
  PROVE  /\ Mix!Merge(seq) \in Seq(Pairs)
         /\ Advancing(Mix!Merge(seq)) /\ Proper(Mix!Merge(seq))
         /\ Mix!Moments(Mix!Merge(seq)) = Mix!Moments(seq)
<1> DEFINE lasting == Mix!Lasting(seq)
           sorted == Mix!Sorted(lasting)
<1>1. lasting \in Seq(Pairs) /\ Proper(lasting) /\ Mix!Moments(lasting) = Mix!Moments(seq)
  BY LastingMoments
<1> HIDE DEF lasting
<1>2. sorted \in Seq(Pairs) /\ Ascending(sorted) /\ Range(sorted) = Range(lasting)
  BY <1>1, SortedIs
<1> HIDE DEF sorted
<1>3. Proper(sorted)
  BY <1>1, <1>2 DEF Proper, Range
<1>4. Mix!Moments(sorted) = Mix!Moments(seq)
  BY <1>1, <1>2, SameRangeSameMoments
<1>5. Advancing(sorted)
  BY <1>2, AscendingAdvances
<1>6. Mix!Merge(seq) = Mix!MergeSorted(sorted)
  BY DEF Mix!Merge, sorted, lasting
<1> QED BY <1>2, <1>3, <1>4, <1>5, <1>6, MergeSortedIs

\* One blocked span cuts into what is left of an allowed one.
Cuts(span, sofar, b) ==
  IF b[2] <= sofar.cursor \/ b[1] >= span[2] THEN sofar
  ELSE [rest |-> IF b[1] > sofar.cursor THEN Append(sofar.rest, <<sofar.cursor, b[1]>>)
                 ELSE sofar.rest,
        cursor |-> Mix!Shorter(span[2], b[2])]

Rests == [rest : Seq(Pairs), cursor : Nat]

\* What is left after one more cut is a sequence of spans and a cursor.
LEMMA CutsIs ==
  ASSUME NEW span \in Pairs, NEW sofar \in Rests, NEW b \in Pairs
  PROVE  Cuts(span, sofar, b) \in Rests
<1>1. sofar.rest \in Seq(Pairs) /\ sofar.cursor \in Nat /\ b \in Nat \X Nat
      /\ span \in Nat \X Nat
  BY DEF Rests, Pairs
<1>2. <<sofar.cursor, b[1]>> \in Pairs
  BY <1>1 DEF Pairs
<1>3. Append(sofar.rest, <<sofar.cursor, b[1]>>) \in Seq(Pairs)
  BY <1>1, <1>2
<1>4. Mix!Shorter(span[2], b[2]) \in Nat
  BY <1>1 DEF Mix!Shorter
<1> QED BY <1>1, <1>3, <1>4 DEF Cuts, Rests

\* What Remaining computes.
LEMMA RemainingRuns ==
  ASSUME NEW span \in Pairs, NEW blocked \in Seq(Pairs)
  PROVE  \E cut \in [0..Len(blocked) -> Rests] :
           /\ Mix!Remaining(span, blocked) =
                Mix!Lasting(Append(cut[Len(blocked)].rest,
                                   <<cut[Len(blocked)].cursor, span[2]>>))
           /\ cut[0] = [rest |-> <<>>, cursor |-> span[1]]
           /\ \A n \in 1..Len(blocked) : cut[n] = Cuts(span, cut[n - 1], blocked[n])
<1> DEFINE N == Len(blocked)
           S == Rests
           b == [rest |-> <<>>, cursor |-> span[1]]
           G(n, v) == Cuts(span, v, blocked[n])
           F == [p \in (1..N) \X S |-> G(p[1], p[2])]
           Is(k) == k = [n \in 0..N |-> IF n = 0 THEN b ELSE G(n, k[n - 1])]
           f == CHOOSE k : Is(k)
<1>1. \A n \in 1..N, v \in S : G(n, v) \in S
  <2>1. \A n \in 1..N : blocked[n] \in Pairs
    OBVIOUS
  <2> QED BY <2>1, CutsIs
<1>2. Mix!Remaining(span, blocked) = Mix!Lasting(Append(f[N].rest, <<f[N].cursor, span[2]>>))
  BY DEF Mix!Remaining, Cuts
<1>3. N \in Nat /\ b \in S
  BY DEF Rests, Pairs
<1> HIDE DEF G, S, N, b
<1>4. PICK w : Goes(w, N, S, b, F)
  <2>1. F \in [(1..N) \X S -> S]
    BY <1>1
  <2> HIDE DEF F
  <2>2. N \in Nat
    BY <1>3
  <2>3. b \in S
    BY <1>3
  <2> QED BY <2>1, <2>2, <2>3, Recursion
<1>5. Is(f)
  <2>1. \A n \in 1..N : n - 1 \in 0..N /\ w[n - 1] \in S
    BY <1>3, <1>4 DEF Goes
  <2>2. w \in [0..N -> S] /\ w[0] = b
    BY <1>4 DEF Goes
  <2>3. \A n \in 1..N : w[n] = F[<<n, w[n - 1]>>]
    BY <1>4 DEF Goes
  <2>4. \A n \in 1..N : w[n] = G(n, w[n - 1])
    BY <2>1, <2>3
  <2>5. Is(w)
    BY <1>3, <2>2, <2>4
  <2> HIDE DEF Is
  <2> QED BY <2>5
<1>6. f = [n \in 0..N |-> f[n]] /\ f[0] = b /\ \A n \in 1..N : f[n] = G(n, f[n - 1])
  <2>1. f = [n \in 0..N |-> IF n = 0 THEN b ELSE G(n, f[n - 1])]
    BY <1>5
  <2> HIDE DEF f
  <2>2. 0 \in 0..N /\ \A n \in 1..N : n \in 0..N /\ n # 0
    BY <1>3
  <2> QED BY <2>1, <2>2
<1> HIDE DEF f, Is
<1>7. f \in [0..N -> S]
  <2>1. f[0] \in S
    BY <1>3, <1>6
  <2>2. \A n \in 1..N : f[n - 1] \in S => f[n] \in S
    BY <1>1, <1>6
  <2> HIDE DEF F
  <2>3. f \in [0..N -> {f[n] : n \in 0..N}]
    BY <1>6
  <2>4. N \in Nat
    BY <1>3
  <2> QED BY <2>1, <2>2, <2>3, <2>4, TypedRun
<1> QED BY <1>2, <1>6, <1>7 DEF N, S, G, b

\* A moment of one span or another
Has(p, t) == p[1] <= t /\ t < p[2]

\* What is left of a span is what no blocked one has.
LEMMA RemainingIs ==
  ASSUME NEW span \in Pairs, NEW blocked \in Seq(Pairs), Advancing(blocked), Proper(blocked)
  PROVE  /\ Mix!Remaining(span, blocked) \in Seq(Pairs)
         /\ \A t : t \in Mix!Moments(Mix!Remaining(span, blocked)) <=>
                     t \in Nat /\ Has(span, t) /\ t \notin Mix!Moments(blocked)
<1>1. PICK cut \in [0..Len(blocked) -> Rests] :
           /\ Mix!Remaining(span, blocked) =
                Mix!Lasting(Append(cut[Len(blocked)].rest,
                                   <<cut[Len(blocked)].cursor, span[2]>>))
           /\ cut[0] = [rest |-> <<>>, cursor |-> span[1]]
           /\ \A n \in 1..Len(blocked) : cut[n] = Cuts(span, cut[n - 1], blocked[n])
  BY RemainingRuns
<1> DEFINE N == Len(blocked)
           In(n, t) == \E i \in DOMAIN cut[n].rest : Has(cut[n].rest[i], t)
           Out(n, t) == \E i \in 1..n : Has(blocked[i], t)
           Exact(n) == \A t \in Nat : In(n, t) <=>
                                        span[1] <= t /\ t < cut[n].cursor /\ ~Out(n, t)
           Ahead(n) == \A t \in Nat : cut[n].cursor <= t /\ t < span[2] => ~Out(n, t)
           Bound(n) == \A t \in Nat : In(n, t) => t < span[2] /\
                         \A k \in (n + 1)..N : t < blocked[k][1]
           P == {n \in 0..N : /\ Exact(n) /\ Ahead(n) /\ Bound(n)
                              /\ span[1] <= cut[n].cursor \/ span[2] <= cut[n].cursor
                              /\ cut[n].cursor <= span[2] \/ cut[n].cursor = span[1]}
<1>2. N \in Nat /\ span \in Nat \X Nat /\ \A n \in 1..N : blocked[n] \in Nat \X Nat
  BY DEF Pairs
<1>3. \A n \in 0..N : cut[n].rest \in Seq(Pairs) /\ cut[n].cursor \in Nat
  BY <1>1, <1>2 DEF Rests
<1>4. 0 \in P
  <2>1. cut[0].rest = <<>> /\ cut[0].cursor = span[1] /\ 0 \in 0..N
    BY <1>1, <1>2
  <2>2. Len(cut[0].rest) = 0
    BY <2>1
  <2>3. DOMAIN cut[0].rest = 1..0 /\ \A i \in 1..0 : FALSE
    BY <1>3, <2>1, <2>2
  <2>4. \A t : ~In(0, t) /\ ~Out(0, t)
    BY <2>3
  <2> HIDE DEF In, Out
  <2> QED BY <1>2, <2>1, <2>4
<1>5. ASSUME NEW n \in 1..N, n - 1 \in P PROVE n \in P
  <2> DEFINE was == cut[n - 1]
             now == cut[n]
             b == blocked[n]
             c == was.cursor
  <2>1. n - 1 \in 0..N /\ n \in 0..N /\ b \in Nat \X Nat /\ now = Cuts(span, was, b)
    BY <1>1, <1>2
  <2>2. was.rest \in Seq(Pairs) /\ c \in Nat
    BY <1>3, <2>1
  <2>3. /\ Exact(n - 1) /\ Ahead(n - 1) /\ Bound(n - 1)
        /\ span[1] <= c \/ span[2] <= c
        /\ c <= span[2] \/ c = span[1]
    BY <1>5
  <2>4. b[1] < b[2]
    BY <1>2 DEF Proper
  <2>5. \A k \in (n + 1)..N : b[1] <= blocked[k][1]
    <3> TAKE k \in (n + 1)..N
    <3>1. n \in DOMAIN blocked /\ k \in DOMAIN blocked /\ n < k
      BY <1>2
    <3> QED BY <3>1 DEF Advancing
  <2>6. \A t : Out(n, t) <=> Out(n - 1, t) \/ Has(b, t)
    <3>1. \A i : i \in 1..n <=> i = n \/ i \in 1..(n - 1)
      BY <1>2
    <3> HIDE DEF Has
    <3> QED BY <3>1
  <2>7. \A t \in Nat : In(n - 1, t) => t < b[1]
    <3>1. n \in ((n - 1) + 1)..N
      BY <1>2
    <3> HIDE DEF In
    <3> QED BY <2>3, <3>1
  <2>8. \A k \in (n + 1)..N : k \in ((n - 1) + 1)..N /\ blocked[k][1] \in Nat
    BY <1>2
  <2> HIDE DEF Out
  <2>9. CASE b[2] <= c \/ b[1] >= span[2]
    <3>1. now = was
      BY <2>1, <2>9 DEF Cuts
    <3>2. \A t : In(n, t) <=> In(n - 1, t)
      BY <3>1
    <3> HIDE DEF In, now, was, b
    <3>3. Exact(n)
      <4>1. \A t \in Nat : Has(b, t) => ~(t < b[1])
        BY <2>1 DEF Has
      <4> QED BY <2>3, <2>6, <2>7, <3>1, <3>2, <4>1 DEF now, was
    <3>4. Ahead(n)
      <4>1. ASSUME NEW t \in Nat, c <= t, t < span[2] PROVE ~Has(b, t)
        BY <1>2, <2>1, <2>2, <2>9, <4>1 DEF Has
      <4> QED BY <2>3, <2>6, <3>1, <4>1 DEF now, was
    <3>5. Bound(n)
      BY <2>3, <2>8, <3>2
    <3>6. /\ span[1] <= now.cursor \/ span[2] <= now.cursor
          /\ now.cursor <= span[2] \/ now.cursor = span[1]
      BY <2>3, <3>1
    <3> QED BY <2>1, <3>3, <3>4, <3>5, <3>6 DEF now
  <2>10. CASE ~(b[2] <= c \/ b[1] >= span[2])
    <3>1. now.cursor = Mix!Shorter(span[2], b[2])
      BY <2>1, <2>10 DEF Cuts
    <3>2. now.cursor <= span[2] /\ now.cursor <= b[2] /\
          (now.cursor = span[2] \/ now.cursor = b[2]) /\ c < b[2] /\ b[1] < span[2]
      BY <1>2, <2>1, <2>2, <2>10, <3>1 DEF Mix!Shorter
    <3>3. \A t \in Nat : In(n, t) <=> In(n - 1, t) \/ (c <= t /\ t < b[1])
      <4>1. CASE b[1] > c
        <5>1. now.rest = Append(was.rest, <<c, b[1]>>)
          BY <2>1, <2>10, <4>1 DEF Cuts
        <5> DEFINE L == Len(was.rest)
        <5>2. <<c, b[1]>> \in Pairs
          BY <2>1, <2>2 DEF Pairs
        <5>3. /\ L \in Nat /\ DOMAIN was.rest = 1..L /\ DOMAIN now.rest = 1..(L + 1)
              /\ now.rest[L + 1] = <<c, b[1]>> /\ \A i \in 1..L : now.rest[i] = was.rest[i]
          <6> HIDE DEF now, was, b
          <6> QED BY <2>2, <5>1, <5>2
        <5>4. \A i : i \in 1..(L + 1) <=> i = L + 1 \/ i \in 1..L
          BY <5>3
        <5>5. \A t : Has(<<c, b[1]>>, t) <=> c <= t /\ t < b[1]
          BY DEF Has
        <5> HIDE DEF now, was, b, L
        <5> QED BY <5>3, <5>4, <5>5 DEF now, was
      <4>2. CASE ~(b[1] > c)
        <5>1. now.rest = was.rest
          BY <2>1, <2>10, <4>2 DEF Cuts
        <5>2. \A t \in Nat : ~(c <= t /\ t < b[1])
          BY <2>1, <2>2, <4>2
        <5> QED BY <5>1, <5>2
      <4> QED BY <4>1, <4>2
    <3> HIDE DEF In, now, was, b
    <3>4. now.cursor \in Nat /\ b[1] \in Nat /\ b[2] \in Nat /\ span[1] \in Nat
          /\ span[2] \in Nat
      BY <1>2, <1>3, <2>1 DEF now
    <3>5. \A t \in Nat : Has(b, t) <=> b[1] <= t /\ t < b[2]
      BY DEF Has
    <3>6. ASSUME NEW t \in Nat
          PROVE  In(n, t) <=> span[1] <= t /\ t < now.cursor /\ ~Out(n, t)
      <4>1. In(n - 1, t) <=> span[1] <= t /\ t < c /\ ~Out(n - 1, t)
        BY <2>3 DEF was
      <4>2. In(n - 1, t) => t < span[2] /\ t < b[1]
        BY <2>3, <2>7
      <4>3. c <= t /\ t < span[2] => ~Out(n - 1, t)
        BY <2>3 DEF was
      <4>4. In(n, t) <=> In(n - 1, t) \/ (c <= t /\ t < b[1])
        BY <3>3
      <4>5. Out(n, t) <=> Out(n - 1, t) \/ (b[1] <= t /\ t < b[2])
        BY <2>6, <3>5
      <4>6. c \in Nat /\ b[1] < b[2]
        BY <2>2, <2>4
      <4>7. (span[1] <= c \/ span[2] <= c) /\ (c <= span[2] \/ c = span[1])
        BY <2>3
      <4> HIDE DEF Out
      <4>8. CASE t < c
        BY <3>2, <3>4, <4>1, <4>2, <4>4, <4>5, <4>6, <4>7, <4>8
      <4>9. CASE c <= t
        <5>1. ~In(n - 1, t)
          BY <4>1, <4>6, <4>9
        <5>2. t < now.cursor <=> t < span[2] /\ t < b[2]
          BY <3>2, <3>4
        <5>3. ASSUME In(n, t) PROVE span[1] <= t /\ t < now.cursor /\ ~Out(n, t)
          <6>1. t < b[1]
            BY <4>4, <5>1, <5>3
          <6>2. t < span[2] /\ t < b[2]
            BY <3>2, <3>4, <4>6, <6>1
          <6>3. span[1] <= t
            BY <3>4, <4>6, <4>7, <4>9, <6>2
          <6>4. ~Out(n, t)
            BY <3>4, <4>3, <4>5, <4>9, <6>1, <6>2
          <6> QED BY <5>2, <6>2, <6>3, <6>4
        <5>4. ASSUME t < now.cursor, ~Out(n, t) PROVE In(n, t)
          BY <3>4, <4>4, <4>5, <4>9, <5>2, <5>4
        <5> QED BY <5>1, <5>3, <5>4
      <4> QED BY <4>6, <4>8, <4>9
    <3>7. Ahead(n)
      <4>1. ASSUME NEW t \in Nat, now.cursor <= t, t < span[2] PROVE ~Out(n, t)
        <5>1. now.cursor = b[2] /\ c <= t
          BY <2>2, <3>2, <3>4, <4>1
        <5> QED BY <2>3, <2>6, <3>4, <3>5, <4>1, <5>1 DEF was
      <4> QED BY <4>1 DEF now
    <3>8. Bound(n)
      <4>1. ASSUME NEW t \in Nat, In(n, t)
            PROVE  t < span[2] /\ \A k \in (n + 1)..N : t < blocked[k][1]
        <5>1. CASE In(n - 1, t)
          BY <2>3, <2>8, <5>1
        <5>2. CASE c <= t /\ t < b[1]
          BY <2>5, <2>8, <3>2, <3>4, <5>2
        <5> QED BY <3>3, <4>1, <5>1, <5>2
      <4> QED BY <4>1
    <3>9. span[1] <= now.cursor \/ span[2] <= now.cursor
      BY <2>2, <2>3, <3>2, <3>4
    <3> QED BY <2>1, <3>2, <3>6, <3>7, <3>8, <3>9 DEF now
  <2> QED BY <2>9, <2>10
<1>6. N \in P
  <2> HIDE DEF P, N
  <2>1. \A n \in 1..N : n - 1 \in P => n \in P
    BY <1>5
  <2>2. N \in Nat
    BY <1>2
  <2>3. \A n \in 0..N : n \in P
    BY <1>4, <2>1, <2>2, UpTo
  <2> QED BY <2>2, <2>3
<1> DEFINE all == Append(cut[N].rest, <<cut[N].cursor, span[2]>>)
<1>7. /\ all \in Seq(Pairs) /\ N \in 0..N
      /\ \A t : t \in Mix!Moments(all) <=>
                  t \in Nat /\ (In(N, t) \/ (cut[N].cursor <= t /\ t < span[2]))
  <2>1. N \in 0..N
    BY <1>2
  <2>2. cut[N].rest \in Seq(Pairs) /\ <<cut[N].cursor, span[2]>> \in Pairs
    BY <1>2, <1>3, <2>1 DEF Pairs
  <2> DEFINE rest == cut[N].rest
             last == <<cut[N].cursor, span[2]>>
  <2>3. \A t : Has(last, t) <=> cut[N].cursor <= t /\ t < span[2]
    BY DEF Has
  <2> HIDE DEF last
  <2>4. all \in Seq(Pairs) /\ Range(all) = Range(rest) \cup {last}
    <3>1. all = Append(rest, last)
      BY DEF last
    <3> HIDE DEF all, rest
    <3>2. rest \in Seq(Pairs) /\ last \in Pairs
      BY <2>2 DEF last, rest
    <3> QED BY <3>1, <3>2, RangeOfAppend
  <2> HIDE DEF all
  <2>5. \A t : t \in Mix!Moments(all) <=> t \in Nat /\ \E p \in Range(all) : Has(p, t)
    BY <2>4, RangeHasMoments DEF Has
  <2>6. \A t : In(N, t) <=> \E p \in Range(rest) : Has(p, t)
    BY DEF Range
  <2> QED BY <2>1, <2>3, <2>4, <2>5, <2>6
<1>8. Mix!Remaining(span, blocked) \in Seq(Pairs)
      /\ Mix!Moments(Mix!Remaining(span, blocked)) = Mix!Moments(all)
  BY <1>1, <1>7, LastingMoments
<1>9. \A t \in Nat : t \in Mix!Moments(blocked) <=> Out(N, t)
  <2>1. DOMAIN blocked = 1..N
    OBVIOUS
  <2> QED BY <2>1, InMoments DEF Has
<1> HIDE DEF all
<1>10. ASSUME NEW t \in Nat
       PROVE  t \in Mix!Moments(Mix!Remaining(span, blocked)) <=>
                Has(span, t) /\ t \notin Mix!Moments(blocked)
  <2>1. /\ In(N, t) <=> span[1] <= t /\ t < cut[N].cursor /\ ~Out(N, t)
        /\ cut[N].cursor <= t /\ t < span[2] => ~Out(N, t)
        /\ In(N, t) => t < span[2]
        /\ span[1] <= cut[N].cursor \/ span[2] <= cut[N].cursor
    BY <1>6
  <2>2. t \in Mix!Moments(blocked) <=> Out(N, t)
    BY <1>9
  <2>3. t \in Mix!Moments(Mix!Remaining(span, blocked)) <=>
          In(N, t) \/ (cut[N].cursor <= t /\ t < span[2])
    BY <1>7, <1>8
  <2>4. Has(span, t) <=> span[1] <= t /\ t < span[2]
    BY DEF Has
  <2>5. cut[N].cursor \in Nat /\ span[1] \in Nat /\ span[2] \in Nat
    BY <1>2, <1>3, <1>7
  <2> HIDE DEF In, Out, N
  <2> QED BY <2>1, <2>2, <2>3, <2>4, <2>5
<1> QED BY <1>7, <1>8, <1>10

\* The range of a concatenation
LEMMA RangeOfConcat ==
  ASSUME NEW S, NEW p \in Seq(S), NEW q \in Seq(S)
  PROVE  p \o q \in Seq(S) /\ Range(p \o q) = Range(p) \cup Range(q)
<1>1. /\ p \o q \in Seq(S) /\ Len(p \o q) = Len(p) + Len(q)
      /\ \A i \in 1..Len(p) : (p \o q)[i] = p[i]
  OBVIOUS
<1>2. \A i \in 1..Len(q) : (p \o q)[Len(p) + i] = q[i]
  OBVIOUS
<1>3. Len(p) \in Nat /\ Len(q) \in Nat /\ DOMAIN p = 1..Len(p) /\ DOMAIN q = 1..Len(q)
      /\ DOMAIN (p \o q) = 1..(Len(p) + Len(q))
  BY <1>1
<1>4. \A i \in 1..(Len(p) + Len(q)) :
        i \in 1..Len(p) \/ (i - Len(p) \in 1..Len(q) /\ Len(p) + (i - Len(p)) = i)
  BY <1>3
<1>5. \A i \in 1..Len(p) : i \in 1..(Len(p) + Len(q))
  BY <1>3
<1>6. \A i \in 1..Len(q) : Len(p) + i \in 1..(Len(p) + Len(q))
  BY <1>3
<1> DEFINE pq == p \o q
<1> HIDE DEF pq
<1>7. ASSUME NEW i \in 1..(Len(p) + Len(q)) PROVE pq[i] \in Range(p) \cup Range(q)
  BY <1>1, <1>2, <1>3, <1>4 DEF pq, Range
<1>8. ASSUME NEW x \in Range(p) \cup Range(q) PROVE x \in Range(pq)
  <2>1. CASE x \in Range(p)
    <3>1. PICK i \in 1..Len(p) : x = p[i]
      BY <1>3, <2>1 DEF Range
    <3> QED BY <1>1, <1>3, <1>5, <3>1 DEF pq, Range
  <2>2. CASE x \in Range(q)
    <3>1. PICK i \in 1..Len(q) : x = q[i]
      BY <1>3, <2>2 DEF Range
    <3> QED BY <1>2, <1>3, <1>6, <3>1 DEF pq, Range
  <2> QED BY <2>1, <2>2
<1> QED BY <1>1, <1>3, <1>7, <1>8 DEF pq, Range

\* What FlattenSeq computes, of a sequence that has an element.
LEMMA FlattenRuns ==
  ASSUME NEW S, NEW seqs \in Seq(Seq(S)), Len(seqs) # 0
  PROVE  \E flat \in [1..Len(seqs) -> Seq(S)] :
           /\ Mix!FlattenSeq(seqs) = flat[Len(seqs)]
           /\ flat[1] = seqs[1]
           /\ \A n \in 2..Len(seqs) : flat[n] = flat[n - 1] \o seqs[n]
<1> DEFINE N == Len(seqs)
           R == Seq(S)
           b == <<>>
           F == [p \in (1..N) \X R |-> p[2] \o seqs[p[1]]]
           Is(k) == k = [i \in 1..N |-> IF i = 1 THEN seqs[i] ELSE k[i - 1] \o seqs[i]]
           f == CHOOSE k : Is(k)
<1>1. Mix!FlattenSeq(seqs) = f[N]
  BY DEF Mix!FlattenSeq
<1>2. N \in Nat /\ N # 0 /\ b \in R /\ \A n \in 1..N : seqs[n] \in R
  OBVIOUS
<1>3. \A v \in R, n \in 1..N : v \o seqs[n] \in R
  BY <1>2
<1>4. b \o seqs[1] = seqs[1]
  <2>1. seqs[1] \in Seq(S)
    BY <1>2
  <2> QED BY <2>1
<1> HIDE DEF N, R, b
<1>5. PICK w : Goes(w, N, R, b, F)
  <2>1. F \in [(1..N) \X R -> R]
    BY <1>3
  <2> HIDE DEF F
  <2>2. N \in Nat
    BY <1>2
  <2>3. b \in R
    BY <1>2
  <2> QED BY <2>1, <2>2, <2>3, Recursion
<1>6. /\ w \in [0..N -> R] /\ w[1] = seqs[1]
      /\ \A n \in 2..N : w[n] = w[n - 1] \o seqs[n]
  <2>1. w \in [0..N -> R] /\ w[0] = b
    BY <1>5 DEF Goes
  <2>2. \A n \in 1..N : w[n] = F[<<n, w[n - 1]>>]
    BY <1>5 DEF Goes
  <2>3. \A n \in 1..N : n - 1 \in 0..N /\ w[n - 1] \in R
    BY <1>2, <2>1
  <2>4. \A n \in 1..N : w[n] = w[n - 1] \o seqs[n]
    BY <2>2, <2>3
  <2>5. 1 \in 1..N /\ 1 - 1 = 0 /\ \A n \in 2..N : n \in 1..N
    BY <1>2
  <2> HIDE DEF F
  <2>6. w[1] = b \o seqs[1]
    BY <2>1, <2>4, <2>5
  <2> QED BY <1>4, <2>1, <2>4, <2>5, <2>6
<1> DEFINE g == [i \in 1..N |-> w[i]]
<1>7. Is(g)
  <2>1. \A i \in 1..N : i # 1 => i - 1 \in 1..N /\ i \in 2..N
    BY <1>2
  <2>2. \A i \in 1..N : w[i] = IF i = 1 THEN seqs[i] ELSE g[i - 1] \o seqs[i]
    BY <1>6, <2>1
  <2> QED BY <2>2
<1> HIDE DEF Is
<1>8. Is(f)
  BY <1>7
<1>9. f = [i \in 1..N |-> f[i]] /\ f[1] = seqs[1] /\ \A n \in 2..N : f[n] = f[n - 1] \o seqs[n]
  <2>1. f = [i \in 1..N |-> IF i = 1 THEN seqs[i] ELSE f[i - 1] \o seqs[i]]
    BY <1>8 DEF Is
  <2> HIDE DEF f
  <2>2. 1 \in 1..N /\ \A n \in 2..N : n \in 1..N /\ n # 1
    BY <1>2
  <2> QED BY <2>1, <2>2
<1> HIDE DEF f
<1>10. \A n \in 1..N : f[n] \in R
  <2> DEFINE T == {n \in Nat : n = 0 \/ f[n] \in R}
  <2>1. 0 \in T
    OBVIOUS
  <2>2. ASSUME NEW n \in 1..N, n - 1 \in T PROVE n \in T
    <3>1. CASE n = 1
      BY <1>2, <1>9, <3>1
    <3>2. CASE n # 1
      <4>1. n \in 2..N /\ n - 1 # 0 /\ f[n - 1] \in R
        BY <1>2, <2>2, <3>2
      <4>2. f[n] \in R
        BY <1>3, <1>9, <4>1
      <4> QED BY <4>2
    <3> QED BY <3>1, <3>2
  <2> HIDE DEF T
  <2>3. \A n \in 1..N : n - 1 \in T => n \in T
    BY <2>2
  <2>4. \A n \in 0..N : n \in T
    <3>1. N \in Nat
      BY <1>2
    <3> QED BY <2>1, <2>3, <3>1, UpTo
  <2>5. \A n \in 1..N : n \in 0..N /\ n # 0
    BY <1>2
  <2> QED BY <2>4, <2>5 DEF T
<1>11. f \in [1..N -> R]
  BY <1>9, <1>10
<1> QED BY <1>1, <1>9, <1>11 DEF N, R

\* FlattenSeq has the spans of all the sequences.
LEMMA FlattenIs ==
  ASSUME NEW S, NEW seqs \in Seq(Seq(S))
  PROVE  /\ Mix!FlattenSeq(seqs) \in Seq(S)
         /\ \A x : x \in Range(Mix!FlattenSeq(seqs)) <=>
                     \E i \in DOMAIN seqs : x \in Range(seqs[i])
<1>1. CASE Len(seqs) = 0
  <2>1. Mix!FlattenSeq(seqs) = seqs
    BY <1>1 DEF Mix!FlattenSeq
  <2>2. seqs = <<>> /\ DOMAIN seqs = 1..0 /\ \A i \in 1..0 : FALSE
    BY <1>1
  <2>3. <<>> \in Seq(S)
    OBVIOUS
  <2>4. Range(seqs) = {}
    BY <2>2 DEF Range
  <2> QED BY <2>1, <2>2, <2>3, <2>4
<1>2. CASE Len(seqs) # 0
  <2>1. PICK flat \in [1..Len(seqs) -> Seq(S)] :
           /\ Mix!FlattenSeq(seqs) = flat[Len(seqs)]
           /\ flat[1] = seqs[1]
           /\ \A n \in 2..Len(seqs) : flat[n] = flat[n - 1] \o seqs[n]
    BY <1>2, FlattenRuns
  <2> DEFINE N == Len(seqs)
             P == {n \in 0..N : n = 0 \/
                     \A x : x \in Range(flat[n]) <=> \E i \in 1..n : x \in Range(seqs[i])}
  <2>2. N \in Nat /\ N # 0 /\ DOMAIN seqs = 1..N /\ \A i \in 1..N : seqs[i] \in Seq(S)
    BY <1>2
  <2>3. 0 \in P
    BY <2>2
  <2>4. ASSUME NEW n \in 1..N, n - 1 \in P PROVE n \in P
    <3>1. n \in 0..N
      BY <2>2
    <3>2. CASE n = 1
      <4>1. \A i : i \in 1..n <=> i = 1
        BY <3>2
      <4> QED BY <2>1, <3>1, <3>2, <4>1
    <3>3. CASE n # 1
      <4>1. n \in 2..N /\ n - 1 # 0 /\ n - 1 \in 1..N
        BY <2>2, <3>3
      <4>2. \A i : i \in 1..n <=> i = n \/ i \in 1..(n - 1)
        BY <2>2
      <4>3. flat[n] = flat[n - 1] \o seqs[n] /\ flat[n - 1] \in Seq(S) /\ seqs[n] \in Seq(S)
        BY <2>1, <2>2, <4>1
      <4>4. Range(flat[n]) = Range(flat[n - 1]) \cup Range(seqs[n])
        <5> HIDE DEF P
        <5> QED BY <4>3, RangeOfConcat
      <4>5. \A x : x \in Range(flat[n - 1]) <=> \E i \in 1..(n - 1) : x \in Range(seqs[i])
        BY <2>4, <4>1
      <4> QED BY <3>1, <4>2, <4>4, <4>5
    <3> QED BY <3>2, <3>3
  <2> HIDE DEF P
  <2>5. \A n \in 1..N : n - 1 \in P => n \in P
    BY <2>4
  <2>6. \A n \in 0..N : n \in P
    <3> HIDE DEF N
    <3>1. N \in Nat
      BY <2>2
    <3> QED BY <2>3, <2>5, <3>1, UpTo
  <2>7. N \in 0..N /\ N \in 1..N
    BY <2>2
  <2>8. N \in P
    BY <2>6, <2>7
  <2> QED BY <2>1, <2>2, <2>7, <2>8 DEF P
<1> QED BY <1>1, <1>2

\* What is left of the allowed spans is what no blocked one has.
LEMMA SubtractIs ==
  ASSUME NEW allowed \in Seq(Pairs), NEW blocked \in Seq(Pairs)
  PROVE  /\ Mix!Subtract(allowed, blocked) \in Seq(Pairs)
         /\ Mix!Moments(Mix!Subtract(allowed, blocked)) =
              Mix!Moments(allowed) \ Mix!Moments(blocked)
<1> DEFINE all == Mix!Merge(allowed)
           cut == Mix!Merge(blocked)
           seqs == [i \in DOMAIN all |-> Mix!Remaining(all[i], cut)]
<1>1. all \in Seq(Pairs) /\ Mix!Moments(all) = Mix!Moments(allowed)
  BY MergeIs
<1>2. cut \in Seq(Pairs) /\ Advancing(cut) /\ Proper(cut)
      /\ Mix!Moments(cut) = Mix!Moments(blocked)
  BY MergeIs
<1>3. Mix!Subtract(allowed, blocked) = Mix!Merge(Mix!FlattenSeq(seqs))
  BY DEF Mix!Subtract
<1> HIDE DEF all, cut
<1>4. \A i \in DOMAIN all :
        /\ all[i] \in Pairs /\ Mix!Remaining(all[i], cut) \in Seq(Pairs)
        /\ \A t : t \in Mix!Moments(Mix!Remaining(all[i], cut)) <=>
                    t \in Nat /\ Has(all[i], t) /\ t \notin Mix!Moments(cut)
  <2> TAKE i \in DOMAIN all
  <2>1. all[i] \in Pairs
    BY <1>1
  <2> QED BY <1>2, <2>1, RemainingIs
<1>5. seqs \in Seq(Seq(Pairs)) /\ DOMAIN seqs = DOMAIN all
  BY <1>1, <1>4
<1>6. \A i \in DOMAIN all : seqs[i] = Mix!Remaining(all[i], cut)
  OBVIOUS
<1> HIDE DEF seqs
<1>7. /\ Mix!FlattenSeq(seqs) \in Seq(Pairs)
      /\ \A x : x \in Range(Mix!FlattenSeq(seqs)) <=>
                  \E i \in DOMAIN seqs : x \in Range(seqs[i])
  BY <1>5, FlattenIs
<1>8. ASSUME NEW t
      PROVE  t \in Mix!Moments(Mix!FlattenSeq(seqs)) <=>
               t \in Mix!Moments(all) /\ t \notin Mix!Moments(cut)
  <2>1. t \in Mix!Moments(Mix!FlattenSeq(seqs)) <=>
          t \in Nat /\ \E p \in Range(Mix!FlattenSeq(seqs)) : Has(p, t)
    BY <1>7, RangeHasMoments DEF Has
  <2>2. \A i \in DOMAIN all : t \in Mix!Moments(seqs[i]) <=>
          t \in Nat /\ \E p \in Range(seqs[i]) : Has(p, t)
    BY <1>4, <1>6, RangeHasMoments DEF Has
  <2>3. t \in Mix!Moments(all) <=> t \in Nat /\ \E i \in DOMAIN all : Has(all[i], t)
    BY <1>1, InMoments DEF Has
  <2>4. t \in Mix!Moments(Mix!FlattenSeq(seqs)) <=>
          \E i \in DOMAIN all : t \in Mix!Moments(seqs[i])
    BY <1>5, <1>7, <2>1, <2>2
  <2>5. \A i \in DOMAIN all : t \in Mix!Moments(seqs[i]) <=>
          t \in Nat /\ Has(all[i], t) /\ t \notin Mix!Moments(cut)
    BY <1>4, <1>6
  <2> QED BY <2>3, <2>4, <2>5
<1>9. /\ Mix!Merge(Mix!FlattenSeq(seqs)) \in Seq(Pairs)
      /\ Mix!Moments(Mix!Merge(Mix!FlattenSeq(seqs))) = Mix!Moments(Mix!FlattenSeq(seqs))
  BY <1>7, MergeIs
<1> QED BY <1>1, <1>2, <1>3, <1>8, <1>9

\* The moments of both
LEMMA IntersectIs ==
  ASSUME NEW left \in Seq(Pairs), NEW right \in Seq(Pairs)
  PROVE  /\ Mix!Intersect(left, right) \in Seq(Pairs)
         /\ Mix!Moments(Mix!Intersect(left, right)) = Mix!Moments(left) \cap Mix!Moments(right)
<1> DEFINE both(i, j) == <<Mix!Longer(left[i][1], right[j][1]),
                           Mix!Shorter(left[i][2], right[j][2])>>
           row(i) == [j \in DOMAIN right |-> both(i, j)]
           rows == [i \in DOMAIN left |-> row(i)]
<1>1. Mix!Intersect(left, right) = Mix!Merge(Mix!FlattenSeq(rows))
  BY DEF Mix!Intersect
<1>2. \A i \in DOMAIN left, j \in DOMAIN right :
        left[i] \in Nat \X Nat /\ right[j] \in Nat \X Nat
  BY DEF Pairs
<1>3. \A i \in DOMAIN left, j \in DOMAIN right : both(i, j) \in Pairs
  BY <1>2 DEF Pairs, Mix!Longer, Mix!Shorter
<1>4. \A i \in DOMAIN left, j \in DOMAIN right, t \in Nat :
        Has(both(i, j), t) <=> Has(left[i], t) /\ Has(right[j], t)
  BY <1>2 DEF Has, Mix!Longer, Mix!Shorter
<1> HIDE DEF both
<1>5. \A i \in DOMAIN left :
        row(i) \in Seq(Pairs) /\ Range(row(i)) = {both(i, j) : j \in DOMAIN right}
  BY <1>3 DEF Range
<1>6. rows \in Seq(Seq(Pairs)) /\ DOMAIN rows = DOMAIN left
  <2> HIDE DEF row
  <2> QED BY <1>5
<1>7. \A i \in DOMAIN left : Range(rows[i]) = {both(i, j) : j \in DOMAIN right}
  <2> HIDE DEF row
  <2> QED BY <1>5
<1> HIDE DEF rows
<1>8. /\ Mix!FlattenSeq(rows) \in Seq(Pairs)
      /\ \A x : x \in Range(Mix!FlattenSeq(rows)) <=>
                  \E i \in DOMAIN rows : x \in Range(rows[i])
  BY <1>6, FlattenIs
<1>9. ASSUME NEW t
      PROVE  t \in Mix!Moments(Mix!FlattenSeq(rows)) <=>
               t \in Mix!Moments(left) /\ t \in Mix!Moments(right)
  <2>1. t \in Mix!Moments(Mix!FlattenSeq(rows)) <=>
          t \in Nat /\ \E p \in Range(Mix!FlattenSeq(rows)) : Has(p, t)
    BY <1>8, RangeHasMoments DEF Has
  <2>2. t \in Mix!Moments(left) <=> t \in Nat /\ \E i \in DOMAIN left : Has(left[i], t)
    BY InMoments DEF Has
  <2>3. t \in Mix!Moments(right) <=> t \in Nat /\ \E j \in DOMAIN right : Has(right[j], t)
    BY InMoments DEF Has
  <2>4. (\E p \in Range(Mix!FlattenSeq(rows)) : Has(p, t)) <=>
          \E i \in DOMAIN left, j \in DOMAIN right : Has(both(i, j), t)
    <3>1. ASSUME NEW p \in Range(Mix!FlattenSeq(rows)), Has(p, t)
          PROVE  \E i \in DOMAIN left, j \in DOMAIN right : Has(both(i, j), t)
      <4>1. PICK i \in DOMAIN left : p \in Range(rows[i])
        BY <1>6, <1>8
      <4>2. PICK j \in DOMAIN right : p = both(i, j)
        BY <1>7, <4>1
      <4> QED BY <3>1, <4>2
    <3>2. ASSUME NEW i \in DOMAIN left, NEW j \in DOMAIN right, Has(both(i, j), t)
          PROVE  \E p \in Range(Mix!FlattenSeq(rows)) : Has(p, t)
      <4>1. both(i, j) \in Range(rows[i])
        BY <1>7
      <4>2. both(i, j) \in Range(Mix!FlattenSeq(rows))
        BY <1>6, <1>8, <4>1
      <4> QED BY <3>2, <4>2
    <3> QED BY <3>1, <3>2
  <2> QED BY <1>4, <2>1, <2>2, <2>3, <2>4
<1>10. /\ Mix!Merge(Mix!FlattenSeq(rows)) \in Seq(Pairs)
       /\ Mix!Moments(Mix!Merge(Mix!FlattenSeq(rows))) = Mix!Moments(Mix!FlattenSeq(rows))
  BY <1>8, MergeIs
<1> QED BY <1>1, <1>9, <1>10

\* The moments of a sequence that grows
LEMMA AppendMoments ==
  ASSUME NEW seq \in Seq(Pairs), NEW p \in Pairs
  PROVE  /\ Append(seq, p) \in Seq(Pairs)
         /\ \A t : t \in Mix!Moments(Append(seq, p)) <=>
                     t \in Mix!Moments(seq) \/ (t \in Nat /\ Has(p, t))
<1>1. Append(seq, p) \in Seq(Pairs) /\ Range(Append(seq, p)) = Range(seq) \cup {p}
  BY RangeOfAppend
<1> QED BY <1>1, RangeHasMoments DEF Has

\* Spans of some length have moments.
LEMMA NoMoments ==
  ASSUME NEW seq \in Seq(Pairs), Proper(seq)
  PROVE  seq = <<>> <=> Mix!Moments(seq) = {}
<1>1. ASSUME seq = <<>> PROVE Mix!Moments(seq) = {}
  <2>1. DOMAIN seq = 1..0 /\ \A i \in 1..0 : FALSE
    BY <1>1
  <2> QED BY <2>1, InMoments
<1>2. ASSUME seq # <<>> PROVE Mix!Moments(seq) # {}
  <2>1. 1 \in DOMAIN seq /\ seq[1] \in Nat \X Nat
    BY <1>2 DEF Pairs
  <2>2. seq[1][1] \in Nat /\ seq[1][1] <= seq[1][1] /\ seq[1][1] < seq[1][2]
    BY <2>1 DEF Proper
  <2>3. seq[1][1] \in Mix!Moments(seq)
    BY <2>1, <2>2, InMoments
  <2> QED BY <2>3
<1> QED BY <1>1, <1>2

-----------------------------------------------------------------------------
(* What the timeline says *)

Events == [source : Mix!Sources, route : Mix!Routes, blocked : BOOLEAN, at : Nat]

IsFor(e, source, r) == e.source = source /\ e.route = r

\* The last word of a source on a route at moment t, in the first n events
Says(events, n, source, r, t) ==
  \E k \in 1..n :
    /\ IsFor(events[k], source, r) /\ events[k].at <= t /\ events[k].blocked
    /\ \A m \in 1..n : m > k /\ events[m].at <= t => ~IsFor(events[m], source, r)

\* One more event
LEMMA SaysMore ==
  ASSUME NEW events, NEW n \in Nat, n > 0, NEW source, NEW r, NEW t \in Nat,
         events[n].at \in Nat
  PROVE  Says(events, n, source, r, t) <=>
           IF events[n].at <= t /\ IsFor(events[n], source, r) THEN events[n].blocked
           ELSE Says(events, n - 1, source, r, t)
<1>1. \A i : i \in 1..n <=> i = n \/ i \in 1..(n - 1)
  OBVIOUS
<1>2. n \in 1..n /\ \A m \in 1..n : ~(m > n)
  OBVIOUS
<1>3. \A k \in 1..(n - 1) : n > k /\ k # n
  OBVIOUS
<1>4. CASE events[n].at <= t /\ IsFor(events[n], source, r)
  <2>1. ASSUME events[n].blocked PROVE Says(events, n, source, r, t)
    BY <1>2, <1>4, <2>1 DEF Says
  <2>2. ASSUME Says(events, n, source, r, t) PROVE events[n].blocked
    BY <1>1, <1>2, <1>3, <1>4, <2>2 DEF Says
  <2> QED BY <1>4, <2>1, <2>2
<1>5. CASE ~(events[n].at <= t /\ IsFor(events[n], source, r))
  <2>1. ASSUME Says(events, n, source, r, t) PROVE Says(events, n - 1, source, r, t)
    BY <1>1, <1>5, <2>1 DEF Says
  <2>2. ASSUME Says(events, n - 1, source, r, t) PROVE Says(events, n, source, r, t)
    BY <1>1, <1>5, <2>2 DEF Says
  <2> QED BY <1>5, <2>1, <2>2
<1> QED BY <1>4, <1>5

\* Only the events in front of it count.
LEMMA SaysSame ==
  ASSUME NEW p, NEW q, NEW n \in Nat, \A i \in 1..n : p[i] = q[i],
         NEW source, NEW r, NEW t
  PROVE  Says(p, n, source, r, t) <=> Says(q, n, source, r, t)
BY DEF Says

\* No route is blocked that no event is about.
LEMMA SaysMentions ==
  ASSUME NEW events, NEW n \in Nat, NEW source, NEW r, NEW t, Says(events, n, source, r, t)
  PROVE  \E k \in 1..n : events[k].route = r
BY DEF Says, IsFor

HeardStates == [mic : BOOLEAN, speaker : BOOLEAN, blocked : BOOLEAN, since : Nat,
                spans : Seq(Pairs)]

\* One event of the timeline
Hears(r, was, e) ==
  IF e.route # r THEN was
  ELSE LET mic == IF e.source = "sender_mic" THEN e.blocked ELSE was.mic
           speaker == IF e.source = "receiver_speaker" THEN e.blocked ELSE was.speaker
           now == Mix!Blocked(mic, speaker, e)
       IN [mic |-> mic, speaker |-> speaker, blocked |-> now,
           since |-> IF ~was.blocked /\ now THEN e.at ELSE was.since,
           spans |-> IF was.blocked /\ ~now
                     THEN Append(was.spans, <<was.since, e.at>>) ELSE was.spans]

\* What one event changes, field by field
LEMMA HearsIs ==
  ASSUME NEW r, NEW was \in HeardStates, NEW e \in Events
  PROVE  /\ Hears(r, was, e) \in HeardStates
         /\ e.route # r => Hears(r, was, e) = was
         /\ e.route = r =>
              LET heard == Hears(r, was, e)
              IN /\ heard.mic <=> IF e.source = "sender_mic" THEN e.blocked ELSE was.mic
                 /\ heard.speaker <=> IF e.source = "receiver_speaker" THEN e.blocked
                                      ELSE was.speaker
                 /\ heard.blocked <=> heard.mic \/ heard.speaker
                 /\ heard.since = IF ~was.blocked /\ heard.blocked THEN e.at ELSE was.since
                 /\ heard.spans = IF was.blocked /\ ~heard.blocked
                                  THEN Append(was.spans, <<was.since, e.at>>) ELSE was.spans
<1>1. was.mic \in BOOLEAN /\ was.speaker \in BOOLEAN /\ was.blocked \in BOOLEAN
  BY DEF HeardStates
<1>2. was.since \in Nat /\ was.spans \in Seq(Pairs)
  BY DEF HeardStates
<1>3. e.blocked \in BOOLEAN /\ e.at \in Nat
  BY DEF Events
<1>4. <<was.since, e.at>> \in Pairs
  BY <1>2, <1>3 DEF Pairs
<1>5. Append(was.spans, <<was.since, e.at>>) \in Seq(Pairs)
  BY <1>2, <1>4
<1> DEFINE mic == IF e.source = "sender_mic" THEN e.blocked ELSE was.mic
           speaker == IF e.source = "receiver_speaker" THEN e.blocked ELSE was.speaker
           now == mic \/ speaker
           since == IF ~was.blocked /\ now THEN e.at ELSE was.since
           spans == IF was.blocked /\ ~now THEN Append(was.spans, <<was.since, e.at>>)
                    ELSE was.spans
<1>6. CASE e.route # r
  BY <1>6 DEF Hears
<1>7. CASE e.route = r
  <2>1. Hears(r, was, e) = [mic |-> mic, speaker |-> speaker, blocked |-> now,
                            since |-> since, spans |-> spans]
    BY <1>7 DEF Hears, Mix!Blocked
  <2>2. mic \in BOOLEAN /\ speaker \in BOOLEAN
    BY <1>1, <1>3
  <2> HIDE DEF mic, speaker
  <2>3. now \in BOOLEAN
    OBVIOUS
  <2> HIDE DEF now
  <2>4. since \in Nat /\ spans \in Seq(Pairs)
    BY <1>2, <1>3, <1>5
  <2> HIDE DEF since, spans
  <2>5. Hears(r, was, e) \in HeardStates
    BY <2>1, <2>2, <2>3, <2>4 DEF HeardStates
  <2> DEFINE heard == Hears(r, was, e)
  <2>6. /\ heard.mic = mic /\ heard.speaker = speaker /\ heard.blocked = now
        /\ heard.since = since /\ heard.spans = spans
    BY <2>1
  <2> HIDE DEF heard
  <2> QED BY <1>7, <2>5, <2>6 DEF heard, mic, speaker, now, since, spans
<1> QED BY <1>6, <1>7

\* What EffectiveBlocked computes.
LEMMA EffectiveRuns ==
  ASSUME timeline \in Seq(Events), NEW r
  PROVE  \E after \in [0..Len(timeline) -> HeardStates] :
           /\ after[0] = [mic |-> FALSE, speaker |-> FALSE, blocked |-> FALSE, since |-> 0,
                          spans |-> <<>>]
           /\ \A n \in 1..Len(timeline) : after[n] = Hears(r, after[n - 1], timeline[n])
           /\ LET end == after[Len(timeline)]
              IN Mix!EffectiveBlocked(r) =
                   Mix!Merge(IF end.blocked THEN Append(end.spans, <<end.since, clock>>)
                         ELSE end.spans)
<1> DEFINE N == Len(timeline)
           S == HeardStates
           b == [mic |-> FALSE, speaker |-> FALSE, blocked |-> FALSE, since |-> 0,
                 spans |-> <<>>]
           G(n, v) == Hears(r, v, timeline[n])
           F == [p \in (1..N) \X S |-> G(p[1], p[2])]
           Is(k) == k = [n \in 0..N |-> IF n = 0 THEN b ELSE G(n, k[n - 1])]
           f == CHOOSE k : Is(k)
<1>1. \A n \in 1..N, v \in S : G(n, v) \in S
  <2>1. \A n \in 1..N : timeline[n] \in Events
    OBVIOUS
  <2> QED BY <2>1, HearsIs
<1>2. Mix!EffectiveBlocked(r) =
        Mix!Merge(IF f[N].blocked
                  THEN Append(f[N].spans, <<f[N].since, clock>>) ELSE f[N].spans)
  BY DEF Mix!EffectiveBlocked, Hears
<1>3. N \in Nat /\ b \in S
  BY DEF HeardStates
<1> HIDE DEF G, S, N, b
<1>4. PICK w : Goes(w, N, S, b, F)
  <2>1. F \in [(1..N) \X S -> S]
    BY <1>1
  <2> HIDE DEF F
  <2>2. N \in Nat
    BY <1>3
  <2>3. b \in S
    BY <1>3
  <2> QED BY <2>1, <2>2, <2>3, Recursion
<1>5. Is(f)
  <2>1. \A n \in 1..N : n - 1 \in 0..N /\ w[n - 1] \in S
    BY <1>3, <1>4 DEF Goes
  <2>2. w \in [0..N -> S] /\ w[0] = b
    BY <1>4 DEF Goes
  <2>3. \A n \in 1..N : w[n] = F[<<n, w[n - 1]>>]
    BY <1>4 DEF Goes
  <2>4. \A n \in 1..N : w[n] = G(n, w[n - 1])
    BY <2>1, <2>3
  <2>5. Is(w)
    BY <1>3, <2>2, <2>4
  <2> HIDE DEF Is
  <2> QED BY <2>5
<1>6. f = [n \in 0..N |-> f[n]] /\ f[0] = b /\ \A n \in 1..N : f[n] = G(n, f[n - 1])
  <2>1. f = [n \in 0..N |-> IF n = 0 THEN b ELSE G(n, f[n - 1])]
    BY <1>5
  <2> HIDE DEF f
  <2>2. 0 \in 0..N /\ \A n \in 1..N : n \in 0..N /\ n # 0
    BY <1>3
  <2> QED BY <2>1, <2>2
<1> HIDE DEF f, Is
<1>7. f \in [0..N -> S]
  <2>1. f[0] \in S
    BY <1>3, <1>6
  <2>2. \A n \in 1..N : f[n - 1] \in S => f[n] \in S
    BY <1>1, <1>6
  <2> HIDE DEF F
  <2>3. f \in [0..N -> {f[n] : n \in 0..N}]
    BY <1>6
  <2>4. N \in Nat
    BY <1>3
  <2> QED BY <2>1, <2>2, <2>3, <2>4, TypedRun
<1> QED BY <1>2, <1>6, <1>7 DEF N, S, G, b

\* The route is blocked at moment t, by its sender or by its receiver.
SaysBlocked(events, n, r, t) ==
  Says(events, n, "sender_mic", r, t) \/ Says(events, n, "receiver_speaker", r, t)

\* The events are in the order of their times.
InOrder(events) == \A i, j \in DOMAIN events : i <= j => events[i].at <= events[j].at

\* A route is blocked in a recording while the last event of one of its two sources
\* blocks it.
LEMMA EffectiveIs ==
  ASSUME timeline \in Seq(Events), InOrder(timeline), clock \in Nat,
         \A i \in DOMAIN timeline : timeline[i].at <= clock,
         NEW r
  PROVE  /\ Mix!EffectiveBlocked(r) \in Seq(Pairs)
         /\ \A t : t \in Mix!Moments(Mix!EffectiveBlocked(r)) <=>
                     t \in Nat /\ t < clock /\ SaysBlocked(timeline, Len(timeline), r, t)
<1>1. PICK after \in [0..Len(timeline) -> HeardStates] :
           /\ after[0] = [mic |-> FALSE, speaker |-> FALSE, blocked |-> FALSE, since |-> 0,
                          spans |-> <<>>]
           /\ \A n \in 1..Len(timeline) : after[n] = Hears(r, after[n - 1], timeline[n])
           /\ LET end == after[Len(timeline)]
              IN Mix!EffectiveBlocked(r) =
                   Mix!Merge(IF end.blocked THEN Append(end.spans, <<end.since, clock>>)
                         ELSE end.spans)
  BY EffectiveRuns
<1> DEFINE N == Len(timeline)
           Passed(n, t) == \A k \in 1..n : timeline[k].at <= t
           Heard(n, t) == t \in Mix!Moments(after[n].spans)
                          \/ (after[n].blocked /\ after[n].since <= t)
           Last1(n) == \A t \in Nat : Passed(n, t) =>
                         /\ after[n].mic <=> Says(timeline, n, "sender_mic", r, t)
                         /\ after[n].speaker <=> Says(timeline, n, "receiver_speaker", r, t)
           Both(n) == after[n].blocked <=> after[n].mic \/ after[n].speaker
           Exact(n) == \A t \in Nat : Heard(n, t) <=> SaysBlocked(timeline, n, r, t)
           Over(n) == \A t \in Nat : Passed(n, t) =>
                         t \notin Mix!Moments(after[n].spans)
                         /\ (after[n].blocked => after[n].since <= t)
           P == {n \in 0..N : Last1(n) /\ Both(n) /\ Exact(n) /\ Over(n)}
<1>2. N \in Nat /\ \A n \in 1..N : timeline[n] \in Events /\ timeline[n].at \in Nat
  <2>1. \A e \in Events : e.at \in Nat
    BY DEF Events
  <2> QED BY <2>1
<1>3. \A n \in 0..N : after[n] \in HeardStates
  BY <1>1, <1>2
<1>4. 0 \in P
  <2>1. /\ ~after[0].mic /\ ~after[0].speaker /\ ~after[0].blocked /\ after[0].spans = <<>>
        /\ 0 \in 0..N
    BY <1>1, <1>2
  <2>2. \A t : t \notin Mix!Moments(<<>>)
    <3>1. <<>> \in Seq(Pairs) /\ Proper(<<>>)
      BY DEF Proper
    <3> QED BY <3>1, NoMoments
  <2>3. \A source, t : ~Says(timeline, 0, source, r, t)
    BY DEF Says
  <2> QED BY <2>1, <2>2, <2>3 DEF SaysBlocked
<1>5. ASSUME NEW n \in 1..N, n - 1 \in P PROVE n \in P
  <2> DEFINE was == after[n - 1]
             now == after[n]
             e == timeline[n]
  <2>1. n \in Nat /\ n > 0 /\ n - 1 \in 0..N /\ n \in 0..N /\ e \in Events /\ e.at \in Nat
    BY <1>2
  <2>2. was \in HeardStates /\ now \in HeardStates /\ now = Hears(r, was, e)
    BY <1>1, <1>3, <2>1
  <2>3. Last1(n - 1) /\ Both(n - 1) /\ Exact(n - 1) /\ Over(n - 1)
    BY <1>5
  <2>4. \A t \in Nat : Passed(n, t) <=> e.at <= t
    <3> TAKE t \in Nat
    <3>1. ASSUME e.at <= t, NEW k \in 1..n PROVE timeline[k].at <= t
      <4>1. k \in DOMAIN timeline /\ n \in DOMAIN timeline /\ k <= n
        BY <1>2
      <4>2. timeline[k].at <= e.at /\ timeline[k].at \in Nat
        BY <1>2, <4>1 DEF InOrder
      <4> QED BY <2>1, <3>1, <4>2
    <3>2. n \in 1..n
      BY <2>1
    <3> QED BY <3>1, <3>2
  <2>5. \A t \in Nat : e.at <= t => Passed(n - 1, t)
    <3>1. \A k \in 1..(n - 1) : k \in 1..n
      BY <2>1
    <3> QED BY <2>4, <3>1
  <2>6. \A t \in Nat, source \in Mix!Sources :
          Says(timeline, n, source, r, t) <=>
            IF e.at <= t /\ IsFor(e, source, r) THEN e.blocked
            ELSE Says(timeline, n - 1, source, r, t)
    BY <2>1, SaysMore
  <2>7. "sender_mic" \in Mix!Sources /\ "receiver_speaker" \in Mix!Sources /\
        \A x \in Mix!Sources : x = "sender_mic" \/ x = "receiver_speaker"
    BY DEF Mix!Sources
  <2>8. e.source \in Mix!Sources /\ e.blocked \in BOOLEAN
    BY <2>1 DEF Events
  <2>9. \A t \in Nat : ~(e.at <= t) => (SaysBlocked(timeline, n, r, t) <=>
                                          SaysBlocked(timeline, n - 1, r, t))
    BY <2>6, <2>7 DEF SaysBlocked
  <2> HIDE DEF Passed
  <2>10. CASE e.route # r
    <3>1. now = was
      <4> HIDE DEF now, was, e
      <4> QED BY <2>1, <2>2, <2>10, HearsIs DEF e
    <3>2. \A t \in Nat, source \in Mix!Sources :
            Says(timeline, n, source, r, t) <=> Says(timeline, n - 1, source, r, t)
      BY <2>6, <2>10 DEF IsFor
    <3> HIDE DEF now, was, e
    <3>3. Last1(n)
      BY <2>3, <2>4, <2>5, <2>7, <3>1, <3>2 DEF now, was
    <3>4. Both(n)
      BY <2>3, <3>1 DEF now, was
    <3>5. Exact(n)
      BY <2>3, <2>7, <3>1, <3>2 DEF now, was, SaysBlocked
    <3>6. Over(n)
      BY <2>3, <2>4, <2>5, <3>1 DEF now, was
    <3> QED BY <2>1, <3>3, <3>4, <3>5, <3>6
  <2>11. CASE e.route = r
    <3>1. /\ now.mic <=> IF e.source = "sender_mic" THEN e.blocked ELSE was.mic
          /\ now.speaker <=> IF e.source = "receiver_speaker" THEN e.blocked ELSE was.speaker
          /\ now.blocked <=> now.mic \/ now.speaker
          /\ now.since = IF ~was.blocked /\ now.blocked THEN e.at ELSE was.since
          /\ now.spans = IF was.blocked /\ ~now.blocked
                         THEN Append(was.spans, <<was.since, e.at>>) ELSE was.spans
      <4> HIDE DEF now, was, e
      <4> QED BY <2>1, <2>2, <2>11, HearsIs
    <3>2. was.spans \in Seq(Pairs) /\ was.since \in Nat /\ <<was.since, e.at>> \in Pairs
      BY <2>1, <2>2 DEF HeardStates, Pairs
    <3>3. \A t : t \in Mix!Moments(now.spans) <=>
            t \in Mix!Moments(was.spans) \/
            (was.blocked /\ ~now.blocked /\ t \in Nat /\ was.since <= t /\ t < e.at)
      <4> HIDE DEF now, was, e
      <4>1. \A t : t \in Mix!Moments(Append(was.spans, <<was.since, e.at>>)) <=>
                     t \in Mix!Moments(was.spans) \/ (t \in Nat /\ Has(<<was.since, e.at>>, t))
        BY <3>2, AppendMoments
      <4>2. \A t : Has(<<was.since, e.at>>, t) <=> was.since <= t /\ t < e.at
        BY DEF Has
      <4>3. CASE was.blocked /\ ~now.blocked
        BY <3>1, <4>1, <4>2, <4>3
      <4>4. CASE ~(was.blocked /\ ~now.blocked)
        BY <3>1, <4>4
      <4> QED BY <4>3, <4>4
    <3> HIDE DEF now, was, e
    <3>4. Last1(n)
      <4>1. ASSUME NEW t \in Nat, Passed(n, t)
            PROVE  /\ now.mic <=> Says(timeline, n, "sender_mic", r, t)
                   /\ now.speaker <=> Says(timeline, n, "receiver_speaker", r, t)
        <5>1. e.at <= t /\ Passed(n - 1, t)
          BY <2>4, <2>5, <4>1
        <5>2. /\ was.mic <=> Says(timeline, n - 1, "sender_mic", r, t)
              /\ was.speaker <=> Says(timeline, n - 1, "receiver_speaker", r, t)
          BY <2>3, <5>1 DEF was
        <5>3. Says(timeline, n, "sender_mic", r, t) <=>
                IF e.source = "sender_mic" THEN e.blocked
                ELSE Says(timeline, n - 1, "sender_mic", r, t)
          BY <2>6, <2>7, <2>11, <5>1 DEF IsFor
        <5>4. Says(timeline, n, "receiver_speaker", r, t) <=>
                IF e.source = "receiver_speaker" THEN e.blocked
                ELSE Says(timeline, n - 1, "receiver_speaker", r, t)
          BY <2>6, <2>7, <2>11, <5>1 DEF IsFor
        <5> QED BY <3>1, <5>2, <5>3, <5>4
      <4> QED BY <4>1 DEF now
    <3>5. Both(n)
      BY <3>1 DEF now
    <3>6. ASSUME NEW t \in Nat, e.at <= t
          PROVE  t \notin Mix!Moments(now.spans) /\ (now.blocked => now.since <= t)
      <4>1. t \notin Mix!Moments(was.spans) /\ (was.blocked => was.since <= t)
        BY <2>3, <2>5, <3>6 DEF was
      <4>2. ~(t < e.at)
        BY <2>1, <3>6
      <4>3. t \notin Mix!Moments(now.spans)
        BY <3>3, <4>1, <4>2
      <4>4. now.blocked => now.since <= t
        BY <3>1, <3>6, <4>1
      <4> QED BY <4>3, <4>4
    <3>7. Over(n)
      BY <2>4, <3>6 DEF now
    <3>8. ASSUME NEW t \in Nat
          PROVE  Heard(n, t) <=> SaysBlocked(timeline, n, r, t)
      <4>1. CASE e.at <= t
        <5>1. now.blocked <=> SaysBlocked(timeline, n, r, t)
          BY <2>4, <3>1, <3>4, <4>1 DEF now, SaysBlocked
        <5> QED BY <3>6, <4>1, <5>1 DEF now
      <4>2. CASE ~(e.at <= t)
        <5>1. SaysBlocked(timeline, n, r, t) <=>
                t \in Mix!Moments(was.spans) \/ (was.blocked /\ was.since <= t)
          BY <2>3, <2>9, <4>2 DEF was
        <5>2. t < e.at
          BY <2>1, <4>2
        <5>3. t \in Mix!Moments(now.spans) \/ (now.blocked /\ now.since <= t) <=>
                t \in Mix!Moments(was.spans) \/ (was.blocked /\ was.since <= t)
          BY <2>1, <3>1, <3>2, <3>3, <4>2, <5>2
        <5> QED BY <5>1, <5>3 DEF now
      <4> QED BY <4>1, <4>2
    <3> QED BY <2>1, <3>4, <3>5, <3>7, <3>8
  <2> QED BY <2>10, <2>11
<1>6. N \in P
  <2> HIDE DEF P, N
  <2>1. \A n \in 1..N : n - 1 \in P => n \in P
    BY <1>5
  <2>2. N \in Nat
    BY <1>2
  <2>3. \A n \in 0..N : n \in P
    BY <1>4, <2>1, <2>2, UpTo
  <2> QED BY <2>2, <2>3
<1> DEFINE end == after[N]
           seq == IF end.blocked THEN Append(end.spans, <<end.since, clock>>) ELSE end.spans
<1>7. end \in HeardStates /\ end.spans \in Seq(Pairs) /\ end.since \in Nat
      /\ <<end.since, clock>> \in Pairs
  <2>1. N \in 0..N
    BY <1>2
  <2> QED BY <1>3, <2>1 DEF HeardStates, Pairs
<1>8. /\ seq \in Seq(Pairs)
      /\ \A t : t \in Mix!Moments(seq) <=>
           t \in Mix!Moments(end.spans) \/
             (end.blocked /\ t \in Nat /\ end.since <= t /\ t < clock)
  <2> HIDE DEF end
  <2>1. /\ Append(end.spans, <<end.since, clock>>) \in Seq(Pairs)
        /\ \A t : t \in Mix!Moments(Append(end.spans, <<end.since, clock>>)) <=>
                    t \in Mix!Moments(end.spans) \/ (t \in Nat /\ Has(<<end.since, clock>>, t))
    BY <1>7, AppendMoments
  <2>2. \A t : Has(<<end.since, clock>>, t) <=> end.since <= t /\ t < clock
    BY DEF Has
  <2>3. CASE end.blocked
    BY <2>1, <2>2, <2>3
  <2>4. CASE ~end.blocked
    BY <1>7, <2>4
  <2> QED BY <2>3, <2>4
<1>9. Mix!EffectiveBlocked(r) \in Seq(Pairs)
      /\ Mix!Moments(Mix!EffectiveBlocked(r)) = Mix!Moments(seq)
  <2>1. Mix!EffectiveBlocked(r) = Mix!Merge(seq)
    BY <1>1
  <2> HIDE DEF seq
  <2> QED BY <1>8, <2>1, MergeIs
<1>10. ASSUME NEW t \in Mix!Moments(end.spans) PROVE t \in Nat /\ t < clock
  <2>1. t \in Nat
    BY <1>7, InMoments
  <2>2. Passed(N, t) => t \notin Mix!Moments(end.spans)
    BY <1>6, <2>1
  <2>3. DOMAIN timeline = 1..N
    OBVIOUS
  <2>4. PICK k \in 1..N : ~(timeline[k].at <= t)
    BY <2>2
  <2>5. timeline[k].at \in Nat /\ timeline[k].at <= clock
    BY <1>2, <2>3
  <2> QED BY <2>1, <2>4, <2>5
<1>11. \A t \in Nat : SaysBlocked(timeline, N, r, t) <=>
                        t \in Mix!Moments(end.spans) \/ (end.blocked /\ end.since <= t)
  BY <1>6
<1> HIDE DEF end, seq
<1> QED BY <1>8, <1>9, <1>10, <1>11

-----------------------------------------------------------------------------
(* What a download holds *)

\* SetToSeq lists the elements of a finite set.
LEMMA ElementsOf ==
  ASSUME NEW S, IsFiniteSet(S)
  PROVE  /\ Mix!SetToSeq(S) \in Seq(S)
         /\ Range(Mix!SetToSeq(S)) = S
         /\ DOMAIN Mix!SetToSeq(S) = 1..Cardinality(S) /\ Cardinality(S) \in Nat
         /\ \A a, b \in DOMAIN Mix!SetToSeq(S) :
              Mix!SetToSeq(S)[a] = Mix!SetToSeq(S)[b] => a = b
<1>1. Cardinality(S) \in Nat /\ ExistsBijection(1..Cardinality(S), S)
  BY FS_CardinalityType
<1>2. \E f \in [1..Cardinality(S) -> S] : \A a, b \in DOMAIN f : f[a] = f[b] => a = b
  BY <1>1 DEF ExistsBijection, Bijection, Injection, IsInjective
<1> DEFINE list == SetToSeq(S)
<1>3. /\ list \in [1..Cardinality(S) -> S]
      /\ \A a, b \in DOMAIN list : list[a] = list[b] => a = b
  BY <1>2, Zenon DEF SetToSeq, IsInjective
<1>4. list \in Injection(1..Cardinality(S), S)
  BY <1>3 DEF Injection, IsInjective
<1>5. IsFiniteSet(1..Cardinality(S)) /\ Cardinality(1..Cardinality(S)) = Cardinality(S)
  BY <1>1, FS_Interval
<1>6. list \in Surjection(1..Cardinality(S), S)
  BY <1>1, <1>4, <1>5, FS_Injection DEF Injection
<1>7. \A c \in S : \E i \in 1..Cardinality(S) : list[i] = c
  BY <1>6 DEF Surjection
<1>8. list \in Seq(S)
  BY <1>1, <1>3
<1>9. Range(list) = S
  BY <1>3, <1>7 DEF Range
<1>10. DOMAIN list = 1..Cardinality(S)
  BY <1>3
<1> HIDE DEF list
<1> QED BY <1>1, <1>3, <1>8, <1>9, <1>10, SameList DEF list

\* The spans that are gathered for the elements of a set are those of one of them.
LEMMA GatheredIs ==
  ASSUME NEW S, IsFiniteSet(S), NEW f \in [S -> Seq(Pairs)]
  PROVE  LET seq == Mix!SetToSeq(S)
             all == Mix!FlattenSeq([i \in DOMAIN seq |-> f[seq[i]]])
         IN /\ all \in Seq(Pairs)
            /\ \A p \in Range(all) : \E x \in S : p \in Range(f[x])
            /\ \A t : t \in Mix!Moments(all) <=> \E x \in S : t \in Mix!Moments(f[x])
<1> DEFINE seq == Mix!SetToSeq(S)
           seqs == [i \in DOMAIN seq |-> f[seq[i]]]
           all == Mix!FlattenSeq(seqs)
<1>1. seq \in Seq(S) /\ Range(seq) = S
  BY ElementsOf
<1> HIDE DEF seq
<1>2. \A i \in DOMAIN seq : seq[i] \in S /\ f[seq[i]] \in Seq(Pairs)
  BY <1>1
<1>3. seqs \in Seq(Seq(Pairs)) /\ DOMAIN seqs = DOMAIN seq
  <2>1. Len(seq) \in Nat /\ DOMAIN seq = 1..Len(seq)
    BY <1>1
  <2> DEFINE Q == Seq(Pairs)
  <2>2. \A i \in 1..Len(seq) : f[seq[i]] \in Q
    BY <1>2, <2>1
  <2> HIDE DEF Q
  <2>3. seqs \in [1..Len(seq) -> Q]
    BY <2>1, <2>2
  <2>4. \A g \in [1..Len(seq) -> Q] : g \in Seq(Q)
    BY <2>1
  <2> QED BY <2>1, <2>3, <2>4 DEF Q
<1>4. \A i \in DOMAIN seq : seqs[i] = f[seq[i]]
  OBVIOUS
<1> HIDE DEF seqs
<1>5. /\ all \in Seq(Pairs)
      /\ \A x : x \in Range(all) <=> \E i \in DOMAIN seqs : x \in Range(seqs[i])
  BY <1>3, FlattenIs
<1> HIDE DEF all
<1>6. \A p : p \in Range(all) <=> \E x \in S : p \in Range(f[x])
  <2>1. \A x \in S : \E i \in DOMAIN seq : seq[i] = x
    BY <1>1 DEF Range
  <2> QED BY <1>2, <1>3, <1>4, <1>5, <2>1
<1>7. \A t : t \in Mix!Moments(all) <=> \E x \in S : t \in Mix!Moments(f[x])
  <2> TAKE t
  <2>1. t \in Mix!Moments(all) <=> t \in Nat /\ \E p \in Range(all) : Has(p, t)
    BY <1>5, RangeHasMoments DEF Has
  <2>2. \A x \in S : t \in Mix!Moments(f[x]) <=> t \in Nat /\ \E p \in Range(f[x]) : Has(p, t)
    BY RangeHasMoments DEF Has
  <2> QED BY <1>6, <2>1, <2>2
<1> QED BY <1>5, <1>6, <1>7 DEF all, seqs, seq

\* A connection has an interval at moment t.
Covers(c, t) == \E i \in DOMAIN intervals[c] : Has(intervals[c][i], t)

\* The intervals of the metadata end with the recording, and none is empty.
LEMMA AttendedIs ==
  ASSUME clock \in Nat, NEW c, intervals[c] \in Seq(Pairs)
  PROVE  /\ Mix!Attended(c) \in Seq(Pairs) /\ Proper(Mix!Attended(c))
         /\ \A t : t \in Mix!Moments(Mix!Attended(c)) <=> t \in Nat /\ t < clock /\ Covers(c, t)
<1> DEFINE is == intervals[c]
           seq == [i \in DOMAIN is |-> <<is[i][1], Mix!Shorter(is[i][2], clock)>>]
<1>1. \A i \in DOMAIN is : is[i] \in Nat \X Nat
  BY DEF Pairs
<1>2. \A i \in DOMAIN is : <<is[i][1], Mix!Shorter(is[i][2], clock)>> \in Pairs
  BY <1>1 DEF Pairs, Mix!Shorter
<1>3. seq \in Seq(Pairs) /\ DOMAIN seq = DOMAIN is
  <2>1. is \in Seq(Pairs) /\ DOMAIN is = 1..Len(is) /\ Len(is) \in Nat
    OBVIOUS
  <2> HIDE DEF is
  <2> QED BY <1>2, <2>1
<1>4. \A i \in DOMAIN is, t \in Nat : Has(seq[i], t) <=> Has(is[i], t) /\ t < clock
  BY <1>1 DEF Has, Mix!Shorter
<1>5. Mix!Attended(c) = Mix!Lasting(seq)
  BY DEF Mix!Attended
<1> HIDE DEF seq
<1>6. /\ Mix!Attended(c) \in Seq(Pairs) /\ Proper(Mix!Attended(c))
      /\ Mix!Moments(Mix!Attended(c)) = Mix!Moments(seq)
  BY <1>3, <1>5, LastingMoments
<1>7. \A t : t \in Mix!Moments(seq) <=> t \in Nat /\ \E i \in DOMAIN seq : Has(seq[i], t)
  BY <1>3, InMoments DEF Has
<1> QED BY <1>3, <1>4, <1>6, <1>7 DEF Covers

\* The intervals of a user are those of the user's connections.
LEMMA OwnIs ==
  ASSUME IsFiniteSet(Connections), clock \in Nat, intervals \in [Connections -> Seq(Pairs)],
         NEW u
  PROVE  /\ Mix!Own(u) \in Seq(Pairs) /\ Proper(Mix!Own(u))
         /\ \A t : t \in Mix!Moments(Mix!Own(u)) <=>
              \E c \in Connections : UserOf[c] = u /\ t \in Mix!Moments(Mix!Attended(c))
<1> DEFINE S == Mix!Memberships(u)
           f == [c \in S |-> Mix!Attended(c)]
           seq == Mix!SetToSeq(S)
           all == Mix!FlattenSeq([i \in DOMAIN seq |-> f[seq[i]]])
<1>1. S \subseteq Connections /\ IsFiniteSet(S)
  <2>1. S \subseteq Connections
    BY DEF Mix!Memberships
  <2> HIDE DEF S
  <2> QED BY <2>1, FS_Subset
<1>2. \A c \in Connections : Mix!Attended(c) \in Seq(Pairs) /\ Proper(Mix!Attended(c))
  BY AttendedIs
<1>3. f \in [S -> Seq(Pairs)]
  BY <1>1, <1>2
<1>4. seq \in Seq(S) /\ Range(seq) = S
  <2> HIDE DEF S
  <2> QED BY <1>1, ElementsOf
<1>5. Mix!Own(u) = all
  <2>1. \A i \in DOMAIN seq : seq[i] \in S
    <3> HIDE DEF S, seq
    <3> QED BY <1>4
  <2>2. \A i \in DOMAIN seq : f[seq[i]] = Mix!Attended(seq[i])
    <3> HIDE DEF S, seq
    <3> QED BY <2>1
  <2>3. [i \in DOMAIN seq |-> f[seq[i]]] = [i \in DOMAIN seq |-> Mix!Attended(seq[i])]
    <3> HIDE DEF S, seq, f
    <3> QED BY <2>2
  <2>4. Mix!Own(u) = Mix!FlattenSeq([i \in DOMAIN seq |-> Mix!Attended(seq[i])])
    BY DEF Mix!Own, Mix!Gathered
  <2> HIDE DEF seq, f
  <2> QED BY <2>3, <2>4
<1>6. /\ all \in Seq(Pairs)
      /\ \A p \in Range(all) : \E x \in S : p \in Range(f[x])
      /\ \A t : t \in Mix!Moments(all) <=> \E x \in S : t \in Mix!Moments(f[x])
  <2> HIDE DEF S, f
  <2> QED BY <1>1, <1>3, GatheredIs
<1> HIDE DEF all
<1>7. \A x \in S : f[x] = Mix!Attended(x)
  OBVIOUS
<1>8. Proper(all)
  <2>1. \A p \in Range(all) : p[1] < p[2]
    BY <1>1, <1>2, <1>6, <1>7 DEF Proper, Range
  <2> QED BY <2>1 DEF Proper, Range
<1>9. ASSUME NEW c \in Connections, NEW t \in Mix!Moments(Mix!Attended(c))
      PROVE  intervals[c] # <<>>
  <2>1. Covers(c, t)
    BY <1>9, AttendedIs
  <2>2. PICK i \in DOMAIN intervals[c] : TRUE
    BY <2>1 DEF Covers
  <2>3. intervals[c] \in Seq(Pairs)
    OBVIOUS
  <2> QED BY <2>2, <2>3
<1>10. \A t : t \in Mix!Moments(all) <=>
              \E c \in Connections : UserOf[c] = u /\ t \in Mix!Moments(Mix!Attended(c))
  <2>1. \A c : c \in S <=> c \in Connections /\ UserOf[c] = u /\ intervals[c] # <<>>
    BY DEF Mix!Memberships
  <2> HIDE DEF S, f
  <2> QED BY <1>6, <1>7, <1>9, <2>1
<1> QED BY <1>5, <1>6, <1>8, <1>10

Reaches(until, span) == IF span[1] > until THEN until ELSE Mix!Longer(until, span[2])

\* What CoversAll computes.
LEMMA CoversRuns ==
  ASSUME NEW spans \in Seq(Pairs)
  PROVE  \E until \in [0..Len(spans) -> Nat] :
           /\ Mix!CoversAll(spans) <=> until[Len(spans)] >= clock
           /\ until[0] = 0
           /\ \A n \in 1..Len(spans) : until[n] = Reaches(until[n - 1], spans[n])
<1> DEFINE N == Len(spans)
           S == Nat
           b == 0
           G(n, v) == Reaches(v, spans[n])
           F == [p \in (1..N) \X S |-> G(p[1], p[2])]
           Is(k) == k = [n \in 0..N |-> IF n = 0 THEN b ELSE G(n, k[n - 1])]
           f == CHOOSE k : Is(k)
<1>1. \A n \in 1..N, v \in S : G(n, v) \in S
  <2>1. \A n \in 1..N : spans[n] \in Nat \X Nat
    BY DEF Pairs
  <2> QED BY <2>1 DEF Reaches, Mix!Longer
<1>2. Mix!CoversAll(spans) <=> f[N] >= clock
  BY DEF Mix!CoversAll, Reaches
<1>3. N \in Nat /\ b \in S
  OBVIOUS
<1> HIDE DEF G, S, N, b
<1>4. PICK w : Goes(w, N, S, b, F)
  <2>1. F \in [(1..N) \X S -> S]
    BY <1>1
  <2> HIDE DEF F
  <2>2. N \in Nat
    BY <1>3
  <2>3. b \in S
    BY <1>3
  <2> QED BY <2>1, <2>2, <2>3, Recursion
<1>5. Is(f)
  <2>1. \A n \in 1..N : n - 1 \in 0..N /\ w[n - 1] \in S
    BY <1>3, <1>4 DEF Goes
  <2>2. w \in [0..N -> S] /\ w[0] = b
    BY <1>4 DEF Goes
  <2>3. \A n \in 1..N : w[n] = F[<<n, w[n - 1]>>]
    BY <1>4 DEF Goes
  <2>4. \A n \in 1..N : w[n] = G(n, w[n - 1])
    BY <2>1, <2>3
  <2>5. Is(w)
    BY <1>3, <2>2, <2>4
  <2> HIDE DEF Is
  <2> QED BY <2>5
<1>6. f = [n \in 0..N |-> f[n]] /\ f[0] = b /\ \A n \in 1..N : f[n] = G(n, f[n - 1])
  <2>1. f = [n \in 0..N |-> IF n = 0 THEN b ELSE G(n, f[n - 1])]
    BY <1>5
  <2> HIDE DEF f
  <2>2. 0 \in 0..N /\ \A n \in 1..N : n \in 0..N /\ n # 0
    BY <1>3
  <2> QED BY <2>1, <2>2
<1> HIDE DEF f, Is
<1>7. f \in [0..N -> S]
  <2>1. f[0] \in S
    BY <1>3, <1>6
  <2>2. \A n \in 1..N : f[n - 1] \in S => f[n] \in S
    BY <1>1, <1>6
  <2> HIDE DEF F
  <2>3. f \in [0..N -> {f[n] : n \in 0..N}]
    BY <1>6
  <2>4. N \in Nat
    BY <1>3
  <2> QED BY <2>1, <2>2, <2>3, <2>4, TypedRun
<1> QED BY <1>2, <1>6, <1>7 DEF N, S, G, b

\* Who is passed the whole file on is offered every moment of it.
LEMMA CoversIs ==
  ASSUME NEW spans \in Seq(Pairs), clock \in Nat, Mix!CoversAll(spans)
  PROVE  \A t \in Nat : t < clock => t \in Mix!Moments(spans)
<1>1. PICK until \in [0..Len(spans) -> Nat] :
           /\ Mix!CoversAll(spans) <=> until[Len(spans)] >= clock
           /\ until[0] = 0
           /\ \A n \in 1..Len(spans) : until[n] = Reaches(until[n - 1], spans[n])
  BY CoversRuns
<1> DEFINE N == Len(spans)
           P == {n \in 0..N : \A t \in Nat : t < until[n] => t \in Mix!Moments(spans)}
<1>2. N \in Nat /\ \A n \in 1..N : n \in DOMAIN spans /\ spans[n] \in Nat \X Nat
  BY DEF Pairs
<1>3. 0 \in P
  BY <1>1, <1>2
<1>4. ASSUME NEW n \in 1..N, n - 1 \in P PROVE n \in P
  <2>1. /\ n - 1 \in 0..N /\ n \in 0..N /\ until[n - 1] \in Nat
        /\ until[n] = Reaches(until[n - 1], spans[n])
    BY <1>1, <1>2
  <2>2. ASSUME NEW t \in Nat, t < until[n] PROVE t \in Mix!Moments(spans)
    <3>1. CASE t < until[n - 1]
      BY <1>4, <3>1
    <3>2. CASE ~(t < until[n - 1])
      <4>1. spans[n][1] <= t /\ t < spans[n][2]
        BY <1>2, <2>1, <2>2, <3>2 DEF Reaches, Mix!Longer
      <4> QED BY <1>2, <4>1, InMoments
    <3> QED BY <3>1, <3>2
  <2> QED BY <2>1, <2>2
<1>5. N \in P
  <2> HIDE DEF P, N
  <2>1. \A n \in 1..N : n - 1 \in P => n \in P
    BY <1>4
  <2>2. N \in Nat
    BY <1>2
  <2>3. \A n \in 0..N : n \in P
    BY <1>3, <2>1, <2>2, UpTo
  <2> QED BY <2>2, <2>3
<1>6. until[N] \in Nat /\ until[N] >= clock
  BY <1>1, <1>2
<1> HIDE DEF N
<1> QED BY <1>5, <1>6

\* Clip leaves the moments of the recording.
LEMMA ClipIs ==
  ASSUME NEW spans \in Seq(Pairs), clock \in Nat
  PROVE  \A t : t \in Mix!Moments(Mix!Clip(spans)) <=> t \in Mix!Moments(spans) /\ t < clock
<1> DEFINE seq == [i \in DOMAIN spans |-> <<Mix!Shorter(spans[i][1], clock),
                                            Mix!Shorter(spans[i][2], clock)>>]
<1>1. \A i \in DOMAIN spans : spans[i] \in Nat \X Nat
  BY DEF Pairs
<1>2. \A i \in DOMAIN spans : <<Mix!Shorter(spans[i][1], clock),
                                Mix!Shorter(spans[i][2], clock)>> \in Pairs
  BY <1>1 DEF Pairs, Mix!Shorter
<1>3. seq \in Seq(Pairs) /\ DOMAIN seq = DOMAIN spans
  BY <1>2
<1>4. \A i \in DOMAIN spans, t \in Nat : Has(seq[i], t) <=> Has(spans[i], t) /\ t < clock
  BY <1>1 DEF Has, Mix!Shorter
<1>5. Mix!Clip(spans) = Mix!Lasting(seq)
  BY DEF Mix!Clip
<1> HIDE DEF seq
<1>6. Mix!Moments(Mix!Clip(spans)) = Mix!Moments(seq)
  BY <1>3, <1>5, LastingMoments
<1>7. \A t : t \in Mix!Moments(seq) <=> t \in Nat /\ \E i \in DOMAIN seq : Has(seq[i], t)
  BY <1>3, InMoments DEF Has
<1>8. \A t : t \in Mix!Moments(spans) <=> t \in Nat /\ \E i \in DOMAIN spans : Has(spans[i], t)
  BY InMoments DEF Has
<1> QED BY <1>3, <1>4, <1>6, <1>7, <1>8

\* What a recording's files have to be for a download
Readable ==
  /\ IsFiniteSet(Connections) /\ clock \in Nat
  /\ intervals \in [Connections -> Seq(Pairs)]
  /\ timeline \in Seq(Events) /\ InOrder(timeline)
  /\ \A i \in DOMAIN timeline : timeline[i].at <= clock

\* Moments that the route r takes from the user of its receiver
Taken(r, t) ==
  /\ t \in Nat /\ t < clock /\ SaysBlocked(timeline, Len(timeline), r, t)
  /\ Covers(r[2], t)

\* A route takes the moments at which it is blocked and its receiver was there.
LEMMA RouteCutIs ==
  ASSUME Readable, NEW r \in Mix!Routes
  PROVE  /\ Mix!RouteCut(r) \in Seq(Pairs)
         /\ \A t : t \in Mix!Moments(Mix!RouteCut(r)) <=> Taken(r, t)
<1>1. r[2] \in Connections
  BY DEF Mix!Routes
<1>2. /\ Mix!Attended(r[2]) \in Seq(Pairs)
      /\ \A t : t \in Mix!Moments(Mix!Attended(r[2])) <=>
                  t \in Nat /\ t < clock /\ Covers(r[2], t)
  BY <1>1, AttendedIs DEF Readable
<1>3. /\ Mix!Merge(Mix!Attended(r[2])) \in Seq(Pairs)
      /\ Mix!Moments(Mix!Merge(Mix!Attended(r[2]))) = Mix!Moments(Mix!Attended(r[2]))
  BY <1>2, MergeIs
<1>4. /\ Mix!EffectiveBlocked(r) \in Seq(Pairs)
      /\ \A t : t \in Mix!Moments(Mix!EffectiveBlocked(r)) <=>
                  t \in Nat /\ t < clock /\ SaysBlocked(timeline, Len(timeline), r, t)
  BY EffectiveIs DEF Readable
<1>5. /\ Mix!RouteCut(r) \in Seq(Pairs)
      /\ Mix!Moments(Mix!RouteCut(r)) =
           Mix!Moments(Mix!EffectiveBlocked(r)) \cap Mix!Moments(Mix!Merge(Mix!Attended(r[2])))
  BY <1>3, <1>4, IntersectIs DEF Mix!RouteCut
<1> QED BY <1>2, <1>3, <1>4, <1>5 DEF Taken

\* What is cut from a user's download is what the routes to the user take from it.
LEMMA CutIs ==
  ASSUME Readable, NEW u
  PROVE  /\ Mix!Cut(u) \in Seq(Pairs)
         /\ \A t : t \in Mix!Moments(Mix!Cut(u)) <=>
              \E i \in DOMAIN timeline :
                LET r == timeline[i].route
                IN UserOf[r[1]] # u /\ UserOf[r[2]] = u /\ Taken(r, t)
<1> DEFINE A == {timeline[i].route : i \in DOMAIN timeline}
           S == {r \in A : UserOf[r[1]] # u /\ UserOf[r[2]] = u}
           f == [r \in S |-> Mix!RouteCut(r)]
           seq == Mix!SetToSeq(S)
           all == Mix!FlattenSeq([i \in DOMAIN seq |-> f[seq[i]]])
<1>1. S \subseteq Mix!Routes /\ IsFiniteSet(S)
  <2>1. Len(timeline) \in Nat /\ DOMAIN timeline = 1..Len(timeline)
    BY DEF Readable
  <2>2. IsFiniteSet(DOMAIN timeline)
    BY <2>1, FS_Interval
  <2>3. IsFiniteSet(A)
    <3> DEFINE D == DOMAIN timeline
               g == [i \in D |-> timeline[i].route]
    <3>1. g \in Surjection(D, A)
      BY DEF Surjection
    <3> HIDE DEF g, D, A
    <3>2. IsFiniteSet(D)
      BY <2>2 DEF D
    <3> QED BY <3>1, <3>2, FS_Surjection
  <2>4. IsFiniteSet(S)
    <3>1. S \subseteq A
      OBVIOUS
    <3> HIDE DEF S, A
    <3> QED BY <2>3, <3>1, FS_Subset
  <2>5. \A i \in DOMAIN timeline : timeline[i].route \in Mix!Routes
    <3>1. \A e \in Events : e.route \in Mix!Routes
      BY DEF Events
    <3>2. \A i \in DOMAIN timeline : timeline[i] \in Events
      BY DEF Readable
    <3> QED BY <3>1, <3>2
  <2>6. S \subseteq Mix!Routes
    BY <2>5
  <2> QED BY <2>4, <2>6
<1>2. \A r \in S : Mix!RouteCut(r) \in Seq(Pairs)
  BY <1>1, RouteCutIs
<1>3. f \in [S -> Seq(Pairs)]
  BY <1>2
<1>4. seq \in Seq(S) /\ Range(seq) = S
  <2> HIDE DEF S
  <2> QED BY <1>1, ElementsOf
<1>5. Mix!Cut(u) = Mix!Merge(all)
  <2>1. \A i \in DOMAIN seq : seq[i] \in S
    <3> HIDE DEF S, seq
    <3> QED BY <1>4
  <2>2. \A i \in DOMAIN seq : f[seq[i]] = Mix!RouteCut(seq[i])
    <3> HIDE DEF S, seq
    <3> QED BY <2>1
  <2>3. [i \in DOMAIN seq |-> f[seq[i]]] = [i \in DOMAIN seq |-> Mix!RouteCut(seq[i])]
    <3> HIDE DEF S, seq, f
    <3> QED BY <2>2
  <2>4. Mix!Cut(u) = Mix!Merge(Mix!FlattenSeq([i \in DOMAIN seq |-> Mix!RouteCut(seq[i])]))
    BY DEF Mix!Cut, Mix!Gathered
  <2> HIDE DEF seq, f
  <2> QED BY <2>3, <2>4
<1>6. all \in Seq(Pairs) /\ \A t : t \in Mix!Moments(all) <=>
        \E x \in S : t \in Mix!Moments(f[x])
  <2> HIDE DEF S, f
  <2> QED BY <1>1, <1>3, GatheredIs
<1> HIDE DEF all
<1>7. Mix!Cut(u) \in Seq(Pairs) /\ Mix!Moments(Mix!Cut(u)) = Mix!Moments(all)
  BY <1>5, <1>6, MergeIs
<1>8. \A x \in S : \A t : t \in Mix!Moments(f[x]) <=> Taken(x, t)
  <2>1. \A x \in S : f[x] = Mix!RouteCut(x)
    OBVIOUS
  <2> HIDE DEF S, f
  <2> QED BY <1>1, <2>1, RouteCutIs
<1>9. \A t : t \in Mix!Moments(Mix!Cut(u)) <=> \E x \in S : Taken(x, t)
  <2> HIDE DEF S, f
  <2> QED BY <1>6, <1>7, <1>8
<1>10. \A t : (\E x \in S : Taken(x, t)) <=>
              \E i \in DOMAIN timeline :
                LET r == timeline[i].route
                IN UserOf[r[1]] # u /\ UserOf[r[2]] = u /\ Taken(r, t)
  <2>1. \A x : x \in S <=> \E i \in DOMAIN timeline :
                              x = timeline[i].route /\ UserOf[x[1]] # u /\ UserOf[x[2]] = u
    OBVIOUS
  <2> HIDE DEF S
  <2> QED BY <2>1
<1> QED BY <1>7, <1>9, <1>10

\* The intervals that a user is offered are those of its connections, or the whole
\* recording.
LEMMA AuthorizedIs ==
  ASSUME NEW own \in Seq(Pairs), Proper(own), clock \in Nat
  PROVE  /\ Mix!Authorized(own) \in Seq(Pairs)
         /\ own # <<>> => Mix!Moments(Mix!Authorized(own)) = Mix!Moments(own)
         /\ own = <<>> => \A t \in Mix!Moments(Mix!Authorized(own)) : t < clock
<1>1. CASE own # <<>>
  <2>1. Mix!Authorized(own) = Mix!Sorted(own)
    BY <1>1 DEF Mix!Authorized
  <2>2. Mix!Sorted(own) \in Seq(Pairs) /\ Range(Mix!Sorted(own)) = Range(own)
    BY SortedIs
  <2> QED BY <1>1, <2>1, <2>2, SameRangeSameMoments
<1>2. CASE own = <<>>
  <2> DEFINE whole == <<<<0, clock>>>>
  <2>1. whole \in Seq(Pairs)
    <3>1. <<0, clock>> \in Pairs
      BY DEF Pairs
    <3> QED BY <3>1
  <2>2. Mix!Authorized(own) = Mix!Lasting(whole)
    BY <1>2 DEF Mix!Authorized
  <2>3. DOMAIN whole = 1..1 /\ whole[1] = <<0, clock>> /\ \A i \in 1..1 : i = 1
    OBVIOUS
  <2> HIDE DEF whole
  <2>4. Mix!Lasting(whole) \in Seq(Pairs)
        /\ Mix!Moments(Mix!Lasting(whole)) = Mix!Moments(whole)
    BY <2>1, LastingMoments
  <2>5. \A t \in Mix!Moments(whole) : t < clock
    BY <2>1, <2>3, InMoments
  <2> QED BY <1>2, <2>2, <2>4, <2>5
<1> QED BY <1>1, <1>2

\* A user who was in the recording finds what was offered without what is cut.
LEMMA DownloadIs ==
  ASSUME Readable, NEW u, NEW spans \in Seq(Pairs), \A t \in Mix!Moments(spans) : t < clock
  PROVE  Mix!Download(u, spans) =
           IF Mix!Memberships(u) = {} THEN {} ELSE Mix!Moments(spans) \ Mix!Moments(Mix!Cut(u))
<1>1. Mix!Cut(u) \in Seq(Pairs) /\ clock \in Nat
  BY CutIs DEF Readable
<1>2. CASE Mix!Memberships(u) = {}
  BY <1>2 DEF Mix!Download
<1>3. CASE Mix!Memberships(u) # {} /\ Mix!Cut(u) # <<>>
  <2>1. Mix!Download(u, spans) = Mix!Moments(Mix!Subtract(spans, Mix!Cut(u)))
    BY <1>3 DEF Mix!Download, Mix!PersonalizedRecording, Mix!MixFile
  <2> QED BY <1>1, <1>3, <2>1, SubtractIs
<1>4. CASE Mix!Memberships(u) # {} /\ Mix!Cut(u) = <<>>
  <2>1. Mix!Moments(Mix!Cut(u)) = {}
    <3>1. <<>> \in Seq(Pairs) /\ Proper(<<>>)
      BY DEF Proper
    <3> QED BY <1>4, <3>1, NoMoments
  <2>2. CASE Mix!CoversAll(spans)
    <3> DEFINE whole == <<<<0, clock>>>>
    <3>1. Mix!Download(u, spans) = Mix!Moments(whole)
      BY <1>4, <2>2 DEF Mix!Download
    <3>2. whole \in Seq(Pairs)
      <4>1. <<0, clock>> \in Pairs
        BY <1>1 DEF Pairs
      <4> QED BY <4>1
    <3>3. DOMAIN whole = 1..1 /\ whole[1] = <<0, clock>> /\ \A i : i \in 1..1 <=> i = 1
      OBVIOUS
    <3> HIDE DEF whole
    <3>4. \A t : t \in Mix!Moments(whole) <=> t \in Nat /\ t < clock
      BY <3>2, <3>3, InMoments
    <3>5. \A t \in Mix!Moments(spans) : t \in Nat
      BY InMoments
    <3>6. Mix!Moments(whole) = Mix!Moments(spans)
      BY <1>1, <2>2, <3>4, <3>5, CoversIs
    <3> QED BY <1>4, <2>1, <3>1, <3>6
  <2>3. CASE ~Mix!CoversAll(spans)
    <3>1. Mix!Download(u, spans) = Mix!Moments(Mix!Clip(spans))
      BY <1>4, <2>3 DEF Mix!Download, Mix!AuthorizedClip, Mix!ClipFile
    <3>2. Mix!Moments(Mix!Clip(spans)) = Mix!Moments(spans)
      BY <1>1, ClipIs
    <3> QED BY <1>4, <2>1, <3>1, <3>2
  <2> QED BY <2>2, <2>3
<1> QED BY <1>2, <1>3, <1>4

-----------------------------------------------------------------------------
(* The invariant *)

Said(source, r, t) == Says(timeline, Len(timeline), source, r, t)

\* A cleanup follows a change, and the end.
CleanupsInv == phase # "ended" => cleanups <= changes

\* The times of the recording and of its timeline
TimeInv ==
  /\ Len(history) = clock /\ registered <= clock
  /\ phase \in {"none", "starting"} => timeline = <<>> /\ registered = 0
  /\ phase = "none" => clock = 0
  /\ InOrder(timeline)
  /\ \A i \in DOMAIN timeline : timeline[i].at <= clock

\* Until the recording ends, the intervals of a connection are the moments at which the
\* recorder held it for a member, and the last one is open while it does.
IntervalsInv ==
  /\ phase = "none" => gone = {}
  /\ phase \in {"starting", "recording"} =>
       \A c \in Connections :
         /\ \A t \in 0..(clock - 1) :
              Covers(c, t) <=> c \in history[t + 1].members \cup history[t + 1].gone
         /\ \A i \in DOMAIN intervals[c] :
              /\ intervals[c][i][1] <= clock
              /\ i # Len(intervals[c]) \/ c \notin members \cup gone => intervals[c][i][2] <= clock
         /\ c \in members \cup gone =>
              intervals[c] # <<>> /\ intervals[c][Len(intervals[c])][2] = Mix!Open

\* Until it is registered, what the timeline would be told is what is held, but for what it
\* was not told.
NotedInv ==
  phase \in {"none", "starting"} =>
    \A s \in Mix!Sources, x \in Mix!Routes :
      <<s, x>> \notin untold => (<<s, x>> \in noted <=> <<s, x>> \in Mix!Held)

\* Then so is what the timeline says now,
NowInv ==
  phase = "recording" =>
    \A s \in Mix!Sources, x \in Mix!Routes :
      <<s, x>> \notin untold => (Said(s, x, clock) <=> <<s, x>> \in Mix!Held)

\* and what it says of the moments before.
PastInv ==
  phase = "recording" =>
    \A i \in Mix!Known : \A s \in Mix!Sources, x \in Mix!Routes :
      <<s, x>> \notin history[i].untold =>
        (Said(s, x, i - 1) <=> <<s, x>> \in history[i].held)

MixInv ==
  /\ Mix!TypeOK /\ CleanupsInv /\ TimeInv /\ IntervalsInv
  /\ NotedInv /\ NowInv /\ PastInv

-----------------------------------------------------------------------------
(* What is written to the timeline *)

\* The last event decides about its source and route.
LEMMA SaysAppended ==
  ASSUME NEW p \in Seq(Events), NEW e \in Events, NEW source, NEW r, NEW t \in Nat
  PROVE  Says(Append(p, e), Len(Append(p, e)), source, r, t) <=>
           IF e.at <= t /\ IsFor(e, source, r) THEN e.blocked
           ELSE Says(p, Len(p), source, r, t)
<1> DEFINE q == Append(p, e)
           n == Len(q)
<1>1. /\ n = Len(p) + 1 /\ n \in Nat /\ n > 0 /\ n - 1 = Len(p) /\ q[n] = e
      /\ \A i \in 1..(n - 1) : q[i] = p[i]
  OBVIOUS
<1>2. e.at \in Nat
  BY DEF Events
<1> HIDE DEF q, n
<1>3. Says(q, n, source, r, t) <=>
        IF q[n].at <= t /\ IsFor(q[n], source, r) THEN q[n].blocked
        ELSE Says(q, n - 1, source, r, t)
  BY <1>1, <1>2, SaysMore
<1>4. Says(q, n - 1, source, r, t) <=> Says(p, n - 1, source, r, t)
  <2>1. n - 1 \in Nat
    BY <1>1
  <2> QED BY <1>1, <2>1, SaysSame
<1> QED BY <1>1, <1>3, <1>4 DEF q, n

\* After its last event, the timeline says the same at all moments.
LEMMA SaysLater ==
  ASSUME NEW p \in Seq(Events), NEW t, NEW u,
         \A i \in DOMAIN p : p[i].at <= t /\ p[i].at <= u,
         NEW source, NEW r
  PROVE  Says(p, Len(p), source, r, t) <=> Says(p, Len(p), source, r, u)
<1>1. DOMAIN p = 1..Len(p)
  OBVIOUS
<1> QED BY <1>1 DEF Says

\* There are finitely many connections.
LEMMA FiniteConnections ==
  ASSUME Mix!DirectionalAssumption
  PROVE  IsFiniteSet(Connections)
BY SameFiniteness DEF Mix!DirectionalAssumption

\* The types that are needed most
LEMMA TypeFacts ==
  ASSUME Mix!DirectionalAssumption, Mix!TypeOK
  PROVE  /\ timeline \in Seq(Events) /\ clock \in Nat /\ registered \in Nat /\ MaxTime \in Nat
         /\ intervals \in [Connections -> Seq(Pairs)]
         /\ \A r \in Mix!Routes : r[1] \in Connections /\ r[2] \in Connections
         /\ Controlled \subseteq Mix!Routes
<1>1. MaxTime \in Nat
  BY DEF Mix!DirectionalAssumption
<1>2. clock \in Nat /\ registered \in Nat
  BY <1>1 DEF Mix!TypeOK
<1>3. timeline \in Seq(Events)
  <2>1. [source : Mix!Sources, route : Mix!Routes, blocked : BOOLEAN, at : 0..MaxTime] \subseteq
          Events
    BY <1>1 DEF Events
  <2>2. timeline \in
          Seq([source : Mix!Sources, route : Mix!Routes, blocked : BOOLEAN, at : 0..MaxTime])
    BY DEF Mix!TypeOK
  <2> DEFINE T == [source : Mix!Sources, route : Mix!Routes, blocked : BOOLEAN, at : 0..MaxTime]
  <2>3. T \subseteq Events /\ timeline \in Seq(T)
    BY <2>1, <2>2
  <2> HIDE DEF T
  <2> QED BY <2>3
<1>4. intervals \in [Connections -> Seq(Pairs)]
  <2>1. Mix!Spans \subseteq Pairs
    BY <1>1 DEF Mix!Spans, Pairs, Mix!Open
  <2>2. intervals \in [Connections -> Seq(Mix!Spans)]
    BY DEF Mix!TypeOK
  <2>3. \A c \in Connections : intervals[c] \in Seq(Pairs)
    BY <2>1, <2>2
  <2> QED BY <2>2, <2>3
<1>5. \A r \in Mix!Routes : r[1] \in Connections /\ r[2] \in Connections
  BY DEF Mix!Routes
<1>6. Controlled \subseteq Mix!Routes
  BY DEF Mix!DirectionalAssumption, Mix!Routes
<1> QED BY <1>1, <1>2, <1>3, <1>4, <1>5, <1>6

EventTypes == [source : Mix!Sources, route : Mix!Routes, blocked : BOOLEAN, at : 0..MaxTime]

\* A control is known, and written if the recording runs and both are in the session.
LEMMA RecordIs ==
  ASSUME Mix!DirectionalAssumption, Mix!TypeOK, TimeInv, NEW source \in Mix!Sources,
         NEW r \in Mix!Routes, NEW blocked \in BOOLEAN,
         Mix!Record(source, r, blocked), clock' = clock
  PROVE  /\ timeline' \in Seq(EventTypes)
         /\ InOrder(timeline)' /\ \A i \in DOMAIN timeline' : timeline'[i].at <= clock
         /\ \A s, x : Said(s, x, clock)' <=>
              IF phase = "recording" /\ Mix!Between(r, Mix!Recorded) /\ s = source /\ x = r
              THEN blocked
              ELSE Said(s, x, clock)
         /\ \A s, x, t : t \in 0..(clock - 1) => (Said(s, x, t)' <=> Said(s, x, t))
<1> DEFINE e == Mix!Event(source, r, blocked, clock)
<1>1. /\ timeline \in Seq(Events) /\ timeline \in Seq(EventTypes) /\ clock \in Nat
      /\ InOrder(timeline) /\ \A i \in DOMAIN timeline : timeline[i].at <= clock
  BY TypeFacts DEF Mix!TypeOK, TimeInv, EventTypes
<1>2. /\ e \in Events /\ e \in EventTypes /\ e.at = clock /\ e.blocked = blocked
      /\ \A s, x : IsFor(e, s, x) <=> s = source /\ x = r
      /\ e.route = r
  BY <1>1 DEF Mix!Event, Events, EventTypes, IsFor, Mix!TypeOK
<1>3. CASE ~(phase = "recording" /\ Mix!Between(r, Mix!Recorded))
  <2>1. timeline' = timeline
    BY <1>3 DEF Mix!Record
  <2> QED BY <1>1, <1>3, <2>1 DEF Said, InOrder
<1>4. CASE phase = "recording" /\ Mix!Between(r, Mix!Recorded)
  <2>1. timeline' = Append(timeline, e)
    BY <1>4 DEF Mix!Record, Mix!Write
  <2> HIDE DEF e
  <2> DEFINE L == Len(timeline)
  <2>2. /\ L \in Nat /\ DOMAIN timeline = 1..L /\ DOMAIN timeline' = 1..(L + 1)
        /\ timeline'[L + 1] = e /\ \A i \in 1..L : timeline'[i] = timeline[i]
        /\ timeline' \in Seq(EventTypes)
    BY <1>1, <1>2, <2>1
  <2>3. \A i : i \in 1..(L + 1) <=> i = L + 1 \/ i \in 1..L
    BY <2>2
  <2> HIDE DEF L
  <2>4. \A i \in DOMAIN timeline' : timeline'[i].at <= clock
    BY <1>1, <1>2, <2>2, <2>3
  <2>5. ASSUME NEW i \in DOMAIN timeline', NEW j \in DOMAIN timeline', i <= j
        PROVE  timeline'[i].at <= timeline'[j].at
    <3>1. CASE j = L + 1
      BY <1>2, <2>2, <2>4, <3>1
    <3>2. CASE j \in 1..L
      <4>1. i \in 1..L
        BY <2>2, <2>3, <2>5, <3>2
      <4> QED BY <1>1, <2>2, <2>5, <3>2, <4>1 DEF InOrder
    <3> QED BY <2>2, <2>3, <3>1, <3>2
  <2>6. InOrder(timeline)'
    BY <2>5 DEF InOrder
  <2>7. \A s, x, t : t \in Nat =>
          (Says(timeline', Len(timeline'), s, x, t) <=>
            IF e.at <= t /\ IsFor(e, s, x)
            THEN e.blocked ELSE Says(timeline, Len(timeline), s, x, t))
    BY <1>1, <1>2, <2>1, SaysAppended
  <2>8. \A s, x : Said(s, x, clock)' <=> IF s = source /\ x = r THEN blocked
                                         ELSE Said(s, x, clock)
    <3>1. clock <= clock
      BY <1>1
    <3> QED BY <1>1, <1>2, <2>7, <3>1 DEF Said
  <2>9. \A s, x, t : t \in 0..(clock - 1) => (Said(s, x, t)' <=> Said(s, x, t))
    <3>1. \A t \in 0..(clock - 1) : t \in Nat /\ ~(clock <= t)
      BY <1>1
    <3> QED BY <1>2, <2>7, <3>1 DEF Said
  <2> QED BY <1>4, <2>2, <2>4, <2>6, <2>8, <2>9
<1> QED BY <1>3, <1>4

\* When it is registered, the timeline has every block that is known of two who are in the
\* session, and nothing else.
LEMMA InitialIs ==
  ASSUME Mix!DirectionalAssumption, Mix!TypeOK
  PROVE  /\ Mix!InitialBlocked \in Seq(EventTypes)
         /\ \A i \in DOMAIN Mix!InitialBlocked : Mix!InitialBlocked[i].at = 0
         /\ \A s, x : \A t \in Nat :
              Says(Mix!InitialBlocked, Len(Mix!InitialBlocked), s, x, t) <=>
                <<s, x>> \in noted /\ Mix!Between(x, Mix!Recorded)
<1> DEFINE known == {n \in noted : Mix!Between(n[2], Mix!Recorded)}
           seq == Mix!SetToSeq(known)
           N == Cardinality(known)
           ev(i) == Mix!Event(seq[i][1], seq[i][2], TRUE, 0)
           E == [i \in 1..N |-> ev(i)]
<1>1. noted \subseteq Mix!Sources \X Mix!Routes /\ known \subseteq Mix!Sources \X Mix!Routes
  BY DEF Mix!TypeOK
<1>2. IsFiniteSet(known)
  <2>1. IsFiniteSet(Connections)
    BY FiniteConnections
  <2>2. IsFiniteSet(Connections \X Connections)
    BY <2>1, FS_Product
  <2>3. IsFiniteSet(Mix!Routes)
    <3>1. Mix!Routes \subseteq Connections \X Connections
      BY DEF Mix!Routes
    <3> QED BY <2>2, <3>1, FS_Subset
  <2>4. IsFiniteSet({"sender_mic"})
    BY FS_Singleton
  <2>5. IsFiniteSet({"receiver_speaker"})
    BY FS_Singleton
  <2>6. IsFiniteSet(Mix!Sources)
    <3>1. Mix!Sources = {"sender_mic"} \cup {"receiver_speaker"}
      BY DEF Mix!Sources
    <3> QED BY <2>4, <2>5, <3>1, FS_Union
  <2>7. IsFiniteSet(Mix!Sources \X Mix!Routes)
    BY <2>3, <2>6, FS_Product
  <2> HIDE DEF known
  <2> QED BY <1>1, <2>7, FS_Subset
<1>3. Mix!InitialBlocked = E
  BY SameCardinality DEF Mix!InitialBlocked
<1>4. /\ seq \in Seq(known) /\ Range(seq) = known /\ DOMAIN seq = 1..N /\ N \in Nat
      /\ \A a, b \in DOMAIN seq : seq[a] = seq[b] => a = b
  <2> HIDE DEF known
  <2> QED BY <1>2, ElementsOf
<1>5. \A n : n \in known <=> n \in noted /\ Mix!Between(n[2], Mix!Recorded)
  OBVIOUS
<1> HIDE DEF known, seq, N
<1>6. \A i \in 1..N : seq[i] \in known /\ seq[i] \in Mix!Sources \X Mix!Routes
  BY <1>1, <1>4
<1>7. \A i \in 1..N : /\ ev(i) \in EventTypes /\ ev(i).at = 0 /\ ev(i).blocked = TRUE
                      /\ ev(i).route = seq[i][2] /\ ev(i).source = seq[i][1]
  <2>1. 0 \in 0..MaxTime
    BY DEF Mix!DirectionalAssumption
  <2> QED BY <1>6, <2>1 DEF Mix!Event, EventTypes
<1> HIDE DEF ev
<1>8. E \in Seq(EventTypes) /\ DOMAIN E = 1..N /\ Len(E) = N /\ \A i \in 1..N : E[i] = ev(i)
  BY <1>4, <1>7
<1> HIDE DEF E
<1>9. \A i \in 1..N : \A s, x : IsFor(E[i], s, x) <=> seq[i] = <<s, x>>
  BY <1>6, <1>7, <1>8 DEF IsFor
<1>10. ASSUME NEW s, NEW x, NEW t \in Nat
       PROVE  Says(E, N, s, x, t) <=> <<s, x>> \in noted /\ Mix!Between(x, Mix!Recorded)
  <2>1. <<s, x>> \in known <=> \E k \in 1..N : seq[k] = <<s, x>>
    BY <1>4 DEF Range
  <2>2. \A k \in 1..N : E[k].at <= t /\ E[k].blocked
    BY <1>7, <1>8
  <2>3. \A k, m \in 1..N : m > k => ~(seq[k] = <<s, x>> /\ seq[m] = <<s, x>>)
    <3>1. \A k, m \in 1..N : m > k => m # k
      BY <1>4
    <3> QED BY <1>4, <3>1
  <2>4. Says(E, N, s, x, t) <=> \E k \in 1..N : seq[k] = <<s, x>>
    <3>1. ASSUME Says(E, N, s, x, t) PROVE \E k \in 1..N : seq[k] = <<s, x>>
      BY <1>9, <3>1 DEF Says
    <3>2. ASSUME NEW k \in 1..N, seq[k] = <<s, x>> PROVE Says(E, N, s, x, t)
      <4>1. IsFor(E[k], s, x) /\ E[k].at <= t /\ E[k].blocked
        BY <1>9, <2>2, <3>2
      <4>2. ASSUME NEW m \in 1..N, m > k PROVE ~IsFor(E[m], s, x)
        <5>1. ~(seq[k] = <<s, x>> /\ seq[m] = <<s, x>>)
          BY <2>3, <4>2
        <5>2. seq[k] = <<s, x>>
          BY <3>2
        <5>3. \A a, b : IsFor(E[m], a, b) <=> seq[m] = <<a, b>>
          BY <1>9
        <5>4. IsFor(E[m], s, x) <=> seq[m] = <<s, x>>
          BY <5>3
        <5> QED BY <5>1, <5>2, <5>4
      <4> QED BY <4>1, <4>2 DEF Says
    <3> QED BY <3>1, <3>2
  <2> QED BY <1>5, <2>1, <2>4
<1> QED BY <1>3, <1>7, <1>8, <1>10

\* What is held, by source and route
LEMMA HeldIs ==
  ASSUME NEW s, NEW x
  PROVE  <<s, x>> \in Mix!Held <=> \/ s = "sender_mic" /\ x \in policy
                                   \/ s = "receiver_speaker" /\ x \in muted
BY DEF Mix!Held, Mix!Mic, Mix!Speaker

\* The recorder's participants are the members, and those it was not told have gone.
LEMMA RecordedIs ==
  ASSUME Mix!DirectionalAssumption, Mix!TypeOK, IntervalsInv,
         phase \in {"starting", "recording"}
  PROVE  Mix!Recorded = members \cup gone
<1>1. /\ clock \in Nat /\ MaxTime \in Nat /\ clock <= MaxTime
      /\ intervals \in [Connections -> Seq(Pairs)]
      /\ members \subseteq Connections /\ gone \subseteq Connections
  <2>1. clock \in 0..MaxTime /\ members \subseteq Connections /\ gone \subseteq Connections
    BY DEF Mix!TypeOK
  <2> QED BY <2>1, TypeFacts
<1>2. ASSUME NEW c \in Connections
      PROVE  c \in Mix!Recorded <=> c \in members \cup gone
  <2> DEFINE is == intervals[c]
  <2>1. c \in Mix!Recorded <=> is # <<>> /\ is[Len(is)][2] = Mix!Open
    BY DEF Mix!Recorded, Mix!Last
  <2>2. /\ \A i \in DOMAIN is :
             i # Len(is) \/ c \notin members \cup gone => is[i][2] <= clock
        /\ c \in members \cup gone => is # <<>> /\ is[Len(is)][2] = Mix!Open
    BY DEF IntervalsInv
  <2>3. is \in Seq(Pairs)
    BY <1>1
  <2> HIDE DEF is
  <2>4. ASSUME is # <<>>, c \notin members \cup gone PROVE is[Len(is)][2] # Mix!Open
    <3>1. Len(is) \in DOMAIN is /\ is[Len(is)] \in Pairs
      BY <2>3, <2>4
    <3>2. is[Len(is)][2] <= clock /\ is[Len(is)][2] \in Nat
      BY <2>2, <2>4, <3>1 DEF Pairs
    <3> QED BY <1>1, <3>2 DEF Mix!Open
  <2> QED BY <2>1, <2>2, <2>4
<1>3. Mix!Recorded \subseteq Connections
  BY DEF Mix!Recorded
<1> QED BY <1>1, <1>2, <1>3

\* The past stays as it is where the timeline says the same of it.
LEMMA PastKept ==
  ASSUME PastInv, phase' = phase, history' = history, registered' = registered,
         Len(history) = clock, clock \in Nat, registered \in Nat,
         \A s, x : \A t \in 0..(clock - 1) : Said(s, x, t)' <=> Said(s, x, t)
  PROVE  PastInv'
<1> SUFFICES ASSUME phase' = "recording", NEW i \in Mix!Known',
                    NEW s \in Mix!Sources, NEW x \in Mix!Routes,
                    <<s, x>> \notin history'[i].untold
             PROVE  Said(s, x, i - 1)' <=> <<s, x>> \in history'[i].held
  BY DEF PastInv, Mix!Sources, Mix!Routes
<1>1. i \in Mix!Known
  BY DEF Mix!Known
<1>2. i - 1 \in 0..(clock - 1)
  BY <1>1 DEF Mix!Known
<1>3. Said(s, x, i - 1)' <=> Said(s, x, i - 1)
  BY <1>2
<1> QED BY <1>1, <1>3 DEF PastInv

-----------------------------------------------------------------------------
(* Every step keeps the invariant. *)

\* The intervals, where the recorder is told of nobody
LEMMA IntervalsKept ==
  ASSUME IntervalsInv, UNCHANGED <<phase, intervals, clock, history>>,
         phase = "none" => gone' = gone,
         phase # "none" => members' \cup gone' = members \cup gone
  PROVE  IntervalsInv'
BY DEF IntervalsInv, Covers, Mix!Open

\* A control of a route is told to the timeline, or it is one of the untold.
LEMMA ControlKeeps ==
  ASSUME Mix!DirectionalAssumption, MixInv, phase # "ended", NEW source \in Mix!Sources,
         NEW r \in Mix!Routes, NEW blocked \in BOOLEAN, Mix!Record(source, r, blocked),
         \A s \in Mix!Sources, x \in Mix!Routes :
           <<s, x>> \in Mix!Held' <=> IF s = source /\ x = r THEN blocked
                                      ELSE <<s, x>> \in Mix!Held,
         UNCHANGED <<clock, members, phase, intervals, registered, history, gone>>
  PROVE  /\ timeline' \in Seq(EventTypes)
         /\ noted' \subseteq Mix!Sources \X Mix!Routes
         /\ untold' \subseteq Mix!Sources \X Mix!Routes
         /\ TimeInv' /\ IntervalsInv' /\ NotedInv' /\ NowInv' /\ PastInv'
<1>1. /\ Mix!TypeOK /\ TimeInv /\ IntervalsInv /\ NotedInv /\ NowInv /\ PastInv
      /\ clock \in Nat /\ registered \in Nat
  BY TypeFacts DEF MixInv
<1> DEFINE told == phase = "recording" /\ Mix!Between(r, Mix!Recorded)
<1>2. /\ \A s, x : <<s, x>> \in noted' <=> IF s = source /\ x = r THEN blocked
                                           ELSE <<s, x>> \in noted
      /\ noted' \subseteq Mix!Sources \X Mix!Routes
  <2>1. noted' = IF blocked THEN noted \cup {<<source, r>>} ELSE noted \ {<<source, r>>}
    BY DEF Mix!Record, Mix!Note
  <2>2. \A s, x : <<s, x>> = <<source, r>> <=> s = source /\ x = r
    OBVIOUS
  <2> QED BY <1>1, <2>1, <2>2 DEF Mix!TypeOK
<1>3. untold' = IF phase = "recording" /\ ~Mix!Between(r, Mix!Recorded)
                THEN untold \cup {<<source, r>>} ELSE untold \ {<<source, r>>}
  BY DEF Mix!Record
<1>4. untold' \subseteq Mix!Sources \X Mix!Routes
  BY <1>1, <1>3 DEF Mix!TypeOK
<1>5. /\ timeline' \in Seq(EventTypes)
      /\ InOrder(timeline)' /\ \A i \in DOMAIN timeline' : timeline'[i].at <= clock
      /\ \A s, x : Said(s, x, clock)' <=>
           IF phase = "recording" /\ Mix!Between(r, Mix!Recorded) /\ s = source /\ x = r
           THEN blocked ELSE Said(s, x, clock)
      /\ \A s, x, t : t \in 0..(clock - 1) => (Said(s, x, t)' <=> Said(s, x, t))
  BY <1>1, RecordIs
<1>6. TimeInv'
  <2>1. phase \in {"none", "starting"} => timeline' = timeline
    BY DEF Mix!Record
  <2> QED BY <1>1, <1>5, <2>1 DEF TimeInv
<1>7. IntervalsInv'
  BY <1>1, IntervalsKept
<1>8. \A s, x : <<s, x>> \notin untold' /\ ~(s = source /\ x = r) => <<s, x>> \notin untold
  <2>1. \A s, x : ~(s = source /\ x = r) => <<s, x>> # <<source, r>>
    OBVIOUS
  <2> QED BY <1>3, <2>1
<1>9. NotedInv'
  <2> SUFFICES ASSUME phase \in {"none", "starting"}, NEW s \in Mix!Sources,
                      NEW x \in Mix!Routes, <<s, x>> \notin untold'
               PROVE  <<s, x>> \in noted' <=> <<s, x>> \in Mix!Held'
    BY DEF NotedInv, Mix!Sources, Mix!Routes
  <2> QED BY <1>1, <1>2, <1>8 DEF NotedInv
<1>10. NowInv'
  <2> SUFFICES ASSUME phase = "recording", NEW s \in Mix!Sources,
                      NEW x \in Mix!Routes, <<s, x>> \notin untold'
               PROVE  Said(s, x, clock)' <=> <<s, x>> \in Mix!Held'
    BY DEF NowInv, Said, Mix!Sources, Mix!Routes
  <2>1. CASE s = source /\ x = r
    <3>1. Mix!Between(r, Mix!Recorded)
      BY <1>3, <2>1
    <3> QED BY <1>5, <2>1, <3>1
  <2>2. CASE ~(s = source /\ x = r)
    BY <1>1, <1>5, <1>8, <2>2 DEF NowInv
  <2> QED BY <2>1, <2>2
<1>11. PastInv'
  <2>1. Len(history) = clock
    BY <1>1 DEF TimeInv
  <2> QED BY <1>1, <1>5, <2>1, PastKept
<1> QED BY <1>2, <1>4, <1>5, <1>6, <1>7, <1>9, <1>10, <1>11

\* A sender blocks or opens a route.
LEMMA SetBlockedKeeps ==
  ASSUME Mix!DirectionalAssumption, MixInv, phase # "ended", NEW r \in Mix!Routes,
         NEW blocked \in BOOLEAN, Mix!SetBlocked(r, blocked)
  PROVE  MixInv'
<1>1. Mix!TypeOK /\ CleanupsInv /\ "sender_mic" \in Mix!Sources
  BY DEF MixInv, Mix!Sources
<1>2. /\ Mix!Record("sender_mic", r, blocked) /\ Mix!Counted
      /\ policy' = IF blocked THEN policy \cup {r} ELSE policy \ {r}
      /\ UNCHANGED <<changes, clock, connected, members, cleanups, muted, phase, intervals,
                     downloads, registered, history, gone>>
  BY DEF Mix!SetBlocked
<1>3. \A s \in Mix!Sources, x \in Mix!Routes :
        <<s, x>> \in Mix!Held' <=> IF s = "sender_mic" /\ x = r THEN blocked
                                   ELSE <<s, x>> \in Mix!Held
  BY <1>2 DEF Mix!Held, Mix!Mic, Mix!Speaker
<1>4. /\ timeline' \in Seq(EventTypes)
      /\ noted' \subseteq Mix!Sources \X Mix!Routes
      /\ untold' \subseteq Mix!Sources \X Mix!Routes
      /\ TimeInv' /\ IntervalsInv' /\ NotedInv' /\ NowInv' /\ PastInv'
  BY <1>1, <1>2, <1>3, ControlKeeps
<1>5. Mix!TypeOK'
  <2>1. controls' \in 0..MaxControls
    BY <1>1, <1>2 DEF Mix!DirectionalAssumption, Mix!Counted, Mix!TypeOK
  <2>2. policy' \subseteq Mix!Routes
    BY <1>1, <1>2 DEF Mix!TypeOK
  <2> QED BY <1>1, <1>2, <1>4, <2>1, <2>2 DEF Mix!TypeOK, EventTypes
<1>6. CleanupsInv'
  BY <1>1, <1>2 DEF CleanupsInv
<1> QED BY <1>4, <1>5, <1>6 DEF MixInv

\* A receiver mutes or hears a sender.
LEMMA ApplyChangeKeeps ==
  ASSUME Mix!DirectionalAssumption, MixInv, phase # "ended", NEW r \in Mix!Routes,
         NEW blocked \in BOOLEAN, Mix!ApplyChange(r, blocked)
  PROVE  MixInv'
<1>1. Mix!TypeOK /\ CleanupsInv /\ "receiver_speaker" \in Mix!Sources
  BY DEF MixInv, Mix!Sources
<1>2. /\ Mix!Record("receiver_speaker", r, blocked) /\ Mix!Counted
      /\ muted' = IF blocked THEN muted \cup {r} ELSE muted \ {r}
      /\ UNCHANGED <<changes, clock, connected, members, cleanups, policy, phase, intervals,
                     downloads, registered, history, gone>>
  BY DEF Mix!ApplyChange
<1>3. \A s \in Mix!Sources, x \in Mix!Routes :
        <<s, x>> \in Mix!Held' <=> IF s = "receiver_speaker" /\ x = r THEN blocked
                                   ELSE <<s, x>> \in Mix!Held
  BY <1>2 DEF Mix!Held, Mix!Mic, Mix!Speaker
<1>4. /\ timeline' \in Seq(EventTypes)
      /\ noted' \subseteq Mix!Sources \X Mix!Routes
      /\ untold' \subseteq Mix!Sources \X Mix!Routes
      /\ TimeInv' /\ IntervalsInv' /\ NotedInv' /\ NowInv' /\ PastInv'
  BY <1>1, <1>2, <1>3, ControlKeeps
<1>5. Mix!TypeOK'
  <2>1. controls' \in 0..MaxControls
    BY <1>1, <1>2 DEF Mix!DirectionalAssumption, Mix!Counted, Mix!TypeOK
  <2>2. muted' \subseteq Mix!Routes
    BY <1>1, <1>2 DEF Mix!TypeOK
  <2> QED BY <1>1, <1>2, <1>4, <2>1, <2>2 DEF Mix!TypeOK, EventTypes
<1>6. CleanupsInv'
  BY <1>1, <1>2 DEF CleanupsInv
<1> QED BY <1>4, <1>5, <1>6 DEF MixInv

\* Policies and mutes that go without a word are untold.
LEMMA DroppedKeeps ==
  ASSUME Mix!DirectionalAssumption, MixInv, untold \subseteq untold',
         Mix!Held' \subseteq Mix!Held, Mix!Held \ Mix!Held' \subseteq untold',
         UNCHANGED <<clock, noted, phase, timeline, registered, history>>
  PROVE  TimeInv' /\ NotedInv' /\ NowInv' /\ PastInv'
<1>1. /\ Mix!TypeOK /\ TimeInv /\ NotedInv /\ NowInv /\ PastInv
      /\ clock \in Nat /\ registered \in Nat
  BY TypeFacts DEF MixInv
<1>2. TimeInv'
  BY <1>1 DEF TimeInv, InOrder
<1>3. \A n : n \notin untold' => n \notin untold /\ (n \in Mix!Held' <=> n \in Mix!Held)
  OBVIOUS
<1>4. NotedInv'
  <2> SUFFICES ASSUME phase \in {"none", "starting"}, NEW s \in Mix!Sources,
                      NEW x \in Mix!Routes, <<s, x>> \notin untold'
               PROVE  <<s, x>> \in noted <=> <<s, x>> \in Mix!Held'
    BY DEF NotedInv, Mix!Sources, Mix!Routes
  <2> QED BY <1>1, <1>3 DEF NotedInv
<1>5. NowInv'
  <2> SUFFICES ASSUME phase = "recording", NEW s \in Mix!Sources,
                      NEW x \in Mix!Routes, <<s, x>> \notin untold'
               PROVE  Said(s, x, clock) <=> <<s, x>> \in Mix!Held'
    BY DEF NowInv, Said, Mix!Sources, Mix!Routes
  <2> QED BY <1>1, <1>3 DEF NowInv
<1>6. PastInv'
  <2>1. Len(history) = clock
    BY <1>1 DEF TimeInv
  <2>2. \A s, x : \A t \in 0..(clock - 1) : Said(s, x, t)' <=> Said(s, x, t)
    BY DEF Said
  <2> QED BY <1>1, <2>1, <2>2, PastKept
<1> QED BY <1>2, <1>4, <1>5, <1>6

\* What goes with a connection is untold, and the recorder is not told of who goes.
LEMMA RemoveConnectionKeeps ==
  ASSUME Mix!DirectionalAssumption, MixInv, phase # "ended", NEW c \in Connections,
         Mix!RemoveConnection(c)
  PROVE  MixInv'
<1>1. Mix!TypeOK /\ CleanupsInv /\ IntervalsInv
  BY DEF MixInv
<1>2. /\ connected' = connected \ {c} /\ members' \subseteq members
      /\ policy' = policy \ Mix!RoutesOf(c) /\ muted' = muted \ Mix!RoutesOf(c)
      /\ untold' = untold \cup (Mix!Held \ Mix!Held')
      /\ gone' = IF phase = "none" THEN gone ELSE gone \cup (members \ members')
      /\ UNCHANGED <<changes, clock, cleanups, noted, phase, intervals, timeline,
                     downloads, registered, controls, history>>
  BY DEF Mix!RemoveConnection, Mix!recordingVars, Mix!Without
<1>3. /\ Mix!Held \subseteq Mix!Sources \X Mix!Routes /\ Mix!Held' \subseteq Mix!Held
      /\ policy' \subseteq Mix!Routes /\ muted' \subseteq Mix!Routes
  BY <1>1, <1>2 DEF Mix!TypeOK, Mix!Held, Mix!Mic, Mix!Speaker, Mix!Sources
<1>4. Mix!TypeOK'
  <2>1. untold' \subseteq Mix!Sources \X Mix!Routes
    BY <1>1, <1>2, <1>3 DEF Mix!TypeOK
  <2>2. members' \subseteq Connections /\ gone' \subseteq Connections
        /\ connected' \subseteq Connections
    BY <1>1, <1>2 DEF Mix!TypeOK
  <2> QED BY <1>1, <1>2, <1>3, <2>1, <2>2 DEF Mix!TypeOK
<1>5. CleanupsInv'
  BY <1>1, <1>2 DEF CleanupsInv
<1>6. TimeInv' /\ NotedInv' /\ NowInv' /\ PastInv'
  <2>1. untold \subseteq untold' /\ Mix!Held \ Mix!Held' \subseteq untold'
    BY <1>2
  <2> QED BY <1>2, <1>3, <2>1, DroppedKeeps
<1>7. IntervalsInv'
  <2>1. phase = "none" => gone' = gone
    BY <1>2
  <2>2. phase # "none" => members' \cup gone' = members \cup gone
    BY <1>2
  <2> QED BY <1>1, <1>2, <2>1, <2>2, IntervalsKept
<1> QED BY <1>4, <1>5, <1>6, <1>7 DEF MixInv

\* What a cleanup drops is untold.
LEMMA CleanupKeeps ==
  ASSUME Mix!DirectionalAssumption, MixInv, phase # "ended", Mix!CleanupInactivePolicies
  PROVE  MixInv'
<1>1. Mix!TypeOK /\ CleanupsInv /\ IntervalsInv
  BY DEF MixInv
<1>2. /\ cleanups > 0 /\ cleanups' = cleanups - 1
      /\ policy' = {r \in policy : Mix!Between(r, members)}
      /\ untold' = untold \cup Mix!Mic(policy \ policy')
      /\ UNCHANGED <<changes, clock, connected, members, muted, noted, phase, intervals,
                     timeline, downloads, registered, controls, history, gone>>
  BY DEF Mix!CleanupInactivePolicies, Mix!recordingVars
<1>3. /\ policy' \subseteq policy /\ policy' \subseteq Mix!Routes
      /\ Mix!Mic(policy \ policy') \subseteq Mix!Sources \X Mix!Routes
      /\ Mix!Held' \subseteq Mix!Held /\ Mix!Held \ Mix!Held' \subseteq Mix!Mic(policy \ policy')
  BY <1>1, <1>2 DEF Mix!TypeOK, Mix!Held, Mix!Mic, Mix!Speaker, Mix!Sources
<1>4. cleanups' \in 0..(MaxChanges + 1) /\ (cleanups <= changes => cleanups' <= changes)
  BY <1>1, <1>2 DEF Mix!DirectionalAssumption, Mix!TypeOK
<1>5. Mix!TypeOK'
  <2>1. untold' \subseteq Mix!Sources \X Mix!Routes
    BY <1>1, <1>2, <1>3 DEF Mix!TypeOK
  <2> QED BY <1>1, <1>2, <1>3, <1>4, <2>1 DEF Mix!TypeOK
<1>6. CleanupsInv'
  BY <1>1, <1>2, <1>4 DEF CleanupsInv
<1>7. TimeInv' /\ NotedInv' /\ NowInv' /\ PastInv'
  <2>1. untold \subseteq untold' /\ Mix!Held \ Mix!Held' \subseteq untold'
    BY <1>2, <1>3
  <2> QED BY <1>2, <1>3, <2>1, DroppedKeeps
<1>8. IntervalsInv'
  BY <1>1, <1>2, IntervalsKept
<1> QED BY <1>5, <1>6, <1>7, <1>8 DEF MixInv

\* Every member has an open interval from the beginning.
LEMMA StartRecordingKeeps ==
  ASSUME Mix!DirectionalAssumption, MixInv, Mix!StartRecording
  PROVE  MixInv'
<1>1. /\ Mix!TypeOK /\ CleanupsInv /\ TimeInv /\ NotedInv /\ IntervalsInv /\ MaxTime \in Nat
  BY TypeFacts DEF MixInv
<1>2. /\ phase = "none" /\ phase' = "starting"
      /\ intervals' =
           [c \in Connections |-> IF c \in members THEN <<<<0, Mix!Open>>>> ELSE <<>>]
      /\ UNCHANGED <<changes, clock, connected, members, cleanups, policy, muted, noted,
                     timeline, downloads, registered, controls, history, untold, gone>>
  BY DEF Mix!StartRecording, Mix!routeVars, Mix!ghostVars
<1>3. clock = 0 /\ gone = {}
  BY <1>1, <1>2 DEF TimeInv, IntervalsInv
<1> DEFINE one == <<<<0, Mix!Open>>>>
           none == <<>>
<1>4. /\ one \in Seq(Mix!Spans) /\ one # <<>> /\ Len(one) = 1 /\ DOMAIN one = 1..1
      /\ one[1] = <<0, Mix!Open>>
      /\ none \in Seq(Mix!Spans) /\ DOMAIN none = 1..0
  <2>1. <<0, Mix!Open>> \in Mix!Spans
    BY <1>1 DEF Mix!Spans, Mix!Open
  <2> QED BY <2>1
<1>5. \A c \in Connections : intervals'[c] = IF c \in members THEN one ELSE none
  BY <1>2
<1> HIDE DEF one, none
<1>6. intervals' \in [Connections -> Seq(Mix!Spans)]
  BY <1>2, <1>4, <1>5
<1>7. Mix!TypeOK'
  BY <1>1, <1>2, <1>6 DEF Mix!TypeOK
<1>8. CleanupsInv' /\ TimeInv' /\ NotedInv'
  <2>1. Mix!Held' = Mix!Held
    BY <1>2 DEF Mix!Held, Mix!Mic, Mix!Speaker
  <2> QED BY <1>1, <1>2, <2>1 DEF CleanupsInv, TimeInv, NotedInv, InOrder
<1>9. IntervalsInv'
  <2> SUFFICES ASSUME NEW c \in Connections
               PROVE  /\ \A t \in 0..(clock - 1) :
                           Covers(c, t)' <=> c \in history[t + 1].members \cup history[t + 1].gone
                      /\ \A i \in DOMAIN intervals'[c] :
                           /\ intervals'[c][i][1] <= clock
                           /\ i # Len(intervals'[c]) \/ c \notin members =>
                                intervals'[c][i][2] <= clock
                      /\ c \in members =>
                           /\ intervals'[c] # <<>>
                           /\ intervals'[c][Len(intervals'[c])][2] = Mix!Open
    BY <1>2, <1>3 DEF IntervalsInv, Mix!Open
  <2>1. \A t \in 0..(clock - 1) : FALSE
    BY <1>3
  <2>2. CASE c \in members
    <3>1. intervals'[c] = one /\ \A i \in 1..1 : i = 1
      BY <1>5, <2>2
    <3>2. one[1][1] = 0 /\ one[1][2] = Mix!Open /\ one[Len(one)] = one[1]
      BY <1>4
    <3>3. \A i \in DOMAIN intervals'[c] :
            intervals'[c][i][1] <= clock /\ i = Len(intervals'[c])
      BY <1>3, <1>4, <3>1, <3>2
    <3>4. intervals'[c] # <<>> /\ intervals'[c][Len(intervals'[c])][2] = Mix!Open
      BY <1>4, <3>1, <3>2
    <3> QED BY <2>1, <2>2, <3>3, <3>4
  <2>3. CASE c \notin members
    <3>1. intervals'[c] = none /\ \A i \in 1..0 : FALSE
      BY <1>5, <2>3
    <3> QED BY <1>4, <2>1, <2>3, <3>1
  <2> QED BY <2>2, <2>3
<1>10. NowInv' /\ PastInv'
  BY <1>2 DEF NowInv, PastInv
<1> QED BY <1>7, <1>8, <1>9, <1>10 DEF MixInv

\* What is written when the recording is registered is what was noted until then.
LEMMA RegisterKeeps ==
  ASSUME Mix!DirectionalAssumption, MixInv, Mix!Register
  PROVE  MixInv'
<1>1. /\ Mix!TypeOK /\ CleanupsInv /\ TimeInv /\ IntervalsInv /\ NotedInv
      /\ clock \in Nat
  BY TypeFacts DEF MixInv
<1>2. /\ phase = "starting" /\ phase' = "recording" /\ registered' = clock
      /\ timeline' = Mix!InitialBlocked
      /\ untold' = untold \cup {n \in Mix!Held : ~Mix!Between(n[2], Mix!Recorded)}
      /\ UNCHANGED <<changes, clock, connected, members, cleanups, policy, muted, noted,
                     intervals, downloads, controls, history, gone>>
  BY DEF Mix!Register, Mix!routeVars
<1>3. /\ timeline' \in Seq(EventTypes)
      /\ \A i \in DOMAIN timeline' : timeline'[i].at = 0
      /\ \A s, x : \A t \in Nat :
           Says(timeline', Len(timeline'), s, x, t) <=>
             <<s, x>> \in noted /\ Mix!Between(x, Mix!Recorded)
  BY <1>1, <1>2, InitialIs
<1>4. Mix!TypeOK'
  <2>1. Mix!Held \subseteq Mix!Sources \X Mix!Routes
    BY <1>1 DEF Mix!TypeOK, Mix!Held, Mix!Mic, Mix!Speaker, Mix!Sources
  <2>2. untold' \subseteq Mix!Sources \X Mix!Routes
    BY <1>1, <1>2, <2>1 DEF Mix!TypeOK
  <2>3. registered' \in 0..MaxTime
    BY <1>1, <1>2 DEF Mix!TypeOK
  <2> QED BY <1>1, <1>2, <1>3, <2>2, <2>3 DEF Mix!TypeOK, EventTypes
<1>5. CleanupsInv' /\ NotedInv'
  BY <1>1, <1>2 DEF CleanupsInv, NotedInv
<1>6. TimeInv'
  <2>1. InOrder(timeline)'
    BY <1>3 DEF InOrder
  <2>2. \A i \in DOMAIN timeline' : timeline'[i].at <= clock
    BY <1>1, <1>3
  <2> QED BY <1>1, <1>2, <2>1, <2>2 DEF TimeInv
<1>7. IntervalsInv'
  BY <1>1, <1>2 DEF IntervalsInv, Covers, Mix!Open
<1>8. NowInv'
  <2> SUFFICES ASSUME NEW s \in Mix!Sources, NEW x \in Mix!Routes, <<s, x>> \notin untold'
               PROVE  Said(s, x, clock)' <=> <<s, x>> \in Mix!Held
    <3>1. Mix!Held' = Mix!Held
      BY <1>2 DEF Mix!Held, Mix!Mic, Mix!Speaker
    <3> QED BY <1>2, <3>1 DEF NowInv, Mix!Sources, Mix!Routes, Said
  <2>1. Said(s, x, clock)' <=> <<s, x>> \in noted /\ Mix!Between(x, Mix!Recorded)
    BY <1>1, <1>2, <1>3 DEF Said
  <2>2. <<s, x>> \in noted <=> <<s, x>> \in Mix!Held
    BY <1>1, <1>2 DEF NotedInv
  <2>3. <<s, x>>[2] = x
    OBVIOUS
  <2>4. ~Mix!Between(x, Mix!Recorded) => <<s, x>> \notin Mix!Held
    BY <1>2, <2>3
  <2> QED BY <2>1, <2>2, <2>4
<1>9. PastInv'
  <2>1. Len(history) = clock
    BY <1>1 DEF TimeInv
  <2>2. \A i \in Mix!Known' : FALSE
    BY <1>1, <1>2, <2>1 DEF Mix!Known
  <2> QED BY <2>2 DEF PastInv
<1> QED BY <1>4, <1>5, <1>6, <1>7, <1>8, <1>9 DEF MixInv

\* A moment of the history
Moment == [held : SUBSET (Mix!Sources \X Mix!Routes), untold : SUBSET (Mix!Sources \X Mix!Routes),
           members : SUBSET Connections, gone : SUBSET Connections]

\* A moment passes: it is what holds now.
LEMMA TickKeeps ==
  ASSUME Mix!DirectionalAssumption, MixInv, Mix!Tick
  PROVE  MixInv'
<1> DEFINE h == [held |-> Mix!Held, untold |-> untold, members |-> members, gone |-> gone]
<1>1. /\ Mix!TypeOK /\ CleanupsInv /\ TimeInv /\ IntervalsInv /\ NotedInv /\ NowInv /\ PastInv
      /\ clock \in Nat /\ registered \in Nat /\ MaxTime \in Nat
      /\ timeline \in Seq(Events) /\ intervals \in [Connections -> Seq(Pairs)]
  BY TypeFacts DEF MixInv
<1>2. /\ phase \in {"starting", "recording"} /\ clock < MaxTime /\ clock' = clock + 1
      /\ history' = Append(history, h)
      /\ UNCHANGED <<changes, connected, members, cleanups, policy, muted, noted, phase,
                     intervals, timeline, downloads, registered, controls, untold, gone>>
  BY DEF Mix!Tick, Mix!routeVars, Mix!recordingVars
<1>3. /\ history \in Seq(Moment) /\ h \in Moment /\ Len(history) = clock
      /\ h.held = Mix!Held /\ h.untold = untold /\ h.members = members /\ h.gone = gone
  <2>1. /\ Mix!Held \subseteq Mix!Sources \X Mix!Routes
        /\ untold \subseteq Mix!Sources \X Mix!Routes
        /\ members \subseteq Connections /\ gone \subseteq Connections
    BY <1>1 DEF Mix!TypeOK, Mix!Held, Mix!Mic, Mix!Speaker, Mix!Sources
  <2>2. h \in Moment
    BY <2>1 DEF Moment
  <2> QED BY <1>1, <2>2 DEF Mix!TypeOK, TimeInv, Moment
<1> HIDE DEF h
<1>4. /\ history' \in Seq(Moment) /\ Len(history') = clock + 1
      /\ history'[clock + 1] = h /\ \A i \in 1..clock : history'[i] = history[i]
  BY <1>1, <1>2, <1>3
<1>5. Mix!TypeOK'
  <2>1. clock' \in 0..MaxTime
    BY <1>1, <1>2
  <2> QED BY <1>1, <1>2, <1>4, <2>1 DEF Mix!TypeOK, Moment
<1>6. Mix!Held' = Mix!Held
  BY <1>2 DEF Mix!Held, Mix!Mic, Mix!Speaker
<1>7. CleanupsInv' /\ NotedInv'
  BY <1>1, <1>2, <1>6 DEF CleanupsInv, NotedInv
<1>8. TimeInv'
  <2>1. \A i \in DOMAIN timeline : timeline[i].at <= clock'
    <3>1. \A e \in Events : e.at \in Nat
      BY DEF Events
    <3>2. \A i \in DOMAIN timeline : timeline[i].at <= clock /\ timeline[i].at \in Nat
      BY <1>1, <3>1 DEF TimeInv
    <3> QED BY <1>1, <1>2, <3>2
  <2>2. InOrder(timeline)'
    BY <1>1, <1>2 DEF TimeInv, InOrder
  <2>3. registered' <= clock'
    BY <1>1, <1>2 DEF TimeInv
  <2> QED BY <1>1, <1>2, <1>4, <2>1, <2>2, <2>3 DEF TimeInv
<1>9. IntervalsInv'
  <2> SUFFICES ASSUME NEW c \in Connections
               PROVE  /\ \A t \in 0..clock :
                           Covers(c, t)' <=> c \in history'[t + 1].members \cup history'[t + 1].gone
                      /\ \A i \in DOMAIN intervals[c] :
                           /\ intervals[c][i][1] <= clock + 1
                           /\ i # Len(intervals[c]) \/ c \notin members \cup gone =>
                                intervals[c][i][2] <= clock + 1
                      /\ c \in members \cup gone =>
                           intervals[c] # <<>> /\ intervals[c][Len(intervals[c])][2] = Mix!Open
    <3>1. \A t : t \in 0..(clock' - 1) <=> t \in 0..clock
      BY <1>1, <1>2
    <3> QED BY <1>2, <3>1 DEF IntervalsInv, Mix!Open
  <2>1. /\ \A t \in 0..(clock - 1) :
             Covers(c, t) <=> c \in history[t + 1].members \cup history[t + 1].gone
        /\ \A i \in DOMAIN intervals[c] :
             /\ intervals[c][i][1] <= clock
             /\ i # Len(intervals[c]) \/ c \notin members \cup gone =>
                  intervals[c][i][2] <= clock
        /\ c \in members \cup gone =>
             intervals[c] # <<>> /\ intervals[c][Len(intervals[c])][2] = Mix!Open
    BY <1>1, <1>2 DEF IntervalsInv
  <2>2. \A i \in DOMAIN intervals[c] : intervals[c][i] \in Nat \X Nat
    BY <1>1 DEF Pairs
  <2>3. \A t : Covers(c, t)' <=> Covers(c, t)
    BY <1>2 DEF Covers
  <2>4. Covers(c, clock) <=> c \in members \cup gone
    <3>1. CASE c \in members \cup gone
      <4>1. Len(intervals[c]) \in DOMAIN intervals[c]
        BY <1>1, <2>1, <3>1
      <4>2. Has(intervals[c][Len(intervals[c])], clock)
        BY <1>1, <1>2, <2>1, <2>2, <3>1, <4>1 DEF Has, Mix!Open
      <4> QED BY <3>1, <4>1, <4>2 DEF Covers
    <3>2. CASE c \notin members \cup gone
      <4>1. \A i \in DOMAIN intervals[c] : ~Has(intervals[c][i], clock)
        BY <1>1, <2>1, <2>2, <3>2 DEF Has
      <4> QED BY <3>2, <4>1 DEF Covers
    <3> QED BY <3>1, <3>2
  <2>5. ASSUME NEW t \in 0..clock
        PROVE  Covers(c, t)' <=> c \in history'[t + 1].members \cup history'[t + 1].gone
    <3>1. CASE t = clock
      BY <1>3, <1>4, <2>3, <2>4, <3>1
    <3>2. CASE t # clock
      <4>1. t \in 0..(clock - 1) /\ t + 1 \in 1..clock
        BY <1>1, <3>2
      <4> QED BY <1>4, <2>1, <2>3, <4>1
    <3> QED BY <3>1, <3>2
  <2>6. \A i \in DOMAIN intervals[c] :
          /\ intervals[c][i][1] <= clock + 1
          /\ i # Len(intervals[c]) \/ c \notin members \cup gone =>
               intervals[c][i][2] <= clock + 1
    BY <1>1, <2>1, <2>2
  <2> QED BY <2>1, <2>5, <2>6
<1>10. \A s, x : Says(timeline, Len(timeline), s, x, clock + 1) <=> Said(s, x, clock)
  <2>1. \A i \in DOMAIN timeline : timeline[i].at <= clock /\ timeline[i].at <= clock + 1
    BY <1>1, <1>2, <1>8 DEF TimeInv
  <2> QED BY <1>1, <2>1, SaysLater DEF Said
<1>11. NowInv'
  BY <1>1, <1>2, <1>6, <1>10 DEF NowInv, Said
<1>12. PastInv'
  <2> SUFFICES ASSUME phase = "recording", NEW i \in Mix!Known', NEW s \in Mix!Sources,
                      NEW x \in Mix!Routes, <<s, x>> \notin history'[i].untold
               PROVE  Said(s, x, i - 1) <=> <<s, x>> \in history'[i].held
    BY <1>2 DEF PastInv, Said, Mix!Sources, Mix!Routes
  <2>1. i \in (registered + 1)..(clock + 1)
    BY <1>2, <1>4 DEF Mix!Known
  <2>2. CASE i = clock + 1
    <3>1. i - 1 = clock /\ history'[i] = h
      BY <1>1, <1>4, <2>2
    <3> QED BY <1>1, <1>3, <3>1 DEF NowInv
  <2>3. CASE i # clock + 1
    <3>1. i \in Mix!Known /\ history'[i] = history[i]
      BY <1>1, <1>3, <1>4, <2>1, <2>3 DEF Mix!Known
    <3> QED BY <1>1, <3>1 DEF PastInv
  <2> QED BY <2>2, <2>3
<1> QED BY <1>5, <1>7, <1>8, <1>9, <1>11, <1>12 DEF MixInv

\* A sequence with one more element at its end.
LEMMA OneMore ==
  ASSUME NEW S, NEW q \in Seq(S), NEW e \in S
  PROVE  /\ Len(q) \in Nat /\ DOMAIN q = 1..Len(q)
         /\ Append(q, e) \in Seq(S) /\ Append(q, e) # <<>>
         /\ Len(Append(q, e)) = Len(q) + 1 /\ DOMAIN Append(q, e) = 1..(Len(q) + 1)
         /\ Append(q, e)[Len(q) + 1] = e /\ \A i \in 1..Len(q) : Append(q, e)[i] = q[i]
<1>1. Len(q) \in Nat /\ DOMAIN q = 1..Len(q) /\ Append(q, e) \in Seq(S)
  OBVIOUS
<1>2. Len(Append(q, e)) = Len(q) + 1
  OBVIOUS
<1>3. DOMAIN Append(q, e) = 1..(Len(q) + 1)
  BY <1>1, <1>2
<1>4. Append(q, e)[Len(q) + 1] = e
  OBVIOUS
<1>5. \A i \in 1..Len(q) : Append(q, e)[i] = q[i]
  OBVIOUS
<1>6. Append(q, e) # <<>>
  BY <1>1, <1>2
<1> QED BY <1>1, <1>2, <1>3, <1>4, <1>5, <1>6

\* The past of the intervals of a connection, and what its last one is: open, if it takes
\* part, and else over
Attends(is, c, taking) ==
  /\ \A t \in 0..(clock - 1) :
       (\E i \in DOMAIN is : Has(is[i], t)) <=>
         c \in history[t + 1].members \cup history[t + 1].gone
  /\ \A i \in DOMAIN is :
       /\ is[i][1] <= clock
       /\ i # Len(is) \/ ~taking => is[i][2] <= clock
  /\ taking => is # <<>> /\ is[Len(is)][2] = Mix!Open

\* Who joins has an interval that is open.
LEMMA JoinedIs ==
  ASSUME clock \in Nat, MaxTime \in Nat, clock <= MaxTime, NEW c,
         intervals[c] \in Seq(Mix!Spans), Attends(intervals[c], c, FALSE)
  PROVE  Mix!Joined(c) \in Seq(Mix!Spans) /\ Attends(Mix!Joined(c), c, TRUE)
<1> DEFINE is == intervals[c]
           new == Mix!Joined(c)
           L == Len(is)
<1>1. /\ L \in Nat /\ DOMAIN is = 1..L /\ DOMAIN new = 1..(L + 1) /\ Len(new) = L + 1
      /\ new[L + 1] = <<clock, Mix!Open>> /\ \A i \in 1..L : new[i] = is[i]
      /\ new \in Seq(Mix!Spans) /\ new # <<>>
  <2>1. PICK e : e = <<clock, Mix!Open>>
    OBVIOUS
  <2>2. e \in Mix!Spans /\ new = Append(is, e) /\ is \in Seq(Mix!Spans)
    BY <2>1 DEF Mix!Spans, Mix!Open, Mix!Joined
  <2> HIDE DEF is, new
  <2>3. /\ L \in Nat /\ DOMAIN is = 1..L
        /\ Append(is, e) \in Seq(Mix!Spans) /\ Append(is, e) # <<>>
        /\ Len(Append(is, e)) = L + 1 /\ DOMAIN Append(is, e) = 1..(L + 1)
        /\ Append(is, e)[L + 1] = e
        /\ \A i \in 1..L : Append(is, e)[i] = is[i]
    BY <2>2, OneMore
  <2> QED BY <2>1, <2>2, <2>3
<1>2. \A i : i \in 1..(L + 1) <=> i = L + 1 \/ i \in 1..L
  BY <1>1
<1>3. Attends(is, c, FALSE)
  OBVIOUS
<1> HIDE DEF is, new, L
<1>4. new[L + 1][1] = clock /\ new[L + 1][2] = Mix!Open
  BY <1>1
<1>5. ASSUME NEW t \in 0..(clock - 1)
      PROVE  (\E i \in DOMAIN new : Has(new[i], t)) <=> \E i \in DOMAIN is : Has(is[i], t)
  <2>1. ~Has(new[L + 1], t)
    BY <1>4 DEF Has
  <2>2. \A i \in 1..L : Has(new[i], t) <=> Has(is[i], t)
    BY <1>1
  <2>3. (\E i \in 1..(L + 1) : Has(new[i], t)) <=> \E i \in 1..L : Has(is[i], t)
    BY <1>2, <2>1, <2>2
  <2> QED BY <1>1, <2>3
<1>6. \A i \in 1..L : is[i][1] <= clock /\ is[i][2] <= clock
  BY <1>1, <1>3 DEF Attends
<1>7. \A i \in DOMAIN new : new[i][1] <= clock /\ (i # L + 1 => new[i][2] <= clock)
  BY <1>1, <1>2, <1>4, <1>6
<1>8. Attends(new, c, TRUE)
  BY <1>1, <1>3, <1>4, <1>5, <1>7 DEF Attends
<1> QED BY <1>1, <1>8 DEF new

\* The interval of who leaves ends.
LEMMA LeftIs ==
  ASSUME clock \in Nat, MaxTime \in Nat, clock <= MaxTime, NEW c,
         intervals[c] \in Seq(Mix!Spans), Attends(intervals[c], c, TRUE)
  PROVE  Mix!Left(c) \in Seq(Mix!Spans) /\ Attends(Mix!Left(c), c, FALSE)
<1> DEFINE is == intervals[c]
           L == Len(is)
           span == <<is[L][1], clock>>
           new == [is EXCEPT ![L] = span]
<1>1. Mix!Left(c) = new
  BY DEF Mix!Left
<1>2. is \in Seq(Mix!Spans) /\ Attends(is, c, TRUE)
  OBVIOUS
<1> HIDE DEF is
<1>3. L \in Nat /\ DOMAIN is = 1..L /\ L \in 1..L
  <2>1. L \in Nat /\ DOMAIN is = 1..L
    BY <1>2
  <2>2. is # <<>>
    BY <1>2 DEF Attends
  <2> QED BY <1>2, <2>1, <2>2
<1>4. span \in Mix!Spans
  <2>1. is[L] \in Mix!Spans
    BY <1>2, <1>3
  <2>2. is[L][1] \in 0..MaxTime /\ clock \in 0..(MaxTime + 1)
    BY <2>1 DEF Mix!Spans
  <2> QED BY <2>2 DEF Mix!Spans, Mix!Open
<1>5. /\ new \in Seq(Mix!Spans) /\ DOMAIN new = 1..L /\ Len(new) = L
      /\ new[L] = span /\ \A i \in 1..L : i # L => new[i] = is[i]
  <2> HIDE DEF span, L
  <2>1. is \in [1..L -> Mix!Spans]
    BY <1>2, <1>3 DEF L
  <2>2. new \in [1..L -> Mix!Spans]
    BY <1>4, <2>1
  <2>3. new[L] = span /\ \A i \in 1..L : i # L => new[i] = is[i]
    BY <1>3, <2>1
  <2> HIDE DEF new
  <2> QED BY <1>3, <2>2, <2>3
<1>6. span[1] = is[L][1] /\ span[2] = clock
  OBVIOUS
<1> HIDE DEF new, L, span
<1>7. /\ is[L][2] = Mix!Open
      /\ \A i \in 1..L : is[i][1] <= clock /\ (i # L => is[i][2] <= clock)
  <2>1. is[Len(is)][2] = Mix!Open
    BY <1>2 DEF Attends
  <2>2. \A i \in DOMAIN is : is[i][1] <= clock /\ (i # Len(is) => is[i][2] <= clock)
    BY <1>2 DEF Attends
  <2>3. DOMAIN is = 1..L
    BY <1>3
  <2>4. is[L][2] = Mix!Open
    BY <2>1 DEF L
  <2>5. \A i \in DOMAIN is : is[i][1] <= clock /\ (i # L => is[i][2] <= clock)
    BY <2>2 DEF L
  <2> QED BY <2>3, <2>4, <2>5
<1>8. ASSUME NEW t \in 0..(clock - 1)
      PROVE  (\E i \in DOMAIN new : Has(new[i], t)) <=> \E i \in DOMAIN is : Has(is[i], t)
  <2>1. Has(new[L], t) <=> Has(is[L], t)
    <3>1. is[L][2] = Mix!Open /\ new[L][1] = is[L][1] /\ new[L][2] = clock
      BY <1>5, <1>6, <1>7
    <3>2. t < clock /\ t < Mix!Open
      BY DEF Mix!Open
    <3> QED BY <3>1, <3>2 DEF Has
  <2>2. \A i \in 1..L : Has(new[i], t) <=> Has(is[i], t)
    BY <1>5, <2>1
  <2> QED BY <1>3, <1>5, <2>2
<1>9. \A i \in DOMAIN new : new[i][1] <= clock /\ new[i][2] <= clock
  <2>1. new[L][1] <= clock /\ new[L][2] <= clock
    BY <1>3, <1>5, <1>6, <1>7
  <2> QED BY <1>5, <1>7, <2>1
<1>10. Attends(new, c, FALSE)
  BY <1>2, <1>8, <1>9 DEF Attends
<1> QED BY <1>1, <1>5, <1>10

\* When the recorder is given the session, its participants are the members.
LEMMA GivenSessionKeeps ==
  ASSUME Mix!DirectionalAssumption, MixInv, phase \in {"none", "recording"},
         NEW S, S \subseteq Connections, Mix!Synchronize(S), members' = S,
         UNCHANGED <<clock, phase, history>>
  PROVE  /\ intervals' \in [Connections -> Seq(Mix!Spans)] /\ gone' \subseteq Connections
         /\ IntervalsInv'
<1>1. /\ Mix!TypeOK /\ IntervalsInv /\ clock \in Nat /\ MaxTime \in Nat /\ clock <= MaxTime
      /\ intervals \in [Connections -> Seq(Mix!Spans)] /\ gone \subseteq Connections
  <2>1. Mix!TypeOK /\ IntervalsInv
    BY DEF MixInv
  <2>2. clock \in 0..MaxTime /\ intervals \in [Connections -> Seq(Mix!Spans)]
        /\ gone \subseteq Connections
    BY <2>1 DEF Mix!TypeOK
  <2> QED BY <2>1, <2>2, TypeFacts
<1>2. CASE phase = "none"
  <2>1. intervals' = intervals /\ gone' = gone
    BY <1>2 DEF Mix!Synchronize
  <2> QED BY <1>1, <1>2, <2>1 DEF IntervalsInv
<1>3. CASE phase = "recording"
  <2>1. Mix!Recorded = members \cup gone
    BY <1>1, <1>3, RecordedIs
  <2>2. /\ intervals' = [c \in Connections |->
                           IF c \in Mix!Recorded \ S THEN Mix!Left(c)
                           ELSE IF c \in S \ Mix!Recorded THEN Mix!Joined(c)
                           ELSE intervals[c]]
        /\ gone' = {}
    BY <1>3 DEF Mix!Synchronize
  <2>3. ASSUME NEW c \in Connections
        PROVE  intervals'[c] \in Seq(Mix!Spans) /\ Attends(intervals'[c], c, c \in S)
    <3>1. intervals[c] \in Seq(Mix!Spans)
      BY <1>1
    <3>2. Attends(intervals[c], c, c \in Mix!Recorded)
      BY <1>1, <1>3, <2>1 DEF IntervalsInv, Attends, Covers
    <3>3. CASE c \in Mix!Recorded \ S
      <4>1. intervals'[c] = Mix!Left(c)
        BY <2>2, <3>3
      <4>2. Attends(intervals[c], c, TRUE)
        BY <3>2, <3>3 DEF Attends
      <4>3. Mix!Left(c) \in Seq(Mix!Spans) /\ Attends(Mix!Left(c), c, FALSE)
        BY <1>1, <3>1, <4>2, LeftIs
      <4> QED BY <3>3, <4>1, <4>3 DEF Attends
    <3>4. CASE c \in S \ Mix!Recorded
      <4>1. intervals'[c] = Mix!Joined(c)
        BY <2>2, <3>4
      <4>2. Attends(intervals[c], c, FALSE)
        BY <3>2, <3>4 DEF Attends
      <4>3. Mix!Joined(c) \in Seq(Mix!Spans) /\ Attends(Mix!Joined(c), c, TRUE)
        BY <1>1, <3>1, <4>2, JoinedIs
      <4> QED BY <3>4, <4>1, <4>3 DEF Attends
    <3>5. CASE c \in S <=> c \in Mix!Recorded
      <4>1. intervals'[c] = intervals[c]
        BY <2>2, <3>5
      <4> QED BY <3>1, <3>2, <3>5, <4>1 DEF Attends
    <3> QED BY <3>3, <3>4, <3>5
  <2>4. intervals' \in [Connections -> Seq(Mix!Spans)]
    <3>1. /\ DOMAIN intervals' = Connections
          /\ intervals' = [c \in Connections |-> intervals'[c]]
      BY <2>2
    <3> QED BY <2>3, <3>1
  <2>5. IntervalsInv'
    BY <1>3, <2>2, <2>3 DEF IntervalsInv, Attends, Covers, Mix!Open
  <2> QED BY <2>2, <2>4, <2>5
<1> QED BY <1>2, <1>3

\* Who comes or goes, what is held and what was said of it stay.
LEMMA ChangeKeeps ==
  ASSUME Mix!DirectionalAssumption, MixInv, phase \in {"none", "recording"},
         Mix!Synchronize(members'), members' \subseteq Connections,
         UNCHANGED <<clock, connected, policy, muted, noted, phase, timeline, downloads,
                     registered, controls, history, untold>>,
         \/ UNCHANGED <<changes, cleanups>>
         \/ Mix!Change
  PROVE  MixInv'
<1>1. /\ Mix!TypeOK /\ CleanupsInv /\ TimeInv /\ NotedInv /\ NowInv /\ PastInv
      /\ clock \in Nat /\ registered \in Nat
  BY TypeFacts DEF MixInv
<1>2. /\ intervals' \in [Connections -> Seq(Mix!Spans)] /\ gone' \subseteq Connections
      /\ IntervalsInv'
  BY GivenSessionKeeps
<1>3. /\ changes' \in 0..MaxChanges /\ cleanups' \in 0..(MaxChanges + 1)
      /\ cleanups' <= changes'
  <2>1. changes \in 0..MaxChanges /\ cleanups \in 0..(MaxChanges + 1) /\ MaxChanges \in Nat
        /\ cleanups <= changes
    BY <1>1 DEF Mix!DirectionalAssumption, Mix!TypeOK, CleanupsInv
  <2>2. CASE UNCHANGED <<changes, cleanups>>
    BY <2>1, <2>2
  <2>3. CASE Mix!Change
    BY <2>1, <2>3 DEF Mix!Change
  <2> QED BY <2>2, <2>3
<1>4. Mix!TypeOK'
  BY <1>1, <1>2, <1>3 DEF Mix!TypeOK
<1>5. CleanupsInv' /\ TimeInv'
  BY <1>1, <1>3 DEF CleanupsInv, TimeInv, InOrder
<1>6. Mix!Held' = Mix!Held
  BY DEF Mix!Held, Mix!Mic, Mix!Speaker
<1>7. NotedInv' /\ NowInv'
  BY <1>1, <1>6 DEF NotedInv, NowInv, Said
<1>8. PastInv'
  <2>1. Len(history) = clock
    BY <1>1 DEF TimeInv
  <2>2. \A s, x : \A t \in 0..(clock - 1) : Said(s, x, t)' <=> Said(s, x, t)
    BY DEF Said
  <2> QED BY <1>1, <2>1, <2>2, PastKept
<1> QED BY <1>2, <1>4, <1>5, <1>7, <1>8 DEF MixInv

\* A member joins, one leaves, or a consent brings the session as it is.
LEMMA JoinKeeps ==
  ASSUME Mix!DirectionalAssumption, MixInv, NEW c \in Connections, Mix!Join(c)
  PROVE  MixInv'
<1>1. /\ phase \in {"none", "recording"} /\ Mix!Change /\ Mix!Synchronize(members')
      /\ members' = members \cup {c}
      /\ UNCHANGED <<clock, connected, policy, muted, noted, phase, timeline, downloads,
                     registered, controls, history, untold>>
  BY DEF Mix!Join, Mix!routeVars
<1>2. members' \subseteq Connections
  BY <1>1 DEF MixInv, Mix!TypeOK
<1> QED BY <1>1, <1>2, ChangeKeeps

LEMMA LeaveKeeps ==
  ASSUME Mix!DirectionalAssumption, MixInv, NEW c \in Connections, Mix!Leave(c)
  PROVE  MixInv'
<1>1. /\ phase \in {"none", "recording"} /\ Mix!Change /\ Mix!Synchronize(members')
      /\ members' = members \ {c}
      /\ UNCHANGED <<clock, connected, policy, muted, noted, phase, timeline, downloads,
                     registered, controls, history, untold>>
  BY DEF Mix!Leave, Mix!routeVars
<1>2. members' \subseteq Connections
  BY <1>1 DEF MixInv, Mix!TypeOK
<1> QED BY <1>1, <1>2, ChangeKeeps

LEMMA UpdateConsentKeeps ==
  ASSUME Mix!DirectionalAssumption, MixInv, Mix!UpdateConsent
  PROVE  MixInv'
<1>1. /\ phase = "recording" /\ Mix!Synchronize(members)
      /\ UNCHANGED <<changes, clock, connected, members, cleanups, policy, muted, noted, phase,
                     timeline, downloads, registered, controls, history, untold>>
  BY DEF Mix!UpdateConsent, Mix!routeVars
<1>2. Mix!Synchronize(members')
  BY <1>1
<1>3. members' \subseteq Connections
  BY <1>1 DEF MixInv, Mix!TypeOK
<1> QED BY <1>1, <1>2, <1>3, ChangeKeeps

\* The intervals of a user are the moments at which a connection of the user was there, as
\* far as the recorder was told.
LEMMA OwnAttended ==
  ASSUME Mix!DirectionalAssumption, MixInv, phase = "recording", NEW u, NEW t
  PROVE  t \in Mix!Moments(Mix!Own(u)) <=>
           /\ t + 1 \in DOMAIN history /\ t \in Nat
           /\ \E c \in history[t + 1].members \cup history[t + 1].gone : UserOf[c] = u
<1>1. /\ Mix!TypeOK /\ TimeInv /\ IntervalsInv /\ clock \in Nat /\ IsFiniteSet(Connections)
      /\ intervals \in [Connections -> Seq(Pairs)]
  BY TypeFacts, FiniteConnections DEF MixInv
<1>2. t \in Mix!Moments(Mix!Own(u)) <=>
        \E c \in Connections : UserOf[c] = u /\ t \in Mix!Moments(Mix!Attended(c))
  BY <1>1, OwnIs
<1>3. \A c \in Connections :
        t \in Mix!Moments(Mix!Attended(c)) <=> t \in Nat /\ t < clock /\ Covers(c, t)
  <2>1. \A c \in Connections : intervals[c] \in Seq(Pairs)
    BY <1>1
  <2> QED BY <1>1, <2>1, AttendedIs
<1> DEFINE There(n) == history[n].members \cup history[n].gone
<1>4. ASSUME t \in Nat, t < clock
      PROVE  /\ t + 1 \in DOMAIN history /\ There(t + 1) \subseteq Connections
             /\ \A c \in Connections : Covers(c, t) <=> c \in There(t + 1)
  <2>1. history \in Seq(Moment) /\ Len(history) = clock
    BY <1>1 DEF Mix!TypeOK, TimeInv, Moment
  <2>2. \A h \in Moment : h.members \cup h.gone \subseteq Connections
    BY DEF Moment
  <2>3. t \in 0..(clock - 1) /\ t + 1 \in DOMAIN history
    BY <1>1, <1>4, <2>1
  <2>4. history[t + 1] \in Moment
    BY <2>1, <2>3
  <2> QED BY <1>1, <2>2, <2>3, <2>4, phase = "recording" DEF IntervalsInv
<1>5. t \in Nat /\ t + 1 \in DOMAIN history => t < clock
  <2>1. Len(history) = clock /\ DOMAIN history = 1..clock
    BY <1>1 DEF Mix!TypeOK, TimeInv
  <2> QED BY <1>1, <2>1
<1> HIDE DEF There
<1>6. t \in Mix!Moments(Mix!Own(u)) <=>
        t + 1 \in DOMAIN history /\ t \in Nat /\ \E c \in There(t + 1) : UserOf[c] = u
  BY <1>2, <1>3, <1>4, <1>5
<1> QED BY <1>6 DEF There

\* What the downloads of a recording hold when it ends
LEMMA EndGives ==
  ASSUME Mix!DirectionalAssumption, MixInv, Mix!End, NEW u \in Mix!Users
  PROVE  /\ downloads'[u].listed <=> Mix!Moments(Mix!Own(u)) # {}
         /\ downloads'[u].listed => downloads'[u].offered = Mix!Moments(Mix!Own(u))
         /\ downloads'[u].offered \subseteq 0..MaxTime
         /\ downloads'[u].found =
              IF Mix!Memberships(u) = {} THEN {}
              ELSE downloads'[u].offered \ Mix!Moments(Mix!Cut(u))
         /\ downloads'[u].listed => Mix!Memberships(u) # {}
<1> DEFINE own == Mix!Own(u)
           spans == Mix!Authorized(own)
<1>1. /\ Mix!TypeOK /\ TimeInv /\ Readable /\ clock \in 0..MaxTime /\ clock \in Nat
      /\ MaxTime \in Nat
  BY TypeFacts, FiniteConnections DEF MixInv, Mix!TypeOK, TimeInv, Readable
<1>2. phase = "recording"
  BY DEF Mix!End
<1>3. /\ downloads'[u].listed <=> own # <<>>
      /\ downloads'[u].offered = Mix!Moments(spans)
      /\ downloads'[u].found = Mix!Download(u, spans)
  <2> DEFINE D(v) == [listed |-> Mix!Listed(Mix!Own(v)),
                      offered |-> Mix!Moments(Mix!Authorized(Mix!Own(v))),
                      found |-> Mix!Download(v, Mix!Authorized(Mix!Own(v)))]
  <2>1. downloads' = [v \in Mix!Users |-> D(v)]
    BY DEF Mix!End
  <2>2. downloads'[u] = D(u)
    BY <2>1
  <2>3. /\ D(u).listed = Mix!Listed(own) /\ D(u).offered = Mix!Moments(spans)
        /\ D(u).found = Mix!Download(u, spans)
    OBVIOUS
  <2>4. Mix!Listed(own) <=> own # <<>>
    BY DEF Mix!Listed
  <2> HIDE DEF D, own, spans
  <2> QED BY <2>2, <2>3, <2>4
<1>4. own \in Seq(Pairs) /\ Proper(own)
  BY <1>1, OwnIs DEF Readable
<1>5. \A t \in Mix!Moments(own) : t \in Nat /\ t < clock
  <2>1. \A t : t \in Mix!Moments(own) =>
          \E c \in Connections : t \in Mix!Moments(Mix!Attended(c))
    BY <1>1, OwnIs DEF Readable
  <2>2. \A c \in Connections : \A t \in Mix!Moments(Mix!Attended(c)) : t \in Nat /\ t < clock
    <3>1. \A c \in Connections : intervals[c] \in Seq(Pairs)
      BY <1>1 DEF Readable
    <3> QED BY <1>1, <3>1, AttendedIs
  <2> QED BY <2>1, <2>2
<1> HIDE DEF own
<1>6. /\ spans \in Seq(Pairs)
      /\ own # <<>> => Mix!Moments(spans) = Mix!Moments(own)
      /\ own = <<>> => \A t \in Mix!Moments(spans) : t < clock
  BY <1>1, <1>4, AuthorizedIs
<1> HIDE DEF spans
<1>7. \A t \in Mix!Moments(spans) : t \in Nat /\ t < clock
  BY <1>5, <1>6, InMoments
<1>8. Mix!Download(u, spans) =
        IF Mix!Memberships(u) = {} THEN {} ELSE Mix!Moments(spans) \ Mix!Moments(Mix!Cut(u))
  BY <1>1, <1>6, <1>7, DownloadIs
<1>9. own = <<>> <=> Mix!Moments(own) = {}
  BY <1>4, NoMoments
<1>10. Mix!Moments(spans) \subseteq 0..MaxTime
  BY <1>1, <1>7
<1>11. own # <<>> => Mix!Memberships(u) # {}
  <2>1. SUFFICES ASSUME own # <<>> PROVE Mix!Memberships(u) # {}
    OBVIOUS
  <2>2. PICK t : t \in Mix!Moments(own)
    BY <1>9, <2>1
  <2>3. PICK c \in Connections : UserOf[c] = u /\ t \in Mix!Moments(Mix!Attended(c))
    BY <1>1, <2>2, OwnIs DEF Readable, own
  <2>4. Covers(c, t)
    BY <1>1, <2>3, AttendedIs DEF Readable
  <2>5. intervals[c] # <<>>
    <3>1. ASSUME intervals[c] = <<>> PROVE FALSE
      <4>1. DOMAIN intervals[c] = 1..0 /\ \A i \in 1..0 : FALSE
        BY <3>1
      <4> QED BY <2>4, <4>1 DEF Covers
    <3> QED BY <3>1
  <2> QED BY <2>3, <2>5 DEF Mix!Memberships
<1> QED BY <1>3, <1>6, <1>8, <1>9, <1>10, <1>11 DEF own

\* When it ends, the timeline, the intervals and the history agree.
LEMMA EndKeeps ==
  ASSUME Mix!DirectionalAssumption, MixInv, Mix!End
  PROVE  MixInv' /\ Mix!CutsFollowBlocks' /\ Mix!DownloadsAreAttended'
<1>1. /\ Mix!TypeOK /\ CleanupsInv /\ TimeInv /\ IntervalsInv /\ NotedInv /\ NowInv /\ PastInv
      /\ clock \in Nat /\ registered \in Nat /\ MaxTime \in Nat
      /\ timeline \in Seq(Events) /\ Readable
  BY TypeFacts, FiniteConnections DEF MixInv, TimeInv, Readable
<1>2. /\ phase = "recording" /\ phase' = "ended"
      /\ UNCHANGED <<changes, clock, connected, policy, muted, noted, intervals, timeline,
                     registered, controls, history, untold, gone>>
      /\ Mix!Close \/ Mix!Finalize
  BY DEF Mix!End, Mix!routeVars, Mix!ghostVars
<1>3. Mix!TypeOK'
  <2>1. members' \subseteq Connections /\ cleanups' \in 0..(MaxChanges + 1)
    <3>1. MaxChanges \in Nat /\ changes \in 0..MaxChanges /\ cleanups \in Nat
          /\ cleanups <= changes
      BY <1>1, <1>2 DEF Mix!DirectionalAssumption, Mix!TypeOK, CleanupsInv
    <3> QED BY <1>1, <1>2, <3>1 DEF Mix!Close, Mix!Finalize, Mix!TypeOK
  <2>2. downloads' \in [Mix!Users -> [listed : BOOLEAN, offered : SUBSET (0..MaxTime),
                                  found : SUBSET (0..MaxTime)]]
    <3> DEFINE D(v) == [listed |-> Mix!Listed(Mix!Own(v)),
                        offered |-> Mix!Moments(Mix!Authorized(Mix!Own(v))),
                        found |-> Mix!Download(v, Mix!Authorized(Mix!Own(v)))]
    <3>1. downloads' = [v \in Mix!Users |-> D(v)]
      BY DEF Mix!End
    <3>2. ASSUME NEW v \in Mix!Users
          PROVE  D(v) \in [listed : BOOLEAN, offered : SUBSET (0..MaxTime),
                           found : SUBSET (0..MaxTime)]
      <4>1. downloads'[v] = D(v)
        BY <3>1
      <4>2. /\ D(v).offered \subseteq 0..MaxTime
            /\ D(v).found =
                 IF Mix!Memberships(v) = {} THEN {}
                 ELSE D(v).offered \ Mix!Moments(Mix!Cut(v))
        <5> HIDE DEF D
        <5> QED BY <4>1, EndGives
      <4>3. Mix!Moments(Mix!Authorized(Mix!Own(v))) \subseteq 0..MaxTime
            /\ D(v).found \subseteq 0..MaxTime
        BY <4>2
      <4>4. Mix!Listed(Mix!Own(v)) \in BOOLEAN
        BY DEF Mix!Listed
      <4> QED BY <4>3, <4>4
    <3> HIDE DEF D
    <3> QED BY <3>1, <3>2
  <2> QED BY <1>1, <1>2, <2>1, <2>2 DEF Mix!TypeOK
<1>4. MixInv'
  BY <1>1, <1>2, <1>3 DEF MixInv, CleanupsInv, TimeInv, InOrder, IntervalsInv, NotedInv,
     NowInv, PastInv
<1>5. history \in Seq(Moment) /\ DOMAIN history = 1..clock /\ Len(history) = clock
  BY <1>1 DEF Mix!TypeOK, TimeInv, Moment
<1>6. \A h \in Moment : /\ h.held \subseteq Mix!Sources \X Mix!Routes
                        /\ h.untold \subseteq Mix!Sources \X Mix!Routes
                        /\ h.members \subseteq Connections
  BY DEF Moment
<1>7. \A i \in Mix!Known : /\ i \in 1..clock /\ history[i] \in Moment
                           /\ i - 1 \in Nat /\ i - 1 < clock
                           /\ i - 1 \in 0..(clock - 1) /\ (i - 1) + 1 = i
  BY <1>1, <1>5 DEF Mix!Known
<1>8. ASSUME NEW u, NEW t \in Nat, t \in Mix!Moments(Mix!Cut(u))
      PROVE  \E r \in Mix!Routes : UserOf[r[1]] # u /\ UserOf[r[2]] = u /\ Taken(r, t)
  <2>1. PICK k \in DOMAIN timeline : LET r == timeline[k].route
                                     IN UserOf[r[1]] # u /\ UserOf[r[2]] = u /\ Taken(r, t)
    BY <1>1, <1>8, CutIs
  <2>2. timeline[k].route \in Mix!Routes
    <3>1. \A e \in Events : e.route \in Mix!Routes
      BY DEF Events
    <3> QED BY <1>1, <3>1
  <2> QED BY <2>1, <2>2
<1>9. Mix!BlocksAreCut'
  <2> SUFFICES ASSUME NEW i \in Mix!Known, NEW n \in history[i].held \ history[i].untold,
                      Mix!Between(n[2], history[i].members), UserOf[n[2][1]] # UserOf[n[2][2]]
               PROVE  i - 1 \notin downloads'[UserOf[n[2][2]]].found
    BY <1>2 DEF Mix!BlocksAreCut, Mix!Known
  <2> DEFINE t == i - 1
             r == n[2]
             u == UserOf[r[2]]
  <2>1. /\ n[1] \in Mix!Sources /\ r \in Mix!Routes /\ n = <<n[1], r>>
        /\ r[2] \in history[i].members /\ r[2] \in Connections /\ u \in Mix!Users
    BY <1>6, <1>7 DEF Mix!Between, Mix!Users
  <2>2. Said(n[1], r, t)
    BY <1>1, <1>2, <2>1 DEF PastInv
  <2>3. Covers(r[2], t)
    BY <1>1, <1>2, <1>7, <2>1 DEF IntervalsInv
  <2>4. Taken(r, t)
    BY <1>7, <2>1, <2>2, <2>3 DEF Taken, SaysBlocked, Said, Mix!Sources
  <2>5. \E k \in DOMAIN timeline : timeline[k].route = r
    <3>1. Len(timeline) \in Nat /\ DOMAIN timeline = 1..Len(timeline)
      BY <1>1
    <3> HIDE DEF r, t
    <3> QED BY <2>2, <3>1, SaysMentions DEF Said
  <2>6. t \in Mix!Moments(Mix!Cut(u))
    <3> HIDE DEF t
    <3>1. UserOf[r[1]] # u /\ UserOf[r[2]] = u
      OBVIOUS
    <3> HIDE DEF r, u
    <3> QED BY <1>1, <2>4, <2>5, <3>1, CutIs
  <2> QED BY <2>1, <2>6, EndGives
<1>10. Mix!NothingElseIsCut'
  <2> SUFFICES ASSUME NEW u \in Mix!Users, Mix!Memberships(u) # {}, NEW i \in Mix!Known,
                      i - 1 \in downloads'[u].offered \ downloads'[u].found
               PROVE  \E n \in history[i].held \cup history[i].untold :
                        UserOf[n[2][1]] # u /\ UserOf[n[2][2]] = u
    BY <1>2 DEF Mix!NothingElseIsCut, Mix!Known, Mix!Memberships
  <2>1. i - 1 \in Mix!Moments(Mix!Cut(u))
    BY EndGives
  <2>2. PICK r \in Mix!Routes : UserOf[r[1]] # u /\ UserOf[r[2]] = u /\ Taken(r, i - 1)
    BY <1>7, <1>8, <2>1
  <2>3. PICK s \in Mix!Sources : Said(s, r, i - 1)
    BY <2>2 DEF Taken, SaysBlocked, Said, Mix!Sources
  <2>4. <<s, r>> \in history[i].held \cup history[i].untold
    BY <1>1, <1>2, <2>3 DEF PastInv
  <2>5. <<s, r>>[2] = r
    OBVIOUS
  <2> QED BY <2>2, <2>4, <2>5
<1>11. Mix!DownloadsAreAttended'
  <2> SUFFICES ASSUME NEW u \in Mix!Users
               PROVE  LET attended == {i \in DOMAIN history :
                                         \E c \in history[i].members : UserOf[c] = u}
                          unnoticed == {i \in DOMAIN history :
                                          \E c \in history[i].gone : UserOf[c] = u}
                      IN /\ attended # {} => downloads'[u].listed
                         /\ downloads'[u].listed =>
                              /\ attended \cup unnoticed # {}
                              /\ \A t \in downloads'[u].found : t + 1 \in attended \cup unnoticed
    BY <1>2 DEF Mix!DownloadsAreAttended
  <2> DEFINE attended == {i \in DOMAIN history : \E c \in history[i].members : UserOf[c] = u}
             unnoticed == {i \in DOMAIN history : \E c \in history[i].gone : UserOf[c] = u}
             both == attended \cup unnoticed
  <2>1. \A t : t \in Mix!Moments(Mix!Own(u)) <=>
                 /\ t + 1 \in DOMAIN history /\ t \in Nat
                 /\ \E c \in history[t + 1].members \cup history[t + 1].gone : UserOf[c] = u
    BY <1>2, OwnAttended
  <2>2. \A t \in Mix!Moments(Mix!Own(u)) : t + 1 \in both
    BY <2>1
  <2>3. ASSUME NEW i \in both PROVE i - 1 \in Mix!Moments(Mix!Own(u))
    <3>1. i \in DOMAIN history
          /\ \E c \in history[i].members \cup history[i].gone : UserOf[c] = u
      OBVIOUS
    <3>2. i \in 1..clock /\ i - 1 \in Nat /\ (i - 1) + 1 = i
      BY <1>1, <1>5, <3>1
    <3> QED BY <2>1, <3>1, <3>2
  <2>4. attended \subseteq both
    OBVIOUS
  <2> HIDE DEF attended, unnoticed, both
  <2>5. downloads'[u].listed <=> both # {}
    BY <2>2, <2>3, EndGives
  <2>6. downloads'[u].listed => downloads'[u].found \subseteq Mix!Moments(Mix!Own(u))
    <3>1. downloads'[u].listed => downloads'[u].offered = Mix!Moments(Mix!Own(u))
      BY EndGives
    <3>2. downloads'[u].found =
            IF Mix!Memberships(u) = {} THEN {}
            ELSE downloads'[u].offered \ Mix!Moments(Mix!Cut(u))
      BY EndGives
    <3> QED BY <3>1, <3>2
  <2>7. /\ attended # {} => downloads'[u].listed
        /\ downloads'[u].listed =>
             both # {} /\ \A t \in downloads'[u].found : t + 1 \in both
    BY <2>2, <2>4, <2>5, <2>6
  <2> QED BY <2>7 DEF attended, unnoticed, both
<1> QED BY <1>4, <1>9, <1>10, <1>11 DEF Mix!CutsFollowBlocks

\* The invariant holds when the session starts.
LEMMA MixInit ==
  ASSUME Mix!DirectionalAssumption, Mix!Init
  PROVE  MixInv
<1>1. MaxTime \in Nat /\ MaxControls \in Nat /\ MaxChanges \in Nat
  BY DEF Mix!DirectionalAssumption
<1> DEFINE none == <<>>
<1>2. /\ none \in Seq(Mix!Spans) /\ none \in Seq(EventTypes) /\ Len(none) = 0
      /\ none \in Seq(Moment)
      /\ DOMAIN none = 1..0 /\ \A i \in 1..0 : FALSE
  OBVIOUS
<1>3. /\ clock = 0 /\ connected = Connections /\ cleanups = 0 /\ controls = 0 /\ changes = 0
      /\ members \subseteq Connections /\ policy = {} /\ muted = {} /\ noted = {}
      /\ phase = "none" /\ intervals = [c \in Connections |-> none] /\ timeline = none
      /\ registered = 0 /\ downloads = Mix!NoDownloads /\ history = none /\ untold = {}
      /\ gone = {}
  BY DEF Mix!Init
<1> HIDE DEF none
<1>4. Mix!NoDownloads \in [Mix!Users -> [listed : BOOLEAN, offered : SUBSET (0..MaxTime),
                                 found : SUBSET (0..MaxTime)]]
  BY DEF Mix!NoDownloads
<1>5. Mix!TypeOK
  BY <1>1, <1>2, <1>3, <1>4 DEF Mix!TypeOK, EventTypes, Moment
<1>6. timeline = <<>>
  BY <1>3 DEF none
<1>7. TimeInv
  BY <1>2, <1>3, <1>6 DEF TimeInv, InOrder
<1>8. CleanupsInv /\ IntervalsInv /\ NotedInv /\ NowInv /\ PastInv
  BY <1>3 DEF CleanupsInv, IntervalsInv, NotedInv, NowInv, PastInv, Mix!Held, Mix!Mic, Mix!Speaker
<1> QED BY <1>5, <1>7, <1>8 DEF MixInv

\* With the properties, which are about a recording that has ended
MixIInv == MixInv /\ Mix!CutsFollowBlocks /\ Mix!DownloadsAreAttended

\* Every step keeps the invariant; only the end of the recording concerns the downloads.
LEMMA MixStep ==
  ASSUME Mix!DirectionalAssumption, MixIInv, [Mix!Next]_(Mix!vars)
  PROVE  MixIInv'
<1>1. MixInv /\ Mix!CutsFollowBlocks /\ Mix!DownloadsAreAttended
  BY DEF MixIInv
<1>2. Controlled \subseteq Mix!Routes
  BY <1>1, TypeFacts DEF MixInv
<1>3. ASSUME phase' # "ended" PROVE Mix!CutsFollowBlocks' /\ Mix!DownloadsAreAttended'
  BY <1>3 DEF Mix!CutsFollowBlocks, Mix!BlocksAreCut, Mix!NothingElseIsCut,
     Mix!DownloadsAreAttended
<1>4. ASSUME phase # "ended", NEW r \in Controlled, NEW blocked \in BOOLEAN,
             Mix!SetBlocked(r, blocked)
      PROVE  MixIInv'
  <2>1. phase' # "ended"
    BY <1>4 DEF Mix!SetBlocked
  <2> QED BY <1>1, <1>2, <1>3, <1>4, <2>1, SetBlockedKeeps DEF MixIInv
<1>5. ASSUME phase # "ended", NEW r \in Controlled, NEW blocked \in BOOLEAN,
             Mix!ApplyChange(r, blocked)
      PROVE  MixIInv'
  <2>1. phase' # "ended"
    BY <1>5 DEF Mix!ApplyChange
  <2> QED BY <1>1, <1>2, <1>3, <1>5, <2>1, ApplyChangeKeeps DEF MixIInv
<1>6. ASSUME phase # "ended", NEW c \in Connections, Mix!RemoveConnection(c) PROVE MixIInv'
  <2>1. phase' # "ended"
    BY <1>6 DEF Mix!RemoveConnection, Mix!recordingVars
  <2> QED BY <1>1, <1>3, <1>6, <2>1, RemoveConnectionKeeps DEF MixIInv
<1>7. ASSUME phase # "ended", NEW c \in Connections, Mix!Join(c) PROVE MixIInv'
  <2>1. phase' # "ended"
    BY <1>7 DEF Mix!Join
  <2> QED BY <1>1, <1>3, <1>7, <2>1, JoinKeeps DEF MixIInv
<1>8. ASSUME phase # "ended", NEW c \in Connections, Mix!Leave(c) PROVE MixIInv'
  <2>1. phase' # "ended"
    BY <1>8 DEF Mix!Leave
  <2> QED BY <1>1, <1>3, <1>8, <2>1, LeaveKeeps DEF MixIInv
<1>9. ASSUME phase # "ended", Mix!CleanupInactivePolicies PROVE MixIInv'
  <2>1. phase' # "ended"
    BY <1>9 DEF Mix!CleanupInactivePolicies, Mix!recordingVars
  <2> QED BY <1>1, <1>3, <1>9, <2>1, CleanupKeeps DEF MixIInv
<1>10. ASSUME Mix!UpdateConsent PROVE MixIInv'
  <2>1. phase' # "ended"
    BY <1>10 DEF Mix!UpdateConsent
  <2> QED BY <1>1, <1>3, <1>10, <2>1, UpdateConsentKeeps DEF MixIInv
<1>11. ASSUME Mix!StartRecording PROVE MixIInv'
  <2>1. phase' # "ended"
    BY <1>11 DEF Mix!StartRecording
  <2> QED BY <1>1, <1>3, <1>11, <2>1, StartRecordingKeeps DEF MixIInv
<1>12. ASSUME Mix!Register PROVE MixIInv'
  <2>1. phase' # "ended"
    BY <1>12 DEF Mix!Register
  <2> QED BY <1>1, <1>3, <1>12, <2>1, RegisterKeeps DEF MixIInv
<1>13. ASSUME Mix!Tick PROVE MixIInv'
  <2>1. phase' # "ended"
    BY <1>13 DEF Mix!Tick, Mix!recordingVars
  <2> QED BY <1>1, <1>3, <1>13, <2>1, TickKeeps DEF MixIInv
<1>14. ASSUME Mix!End PROVE MixIInv'
  BY <1>1, <1>14, EndKeeps DEF MixIInv
<1>15. CASE UNCHANGED Mix!vars
  <2>1. UNCHANGED <<clock, connected, members, cleanups, policy, muted, noted, phase, intervals,
                    timeline, downloads, registered, controls, changes, history, untold,
                    gone>>
    BY <1>15 DEF Mix!vars, Mix!routeVars, Mix!recordingVars, Mix!ghostVars
  <2>2. MixInv'
    BY <1>1, <2>1 DEF MixInv, Mix!TypeOK, CleanupsInv, TimeInv, InOrder, IntervalsInv,
                      Covers, NotedInv, NowInv, PastInv, Said, Mix!Known,
                      Mix!Held, Mix!Mic, Mix!Speaker
  <2>3. Mix!CutsFollowBlocks'
    BY <1>1, <2>1 DEF Mix!CutsFollowBlocks, Mix!BlocksAreCut, Mix!NothingElseIsCut,
       Mix!Known, Mix!Memberships
  <2>4. Mix!DownloadsAreAttended'
    BY <1>1, <2>1 DEF Mix!DownloadsAreAttended
  <2> QED BY <2>2, <2>3, <2>4 DEF MixIInv
<1> QED BY <1>4, <1>5, <1>6, <1>7, <1>8, <1>9, <1>11, <1>12, <1>13, <1>14,
           <1>15, <1>10 DEF Mix!Next

\* The invariant holds in every state.
LEMMA MixHolds ==
  ASSUME Mix!DirectionalAssumption
  PROVE  Mix!Spec => []MixIInv
<1>1. Mix!Init => MixIInv
  BY MixInit DEF MixIInv, Mix!Init, Mix!CutsFollowBlocks, Mix!BlocksAreCut,
     Mix!NothingElseIsCut, Mix!DownloadsAreAttended
<1>2. MixIInv /\ [Mix!Next]_(Mix!vars) => MixIInv'
  BY MixStep
<1> QED BY <1>1, <1>2, PTL DEF Mix!Spec

\* The model's variables keep their types.
THEOREM DirectionalTypes ==
  ASSUME Mix!DirectionalAssumption
  PROVE  Mix!Spec => []Mix!TypeOK
<1>1. MixIInv => Mix!TypeOK
  BY DEF MixIInv, MixInv
<1> QED BY <1>1, MixHolds, PTL

\* What is cut from a user's download is what was blocked for the user at each moment of the
\* recording, but for what the timeline was not told (buildDirectionalDownloadPlan).
THEOREM CutsAreBlocks ==
  ASSUME Mix!DirectionalAssumption
  PROVE  Mix!Spec => []Mix!CutsFollowBlocks
<1>1. MixIInv => Mix!CutsFollowBlocks
  BY DEF MixIInv
<1> QED BY <1>1, MixHolds, PTL

\* A recording is listed for the users who were in it, and a download of one of them holds
\* only moments at which a connection of that user was, or was gone without the recorder
\* being told (listRecordings, resolveDownload).
THEOREM DownloadsHoldAttended ==
  ASSUME Mix!DirectionalAssumption
  PROVE  Mix!Spec => []Mix!DownloadsAreAttended
<1>1. MixIInv => Mix!DownloadsAreAttended
  BY DEF MixIInv
<1> QED BY <1>1, MixHolds, PTL
=============================================================================
