------------------------- MODULE SynthServer_proofs -------------------------
(***************************************************************************)
(* Theorems about SynthServer for any number of worms, any bounds on what  *)
(* is issued, queued, lost and overtaken, and any size of the server.      *)
(*                                                                         *)
(* None of the properties is inductive.  What the server performs next was *)
(* decided by a client that never hears of it, so every fact about the     *)
(* tree needs one about the commands on their way and one about the ids    *)
(* the client keeps.  There are two inductive invariants, both stated of   *)
(* any tree t, queue q and client s, so that the lemmas about one step     *)
(* speak of no primed variable.                                            *)
(*                                                                         *)
(* Sound stands whatever is lost or overtaken.  It says that commands have *)
(* the form in which worms send them, that an id of a synth names one node *)
(* whoever names it, that no node is made twice, that a worm sends at most *)
(* one effect to go before its connector, and that the nodes of a group    *)
(* are its worm's, in the order of the signal path.  All of it is closed   *)
(* under taking commands out of the queue and changing their places.  From *)
(* it follow TreeWellFormed, OwnGroupOnly and SignalPath.                  *)
(*                                                                         *)
(* Steady stands as long as nothing is lost or overtaken.  It says that    *)
(* the commands of a worm come in the order it sends them, that the group  *)
(* of a cleared worm is gone or will be and does not come back, and that   *)
(* every node a command needs, and every node a worm believes it has, is   *)
(* in the tree or made by an earlier command.  From it follow              *)
(* ClearedStaySilent, OnlyTheClearedAreRefused and VoiceAsBelieved.        *)
(***************************************************************************)
EXTENDS SynthServer, Removal_proofs, FiniteSetTheorems

-----------------------------------------------------------------------------
(* Lists of nodes. *)

\* Every element of s stands in the relation R to every later one.
Related(s, R) == \A k, l \in 1 .. Len(s) : k < l => <<s[k], s[l]>> \in R

\* What is in a sequence.
LEMMA InSequence ==
    ASSUME NEW T, NEW s \in Seq(T)
    PROVE  /\ \A x : x \in Elements(s) <=> \E k \in 1 .. Len(s) : s[k] = x
           /\ Elements(s) \subseteq T
           /\ Len(s) \in Nat /\ DOMAIN s = 1 .. Len(s)
  BY DEF Elements

\* Two lists, one after the other.
LEMMA Joined ==
    ASSUME NEW T, NEW s \in Seq(T), NEW t \in Seq(T)
    PROVE  /\ s \o t \in Seq(T) /\ Len(s \o t) = Len(s) + Len(t)
           /\ \A i \in 1 .. Len(s) : (s \o t)[i] = s[i]
           /\ \A i \in Len(s) + 1 .. Len(s) + Len(t) : (s \o t)[i] = t[i - Len(s)]
  OBVIOUS

\* Group_AddHead on a list.
LEMMA Prepended ==
    ASSUME NEW T, NEW s \in Seq(T), NEW n \in T
    PROVE  /\ <<n>> \o s \in Seq(T)
           /\ Elements(<<n>> \o s) = Elements(s) \cup {n}
           /\ \A R : Related(s, R) /\ (\A x \in Elements(s) : <<n, x>> \in R)
                       => Related(<<n>> \o s, R)
  <1> DEFINE r == <<n>> \o s
  <1>1. /\ r \in Seq(T) /\ Len(r) = Len(s) + 1 /\ Len(s) \in Nat
        /\ r[1] = n
        /\ \A k \in 2 .. Len(s) + 1 : r[k] = s[k - 1]
    OBVIOUS
  <1> HIDE DEF r
  <1>2. \A k \in 1 .. Len(r) : k = 1 \/ (k \in 2 .. Len(s) + 1 /\ k - 1 \in 1 .. Len(s))
    BY <1>1
  <1>3. \A x \in Elements(r) : x \in Elements(s) \cup {n}
    BY <1>1, <1>2, InSequence
  <1>4. \A x \in Elements(s) : x \in Elements(r)
    <2> SUFFICES ASSUME NEW k \in 1 .. Len(s) PROVE s[k] \in Elements(r)
      BY InSequence
    <2>1. k + 1 \in 2 .. Len(s) + 1 /\ k + 1 \in 1 .. Len(r) /\ (k + 1) - 1 = k
      BY <1>1
    <2>2. r[k + 1] = s[k]
      BY <1>1, <2>1
    <2> QED
      BY <1>1, <2>1, <2>2, InSequence
  <1>5. n \in Elements(r)
    <2>1. 1 \in 1 .. Len(r)
      BY <1>1
    <2> QED
      BY <1>1, <2>1, InSequence
  <1>6. ASSUME NEW R, Related(s, R), \A x \in Elements(s) : <<n, x>> \in R
        PROVE  Related(r, R)
    <2> SUFFICES ASSUME NEW k \in 1 .. Len(r), NEW l \in 1 .. Len(r), k < l
                 PROVE  <<r[k], r[l]>> \in R
      BY DEF Related
    <2>1. l \in 2 .. Len(s) + 1 /\ l - 1 \in 1 .. Len(s) /\ r[l] = s[l - 1]
      BY <1>1
    <2>2. CASE k = 1
      BY <1>1, <1>6, <2>1, <2>2, InSequence
    <2>3. CASE k # 1
      <3>1. k - 1 \in 1 .. Len(s) /\ r[k] = s[k - 1] /\ k - 1 < l - 1
        BY <1>1, <2>3
      <3> QED
        BY <1>6, <2>1, <3>1 DEF Related
    <2> QED
      BY <2>2, <2>3
  <1> QED
    BY <1>1, <1>3, <1>4, <1>5, <1>6 DEF r

\* Group_AddTail on a list.
LEMMA Appended ==
    ASSUME NEW T, NEW s \in Seq(T), NEW n \in T
    PROVE  /\ Append(s, n) \in Seq(T)
           /\ Elements(Append(s, n)) = Elements(s) \cup {n}
           /\ \A R : Related(s, R) /\ (\A x \in Elements(s) : <<x, n>> \in R)
                       => Related(Append(s, n), R)
  <1> DEFINE r == Append(s, n)
  <1>1. /\ r \in Seq(T) /\ Len(r) = Len(s) + 1 /\ Len(s) \in Nat
        /\ \A k \in 1 .. Len(s) : r[k] = s[k]
        /\ r[Len(s) + 1] = n
    OBVIOUS
  <1> HIDE DEF r
  <1>2. /\ \A k \in 1 .. Len(r) : k = Len(s) + 1 \/ k \in 1 .. Len(s)
        /\ Len(s) + 1 \in 1 .. Len(r)
        /\ \A k \in 1 .. Len(s) : k \in 1 .. Len(r)
    BY <1>1
  <1>3. Elements(r) = Elements(s) \cup {n}
    BY <1>1, <1>2, InSequence
  <1>4. ASSUME NEW R, Related(s, R), \A x \in Elements(s) : <<x, n>> \in R
        PROVE  Related(r, R)
    <2> SUFFICES ASSUME NEW k \in 1 .. Len(r), NEW l \in 1 .. Len(r), k < l
                 PROVE  <<r[k], r[l]>> \in R
      BY DEF Related
    <2>1. k \in 1 .. Len(s) /\ r[k] = s[k]
      BY <1>1
    <2>2. CASE l = Len(s) + 1
      BY <1>1, <1>4, <2>1, <2>2, InSequence
    <2>3. CASE l \in 1 .. Len(s)
      BY <1>1, <1>4, <2>1, <2>3 DEF Related
    <2> QED
      BY <1>2, <2>2, <2>3
  <1> QED
    BY <1>1, <1>3, <1>4 DEF r

\* The list LinkedAt makes of s: n before the k-th element, then the elements
\* from rest on.
Spliced(s, k, n, rest) == SubSeq(s, 1, k - 1) \o <<n>> \o SubSeq(s, rest, Len(s))

\* Node_AddBefore on a list: n stands where the k-th element stood.
LEMMA Inserted ==
    ASSUME NEW T, NEW s \in Seq(T), NEW n \in T, NEW k \in 1 .. Len(s), NEW R
    PROVE  /\ Spliced(s, k, n, k) \in Seq(T)
           /\ \A x : x \in Elements(Spliced(s, k, n, k)) <=> x \in Elements(s) \/ x = n
           /\ /\ Related(s, R)
              /\ \A i \in 1 .. k - 1 : <<s[i], n>> \in R
              /\ \A i \in k .. Len(s) : <<n, s[i]>> \in R
              => Related(Spliced(s, k, n, k), R)
  <1> DEFINE r == Spliced(s, k, n, k)
  <1>0. Len(s) \in Nat
    OBVIOUS
  <1>1. /\ r \in Seq(T) /\ Len(r) = Len(s) + 1 
        /\ \A i \in 1 .. k - 1 : r[i] = s[i]
        /\ r[k] = n
        /\ \A i \in k + 1 .. Len(s) + 1 : r[i] = s[i - 1]
    <2> DEFINE a == SubSeq(s, 1, k - 1)
               b == SubSeq(s, k, Len(s))
    <2>1. a \in Seq(T) /\ Len(a) = k - 1 /\ \A i \in 1 .. k - 1 : a[i] = s[i]
      BY <1>0
    <2>2. /\ b \in Seq(T) /\ Len(b) = Len(s) - k + 1
          /\ \A i \in 1 .. Len(s) - k + 1 : b[i] = s[i + k - 1]
      BY <1>0
    <2> HIDE DEF a, b
    <2> DEFINE c == a \o <<n>>
    <2>3. /\ c \in Seq(T) /\ Len(c) = k
          /\ \A i \in 1 .. k - 1 : c[i] = s[i]
          /\ c[k] = n
      BY <2>1
    <2> HIDE DEF c
    <2>4. /\ c \o b \in Seq(T) /\ Len(c \o b) = Len(s) + 1
          /\ \A i \in 1 .. k : (c \o b)[i] = c[i]
          /\ \A i \in k + 1 .. Len(s) + 1 : (c \o b)[i] = b[i - k]
      <3>1. /\ c \o b \in Seq(T) /\ Len(c \o b) = Len(c) + Len(b)
            /\ \A i \in 1 .. Len(c) : (c \o b)[i] = c[i]
            /\ \A i \in Len(c) + 1 .. Len(c) + Len(b) : (c \o b)[i] = b[i - Len(c)]
        BY <2>2, <2>3, Joined
      <3>2. Len(c) + Len(b) = Len(s) + 1
        BY <1>0, <2>2, <2>3
      <3> QED
        BY <2>3, <3>1, <3>2
    <2>5. \A i \in k + 1 .. Len(s) + 1 :
             i - k \in 1 .. Len(s) - k + 1 /\ (i - k) + k - 1 = i - 1
      BY <1>0
    <2>6. \A i \in k + 1 .. Len(s) + 1 : (c \o b)[i] = s[i - 1]
      BY <2>2, <2>4, <2>5
    <2>7. r = c \o b
      BY DEF a, b, c, Spliced
    <2>8. \A i \in 1 .. k - 1 : i \in 1 .. k
      OBVIOUS
    <2>9. k \in 1 .. k
      OBVIOUS
    <2> HIDE DEF r
    <2> QED
      BY <2>3, <2>4, <2>6, <2>7, <2>8, <2>9
  <1> HIDE DEF r
  <1>2. \A i \in 1 .. Len(r) :
           \/ i = k
           \/ i \in 1 .. k - 1 /\ i \in 1 .. Len(s)
           \/ i \in k + 1 .. Len(s) + 1 /\ i - 1 \in k .. Len(s) /\ i - 1 \in 1 .. Len(s)
    BY <1>0, <1>1
  <1>3. Elements(r) \subseteq Elements(s) \cup {n}
    <2> SUFFICES ASSUME NEW i \in 1 .. Len(r) PROVE r[i] \in Elements(s) \cup {n}
      BY <1>1, InSequence
    <2> QED
      BY <1>1, <1>2, InSequence
  <1>4. ASSUME NEW i \in 1 .. Len(s) PROVE s[i] \in Elements(r)
    <2>1. CASE i < k
      <3>1. i \in 1 .. k - 1 /\ i \in 1 .. Len(r)
        BY <1>0, <1>1, <2>1
      <3> QED
        BY <1>1, <3>1, InSequence
    <2>2. CASE i >= k
      <3>1. i + 1 \in k + 1 .. Len(s) + 1 /\ i + 1 \in 1 .. Len(r) /\ (i + 1) - 1 = i
        BY <1>0, <1>1, <2>2
      <3>2. r[i + 1] = s[i]
        BY <1>1, <3>1
      <3> QED
        BY <1>1, <3>1, <3>2, InSequence
    <2> QED
      BY <2>1, <2>2
  <1>5. n \in Elements(r)
    <2>1. k \in 1 .. Len(r)
      BY <1>0, <1>1
    <2> QED
      BY <1>1, <2>1, InSequence
  <1>6. Elements(r) = Elements(s) \cup {n}
    BY <1>3, <1>4, <1>5, InSequence
  <1>7. ASSUME Related(s, R),
               \A i \in 1 .. k - 1 : <<s[i], n>> \in R,
               \A i \in k .. Len(s) : <<n, s[i]>> \in R
        PROVE  Related(r, R)
    <2> SUFFICES ASSUME NEW i \in 1 .. Len(r), NEW j \in 1 .. Len(r), i < j
                 PROVE  <<r[i], r[j]>> \in R
      BY DEF Related
    <2>1. CASE i = k
      <3>1. j \in k + 1 .. Len(s) + 1 /\ j - 1 \in k .. Len(s)
        BY <1>0, <1>1, <2>1
      <3> QED
        BY <1>1, <1>7, <2>1, <3>1
    <2>2. CASE i < k
      <3>1. i \in 1 .. k - 1 /\ i \in 1 .. Len(s) /\ r[i] = s[i]
        BY <1>0, <1>1, <2>2
      <3>2. CASE j < k
        <4>1. j \in 1 .. k - 1 /\ j \in 1 .. Len(s) /\ r[j] = s[j]
          BY <1>0, <1>1, <3>2
        <4> QED
          BY <1>7, <3>1, <4>1 DEF Related
      <3>3. CASE j = k
        BY <1>1, <1>7, <3>1, <3>3
      <3>4. CASE j > k
        <4>1. j - 1 \in 1 .. Len(s) /\ r[j] = s[j - 1] /\ i < j - 1
          BY <1>0, <1>1, <2>2, <3>4
        <4> QED
          BY <1>7, <3>1, <4>1 DEF Related
      <3> QED
        BY <3>2, <3>3, <3>4
    <2>3. CASE i > k
      <3>1. /\ i - 1 \in 1 .. Len(s) /\ r[i] = s[i - 1]
            /\ j - 1 \in 1 .. Len(s) /\ r[j] = s[j - 1] /\ i - 1 < j - 1
        BY <1>0, <1>1, <2>3
      <3> QED
        BY <1>7, <3>1 DEF Related
    <2> QED
      BY <2>1, <2>2, <2>3
  <1> QED
    BY <1>1, <1>6, <1>7 DEF r

\* Node_Replace on a list: n stands in the place of the k-th element.
LEMMA Replaced ==
    ASSUME NEW T, NEW s \in Seq(T), NEW n \in T, NEW k \in 1 .. Len(s)
    PROVE  LET r == Spliced(s, k, n, k + 1) IN
           /\ r \in Seq(T) /\ Len(r) = Len(s)
           /\ r[k] = n
           /\ \A i \in 1 .. Len(s) : i # k => r[i] = s[i]
  <1> DEFINE a == SubSeq(s, 1, k - 1)
             b == SubSeq(s, k + 1, Len(s))
             c == a \o <<n>>
             r == Spliced(s, k, n, k + 1)
  <1>0. Len(s) \in Nat
    OBVIOUS
  <1>1. a \in Seq(T) /\ Len(a) = k - 1 /\ \A i \in 1 .. k - 1 : a[i] = s[i]
    BY <1>0
  <1>2. /\ b \in Seq(T) /\ Len(b) = Len(s) - k
        /\ \A i \in 1 .. Len(s) - k : b[i] = s[i + k]
    BY <1>0
  <1>4. r = c \o b
    BY DEF Spliced
  <1> HIDE DEF a, b
  <1>3. /\ c \in Seq(T) /\ Len(c) = k
        /\ \A i \in 1 .. k - 1 : c[i] = s[i]
        /\ c[k] = n
    BY <1>1
  <1> HIDE DEF c, r
  <1>5. /\ c \o b \in Seq(T) /\ Len(c \o b) = Len(s)
        /\ \A i \in 1 .. k : (c \o b)[i] = c[i]
        /\ \A i \in k + 1 .. Len(s) : (c \o b)[i] = b[i - k]
    <2>1. /\ c \o b \in Seq(T) /\ Len(c \o b) = Len(c) + Len(b)
          /\ \A i \in 1 .. Len(c) : (c \o b)[i] = c[i]
          /\ \A i \in Len(c) + 1 .. Len(c) + Len(b) : (c \o b)[i] = b[i - Len(c)]
      <3>1. c \in Seq(T) /\ b \in Seq(T)
        BY <1>2, <1>3
      <3> QED
        BY <3>1, Joined
    <2>2. Len(c) + Len(b) = Len(s)
      BY <1>0, <1>2, <1>3
    <2> QED
      BY <1>3, <2>1, <2>2
  <1>6. ASSUME NEW i \in 1 .. Len(s), i # k PROVE r[i] = s[i]
    <2>1. CASE i < k
      <3>1. i \in 1 .. k - 1 /\ i \in 1 .. k
        BY <2>1
      <3> QED
        BY <1>3, <1>4, <1>5, <3>1
    <2>2. CASE i > k
      <3>1. i \in k + 1 .. Len(s) /\ i - k \in 1 .. Len(s) - k /\ (i - k) + k = i
        BY <1>0, <2>2
      <3>2. (c \o b)[i] = b[i - k] /\ b[i - k] = s[i]
        BY <1>2, <1>5, <3>1
      <3> QED
        BY <1>4, <3>2
    <2> QED
      BY <1>6, <2>1, <2>2
  <1>7. r[k] = n
    <2>1. k \in 1 .. k
      OBVIOUS
    <2> QED
      BY <1>3, <1>4, <1>5, <2>1
  <1> QED
    BY <1>4, <1>5, <1>6, <1>7 DEF r

\* Node_Remove on a list.
LEMMA TakenOut ==
    ASSUME NEW T, NEW s \in Seq(T), NEW id
    PROVE  /\ OtherThan(s, id) \in Seq(T)
           /\ Elements(OtherThan(s, id)) = { x \in Elements(s) : x.id # id }
           /\ \A R : Related(s, R) => Related(OtherThan(s, id), R)
  <1> DEFINE gone == { n \in Elements(s) : n.id = id }
             r == Without(s, gone)
  <1>0. OtherThan(s, id) = r
    BY DEF OtherThan
  <1> HIDE DEF gone
  <1>1. ASSUME NEW R
        PROVE  /\ r \in Seq(T)
               /\ \A k \in 1 .. Len(r) : r[k] \notin gone
               /\ \A k \in 1 .. Len(r) : \E l \in 1 .. Len(s) : r[k] = s[l]
               /\ \A l \in 1 .. Len(s) :
                    s[l] \notin gone => \E k \in 1 .. Len(r) : r[k] = s[l]
               /\ Related(s, R) => Related(r, R)
    BY WithoutProperties, Zenon DEF Related
  <1> HIDE DEF r
  <1>2. Elements(r) = { x \in Elements(s) : x.id # id }
    <2>1. ASSUME NEW x \in Elements(r) PROVE x \in Elements(s) /\ x.id # id
      <3>1. PICK k \in 1 .. Len(r) : r[k] = x
        BY <1>1, InSequence
      <3>2. x \in Elements(s) /\ x \notin gone
        BY <1>1, <3>1, InSequence
      <3> QED
        BY <3>2 DEF gone
    <2>2. ASSUME NEW x \in Elements(s), x.id # id PROVE x \in Elements(r)
      <3>1. x \notin gone
        BY <2>2 DEF gone
      <3>2. PICK l \in 1 .. Len(s) : s[l] = x
        BY InSequence
      <3> QED
        BY <1>1, <3>1, <3>2, InSequence
    <2> QED
      BY <2>1, <2>2
  <1> QED
    BY <1>0, <1>1, <1>2

-----------------------------------------------------------------------------
(* Trees, and what a step changes in one. *)

\* A tree of nodes of worms, as the variable tree holds one.
IsTree(t) ==
    /\ t \in [DOMAIN t -> Seq(NodeSet)]
    /\ DOMAIN t \subseteq Nat /\ Root \in DOMAIN t

\* The pairs of nodes with different ids.
IdsDiffer == { p \in NodeSet \X NodeSet : p[1].id # p[2].id }

\* TreeWellFormed, of any tree, in terms of what its lists hold.
WellFormed(t) ==
    /\ \A g \in DOMAIN t : Related(t[g], IdsDiffer)
    /\ \A g, h \in DOMAIN t : \A a \in Elements(t[g]), b \in Elements(t[h]) :
         a.id = b.id => g = h
    /\ \A g \in DOMAIN t \ {Root} : \E n \in Elements(t[Root]) : n.role = "group" /\ n.id = g
    /\ \A g \in DOMAIN t : \A n \in Elements(t[g]) :
         n.role = "group" => g = Root /\ n.id \in DOMAIN t

\* u is t with the nodes of made in the list of place, without the nodes and
\* groups whose ids are in gone, and without what was in the groups cleared.
Changed(t, u, made, place, gone, cleared) ==
    /\ IsTree(u)
    /\ \A g \in DOMAIN u : Related(u[g], IdsDiffer)
    /\ \A g : g \in DOMAIN u <=> \/ g \in DOMAIN t \ gone
                                 \/ \E m \in made : m.role = "group" /\ m.id = g
    /\ \A g \in DOMAIN u : \A x \in Elements(u[g]) :
         \/ x \in made /\ g = place
         \/ g \in DOMAIN t /\ x \in Elements(t[g]) /\ x.id \notin gone
    /\ \A g \in DOMAIN t : \A x \in Elements(t[g]) :
         g \notin gone /\ g \notin cleared /\ x.id \notin gone => x \in Elements(u[g])
    /\ \A x \in made : place \in DOMAIN u /\ x \in Elements(u[place])

\* Where a node is found.
LEMMA NodesAre ==
    ASSUME NEW t
    PROVE  /\ \A x : x \in Nodes(t) <=> \E g \in DOMAIN t : x \in Elements(t[g])
           /\ \A i : i \in Ids(t) <=> i = Root \/ \E x \in Nodes(t) : x.id = i
  BY DEF Nodes, Ids

\* A list of nodes.
LEMMA ListOf ==
    ASSUME NEW t, IsTree(t), NEW g \in DOMAIN t
    PROVE  /\ t[g] \in Seq(NodeSet) /\ Elements(t[g]) \subseteq NodeSet
           /\ Len(t[g]) \in Nat /\ DOMAIN t[g] = 1 .. Len(t[g])
           /\ \A x : x \in Elements(t[g]) <=> \E k \in 1 .. Len(t[g]) : t[g][k] = x
  <1>1. t[g] \in Seq(NodeSet)
    BY DEF IsTree
  <1> QED
    BY <1>1, InSequence

\* The ids of groups are ids of nodes.
LEMMA GroupIds ==
    ASSUME NEW t, IsTree(t), WellFormed(t)
    PROVE  DOMAIN t \subseteq Ids(t)
  <1> SUFFICES ASSUME NEW g \in DOMAIN t, g # Root PROVE g \in Ids(t)
    BY NodesAre
  <1>1. PICK n \in Elements(t[Root]) : n.id = g
    BY DEF WellFormed
  <1>2. Root \in DOMAIN t
    BY DEF IsTree
  <1> QED
    BY <1>1, <1>2, NodesAre

\* Nodes of a list that differ in place differ in their id.
LEMMA IdsInList ==
    ASSUME NEW s \in Seq(NodeSet), Related(s, IdsDiffer),
           NEW k \in 1 .. Len(s), NEW l \in 1 .. Len(s), s[k].id = s[l].id
    PROVE  k = l
  <1>1. k \in Nat /\ l \in Nat /\ Len(s) \in Nat
    OBVIOUS
  <1>2. CASE k < l
    <2>1. <<s[k], s[l]>> \in IdsDiffer
      BY <1>2 DEF Related
    <2> QED
      BY <2>1 DEF IdsDiffer
  <1>3. CASE l < k
    <2>1. <<s[l], s[k]>> \in IdsDiffer
      BY <1>3 DEF Related
    <2> QED
      BY <2>1 DEF IdsDiffer
  <1> QED
    BY <1>1, <1>2, <1>3

\* An id is the id of one node, at one place.
LEMMA OneNode ==
    ASSUME NEW t, IsTree(t), WellFormed(t),
           NEW g \in DOMAIN t, NEW a \in Elements(t[g]),
           NEW h \in DOMAIN t, NEW b \in Elements(t[h]), a.id = b.id
    PROVE  g = h /\ a = b
  <1>1. g = h
    BY DEF WellFormed
  <1>2. PICK k \in 1 .. Len(t[g]) : t[g][k] = a
    BY ListOf
  <1>3. PICK l \in 1 .. Len(t[g]) : t[g][l] = b
    BY <1>1, ListOf
  <1>4. t[g] \in Seq(NodeSet) /\ Related(t[g], IdsDiffer)
    BY ListOf DEF WellFormed
  <1>5. k = l
    BY <1>2, <1>3, <1>4, IdsInList
  <1> QED
    BY <1>1, <1>2, <1>3, <1>5

\* WellFormed says what TreeWellFormed says.
LEMMA WellFormedTree ==
    ASSUME IsTree(tree)
    PROVE  TreeWellFormed <=> WellFormed(tree)
  <1>1. ASSUME TreeWellFormed PROVE WellFormed(tree)
    <2>1. ASSUME NEW g \in DOMAIN tree PROVE Related(tree[g], IdsDiffer)
      <3> SUFFICES ASSUME NEW k \in 1 .. Len(tree[g]), NEW l \in 1 .. Len(tree[g]), k < l
                   PROVE  <<tree[g][k], tree[g][l]>> \in IdsDiffer
        BY DEF Related
      <3>1. k \in DOMAIN tree[g] /\ l \in DOMAIN tree[g] /\ k # l
        BY ListOf
      <3>2. tree[g][k].id # tree[g][l].id
        BY <1>1, <3>1 DEF TreeWellFormed
      <3>3. tree[g][k] \in NodeSet /\ tree[g][l] \in NodeSet
        BY ListOf
      <3> QED
        BY <3>2, <3>3 DEF IdsDiffer
    <2>2. ASSUME NEW g \in DOMAIN tree, NEW h \in DOMAIN tree,
                 NEW a \in Elements(tree[g]), NEW b \in Elements(tree[h]), a.id = b.id
          PROVE  g = h
      <3>1. PICK k \in DOMAIN tree[g] : tree[g][k] = a
        BY ListOf
      <3>2. PICK l \in DOMAIN tree[h] : tree[h][l] = b
        BY ListOf
      <3> QED
        BY <1>1, <2>2, <3>1, <3>2 DEF TreeWellFormed
    <2>3. ASSUME NEW g \in DOMAIN tree, NEW n \in Elements(tree[g]), n.role = "group"
          PROVE  g = Root /\ n.id \in DOMAIN tree
      <3>1. n \in Groups
        BY <2>3, NodesAre DEF Groups
      <3>2. n.id \in DOMAIN tree /\ n \in Elements(tree[Root]) /\ Root \in DOMAIN tree
        BY <1>1, <3>1 DEF TreeWellFormed, IsTree
      <3> QED
        BY <2>2, <3>2
    <2>4. ASSUME NEW g \in DOMAIN tree \ {Root}
          PROVE  \E n \in Elements(tree[Root]) : n.role = "group" /\ n.id = g
      <3>1. PICK n \in Groups : n.id = g
        BY <1>1 DEF TreeWellFormed
      <3>2. n.role = "group" /\ n \in Elements(tree[Root])
        BY <1>1, <3>1 DEF TreeWellFormed, Groups
      <3> QED
        BY <3>1, <3>2
    <2> QED
      BY <2>1, <2>2, <2>3, <2>4 DEF WellFormed
  <1>2. ASSUME WellFormed(tree) PROVE TreeWellFormed
    <2>1. ASSUME NEW g \in DOMAIN tree, NEW h \in DOMAIN tree,
                 NEW k \in DOMAIN tree[g], NEW l \in DOMAIN tree[h],
                 tree[g][k].id = tree[h][l].id
          PROVE  g = h /\ k = l
      <3>1. tree[g][k] \in Elements(tree[g]) /\ tree[h][l] \in Elements(tree[h])
        BY ListOf
      <3>2. g = h
        BY <1>2, <2>1, <3>1, OneNode
      <3>3. k \in 1 .. Len(tree[g]) /\ l \in 1 .. Len(tree[g])
        BY <3>2, ListOf
      <3>4. tree[g] \in Seq(NodeSet) /\ Related(tree[g], IdsDiffer)
        BY <1>2, ListOf DEF WellFormed
      <3> QED
        BY <2>1, <3>2, <3>3, <3>4, IdsInList
    <2>2. ASSUME NEW n \in Groups
          PROVE  n \in Elements(tree[Root]) /\ n.id \in DOMAIN tree
      BY <1>2, NodesAre DEF WellFormed, Groups
    <2>3. ASSUME NEW g \in DOMAIN tree, g # Root
          PROVE  \E n \in Groups : n.id = g
      <3>1. PICK n \in Elements(tree[Root]) : n.role = "group" /\ n.id = g
        BY <1>2, <2>3 DEF WellFormed
      <3>2. n \in Groups
        BY <3>1, NodesAre DEF Groups, IsTree
      <3> QED
        BY <3>1, <3>2
    <2>4. DOMAIN tree = {Root} \cup { n.id : n \in Groups }
      BY <2>2, <2>3 DEF IsTree
    <2> QED
      BY <2>1, <2>2, <2>4 DEF TreeWellFormed
  <1> QED
    BY <1>1, <1>2

\* Every change by nodes that are new keeps a tree well formed.
LEMMA ChangedWellFormed ==
    ASSUME NEW t, NEW u, NEW made, NEW place, NEW gone, NEW cleared,
           IsTree(t), WellFormed(t), Changed(t, u, made, place, gone, cleared),
           Root \notin gone, Root \notin cleared,
           \A x \in made : x.id \notin Ids(t) /\ (x.role = "group" => place = Root),
           \A x, y \in made : x = y
    PROVE  WellFormed(u)
  <1>1. \A g \in DOMAIN u : Related(u[g], IdsDiffer)
    BY DEF Changed
  <1>2. \A g \in DOMAIN t : \A x \in Elements(t[g]) : x.id \in Ids(t)
    BY NodesAre
  <1>3. ASSUME NEW g \in DOMAIN u, NEW h \in DOMAIN u,
               NEW a \in Elements(u[g]), NEW b \in Elements(u[h]), a.id = b.id
        PROVE  g = h
    <2>1. \/ a \in made /\ g = place
          \/ g \in DOMAIN t /\ a \in Elements(t[g])
      BY DEF Changed
    <2>2. \/ b \in made /\ h = place
          \/ h \in DOMAIN t /\ b \in Elements(t[h])
      BY DEF Changed
    <2>3. CASE a \in made
      BY <1>2, <1>3, <2>1, <2>2, <2>3
    <2>4. CASE b \in made
      BY <1>2, <1>3, <2>1, <2>2, <2>4
    <2>5. CASE a \notin made /\ b \notin made
      BY <1>3, <2>1, <2>2, <2>5 DEF WellFormed
    <2> QED
      BY <2>3, <2>4, <2>5
  <1>4. Root \in DOMAIN t /\ Root \in DOMAIN u
    BY DEF Changed, IsTree
  <1>5. ASSUME NEW g \in DOMAIN u \ {Root}
        PROVE  \E n \in Elements(u[Root]) : n.role = "group" /\ n.id = g
    <2>1. \/ g \in DOMAIN t \ gone
          \/ \E m \in made : m.role = "group" /\ m.id = g
      BY DEF Changed
    <2>2. CASE g \in DOMAIN t \ gone
      <3>1. PICK n \in Elements(t[Root]) : n.role = "group" /\ n.id = g
        BY <2>2 DEF WellFormed
      <3>2. n \in Elements(u[Root])
        BY <1>4, <2>2, <3>1 DEF Changed
      <3> QED
        BY <3>1, <3>2
    <2>3. CASE \E m \in made : m.role = "group" /\ m.id = g
      BY <2>3 DEF Changed
    <2> QED
      BY <2>1, <2>2, <2>3
  <1>6. ASSUME NEW g \in DOMAIN u, NEW n \in Elements(u[g]), n.role = "group"
        PROVE  g = Root /\ n.id \in DOMAIN u
    <2>1. \/ n \in made /\ g = place
          \/ g \in DOMAIN t /\ n \in Elements(t[g]) /\ n.id \notin gone
      BY DEF Changed
    <2>2. CASE n \in made /\ g = place
      BY <1>6, <2>2 DEF Changed
    <2>3. CASE g \in DOMAIN t /\ n \in Elements(t[g]) /\ n.id \notin gone
      <3>1. g = Root /\ n.id \in DOMAIN t \ gone
        BY <1>6, <2>3 DEF WellFormed
      <3> QED
        BY <3>1 DEF Changed
    <2> QED
      BY <2>1, <2>2, <2>3
  <1> QED
    BY <1>1, <1>3, <1>5, <1>6 DEF WellFormed

-----------------------------------------------------------------------------
(* What the operations of the server change. *)

\* ParentOf and IndexOf find the node whose id is in use.
LEMMA Found ==
    ASSUME NEW t, IsTree(t), NEW i \in Ids(t) \ {Root}
    PROVE  LET g == ParentOf(t, i)
               k == IndexOf(t[g], i)
           IN  g \in DOMAIN t /\ k \in 1 .. Len(t[g]) /\ t[g][k].id = i
  <1> DEFINE g == ParentOf(t, i)
             k == IndexOf(t[g], i)
  <1>1. \E h \in DOMAIN t : \E n \in Elements(t[h]) : n.id = i
    BY NodesAre
  <1>2. g \in DOMAIN t /\ \E n \in Elements(t[g]) : n.id = i
    BY <1>1 DEF ParentOf
  <1> HIDE DEF g
  <1>3. \E l \in DOMAIN t[g] : t[g][l].id = i
    BY <1>2, ListOf
  <1>4. k \in DOMAIN t[g] /\ t[g][k].id = i
    BY <1>3 DEF IndexOf
  <1>5. k \in 1 .. Len(t[g])
    BY <1>2, <1>4, ListOf
  <1> QED
    BY <1>2, <1>4, <1>5 DEF g

\* A list with a new node keeps its ids apart.
LEMMA NewIdApart ==
    ASSUME NEW t, IsTree(t), NEW g \in DOMAIN t, NEW n \in NodeSet, n.id \notin Ids(t)
    PROVE  \A x \in Elements(t[g]) : <<n, x>> \in IdsDiffer /\ <<x, n>> \in IdsDiffer
  <1> SUFFICES ASSUME NEW x \in Elements(t[g])
               PROVE  <<n, x>> \in IdsDiffer /\ <<x, n>> \in IdsDiffer
    OBVIOUS
  <1>1. x \in NodeSet /\ x.id \in Ids(t)
    BY ListOf, NodesAre
  <1>2. n.id # x.id
    BY <1>1
  <1> QED
    BY <1>1, <1>2 DEF IdsDiffer

\* The list that s becomes when n joins its group at the head or the tail.
Lengthened(s, n, action) == IF action = "head" THEN <<n>> \o s ELSE Append(s, n)

\* u is t after n has joined the group g, has gone before the k-th node of g,
\* or has taken its place.
JoinedAt(t, u, n, action, g) ==
    /\ Changed(t, u, {n}, g, {}, {})
    /\ u[g] = Lengthened(t[g], n, action)
    /\ \A h \in DOMAIN t \ {g} : u[h] = t[h]
    /\ n.role = "group" => u[n.id] = << >>
PutBefore(t, u, n, g, k) ==
    /\ Changed(t, u, {n}, g, {}, {})
    /\ u[g] = Spliced(t[g], k, n, k)
    /\ \A h \in DOMAIN t \ {g} : u[h] = t[h]
PutInPlace(t, u, n, i, g, k) ==
    /\ Changed(t, u, {n}, g, {i}, {})
    /\ Len(u[g]) = Len(t[g]) /\ u[g][k] = n
    /\ \A j \in 1 .. Len(t[g]) : j # k => u[g][j] = t[g][j]
    /\ \A h \in DOMAIN t \ {g, i} : u[h] = t[h]

\* Group_AddHead, Group_AddTail and Group_New: what a node that joins a group
\* changes.
LEMMA IntoChanges ==
    ASSUME NEW t, IsTree(t), WellFormed(t), NEW n \in NodeSet, n.id \notin Ids(t),
           NEW action, action = "head" \/ action = "tail", NEW g \in DOMAIN t,
           n.role = "group" => g = Root, NEW u, u = Entered(t, n, action, g)
    PROVE  JoinedAt(t, u, n, action, g)
  <1> DEFINE r == Lengthened(t[g], n, action)
             l == LinkedInto(t, n, action, g)
  <1>1. l = Linked(t, n, action, g)
    BY DEF Linked
  <1>2. t = [h \in DOMAIN t |-> t[h]] /\ DOMAIN t \subseteq Nat /\ Root \in DOMAIN t
    BY DEF IsTree
  <1>3. /\ DOMAIN l = DOMAIN t /\ l[g] = r
        /\ \A h \in DOMAIN t \ {g} : l[h] = t[h]
    BY <1>2 DEF LinkedInto, Lengthened
  <1>4. n.id \notin DOMAIN t /\ n.id \in Nat
    BY GroupIds DEF NodeSet
  <1>5. /\ \A h : h \in DOMAIN u <=> h \in DOMAIN t \/ (n.role = "group" /\ h = n.id)
        /\ \A h \in DOMAIN t : u[h] = l[h]
        /\ n.role = "group" => u[n.id] = << >>
        /\ u = [h \in DOMAIN u |-> u[h]]
    <2>1. CASE n.role = "group"
      <3>1. u = [h \in DOMAIN t \cup {n.id} |-> IF h = n.id THEN << >> ELSE l[h]]
        BY <1>1, <2>1 DEF Entered
      <3> HIDE DEF l
      <3> QED
        BY <1>4, <2>1, <3>1
    <2>2. CASE n.role # "group"
      <3>1. u = l
        BY <1>1, <2>2 DEF Entered
      <3>2. l = [h \in DOMAIN l |-> l[h]]
        BY <1>2 DEF LinkedInto
      <3> HIDE DEF l
      <3> QED
        BY <1>3, <2>2, <3>1, <3>2
    <2> QED
      BY <2>1, <2>2
  <1> HIDE DEF l
  <1>6. t[g] \in Seq(NodeSet) /\ Related(t[g], IdsDiffer)
    BY ListOf DEF WellFormed
  <1>7. r \in Seq(NodeSet) /\ Elements(r) = Elements(t[g]) \cup {n} /\ Related(r, IdsDiffer)
    <2>1. \A x \in Elements(t[g]) : <<n, x>> \in IdsDiffer /\ <<x, n>> \in IdsDiffer
      BY NewIdApart
    <2>2. CASE action = "head"
      <3>1. r = <<n>> \o t[g]
        BY <2>2 DEF Lengthened
      <3> HIDE DEF r
      <3> QED
        BY <1>6, <2>1, <3>1, Prepended
    <2>3. CASE action = "tail"
      <3>1. r = Append(t[g], n)
        BY <2>3 DEF Lengthened
      <3> HIDE DEF r
      <3> QED
        BY <1>6, <2>1, <3>1, Appended
    <2> QED
      BY <2>2, <2>3
  <1> HIDE DEF r
  <1>8. u[g] = r /\ \A h \in DOMAIN t \ {g} : u[h] = t[h]
    BY <1>3, <1>5
  <1>9. Elements(<< >>) = {} /\ << >> \in Seq(NodeSet) /\ Related(<< >>, IdsDiffer)
    BY DEF Elements, Related
  <1>10. ASSUME NEW h \in DOMAIN u
         PROVE  /\ u[h] \in Seq(NodeSet) /\ Related(u[h], IdsDiffer)
                /\ \A x \in Elements(u[h]) :
                     \/ x = n /\ h = g
                     \/ h \in DOMAIN t /\ x \in Elements(t[h])
    <2>1. CASE h = g
      BY <1>7, <1>8, <2>1
    <2>2. CASE h \in DOMAIN t \ {g}
      BY <1>8, <2>2, ListOf DEF WellFormed
    <2>3. CASE n.role = "group" /\ h = n.id
      BY <1>5, <1>9, <2>3
    <2> QED
      BY <1>5, <2>1, <2>2, <2>3
  <1>11. IsTree(u)
    BY <1>2, <1>4, <1>5, <1>10 DEF IsTree
  <1>12. \A h \in DOMAIN t : \A x \in Elements(t[h]) : x \in Elements(u[h])
    BY <1>7, <1>8
  <1>13. n \in Elements(u[g]) /\ g \in DOMAIN u
    BY <1>5, <1>7, <1>8
  <1>14. Changed(t, u, {n}, g, {}, {})
    BY <1>5, <1>10, <1>11, <1>12, <1>13 DEF Changed
  <1> QED
    BY <1>5, <1>8, <1>14 DEF r, JoinedAt

\* A node that is replaced or removed is not the group it is in.
LEMMA NotItself ==
    ASSUME NEW t, IsTree(t), WellFormed(t), NEW g \in DOMAIN t, NEW x \in Elements(t[g]),
           x.id # Root
    PROVE  x.id # g
  <1> SUFFICES ASSUME x.id = g PROVE FALSE
    OBVIOUS
  <1>1. PICK n \in Elements(t[Root]) : n.id = g
    BY DEF WellFormed
  <1>2. Root \in DOMAIN t
    BY DEF IsTree
  <1>3. g = Root
    BY <1>1, <1>2, OneNode
  <1> QED
    BY <1>3

\* Node_AddBefore: what a synth changes that goes before another node.
LEMMA BeforeChanges ==
    ASSUME NEW t, IsTree(t), WellFormed(t), NEW n \in NodeSet, n.id \notin Ids(t),
           NEW i \in Ids(t), i # Root, n.role # "group",
           NEW u, u = Entered(t, n, "before", i)
    PROVE  \E g \in DOMAIN t : \E k \in 1 .. Len(t[g]) :
               t[g][k].id = i /\ PutBefore(t, u, n, g, k)
  <1> DEFINE g == ParentOf(t, i)
             k == IndexOf(t[g], i)
             r == Spliced(t[g], k, n, k)
  <1>1. g \in DOMAIN t /\ k \in 1 .. Len(t[g]) /\ t[g][k].id = i
    BY Found
  <1>2. u = [h \in DOMAIN t \ {} |-> [t EXCEPT ![g] = r][h]]
    <2>1. Cardinality({}) = 0 /\ k + 0 = k
      BY <1>1, FS_EmptySet
    <2> QED
      BY <1>1, <2>1 DEF Entered, Linked, LinkedAt, Spliced
  <1> HIDE DEF r, k, g
  <1>3. t = [h \in DOMAIN t |-> t[h]] /\ DOMAIN t \subseteq Nat /\ Root \in DOMAIN t
    BY DEF IsTree
  <1>4. DOMAIN u = DOMAIN t /\ u = [h \in DOMAIN t |-> u[h]]
    BY <1>2
  <1>5. u[g] = r /\ \A h \in DOMAIN t \ {g} : u[h] = t[h]
    BY <1>1, <1>2, <1>3
  <1>6. t[g] \in Seq(NodeSet) /\ Related(t[g], IdsDiffer)
    BY <1>1, ListOf DEF WellFormed
  <1>7. r \in Seq(NodeSet) /\ Elements(r) = Elements(t[g]) \cup {n} /\ Related(r, IdsDiffer)
    <2> DEFINE s == t[g]
    <2>0. s \in Seq(NodeSet) /\ k \in 1 .. Len(s)
      BY <1>1, <1>6
    <2> HIDE DEF s
    <2>1. Spliced(s, k, n, k) \in Seq(NodeSet)
      BY <2>0, Inserted, Zenon
    <2>5. \A x : x \in Elements(Spliced(s, k, n, k)) <=> x \in Elements(s) \/ x = n
      BY <2>0, Inserted, Zenon
    <2>6. /\ Related(s, IdsDiffer)
          /\ \A j \in 1 .. k - 1 : <<s[j], n>> \in IdsDiffer
          /\ \A j \in k .. Len(s) : <<n, s[j]>> \in IdsDiffer
          => Related(Spliced(s, k, n, k), IdsDiffer)
      BY <2>0, Inserted, Zenon
    <2>2. \A j \in 1 .. Len(t[g]) : t[g][j] \in Elements(t[g])
      BY <1>1, ListOf
    <2>3. \A j : j \in 1 .. k - 1 \/ j \in k .. Len(t[g]) => j \in 1 .. Len(t[g])
      BY <1>1, <1>6
    <2>4. \A x \in Elements(t[g]) : <<n, x>> \in IdsDiffer /\ <<x, n>> \in IdsDiffer
      BY <1>1, NewIdApart
    <2> QED
      BY <1>6, <2>1, <2>2, <2>3, <2>4, <2>5, <2>6 DEF r, s
  <1>8. ASSUME NEW h \in DOMAIN u
        PROVE  /\ u[h] \in Seq(NodeSet) /\ Related(u[h], IdsDiffer)
               /\ \A x \in Elements(u[h]) :
                    (x = n /\ h = g) \/ x \in Elements(t[h])
    <2>1. CASE h = g
      BY <1>5, <1>7, <2>1
    <2>2. CASE h \in DOMAIN t \ {g}
      BY <1>5, <2>2, ListOf DEF WellFormed
    <2> QED
      BY <1>4, <2>1, <2>2
  <1>9. IsTree(u)
    BY <1>3, <1>4, <1>8 DEF IsTree
  <1>10. Changed(t, u, {n}, g, {}, {})
    BY <1>1, <1>4, <1>5, <1>7, <1>8, <1>9 DEF Changed
  <1> QED
    BY <1>1, <1>5, <1>10 DEF r, PutBefore

\* Node_Replace: what a synth changes that takes another node's place.
LEMMA ReplaceChanges ==
    ASSUME NEW t, IsTree(t), WellFormed(t), NEW n \in NodeSet, n.id \notin Ids(t),
           NEW i \in Ids(t), i # Root, n.role # "group",
           NEW u, u = Entered(t, n, "replace", i)
    PROVE  \E g \in DOMAIN t : \E k \in 1 .. Len(t[g]) :
               t[g][k].id = i /\ PutInPlace(t, u, n, i, g, k)
  <1> DEFINE g == ParentOf(t, i)
             k == IndexOf(t[g], i)
             r == Spliced(t[g], k, n, k + 1)
  <1>1. g \in DOMAIN t /\ k \in 1 .. Len(t[g]) /\ t[g][k].id = i
    BY Found
  <1>2. u = [h \in DOMAIN t \ {i} |-> [t EXCEPT ![g] = r][h]]
    <2>1. Cardinality({i}) = 1
      BY FS_Singleton
    <2> QED
      BY <1>1, <2>1 DEF Entered, Linked, LinkedAt, Spliced
  <1> HIDE DEF r, k, g
  <1>3. t = [h \in DOMAIN t |-> t[h]] /\ DOMAIN t \subseteq Nat /\ Root \in DOMAIN t
    BY DEF IsTree
  <1>4. DOMAIN u = DOMAIN t \ {i} /\ u = [h \in DOMAIN u |-> u[h]]
    BY <1>2
  <1>5. t[g][k] \in Elements(t[g]) /\ g # i /\ Root # i
    <2>1. t[g][k] \in Elements(t[g])
      BY <1>1, ListOf
    <2> QED
      BY <1>1, <2>1, NotItself
  <1>6. u[g] = r /\ \A h \in DOMAIN t \ {g, i} : u[h] = t[h]
    BY <1>1, <1>2, <1>3, <1>5
  <1>7. t[g] \in Seq(NodeSet) /\ Related(t[g], IdsDiffer) /\ Len(t[g]) \in Nat
    BY <1>1, ListOf DEF WellFormed
  <1>8. /\ r \in Seq(NodeSet) /\ Len(r) = Len(t[g]) /\ r[k] = n
        /\ \A j \in 1 .. Len(t[g]) : j # k => r[j] = t[g][j]
    BY <1>1, <1>7, Replaced DEF r
  <1>9. \A x \in Elements(t[g]) : <<n, x>> \in IdsDiffer /\ <<x, n>> \in IdsDiffer
    BY <1>1, NewIdApart
  <1>10. \A j \in 1 .. Len(t[g]) : t[g][j] \in Elements(t[g])
    BY <1>1, ListOf
  <1>11. Related(r, IdsDiffer)
    <2> SUFFICES ASSUME NEW j \in 1 .. Len(r), NEW l \in 1 .. Len(r), j < l
                 PROVE  <<r[j], r[l]>> \in IdsDiffer
      BY DEF Related
    <2>1. CASE j = k
      <3>1. l # k /\ r[l] = t[g][l] /\ t[g][l] \in Elements(t[g])
        BY <1>8, <1>10, <2>1
      <3> QED
        BY <1>8, <1>9, <2>1, <3>1
    <2>2. CASE l = k
      <3>1. j # k /\ r[j] = t[g][j] /\ t[g][j] \in Elements(t[g])
        BY <1>8, <1>10, <2>2
      <3> QED
        BY <1>8, <1>9, <2>2, <3>1
    <2>3. CASE j # k /\ l # k
      <3>1. r[j] = t[g][j] /\ r[l] = t[g][l]
        BY <1>8, <2>3
      <3> QED
        BY <1>7, <1>8, <3>1 DEF Related
    <2> QED
      BY <2>1, <2>2, <2>3
  <1>12. ASSUME NEW x \in Elements(r) PROVE x = n \/ (x \in Elements(t[g]) /\ x.id # i)
    <2>1. PICK j \in 1 .. Len(r) : r[j] = x
      BY <1>8, InSequence
    <2>2. CASE j = k
      BY <1>8, <2>1, <2>2
    <2>3. CASE j # k
      <3>1. x = t[g][j] /\ x \in Elements(t[g])
        BY <1>8, <1>10, <2>1, <2>3
      <3>2. x.id # i
        BY <1>1, <1>7, <1>8, <2>3, <3>1, IdsInList
      <3> QED
        BY <3>1, <3>2
    <2> QED
      BY <2>2, <2>3
  <1>13. ASSUME NEW x \in Elements(t[g]), x.id # i PROVE x \in Elements(r)
    <2>1. PICK j \in 1 .. Len(t[g]) : t[g][j] = x
      BY <1>1, ListOf
    <2>2. j # k /\ r[j] = x /\ j \in 1 .. Len(r)
      BY <1>1, <1>8, <1>13, <2>1
    <2> QED
      BY <1>8, <2>2, InSequence
  <1>14. n \in Elements(r)
    <2>1. k \in 1 .. Len(r)
      BY <1>1, <1>8
    <2> QED
      BY <1>8, <2>1, InSequence
  <1>15. ASSUME NEW h \in DOMAIN t, h # g, NEW x \in Elements(t[h]) PROVE x.id # i
    BY <1>1, <1>5, <1>15, OneNode
  <1>16. ASSUME NEW h \in DOMAIN u
         PROVE  /\ u[h] \in Seq(NodeSet) /\ Related(u[h], IdsDiffer)
                /\ \A x \in Elements(u[h]) :
                     (x = n /\ h = g) \/ (x \in Elements(t[h]) /\ x.id # i)
    <2>1. CASE h = g
      BY <1>6, <1>8, <1>11, <1>12, <2>1
    <2>2. CASE h \in DOMAIN t \ {g, i}
      BY <1>6, <1>15, <2>2, ListOf DEF WellFormed
    <2> QED
      BY <1>4, <2>1, <2>2
  <1>17. IsTree(u)
    BY <1>3, <1>4, <1>5, <1>16 DEF IsTree
  <1>18. ASSUME NEW h \in DOMAIN t, NEW x \in Elements(t[h]), h # i, x.id # i
         PROVE  x \in Elements(u[h])
    BY <1>6, <1>13, <1>18
  <1>19. g \in DOMAIN u /\ n \in Elements(u[g])
    BY <1>1, <1>4, <1>5, <1>6, <1>14
  <1>20. Changed(t, u, {n}, g, {i}, {})
    BY <1>4, <1>16, <1>17, <1>18, <1>19 DEF Changed
  <1> QED
    BY <1>1, <1>6, <1>8, <1>20 DEF PutInPlace

\* Node_Delete: what a node that leaves the tree changes.
LEMMA DeletedChanges ==
    ASSUME NEW t, IsTree(t), WellFormed(t), NEW i, i # Root, NEW u, u = Deleted(t, i)
    PROVE  /\ Changed(t, u, {}, Root, {i}, {})
           /\ \A g \in DOMAIN u : \A R : Related(t[g], R) => Related(u[g], R)
  <1>1. /\ DOMAIN u = DOMAIN t \ {i} /\ u = [g \in DOMAIN u |-> u[g]]
        /\ \A g \in DOMAIN u : u[g] = OtherThan(t[g], i)
    BY DEF Deleted
  <1>2. DOMAIN t \subseteq Nat /\ Root \in DOMAIN t
    BY DEF IsTree
  <1>3. ASSUME NEW g \in DOMAIN u
        PROVE  /\ u[g] \in Seq(NodeSet)
               /\ Elements(u[g]) = { x \in Elements(t[g]) : x.id # i }
               /\ \A R : Related(t[g], R) => Related(u[g], R)
    BY <1>1, ListOf, TakenOut
  <1>4. \A g \in DOMAIN u : Related(u[g], IdsDiffer)
    BY <1>1, <1>3 DEF WellFormed
  <1>5. IsTree(u)
    BY <1>1, <1>2, <1>3 DEF IsTree
  <1>6. Changed(t, u, {}, Root, {i}, {})
    BY <1>1, <1>3, <1>4, <1>5 DEF Changed
  <1> QED
    BY <1>3, <1>6

\* Group_DeleteAll: what emptying a group changes.
LEMMA EmptiedChanges ==
    ASSUME NEW t, IsTree(t), WellFormed(t), NEW i \in DOMAIN t,
           NEW u, u = Emptied(t, i)
    PROVE  /\ Changed(t, u, {}, Root, {}, {i})
           /\ DOMAIN u = DOMAIN t /\ u[i] = << >>
           /\ \A g \in DOMAIN t \ {i} : u[g] = t[g]
  <1>1. t = [h \in DOMAIN t |-> t[h]] /\ DOMAIN t \subseteq Nat /\ Root \in DOMAIN t
    BY DEF IsTree
  <1>2. /\ DOMAIN u = DOMAIN t /\ u = [g \in DOMAIN t |-> u[g]]
        /\ u[i] = << >>
        /\ \A g \in DOMAIN t \ {i} : u[g] = t[g]
    BY <1>1 DEF Emptied
  <1>3. Elements(<< >>) = {} /\ << >> \in Seq(NodeSet) /\ Related(<< >>, IdsDiffer)
    BY DEF Elements, Related
  <1>4. ASSUME NEW g \in DOMAIN t
        PROVE  /\ u[g] \in Seq(NodeSet) /\ Related(u[g], IdsDiffer)
               /\ Elements(u[g]) \subseteq Elements(t[g])
               /\ g # i => u[g] = t[g]
    <2>1. CASE g = i
      BY <1>2, <1>3, <2>1
    <2>2. CASE g # i
      BY <1>2, <2>2, ListOf DEF WellFormed
    <2> QED
      BY <2>1, <2>2
  <1>5. IsTree(u)
    BY <1>1, <1>2, <1>4 DEF IsTree
  <1>6. Changed(t, u, {}, Root, {}, {i})
    BY <1>2, <1>4, <1>5 DEF Changed
  <1> QED
    BY <1>2, <1>6

-----------------------------------------------------------------------------
(* The signal path of a group. *)

\* Nothing comes after a connector, and only a connector after an effect.
PathOrder ==
    { p \in NodeSet \X NodeSet :
        p[1].role # "output" /\ (p[1].role = "effect" => p[2].role = "output") }

\* SignalPath, of the list of one group.
Path(s) ==
    /\ Related(s, PathOrder)
    /\ \A a \in Elements(s) :
         a.role = "effect" => \E b \in Elements(s) : b.role = "output"

\* Path says what SignalPath says.
LEMMA PathMeans ==
    ASSUME NEW s \in Seq(NodeSet), Path(s), NEW k \in DOMAIN s
    PROVE  /\ s[k].role = "output" => k = Len(s)
           /\ s[k].role = "effect" =>
                k = Len(s) - 1 /\ s[k + 1].role = "output"
  <1>1. k \in 1 .. Len(s) /\ Len(s) \in Nat /\ Len(s) \in 1 .. Len(s)
    OBVIOUS
  <1>2. ASSUME NEW i \in 1 .. Len(s), NEW j \in 1 .. Len(s), i < j
        PROVE  s[i].role # "output" /\ (s[i].role = "effect" => s[j].role = "output")
    <2>1. <<s[i], s[j]>> \in PathOrder
      BY <1>2 DEF Path, Related
    <2> QED
      BY <2>1 DEF PathOrder
  <1>3. \A i \in 1 .. Len(s) : s[i].role = "output" => i = Len(s)
    <2> SUFFICES ASSUME NEW i \in 1 .. Len(s), s[i].role = "output", i # Len(s) PROVE FALSE
      OBVIOUS
    <2>1. i < Len(s)
      BY <1>1
    <2> QED
      BY <1>1, <1>2, <2>1
  <1>4. ASSUME s[k].role = "effect" PROVE k = Len(s) - 1 /\ s[k + 1].role = "output"
    <2>1. s[k] \in Elements(s)
      BY <1>1, InSequence
    <2>2. PICK b \in Elements(s) : b.role = "output"
      BY <1>4, <2>1 DEF Path
    <2>3. PICK l \in 1 .. Len(s) : s[l] = b
      BY InSequence
    <2>4. l = Len(s) /\ s[Len(s)].role = "output"
      BY <1>3, <2>2, <2>3
    <2>5. k # Len(s)
      BY <1>4, <2>4
    <2>6. k < Len(s) /\ k + 1 \in 1 .. Len(s) /\ k < k + 1
      BY <1>1, <2>5
    <2>7. s[k + 1].role = "output"
      BY <1>1, <1>2, <1>4, <2>6
    <2>8. k + 1 = Len(s)
      BY <1>3, <2>6, <2>7
    <2> QED
      BY <1>1, <2>7, <2>8
  <1> QED
    BY <1>1, <1>3, <1>4

\* An empty group has its signal path.
LEMMA PathOfNone == Path(<< >>)
  BY DEF Path, Related, Elements

\* A note at the head of a group.
LEMMA PathWithNote ==
    ASSUME NEW s \in Seq(NodeSet), Path(s), NEW n \in NodeSet, n.role = "note"
    PROVE  Path(<<n>> \o s)
  <1>1. \A x \in Elements(s) : x \in NodeSet
    BY InSequence
  <1>2. \A x \in Elements(s) : <<n, x>> \in PathOrder
    BY <1>1 DEF PathOrder
  <1>3. Related(<<n>> \o s, PathOrder)
    BY <1>2, Prepended DEF Path
  <1>4. Elements(<<n>> \o s) = Elements(s) \cup {n}
    BY Prepended
  <1> QED
    BY <1>3, <1>4 DEF Path

\* The connector at the tail of a group that has none.
LEMMA PathWithOutput ==
    ASSUME NEW s \in Seq(NodeSet), Path(s), NEW n \in NodeSet, n.role = "output",
           \A x \in Elements(s) : x.role # "output"
    PROVE  Path(Append(s, n))
  <1>1. \A x \in Elements(s) : x \in NodeSet
    BY InSequence
  <1>2. \A x \in Elements(s) : <<x, n>> \in PathOrder
    BY <1>1 DEF PathOrder
  <1>3. Related(Append(s, n), PathOrder)
    BY <1>2, Appended DEF Path
  <1>4. Elements(Append(s, n)) = Elements(s) \cup {n}
    BY Appended
  <1> QED
    BY <1>3, <1>4 DEF Path

\* The first effect, before the connector.
LEMMA PathWithEffect ==
    ASSUME NEW s \in Seq(NodeSet), Path(s), NEW n \in NodeSet, n.role = "effect",
           NEW k \in 1 .. Len(s), s[k].role = "output",
           \A x \in Elements(s) : x.role # "effect"
    PROVE  Path(Spliced(s, k, n, k))
  <1>0. Len(s) \in Nat /\ \A i \in 1 .. Len(s) : s[i] \in NodeSet /\ s[i] \in Elements(s)
    BY InSequence
  <1>1. k = Len(s)
    BY PathMeans
  <1>2. \A i \in 1 .. k - 1 : i \in 1 .. Len(s) /\ i < k
    BY <1>0
  <1>3. ASSUME NEW i \in 1 .. k - 1 PROVE <<s[i], n>> \in PathOrder
    <2>1. i \in 1 .. Len(s) /\ i # Len(s)
      BY <1>0, <1>1
    <2>2. s[i].role # "output" /\ s[i].role # "effect" /\ s[i] \in NodeSet
      BY <1>0, <2>1, PathMeans
    <2> QED
      BY <2>2 DEF PathOrder
  <1>4. \A i \in k .. Len(s) : i = k
    BY <1>0, <1>1
  <1>5. \A i \in k .. Len(s) : <<n, s[i]>> \in PathOrder
    BY <1>0, <1>4 DEF PathOrder
  <1>6. Related(s, PathOrder)
    BY DEF Path
  <1>7. Related(Spliced(s, k, n, k), PathOrder)
    BY <1>3, <1>5, <1>6, Inserted, Zenon
  <1>8. \A x : x \in Elements(Spliced(s, k, n, k)) <=> x \in Elements(s) \/ x = n
    BY Inserted, Zenon
  <1>9. s[k] \in Elements(Spliced(s, k, n, k))
    BY <1>0, <1>8
  <1> QED
    BY <1>7, <1>9 DEF Path

\* A later effect, in the place of the one before it.
LEMMA PathWithNewEffect ==
    ASSUME NEW s \in Seq(NodeSet), Path(s), NEW r \in Seq(NodeSet), Len(r) = Len(s),
           NEW k \in 1 .. Len(s), s[k].role = "effect", r[k].role = "effect",
           \A j \in 1 .. Len(s) : j # k => r[j] = s[j]
    PROVE  Path(r)
  <1>0. Len(s) \in Nat
    OBVIOUS
  <1>1. \A j \in 1 .. Len(s) : r[j].role = s[j].role /\ r[j] \in NodeSet /\ s[j] \in NodeSet
    OBVIOUS
  <1>2. ASSUME NEW i \in 1 .. Len(r), NEW j \in 1 .. Len(r), i < j
        PROVE  <<r[i], r[j]>> \in PathOrder
    <2>1. <<s[i], s[j]>> \in PathOrder
      BY <1>2 DEF Path, Related
    <2> QED
      BY <1>1, <2>1 DEF PathOrder
  <1>3. s[k] \in Elements(s)
    BY InSequence
  <1>4. PICK b \in Elements(s) : b.role = "output"
    BY <1>3 DEF Path
  <1>5. PICK l \in 1 .. Len(s) : s[l] = b
    BY InSequence
  <1>6. r[l].role = "output" /\ r[l] \in Elements(r)
    BY <1>1, <1>4, <1>5, InSequence
  <1> QED
    BY <1>2, <1>6 DEF Path, Related

\* A group with some of its nodes gone, none of them a connector.
LEMMA PathWithLess ==
    ASSUME NEW s, Path(s), NEW r, Related(s, PathOrder) => Related(r, PathOrder),
           \A x \in Elements(r) : x \in Elements(s),
           \A x \in Elements(s) : x.role = "output" => x \in Elements(r)
    PROVE  Path(r)
  BY DEF Path

-----------------------------------------------------------------------------
(* The invariant of any delivery. *)

\* What a worm has done so far, and the roles of synths.
Lives == {"unborn", "alive", "cleared", "clearedTwice"}
SynthRoles == {"output", "effect", "note"}

\* What the client knows.
Client ==
    [life |-> life, group |-> groupID, output |-> outputNodeID,
     effect |-> activeEffectID, last |-> lastNodeID, lastGroup |-> lastGroupID]

\* The types of what the client knows.
IsClient(s) ==
    /\ s.life \in [Worms -> Lives]
    /\ s.group \in [Worms -> Int] /\ s.output \in [Worms -> Int]
    /\ s.effect \in [Worms -> Int]
    /\ s.last \in NodeBase .. NodeBase + MaxIssued
    /\ s.lastGroup \in Nat /\ s.lastGroup >= 1

\* Its synths have been mantled.
Born(w, s) == s.life[w] # "unborn"

\* The ids a worm keeps were handed out, and a group id to one worm only.
IdsHandedOut(s) ==
    /\ \A w \in Worms :
         /\ ~Born(w, s) => s.effect[w] = Nil
         /\ Born(w, s) => /\ s.group[w] \in 1 .. s.lastGroup
                          /\ s.output[w] \in NodeBase + 1 .. s.last
         /\ s.effect[w] # Nil => s.effect[w] \in NodeBase + 1 .. s.last
    /\ \A v, w \in Worms :
         Born(v, s) /\ Born(w, s) /\ s.group[v] = s.group[w] => v = w

\* The worm of n has asked for it.
Issued(n, s) ==
    /\ Born(n.worm, s)
    /\ n.role \in SynthRoles \cup {"group"}
    /\ n.role = "group" => n.id = s.group[n.worm]
    /\ n.role # "group" => n.id \in NodeBase + 1 .. s.last
    /\ n.role = "output" => n.id = s.output[n.worm]
    /\ n.role = "effect" => n.id <= s.effect[n.worm]

\* The worm of c may have sent it.
Formed(c, s) ==
    LET w == c.node.worm
        role == c.node.role
    IN  /\ Born(w, s)
        /\ role \in SynthRoles \cup {"group"} => Issued(c.node, s)
        /\ role = "group" => c.action = "tail" /\ c.target = Root
        /\ role = "output" => c.action = "tail" /\ c.target = s.group[w]
        /\ role = "note" => c.action = "head" /\ c.target = s.group[w]
        /\ role = "effect" =>
              \/ c.action = "before" /\ c.target = s.output[w]
              \/ c.action = "replace" /\ c.target \in NodeBase + 1 .. c.node.id - 1
        /\ role \in {"freeAll", "free"} =>
              c.action = role /\ c.target = s.group[w] /\ s.life[w] # "alive"

\* Every command on its way is one that its worm may have sent.
AllFormed(q, s) == \A k \in 1 .. Len(q) : Formed(q[k], s)

\* The synths that the tree holds, that are about to be made, or that a worm
\* or a command refers to.
Named(a, t, q, s) ==
    \/ a \in Nodes(t) /\ a.role # "group"
    \/ \E k \in 1 .. Len(q) : q[k].node = a /\ a.role \in SynthRoles
    \/ \E k \in 1 .. Len(q) :
         q[k].action = "replace" /\ a = Node(q[k].target, q[k].node.worm, "effect")
    \/ \E w \in Worms : Born(w, s) /\ a = Node(s.output[w], w, "output")
    \/ \E w \in Worms : s.effect[w] # Nil /\ a = Node(s.effect[w], w, "effect")

\* An id names one synth, whoever names it.
OneName(t, q, s) ==
    /\ \A a, b \in NodeSet :
         Named(a, t, q, s) /\ Named(b, t, q, s) /\ a.id = b.id => a = b
    /\ \A a \in NodeSet : Named(a, t, q, s) => a.id \in NodeBase + 1 .. s.last

\* Every node of the tree is one that its worm has asked for.
AllIssued(t, s) == \A n \in Nodes(t) : Issued(n, s)

\* Synths are in the group of their worm, unless they are in the root group.
InOwnGroup(t, s) ==
    \A g \in DOMAIN t \ {Root} : \A n \in Elements(t[g]) : s.group[n.worm] = g

\* No node is made twice.
Once(t, q) ==
    /\ \A k \in 1 .. Len(q) : Makes(q[k]) => q[k].node \notin Nodes(t)
    /\ \A j, k \in 1 .. Len(q) :
         j # k /\ Makes(q[j]) /\ Makes(q[k]) => q[j].node # q[k].node

\* Only the first effect of a worm is put before the connector.
OneBefore(t, q) ==
    \A k \in 1 .. Len(q) : q[k].action = "before" =>
        /\ \A n \in Nodes(t) : n.worm = q[k].node.worm => n.role # "effect"
        /\ \A j \in 1 .. Len(q) :
             j # k /\ q[j].action = "before" => q[j].node.worm # q[k].node.worm

\* Groups hang in the root group, and have their signal paths.
Paths(t) ==
    /\ \A x \in Elements(t[Root]) : x.role = "group"
    /\ \A g \in DOMAIN t \ {Root} : Path(t[g])

\* The inductive invariant, of a tree, the commands on their way and what the
\* client knows.
Sound(t, q, s) ==
    /\ IsTree(t) /\ WellFormed(t) /\ q \in Seq(CommandSet) /\ IsClient(s)
    /\ IdsHandedOut(s)
    /\ AllFormed(q, s)
    /\ OneName(t, q, s)
    /\ AllIssued(t, s)
    /\ InOwnGroup(t, s)
    /\ Once(t, q)
    /\ s.lastGroup <= NodeBase => OneBefore(t, q) /\ Paths(t)

-----------------------------------------------------------------------------
\* Every command of q2 is one of q, and no two are the same one.
Within(q2, q) ==
    \E f \in [1 .. Len(q2) -> 1 .. Len(q)] :
        /\ \A i \in 1 .. Len(q2) : q2[i] = q[f[i]]
        /\ \A i, j \in 1 .. Len(q2) : f[i] = f[j] => i = j

\* The invariant stands when commands are lost or change places.
LEMMA SoundWithin ==
    ASSUME NEW t, NEW q, NEW s, Sound(t, q, s), NEW q2 \in Seq(CommandSet), Within(q2, q)
    PROVE  Sound(t, q2, s)
  <1>1. PICK f \in [1 .. Len(q2) -> 1 .. Len(q)] :
            /\ \A i \in 1 .. Len(q2) : q2[i] = q[f[i]]
            /\ \A i, j \in 1 .. Len(q2) : f[i] = f[j] => i = j
    BY DEF Within
  <1>2. \A i \in 1 .. Len(q2) : f[i] \in 1 .. Len(q) /\ q2[i] = q[f[i]]
    BY <1>1
  <1>3. \A i, j \in 1 .. Len(q2) : i # j => f[i] # f[j]
    BY <1>1
  <1>4. AllFormed(q2, s)
    BY <1>2 DEF Sound, AllFormed
  <1>5. \A a : Named(a, t, q2, s) => Named(a, t, q, s)
    BY <1>2 DEF Named
  <1>6. OneName(t, q2, s)
    BY <1>5 DEF Sound, OneName
  <1>7. Once(t, q2)
    <2>1. ASSUME NEW k \in 1 .. Len(q2), Makes(q2[k]) PROVE q2[k].node \notin Nodes(t)
      <3>1. f[k] \in 1 .. Len(q) /\ Makes(q[f[k]]) /\ q2[k] = q[f[k]]
        BY <1>2, <2>1
      <3> QED
        BY <3>1 DEF Sound, Once
    <2>2. ASSUME NEW j \in 1 .. Len(q2), NEW k \in 1 .. Len(q2), j # k,
                 Makes(q2[j]), Makes(q2[k])
          PROVE  q2[j].node # q2[k].node
      <3>1. f[k] \in 1 .. Len(q) /\ Makes(q[f[k]]) /\ q2[k] = q[f[k]]
        BY <1>2, <2>2
      <3>2. f[j] \in 1 .. Len(q) /\ Makes(q[f[j]]) /\ q2[j] = q[f[j]]
        BY <1>2, <2>2
      <3>3. f[j] # f[k]
        BY <1>3, <2>2
      <3> QED
        BY <3>1, <3>2, <3>3 DEF Sound, Once
    <2> QED
      BY <2>1, <2>2 DEF Once
  <1>8. ASSUME OneBefore(t, q) PROVE OneBefore(t, q2)
    <2> SUFFICES ASSUME NEW k \in 1 .. Len(q2), q2[k].action = "before"
                 PROVE  /\ \A n \in Nodes(t) : n.worm = q2[k].node.worm => n.role # "effect"
                        /\ \A j \in 1 .. Len(q2) :
                             j # k /\ q2[j].action = "before"
                               => q2[j].node.worm # q2[k].node.worm
      BY DEF OneBefore
    <2>1. f[k] \in 1 .. Len(q) /\ q[f[k]].action = "before" /\ q2[k] = q[f[k]]
      BY <1>2
    <2>2. \A n \in Nodes(t) : n.worm = q2[k].node.worm => n.role # "effect"
      BY <1>8, <2>1 DEF OneBefore
    <2>3. ASSUME NEW j \in 1 .. Len(q2), j # k, q2[j].action = "before"
          PROVE  q2[j].node.worm # q2[k].node.worm
      <3>1. f[j] \in 1 .. Len(q) /\ q[f[j]].action = "before" /\ q2[j] = q[f[j]]
        BY <1>2, <2>3
      <3>2. f[j] # f[k]
        BY <1>3, <2>3
      <3> QED
        BY <1>8, <2>1, <3>1, <3>2 DEF OneBefore
    <2> QED
      BY <2>2, <2>3
  <1> QED
    BY <1>4, <1>6, <1>7, <1>8 DEF Sound

\* A queue without its first, or its k-th, bundle, and with one that has
\* overtaken others.
LEMMA WithinTail ==
    ASSUME NEW q \in Seq(CommandSet), q # << >>
    PROVE  Tail(q) \in Seq(CommandSet) /\ Within(Tail(q), q)
  <1> DEFINE r == Tail(q)
             f == [i \in 1 .. Len(r) |-> i + 1]
  <1>1. /\ r \in Seq(CommandSet) /\ Len(r) = Len(q) - 1 /\ Len(q) \in Nat
        /\ \A i \in 1 .. Len(r) : r[i] = q[i + 1]
    OBVIOUS
  <1> HIDE DEF r
  <1>2. \A i \in 1 .. Len(r) : i + 1 \in 1 .. Len(q)
    BY <1>1
  <1>3. f \in [1 .. Len(r) -> 1 .. Len(q)]
    BY <1>2
  <1>4. \A i \in 1 .. Len(r) : f[i] = i + 1
    OBVIOUS
  <1> HIDE DEF f
  <1>5. \A i, j \in 1 .. Len(r) : f[i] = f[j] => i = j
    BY <1>1, <1>4
  <1>6. Within(r, q)
    BY <1>1, <1>3, <1>4, <1>5 DEF Within
  <1> QED
    BY <1>1, <1>6 DEF r

\* A lost bundle leaves commands that were in the queue, each once.
LEMMA WithinLose ==
    ASSUME NEW q \in Seq(CommandSet), NEW k \in 1 .. Len(q)
    PROVE  LET r == SubSeq(q, 1, k - 1) \o SubSeq(q, k + 1, Len(q))
           IN  r \in Seq(CommandSet) /\ Within(r, q)
  <1> DEFINE a == SubSeq(q, 1, k - 1)
             b == SubSeq(q, k + 1, Len(q))
             r == a \o b
             f == [i \in 1 .. Len(r) |-> IF i < k THEN i ELSE i + 1]
  <1>0. Len(q) \in Nat
    OBVIOUS
  <1>1. a \in Seq(CommandSet) /\ Len(a) = k - 1 /\ \A i \in 1 .. k - 1 : a[i] = q[i]
    BY <1>0
  <1>2. /\ b \in Seq(CommandSet) /\ Len(b) = Len(q) - k
        /\ \A i \in 1 .. Len(q) - k : b[i] = q[i + k]
    BY <1>0
  <1> HIDE DEF a, b
  <1>3. /\ r \in Seq(CommandSet) /\ Len(r) = Len(a) + Len(b)
        /\ \A i \in 1 .. Len(a) : r[i] = a[i]
        /\ \A i \in Len(a) + 1 .. Len(a) + Len(b) : r[i] = b[i - Len(a)]
    <2>1. a \in Seq(CommandSet) /\ b \in Seq(CommandSet)
      BY <1>1, <1>2
    <2> QED
      BY <2>1, Joined
  <1> HIDE DEF r
  <1>4. Len(r) = Len(q) - 1
    BY <1>0, <1>1, <1>2, <1>3
  <1>5. \A i \in 1 .. Len(r) : f[i] = IF i < k THEN i ELSE i + 1
    OBVIOUS
  <1>6. f \in [1 .. Len(r) -> 1 .. Len(q)]
    <2>1. \A i \in 1 .. Len(r) : (IF i < k THEN i ELSE i + 1) \in 1 .. Len(q)
      BY <1>0, <1>4
    <2> QED
      BY <2>1
  <1> HIDE DEF f
  <1>7. \A i, j \in 1 .. Len(r) : f[i] = f[j] => i = j
    BY <1>0, <1>4, <1>5
  <1>8. ASSUME NEW i \in 1 .. Len(r) PROVE r[i] = q[f[i]]
    <2>1. CASE i < k
      <3>1. i \in 1 .. k - 1 /\ i \in 1 .. Len(a) /\ f[i] = i
        BY <1>0, <1>1, <1>5, <2>1
      <3> QED
        BY <1>1, <1>3, <3>1
    <2>2. CASE i >= k
      <3>1. /\ i \in Len(a) + 1 .. Len(a) + Len(b) /\ f[i] = i + 1
            /\ i - Len(a) \in 1 .. Len(q) - k /\ (i - Len(a)) + k = i + 1
        BY <1>0, <1>1, <1>2, <1>4, <1>5, <2>2
      <3>2. r[i] = b[i - Len(a)] /\ b[i - Len(a)] = q[(i - Len(a)) + k]
        BY <1>2, <1>3, <3>1
      <3> QED
        BY <3>1, <3>2
    <2> QED
      BY <1>0, <2>1, <2>2
  <1>9. Within(r, q)
    BY <1>6, <1>7, <1>8 DEF Within
  <1> QED
    BY <1>3, <1>9 DEF a, b, r

\* A bundle that overtakes others only moves in the queue.
LEMMA WithinOvertake ==
    ASSUME NEW q \in Seq(CommandSet), NEW k \in 1 .. Len(q), NEW l \in 1 .. Len(q), k < l
    PROVE  LET r == SubSeq(q, 1, k - 1) \o << q[l] >> \o
                    SubSeq(q, k, l - 1) \o SubSeq(q, l + 1, Len(q))
           IN  r \in Seq(CommandSet) /\ Within(r, q)
  <1> DEFINE a == SubSeq(q, 1, k - 1)
             m == << q[l] >>
             b == SubSeq(q, k, l - 1)
             c == SubSeq(q, l + 1, Len(q))
             am == a \o m
             amb == am \o b
             r == amb \o c
             At(i) == IF i < k \/ i > l THEN i ELSE IF i = k THEN l ELSE i - 1
             f == [i \in 1 .. Len(r) |-> At(i)]
  <1>0. Len(q) \in Nat /\ k \in Nat /\ l \in Nat /\ q[l] \in CommandSet
    OBVIOUS
  <1>1. a \in Seq(CommandSet) /\ Len(a) = k - 1 /\ \A i \in 1 .. k - 1 : a[i] = q[i]
    BY <1>0
  <1>2. m \in Seq(CommandSet) /\ Len(m) = 1 /\ m[1] = q[l]
    BY <1>0
  <1>3. /\ b \in Seq(CommandSet) /\ Len(b) = l - k
        /\ \A i \in 1 .. l - k : b[i] = q[i + k - 1]
    BY <1>0
  <1>4. /\ c \in Seq(CommandSet) /\ Len(c) = Len(q) - l
        /\ \A i \in 1 .. Len(q) - l : c[i] = q[i + l]
    BY <1>0
  <1> HIDE DEF a, m, b, c
  <1>5. /\ am \in Seq(CommandSet) /\ Len(am) = Len(a) + Len(m)
        /\ \A i \in 1 .. Len(a) : am[i] = a[i]
        /\ \A i \in Len(a) + 1 .. Len(a) + Len(m) : am[i] = m[i - Len(a)]
    <2>1. a \in Seq(CommandSet) /\ m \in Seq(CommandSet)
      BY <1>1, <1>2
    <2> QED
      BY <2>1, Joined
  <1> HIDE DEF am
  <1>6. /\ amb \in Seq(CommandSet) /\ Len(amb) = Len(am) + Len(b)
        /\ \A i \in 1 .. Len(am) : amb[i] = am[i]
        /\ \A i \in Len(am) + 1 .. Len(am) + Len(b) : amb[i] = b[i - Len(am)]
    <2>1. am \in Seq(CommandSet) /\ b \in Seq(CommandSet)
      BY <1>3, <1>5
    <2> QED
      BY <2>1, Joined
  <1> HIDE DEF amb
  <1>7. /\ r \in Seq(CommandSet) /\ Len(r) = Len(amb) + Len(c)
        /\ \A i \in 1 .. Len(amb) : r[i] = amb[i]
        /\ \A i \in Len(amb) + 1 .. Len(amb) + Len(c) : r[i] = c[i - Len(amb)]
    <2>1. amb \in Seq(CommandSet) /\ c \in Seq(CommandSet)
      BY <1>4, <1>6
    <2> QED
      BY <2>1, Joined
  <1> HIDE DEF r
  <1>8. Len(am) = k /\ Len(amb) = l /\ Len(r) = Len(q)
    BY <1>0, <1>1, <1>2, <1>3, <1>4, <1>5, <1>6, <1>7
  <1>9. \A i \in 1 .. Len(r) : f[i] = At(i)
    OBVIOUS
  <1>10. f \in [1 .. Len(r) -> 1 .. Len(q)]
    <2>1. \A i \in 1 .. Len(r) : At(i) \in 1 .. Len(q)
      BY <1>0, <1>8
    <2> HIDE DEF At
    <2> QED
      BY <2>1
  <1> HIDE DEF f
  <1>11. \A i, j \in 1 .. Len(r) : f[i] = f[j] => i = j
    <2>1. \A i, j \in 1 .. Len(r) : At(i) = At(j) => i = j
      BY <1>0, <1>8
    <2> HIDE DEF At
    <2> QED
      BY <1>9, <2>1
  <1>12. ASSUME NEW i \in 1 .. Len(r) PROVE r[i] = q[f[i]]
    <2>1. CASE i < k
      <3>1. /\ f[i] = i /\ i \in 1 .. k - 1 /\ i \in 1 .. Len(a)
            /\ i \in 1 .. Len(am) /\ i \in 1 .. Len(amb)
        BY <1>0, <1>1, <1>8, <1>9, <2>1
      <3>2. r[i] = amb[i] /\ amb[i] = am[i] /\ am[i] = a[i] /\ a[i] = q[i]
        BY <1>1, <1>5, <1>6, <1>7, <3>1
      <3> QED
        BY <3>1, <3>2
    <2>2. CASE i = k
      <3>1. /\ f[i] = l /\ i \in Len(a) + 1 .. Len(a) + Len(m) /\ i - Len(a) = 1
            /\ i \in 1 .. Len(am) /\ i \in 1 .. Len(amb)
        BY <1>0, <1>1, <1>2, <1>8, <1>9, <2>2
      <3>2. r[i] = amb[i] /\ amb[i] = am[i] /\ am[i] = m[1]
        BY <1>5, <1>6, <1>7, <3>1
      <3> QED
        BY <1>2, <3>1, <3>2
    <2>3. CASE k < i /\ i <= l
      <3>1. /\ f[i] = i - 1 /\ i \in Len(am) + 1 .. Len(am) + Len(b)
            /\ i - Len(am) \in 1 .. l - k /\ (i - Len(am)) + k - 1 = i - 1
            /\ i \in 1 .. Len(amb)
        BY <1>0, <1>3, <1>8, <1>9, <2>3
      <3>2. r[i] = amb[i] /\ amb[i] = b[i - Len(am)] /\ b[i - Len(am)] = q[(i - Len(am)) + k - 1]
        BY <1>3, <1>6, <1>7, <3>1
      <3> QED
        BY <3>1, <3>2
    <2>4. CASE l < i
      <3>1. /\ f[i] = i /\ i \in Len(amb) + 1 .. Len(amb) + Len(c)
            /\ i - Len(amb) \in 1 .. Len(q) - l /\ (i - Len(amb)) + l = i
        BY <1>0, <1>4, <1>8, <1>9, <2>4
      <3>2. r[i] = c[i - Len(amb)] /\ c[i - Len(amb)] = q[(i - Len(amb)) + l]
        BY <1>4, <1>7, <3>1
      <3> QED
        BY <3>1, <3>2
    <2> QED
      BY <1>0, <1>8, <2>1, <2>2, <2>3, <2>4
  <1>13. Within(r, q)
    BY <1>10, <1>11, <1>12 DEF Within
  <1> QED
    BY <1>7, <1>13 DEF a, m, b, c, am, amb, r

-----------------------------------------------------------------------------
(* What the client does to the invariant. *)

\* The client may hand out ids and send commands, but it takes nothing back.
GrowsTo(s, z) ==
    /\ s.last <= z.last /\ s.lastGroup <= z.lastGroup
    /\ \A w \in Worms : Born(w, s) =>
         /\ Born(w, z) /\ z.group[w] = s.group[w] /\ z.output[w] = s.output[w]
         /\ s.effect[w] <= z.effect[w]
         /\ s.life[w] # "alive" => z.life[w] # "alive"

\* What was asked for and sent before still was.
LEMMA IssuedStays ==
    ASSUME NEW s, NEW z, IsClient(s), IsClient(z), GrowsTo(s, z), NEW n \in NodeSet, Issued(n, s)
    PROVE  Issued(n, z)
  <1>1. n.worm \in Worms /\ n.id \in Nat
    BY DEF NodeSet
  <1>2. /\ Born(n.worm, z) /\ z.group[n.worm] = s.group[n.worm]
        /\ z.output[n.worm] = s.output[n.worm]
        /\ s.effect[n.worm] <= z.effect[n.worm] /\ s.last <= z.last
    BY <1>1 DEF GrowsTo, Issued
  <1>3. /\ s.last \in Nat /\ z.last \in Nat /\ NodeBase \in Nat
        /\ s.effect[n.worm] \in Int /\ z.effect[n.worm] \in Int
    BY <1>1, ServerAssumption DEF IsClient
  <1>4. n.id \in NodeBase + 1 .. s.last => n.id \in NodeBase + 1 .. z.last
    BY <1>1, <1>2, <1>3
  <1>5. n.id <= s.effect[n.worm] => n.id <= z.effect[n.worm]
    BY <1>1, <1>2, <1>3
  <1> QED
    BY <1>2, <1>4, <1>5 DEF Issued

\* What a worm may have sent before, it may still have sent.
LEMMA FormedStays ==
    ASSUME NEW s, NEW z, IsClient(s), IsClient(z), GrowsTo(s, z),
           NEW c \in CommandSet, Formed(c, s)
    PROVE  Formed(c, z)
  <1>1. c.node \in NodeSet /\ c.node.worm \in Worms
    BY DEF CommandSet, NodeSet
  <1>2. Born(c.node.worm, s)
    BY DEF Formed
  <1>3. /\ Born(c.node.worm, z) /\ z.group[c.node.worm] = s.group[c.node.worm]
        /\ z.output[c.node.worm] = s.output[c.node.worm]
        /\ s.life[c.node.worm] # "alive" => z.life[c.node.worm] # "alive"
    BY <1>1, <1>2 DEF GrowsTo
  <1>4. Issued(c.node, s) => Issued(c.node, z)
    BY <1>1, IssuedStays
  <1> QED
    BY <1>3, <1>4 DEF Formed

\* What a command's action tells of its role.
LEMMA ActionRole ==
    ASSUME NEW s, NEW c \in CommandSet, Formed(c, s)
    PROVE  /\ c.action \in {"before", "replace"} <=> c.node.role = "effect"
           /\ Makes(c) <=> c.node.role \in SynthRoles \cup {"group"}
           /\ c.action = "freeAll" <=> c.node.role = "freeAll"
           /\ c.action = "free" <=> c.node.role = "free"
  <1>1. c.node.role \in Roles
    BY DEF CommandSet, NodeSet
  <1> QED
    BY <1>1 DEF Formed, Makes, Roles, SynthRoles

\* A worm that has asked for an effect keeps an effect's id.
LEMMA NoEffectYet ==
    ASSUME NEW s, IsClient(s), NEW n \in NodeSet, Issued(n, s), n.role = "effect"
    PROVE  s.effect[n.worm] # Nil
  <1>1. n.id \in Nat /\ n.id <= s.effect[n.worm]
    BY DEF NodeSet, Issued
  <1>2. n.worm \in Worms
    BY DEF NodeSet
  <1>3. s.effect[n.worm] \in Int
    BY <1>2 DEF IsClient
  <1> QED
    BY <1>1, <1>3 DEF Nil

\* What a step of a worm needs to keep the invariant.
LEMMA SoundClient ==
    ASSUME NEW t, NEW q, NEW s, Sound(t, q, s),
           NEW z, IsClient(z), GrowsTo(s, z), IdsHandedOut(z),
           NEW add \in Seq(CommandSet),
           \A i \in 1 .. Len(add) : Formed(add[i], z),
           NEW n,
           \A a \in NodeSet : Named(a, t, q \o add, z) =>
               Named(a, t, q, s) \/ (a = n /\ n.id \in s.last + 1 .. z.last),
           \A i \in 1 .. Len(add) : Makes(add[i]) => ~Issued(add[i].node, s),
           \A i, j \in 1 .. Len(add) :
               i # j /\ Makes(add[i]) /\ Makes(add[j]) => add[i].node # add[j].node,
           \A i \in 1 .. Len(add) : add[i].action = "before" =>
               /\ s.effect[add[i].node.worm] = Nil
               /\ \A j \in 1 .. Len(add) : j # i => add[j].action # "before"
    PROVE  Sound(t, q \o add, z)
  <1> DEFINE q2 == q \o add
  <1>0. q \in Seq(CommandSet) /\ IsTree(t) /\ WellFormed(t) /\ IsClient(s)
    BY DEF Sound
  <1>1. /\ q2 \in Seq(CommandSet) /\ Len(q2) = Len(q) + Len(add)
        /\ \A k \in 1 .. Len(q) : q2[k] = q[k]
        /\ \A k \in Len(q) + 1 .. Len(q) + Len(add) : q2[k] = add[k - Len(q)]
    BY <1>0, Joined
  <1> HIDE DEF q2
  <1>2. \A k \in 1 .. Len(q2) :
          \/ k \in 1 .. Len(q) /\ q2[k] = q[k]
          \/ k - Len(q) \in 1 .. Len(add) /\ q2[k] = add[k - Len(q)]
    <2>1. Len(q) \in Nat /\ Len(add) \in Nat
      BY <1>0
    <2> SUFFICES ASSUME NEW k \in 1 .. Len(q2)
                 PROVE  \/ k \in 1 .. Len(q) /\ q2[k] = q[k]
                        \/ k - Len(q) \in 1 .. Len(add) /\ q2[k] = add[k - Len(q)]
      OBVIOUS
    <2>2. \/ k \in 1 .. Len(q)
          \/ k \in Len(q) + 1 .. Len(q) + Len(add) /\ k - Len(q) \in 1 .. Len(add)
      BY <1>1, <2>1
    <2> QED
      BY <1>1, <2>2
  <1>3. \A x \in Nodes(t) : x \in NodeSet /\ Issued(x, s)
    BY <1>0, NodesAre, ListOf DEF Sound, AllIssued
  <1>4. \A k \in 1 .. Len(q) : q[k] \in CommandSet /\ q[k].node \in NodeSet /\ Formed(q[k], s)
    <2>1. \A k \in 1 .. Len(q) : q[k] \in CommandSet
      BY <1>0
    <2>2. \A c \in CommandSet : c.node \in NodeSet
      BY DEF CommandSet
    <2> QED
      BY <2>1, <2>2 DEF Sound, AllFormed
  <1>5. AllFormed(q2, z)
    <2>1. \A k \in 1 .. Len(q) : Formed(q[k], z)
      BY <1>0, <1>4, FormedStays
    <2> QED
      BY <1>2, <2>1 DEF AllFormed
  <1>6. OneName(t, q2, z)
    <2>1. /\ s.last \in Nat /\ z.last \in Nat /\ s.last <= z.last /\ NodeBase \in Nat
          /\ NodeBase <= s.last
      BY <1>0, ServerAssumption DEF IsClient, GrowsTo
    <2>2. ASSUME NEW a \in NodeSet, Named(a, t, q2, z)
          PROVE  \/ Named(a, t, q, s) /\ a.id \in NodeBase + 1 .. s.last
                 \/ a = n /\ n.id \in s.last + 1 .. z.last
      BY <2>2 DEF q2, Sound, OneName
    <2>3. ASSUME NEW a \in NodeSet, NEW b \in NodeSet,
                 Named(a, t, q2, z), Named(b, t, q2, z), a.id = b.id
          PROVE  a = b
      <3>1. CASE Named(a, t, q, s) /\ Named(b, t, q, s)
        BY <2>3, <3>1 DEF Sound, OneName
      <3>2. CASE a = n /\ b = n
        BY <3>2
      <3>3. CASE a = n /\ n.id \in s.last + 1 .. z.last /\ b.id \in NodeBase + 1 .. s.last
        BY <2>1, <2>3, <3>3
      <3>4. CASE b = n /\ n.id \in s.last + 1 .. z.last /\ a.id \in NodeBase + 1 .. s.last
        BY <2>1, <2>3, <3>4
      <3> QED
        BY <2>2, <2>3, <3>1, <3>2, <3>3, <3>4
    <2>4. ASSUME NEW a \in NodeSet, Named(a, t, q2, z)
          PROVE  a.id \in NodeBase + 1 .. z.last
      <3>1. CASE a.id \in NodeBase + 1 .. s.last
        BY <2>1, <3>1
      <3>2. CASE a = n /\ n.id \in s.last + 1 .. z.last
        BY <2>1, <3>2
      <3> QED
        BY <2>2, <2>4, <3>1, <3>2
    <2> QED
      BY <2>3, <2>4 DEF OneName
  <1>7. AllIssued(t, z)
    BY <1>0, <1>3, IssuedStays DEF AllIssued
  <1>8. InOwnGroup(t, z)
    <2> SUFFICES ASSUME NEW g \in DOMAIN t \ {Root}, NEW x \in Elements(t[g])
                 PROVE  z.group[x.worm] = g
      BY DEF InOwnGroup
    <2>1. x \in NodeSet /\ Issued(x, s)
      BY <1>3, NodesAre
    <2>2. x.worm \in Worms /\ Born(x.worm, s)
      BY <2>1 DEF NodeSet, Issued
    <2>3. z.group[x.worm] = s.group[x.worm]
      BY <2>2 DEF GrowsTo
    <2> QED
      BY <2>3 DEF Sound, InOwnGroup
  <1>9. Once(t, q2)
    <2>1. \A k \in 1 .. Len(q) : Makes(q[k]) => Issued(q[k].node, s) /\ q[k].node \notin Nodes(t)
      <3>1. \A k \in 1 .. Len(q) : Makes(q[k]) => Issued(q[k].node, s)
        BY <1>4, ActionRole DEF Formed
      <3> QED
        BY <3>1 DEF Sound, Once
    <2>2. \A i \in 1 .. Len(add) : Makes(add[i]) => add[i].node \notin Nodes(t)
      BY <1>3
    <2>3. \A k \in 1 .. Len(q2) : Makes(q2[k]) => q2[k].node \notin Nodes(t)
      BY <1>2, <2>1, <2>2
    <2>4. ASSUME NEW j \in 1 .. Len(q2), NEW k \in 1 .. Len(q2), j # k,
                 Makes(q2[j]), Makes(q2[k])
          PROVE  q2[j].node # q2[k].node
      <3>1. CASE j \in 1 .. Len(q) /\ q2[j] = q[j] /\ k \in 1 .. Len(q) /\ q2[k] = q[k]
        BY <2>4, <3>1 DEF Sound, Once
      <3>2. CASE /\ j \in 1 .. Len(q) /\ q2[j] = q[j]
                 /\ k - Len(q) \in 1 .. Len(add) /\ q2[k] = add[k - Len(q)]
        <4>1. Issued(q2[j].node, s) /\ ~Issued(q2[k].node, s)
          BY <2>1, <2>4, <3>2
        <4> QED
          BY <4>1
      <3>3. CASE /\ k \in 1 .. Len(q) /\ q2[k] = q[k]
                 /\ j - Len(q) \in 1 .. Len(add) /\ q2[j] = add[j - Len(q)]
        <4>1. Issued(q2[k].node, s) /\ ~Issued(q2[j].node, s)
          BY <2>1, <2>4, <3>3
        <4> QED
          BY <4>1
      <3>4. CASE /\ k - Len(q) \in 1 .. Len(add) /\ q2[k] = add[k - Len(q)]
                 /\ j - Len(q) \in 1 .. Len(add) /\ q2[j] = add[j - Len(q)]
        <4>1. j - Len(q) # k - Len(q)
          BY <1>0, <2>4
        <4> QED
          BY <2>4, <3>4, <4>1
      <3> QED
        BY <1>2, <3>1, <3>2, <3>3, <3>4
    <2> QED
      BY <2>3, <2>4 DEF Once
  <1>10. ASSUME OneBefore(t, q) PROVE OneBefore(t, q2)
    <2>1. \A x \in Nodes(t) : x.role = "effect" => s.effect[x.worm] # Nil
      BY <1>0, <1>3, NoEffectYet
    <2>2. \A k \in 1 .. Len(q) : q[k].action = "before" => s.effect[q[k].node.worm] # Nil
      <3> SUFFICES ASSUME NEW k \in 1 .. Len(q), q[k].action = "before"
                   PROVE  s.effect[q[k].node.worm] # Nil
        OBVIOUS
      <3>1. q[k].node.role = "effect"
        BY <1>4, ActionRole
      <3>2. Issued(q[k].node, s)
        BY <1>4, <3>1 DEF Formed, SynthRoles
      <3> QED
        BY <1>0, <1>4, <3>1, <3>2, NoEffectYet
    <2> SUFFICES ASSUME NEW k \in 1 .. Len(q2), q2[k].action = "before"
                 PROVE  /\ \A x \in Nodes(t) : x.worm = q2[k].node.worm => x.role # "effect"
                        /\ \A j \in 1 .. Len(q2) :
                             j # k /\ q2[j].action = "before"
                               => q2[j].node.worm # q2[k].node.worm
      BY DEF OneBefore
    <2>3. CASE k \in 1 .. Len(q) /\ q2[k] = q[k]
      <3>1. \A x \in Nodes(t) : x.worm = q2[k].node.worm => x.role # "effect"
        BY <1>10, <2>3 DEF OneBefore
      <3>2. ASSUME NEW j \in 1 .. Len(q2), j # k, q2[j].action = "before"
            PROVE  q2[j].node.worm # q2[k].node.worm
        <4>1. CASE j \in 1 .. Len(q) /\ q2[j] = q[j]
          BY <1>10, <2>3, <3>2, <4>1 DEF OneBefore
        <4>2. CASE j - Len(q) \in 1 .. Len(add) /\ q2[j] = add[j - Len(q)]
          BY <2>2, <2>3, <3>2, <4>2
        <4> QED
          BY <1>2, <4>1, <4>2
      <3> QED
        BY <3>1, <3>2
    <2>4. CASE k - Len(q) \in 1 .. Len(add) /\ q2[k] = add[k - Len(q)]
      <3>1. s.effect[q2[k].node.worm] = Nil
        BY <2>4
      <3>2. ASSUME NEW j \in 1 .. Len(q2), j # k, q2[j].action = "before"
            PROVE  q2[j].node.worm # q2[k].node.worm
        <4>1. CASE j \in 1 .. Len(q) /\ q2[j] = q[j]
          BY <2>2, <3>1, <3>2, <4>1
        <4>2. CASE j - Len(q) \in 1 .. Len(add) /\ q2[j] = add[j - Len(q)]
          <5>1. j - Len(q) # k - Len(q)
            BY <1>0, <3>2
          <5> QED
            BY <2>4, <3>2, <4>2, <5>1
        <4> QED
          BY <1>2, <4>1, <4>2
      <3> QED
        BY <2>1, <3>1, <3>2
    <2> QED
      BY <1>2, <2>3, <2>4
  <1>11. z.lastGroup <= NodeBase => s.lastGroup <= NodeBase
    BY <1>0, ServerAssumption DEF IsClient, GrowsTo
  <1>12. s.lastGroup <= NodeBase => OneBefore(t, q) /\ Paths(t)
    BY DEF Sound
  <1>13. Sound(t, q2, z)
    BY <1>0, <1>1, <1>5, <1>6, <1>7, <1>8, <1>9, <1>10, <1>11, <1>12 DEF Sound
  <1> QED
    BY <1>13 DEF q2

\* Nodes and commands are of their types.
LEMMA CommandTyped ==
    ASSUME NEW id \in Nat, NEW w \in Worms, NEW role \in Roles, NEW action \in Actions,
           NEW target \in Nat
    PROVE  /\ Node(id, w, role) \in NodeSet
           /\ Command(id, w, role, action, target) \in CommandSet
  BY DEF Node, Command, NodeSet, CommandSet

\* Which synths are named when add has been sent.
LEMMA NamedAfter ==
    ASSUME NEW t, NEW q \in Seq(CommandSet), NEW add \in Seq(CommandSet), NEW z, NEW a,
           Named(a, t, q \o add, z)
    PROVE  \/ Named(a, t, q, z)
           \/ \E i \in 1 .. Len(add) : add[i].node = a /\ a.role \in SynthRoles
           \/ \E i \in 1 .. Len(add) :
                add[i].action = "replace" /\ a = Node(add[i].target, add[i].node.worm, "effect")
  <1> DEFINE q2 == q \o add
  <1>1. /\ q2 \in Seq(CommandSet) /\ Len(q2) = Len(q) + Len(add)
        /\ \A k \in 1 .. Len(q) : q2[k] = q[k]
        /\ \A k \in Len(q) + 1 .. Len(q) + Len(add) : q2[k] = add[k - Len(q)]
    BY Joined
  <1>2. Named(a, t, q2, z)
    OBVIOUS
  <1> HIDE DEF q2
  <1>3. Len(q) \in Nat /\ Len(add) \in Nat
    OBVIOUS
  <1>4. ASSUME NEW k \in 1 .. Len(q2)
        PROVE  \/ k \in 1 .. Len(q) /\ q2[k] = q[k]
               \/ k - Len(q) \in 1 .. Len(add) /\ q2[k] = add[k - Len(q)]
    <2>1. \/ k \in 1 .. Len(q)
          \/ k \in Len(q) + 1 .. Len(q) + Len(add) /\ k - Len(q) \in 1 .. Len(add)
      BY <1>1, <1>3
    <2> QED
      BY <1>1, <2>1
  <1> QED
    BY <1>2, <1>4, Zenon DEF Named

\* The facts about the client that the steps of a worm need.
LEMMA ClientFacts ==
    ASSUME NEW t, NEW q, NEW s, Sound(t, q, s), NEW w \in Worms
    PROVE  /\ s.life[w] \in Lives /\ s.group[w] \in Int /\ s.output[w] \in Int
           /\ s.effect[w] \in Int /\ s.last \in Nat /\ s.lastGroup \in Nat
           /\ NodeBase \in Nat /\ MaxIssued \in Nat
           /\ NodeBase <= s.last /\ s.lastGroup >= 1
           /\ Born(w, s) => /\ s.group[w] \in 1 .. s.lastGroup
                            /\ s.group[w] \in Nat \ {0}
                            /\ s.output[w] \in NodeBase + 1 .. s.last
                            /\ s.output[w] \in Nat
  <1>1. /\ s.life[w] \in Lives /\ s.group[w] \in Int /\ s.output[w] \in Int
        /\ s.effect[w] \in Int
    BY DEF Sound, IsClient
  <1>2. /\ s.last \in Nat /\ s.lastGroup \in Nat
        /\ NodeBase \in Nat /\ MaxIssued \in Nat /\ NodeBase <= s.last /\ s.lastGroup >= 1
    BY ServerAssumption DEF Sound, IsClient
  <1>3. Born(w, s) => /\ s.group[w] \in 1 .. s.lastGroup
                      /\ s.output[w] \in NodeBase + 1 .. s.last
    BY DEF Sound, IdsHandedOut
  <1>4. Born(w, s) => s.group[w] \in Nat \ {0} /\ s.output[w] \in Nat
    BY <1>2, <1>3
  <1> QED
    BY <1>1, <1>2, <1>3, <1>4

\* A synth with the next id was not asked for before.
LEMMA NextIdNew ==
    ASSUME NEW t, NEW q, NEW s, Sound(t, q, s), NEW w \in Worms,
           NEW role \in SynthRoles
    PROVE  ~Issued(Node(s.last + 1, w, role), s)
  <1>1. s.last \in Nat /\ NodeBase \in Nat
    BY ClientFacts
  <1>2. s.last + 1 \notin NodeBase + 1 .. s.last
    BY <1>1
  <1> QED
    BY <1>2 DEF Issued, Node, SynthRoles

\* -[PWWorm mantleSynths]
LEMMA SoundMantle ==
    ASSUME NEW t, NEW q, NEW s, Sound(t, q, s), NEW w \in Worms, s.life[w] = "unborn",
           s.last < NodeBase + MaxIssued, NEW z,
           z.life = [s.life EXCEPT ![w] = "alive"],
           z.last = s.last + 1, z.lastGroup = s.lastGroup + 1,
           z.group = [s.group EXCEPT ![w] = s.lastGroup + 1],
           z.output = [s.output EXCEPT ![w] = s.last + 1],
           z.effect = s.effect
    PROVE  Sound(t, q \o VoiceCommands(w, s.lastGroup + 1, s.last + 1), z)
  <1> DEFINE g == s.lastGroup + 1
             o == s.last + 1
             add == VoiceCommands(w, g, o)
  <1>1. /\ s.last \in Nat /\ s.lastGroup \in Nat /\ NodeBase \in Nat /\ MaxIssued \in Nat
        /\ NodeBase <= s.last /\ s.lastGroup >= 1
    BY ClientFacts
  <1>2. IsClient(s) /\ IdsHandedOut(s) /\ q \in Seq(CommandSet)
    BY DEF Sound
  <1>3. s.effect[w] = Nil
    BY <1>2 DEF IdsHandedOut, Born
  <1>4. IsClient(z)
    <2>1. z.life \in [Worms -> Lives]
      BY <1>2 DEF IsClient, Lives
    <2>2. z.group \in [Worms -> Int] /\ z.output \in [Worms -> Int] /\ z.effect \in [Worms -> Int]
      BY <1>1, <1>2 DEF IsClient
    <2>3. z.last \in NodeBase .. NodeBase + MaxIssued /\ z.lastGroup \in Nat /\ z.lastGroup >= 1
      BY <1>1
    <2> QED
      BY <2>1, <2>2, <2>3 DEF IsClient
  <1>5. /\ z.life[w] = "alive" /\ z.group[w] = g /\ z.output[w] = o
        /\ \A v \in Worms \ {w} : z.life[v] = s.life[v] /\ z.group[v] = s.group[v]
                                  /\ z.output[v] = s.output[v]
        /\ \A v \in Worms : z.effect[v] = s.effect[v] /\ s.effect[v] \in Int
    BY <1>2 DEF IsClient
  <1>6. GrowsTo(s, z)
    <2>1. ASSUME NEW v \in Worms, Born(v, s)
          PROVE  /\ Born(v, z) /\ z.group[v] = s.group[v] /\ z.output[v] = s.output[v]
                 /\ s.effect[v] <= z.effect[v]
                 /\ s.life[v] # "alive" => z.life[v] # "alive"
      <3>1. v # w
        BY <2>1 DEF Born
      <3>2. s.effect[v] <= z.effect[v]
        BY <1>5
      <3> QED
        BY <1>5, <2>1, <3>1, <3>2 DEF Born
    <2>2. s.last <= z.last /\ s.lastGroup <= z.lastGroup
      BY <1>1
    <2> QED
      BY <2>1, <2>2 DEF GrowsTo
  <1>7. IdsHandedOut(z)
    <2>1. ASSUME NEW v \in Worms
          PROVE  /\ ~Born(v, z) => z.effect[v] = Nil
                 /\ Born(v, z) => /\ z.group[v] \in 1 .. z.lastGroup
                                  /\ z.output[v] \in NodeBase + 1 .. z.last
                 /\ z.effect[v] # Nil => z.effect[v] \in NodeBase + 1 .. z.last
      <3>1. z.effect[v] # Nil => z.effect[v] \in NodeBase + 1 .. z.last
        <4>1. s.effect[v] # Nil => s.effect[v] \in NodeBase + 1 .. s.last
          BY <1>2 DEF IdsHandedOut
        <4> QED
          BY <1>1, <1>5, <4>1
      <3>2. CASE v = w
        <4>1. g \in 1 .. z.lastGroup /\ o \in NodeBase + 1 .. z.last
          BY <1>1
        <4> QED
          BY <1>5, <3>1, <3>2, <4>1 DEF Born
      <3>3. CASE v # w
        <4>1. /\ ~Born(v, s) => s.effect[v] = Nil
              /\ Born(v, s) => /\ s.group[v] \in 1 .. s.lastGroup
                               /\ s.output[v] \in NodeBase + 1 .. s.last
          BY <1>2 DEF IdsHandedOut
        <4>2. /\ s.group[v] \in 1 .. s.lastGroup => s.group[v] \in 1 .. z.lastGroup
              /\ s.output[v] \in NodeBase + 1 .. s.last => s.output[v] \in NodeBase + 1 .. z.last
          BY <1>1
        <4>3. Born(v, z) <=> Born(v, s)
          BY <1>5, <3>3 DEF Born
        <4> QED
          BY <1>5, <3>1, <3>3, <4>1, <4>2, <4>3
      <3> QED
        BY <3>2, <3>3
    <2>2. ASSUME NEW u \in Worms, NEW v \in Worms, Born(u, z), Born(v, z), z.group[u] = z.group[v]
          PROVE  u = v
      <3>1. \A x \in Worms \ {w} : Born(x, z) => Born(x, s) /\ z.group[x] = s.group[x]
                                                 /\ s.group[x] \in 1 .. s.lastGroup
        BY <1>2, <1>5 DEF Born, IdsHandedOut
      <3>2. \A x \in Worms \ {w} : Born(x, z) => z.group[x] # g
        BY <1>1, <3>1
      <3>3. CASE u # w /\ v # w
        BY <1>2, <2>2, <3>1, <3>3 DEF IdsHandedOut
      <3> QED
        BY <1>5, <2>2, <3>2, <3>3
    <2> QED
      BY <2>1, <2>2 DEF IdsHandedOut
  <1>8. /\ add = << Command(g, w, "group", "tail", Root), Command(o, w, "output", "tail", g) >>
        /\ Command(g, w, "group", "tail", Root) \in CommandSet
        /\ Command(o, w, "output", "tail", g) \in CommandSet
    <2>1. g \in Nat /\ o \in Nat /\ Root \in Nat
      BY <1>1 DEF Root
    <2>2. "group" \in Roles /\ "output" \in Roles /\ "tail" \in Actions
      BY DEF Roles, Actions
    <2> QED
      BY <2>1, <2>2, CommandTyped DEF VoiceCommands
  <1> HIDE DEF add
  <1>9. /\ add \in Seq(CommandSet) /\ Len(add) = 2
        /\ add[1] = Command(g, w, "group", "tail", Root)
        /\ add[2] = Command(o, w, "output", "tail", g)
    BY <1>8
  <1>10. \A i \in 1 .. Len(add) : i = 1 \/ i = 2
    BY <1>9
  <1>11. Formed(add[1], z)
    BY <1>5, <1>9 DEF Formed, Command, Node, Born, Issued, SynthRoles
  <1>12. Formed(add[2], z)
    <2>1. o \in NodeBase + 1 .. z.last
      BY <1>1
    <2> HIDE DEF o
    <2> QED
      BY <1>5, <1>9, <2>1 DEF Formed, Command, Node, Born, Issued, SynthRoles
  <1> DEFINE n == Node(o, w, "output")
  <1>13. ASSUME NEW a \in NodeSet, Named(a, t, q \o add, z)
         PROVE  Named(a, t, q, s) \/ (a = n /\ n.id \in s.last + 1 .. z.last)
    <2>1. n.id \in s.last + 1 .. z.last
      BY <1>1 DEF Node
    <2>2. Named(a, t, q, z) => Named(a, t, q, s) \/ a = n
      BY <1>5 DEF Named, Born
    <2>3. \A i \in 1 .. Len(add) : add[i].node = a /\ a.role \in SynthRoles => a = n
      BY <1>9, <1>10 DEF Command, Node, SynthRoles
    <2>4. \A i \in 1 .. Len(add) : add[i].action # "replace"
      BY <1>9, <1>10 DEF Command
    <2> QED
      BY <1>2, <1>9, <1>13, <2>1, <2>2, <2>3, <2>4, NamedAfter
  <1>14. \A i \in 1 .. Len(add) : Makes(add[i]) => ~Issued(add[i].node, s)
    BY <1>9, <1>10 DEF Issued, Born, Command, Node
  <1>15. add[1].node # add[2].node
    BY <1>9 DEF Command, Node
  <1>16. \A i, j \in 1 .. Len(add) :
            i # j /\ Makes(add[i]) /\ Makes(add[j]) => add[i].node # add[j].node
    BY <1>10, <1>15
  <1>17. \A i \in 1 .. Len(add) : add[i].action = "before" =>
               /\ s.effect[add[i].node.worm] = Nil
               /\ \A j \in 1 .. Len(add) : j # i => add[j].action # "before"
    BY <1>9, <1>10 DEF Command
  <1>18. \A i \in 1 .. Len(add) : Formed(add[i], z)
    BY <1>10, <1>11, <1>12
  <1>20. add \in Seq(CommandSet)
    BY <1>9
  <1> HIDE DEF n
  <1>19. Sound(t, q \o add, z)
    BY <1>4, <1>6, <1>7, <1>13, <1>14, <1>16, <1>17, <1>18, <1>20, SoundClient, Zenon
  <1> QED
    BY <1>19 DEF add

\* One command about a new synth, which may move the worm's effect on to it.
LEMMA SoundSynth ==
    ASSUME NEW t, NEW q, NEW s, Sound(t, q, s), NEW w \in Worms, Born(w, s),
           s.last < NodeBase + MaxIssued, NEW z,
           z.life = s.life, z.last = s.last + 1, z.lastGroup = s.lastGroup,
           z.group = s.group, z.output = s.output,
           NEW c \in CommandSet, NEW role \in {"effect", "note"},
           c.node = Node(s.last + 1, w, role),
           z.effect = IF role = "effect" THEN [s.effect EXCEPT ![w] = s.last + 1] ELSE s.effect,
           Formed(c, z),
           c.action = "before" => s.effect[w] = Nil,
           c.action = "replace" => s.effect[w] # Nil /\ c.target = s.effect[w]
    PROVE  Sound(t, Append(q, c), z)
  <1> DEFINE e == s.last + 1
             add == << c >>
             n == Node(e, w, role)
  <1>1. /\ s.last \in Nat /\ s.lastGroup \in Nat /\ NodeBase \in Nat /\ MaxIssued \in Nat
        /\ NodeBase <= s.last /\ s.lastGroup >= 1
    BY ClientFacts
  <1>2. IsClient(s) /\ IdsHandedOut(s) /\ q \in Seq(CommandSet)
    BY DEF Sound
  <1>3. /\ z.effect \in [Worms -> Int]
        /\ role = "effect" => z.effect[w] = e
        /\ \A v \in Worms : z.effect[v] = s.effect[v] \/ (v = w /\ role = "effect")
    <2>1. CASE role = "effect"
      BY <1>1, <1>2, <2>1 DEF IsClient
    <2>2. CASE role = "note"
      BY <1>1, <1>2, <2>2 DEF IsClient
    <2> QED
      BY <2>1, <2>2
  <1>4. IsClient(z)
    <2>1. z.last \in NodeBase .. NodeBase + MaxIssued
      BY <1>1
    <2> QED
      BY <1>2, <1>3, <2>1 DEF IsClient
  <1>5. \A v \in Worms : s.effect[v] <= z.effect[v]
    <2> SUFFICES ASSUME NEW v \in Worms PROVE s.effect[v] <= z.effect[v]
      OBVIOUS
    <2>1. s.effect[v] \in Int
      BY <1>2 DEF IsClient
    <2>2. s.effect[v] <= s.last
      <3>1. s.effect[v] = -1 \/ s.effect[v] \in NodeBase + 1 .. s.last
        BY <1>2 DEF IdsHandedOut, Nil
      <3> QED
        BY <1>1, <2>1, <3>1
    <2>3. CASE z.effect[v] = s.effect[v]
      BY <2>1, <2>3
    <2>4. CASE v = w /\ role = "effect"
      BY <1>1, <1>3, <2>1, <2>2, <2>4
    <2> QED
      BY <1>3, <2>3, <2>4
  <1>6. GrowsTo(s, z)
    <2>1. s.last <= z.last /\ s.lastGroup <= z.lastGroup
      BY <1>1
    <2> QED
      BY <1>5, <2>1 DEF GrowsTo, Born
  <1>7. IdsHandedOut(z)
    <2>1. \A x : x \in NodeBase + 1 .. s.last => x \in NodeBase + 1 .. z.last
      BY <1>1
    <2>2. e \in NodeBase + 1 .. z.last
      BY <1>1
    <2>3. \A v \in Worms : Born(v, z) <=> Born(v, s)
      BY DEF Born
    <2> HIDE DEF e
    <2>4. ASSUME NEW v \in Worms
          PROVE  /\ ~Born(v, z) => z.effect[v] = Nil
                 /\ Born(v, z) => /\ z.group[v] \in 1 .. z.lastGroup
                                  /\ z.output[v] \in NodeBase + 1 .. z.last
                 /\ z.effect[v] # Nil => z.effect[v] \in NodeBase + 1 .. z.last
      BY <1>2, <1>3, <2>1, <2>2, <2>3 DEF IdsHandedOut
    <2>5. \A u, v \in Worms : Born(u, z) /\ Born(v, z) /\ z.group[u] = z.group[v] => u = v
      BY <1>2, <2>3 DEF IdsHandedOut
    <2> QED
      BY <2>4, <2>5 DEF IdsHandedOut
  <1>8. add \in Seq(CommandSet) /\ Len(add) = 1 /\ add[1] = c /\ q \o add = Append(q, c)
    BY <1>2
  <1> HIDE DEF add
  <1>9. \A i \in 1 .. Len(add) : add[i] = c
    BY <1>8
  <1>10. ASSUME NEW a \in NodeSet, Named(a, t, q \o add, z)
         PROVE  Named(a, t, q, s) \/ (a = n /\ n.id \in s.last + 1 .. z.last)
    <2>1. n.id \in s.last + 1 .. z.last
      BY <1>1 DEF Node
    <2>2. role = "effect" => n = Node(z.effect[w], w, "effect")
      BY <1>3
    <2> HIDE DEF n, e
    <2>3. Named(a, t, q, z) => Named(a, t, q, s) \/ a = n
      BY <1>3, <2>2 DEF Named, Born
    <2>4. \A i \in 1 .. Len(add) : add[i].node = a => a = n
      BY <1>9 DEF n, e
    <2>5. \A i \in 1 .. Len(add) :
             add[i].action = "replace" /\ a = Node(add[i].target, add[i].node.worm, "effect")
               => Named(a, t, q, s)
      <3>1. c.node.worm = w
        BY DEF Node
      <3>2. c.action = "replace" /\ a = Node(c.target, c.node.worm, "effect") => Named(a, t, q, s)
        BY <3>1 DEF Named
      <3> QED
        BY <1>9, <3>2
    <2>6. \/ Named(a, t, q, z)
          \/ \E i \in 1 .. Len(add) : add[i].node = a /\ a.role \in SynthRoles
          \/ \E i \in 1 .. Len(add) :
               add[i].action = "replace" /\ a = Node(add[i].target, add[i].node.worm, "effect")
      <3>1. add \in Seq(CommandSet)
        BY <1>8
      <3> QED
        BY <1>2, <1>10, <3>1, NamedAfter
    <2> QED
      BY <2>1, <2>3, <2>4, <2>5, <2>6
  <1>11. ~Issued(c.node, s)
    <2>1. role \in SynthRoles
      BY DEF SynthRoles
    <2> QED
      BY <2>1, NextIdNew
  <1>12. c.node.worm = w
    BY DEF Node
  <1>13. \A i, j \in 1 .. Len(add) : i = j
    BY <1>8
  <1> HIDE DEF n
  <1>14. Sound(t, q \o add, z)
    BY <1>4, <1>6, <1>7, <1>8, <1>9, <1>10, <1>11, <1>12, <1>13, SoundClient
  <1> QED
    BY <1>8, <1>14

\* -[PWWorm eatEffect:]
LEMMA SoundEffect ==
    ASSUME NEW t, NEW q, NEW s, Sound(t, q, s), NEW w \in Worms, s.life[w] = "alive",
           s.last < NodeBase + MaxIssued, NEW z,
           z.life = s.life, z.last = s.last + 1, z.lastGroup = s.lastGroup,
           z.group = s.group, z.output = s.output,
           z.effect = [s.effect EXCEPT ![w] = s.last + 1],
           NEW c,
           c = IF s.effect[w] # Nil
                 THEN Command(s.last + 1, w, "effect", "replace", s.effect[w])
                 ELSE Command(s.last + 1, w, "effect", "before", s.output[w])
    PROVE  Sound(t, Append(q, c), z)
  <1>1. /\ s.last \in Nat /\ NodeBase \in Nat /\ NodeBase <= s.last
        /\ Born(w, s) /\ s.output[w] \in Nat /\ s.effect[w] \in Int
    BY ClientFacts DEF Born
  <1>2. s.effect[w] # Nil => s.effect[w] \in NodeBase + 1 .. s.last
    BY DEF Sound, IdsHandedOut
  <1>3. s.effect[w] # Nil => s.effect[w] \in Nat
    BY <1>1, <1>2
  <1>4. "effect" \in Roles /\ "before" \in Actions /\ "replace" \in Actions /\ s.last + 1 \in Nat
    BY <1>1 DEF Roles, Actions
  <1>5. c \in CommandSet
    BY <1>1, <1>3, <1>4, CommandTyped
  <1>6. /\ c.node = Node(s.last + 1, w, "effect")
        /\ c.action = "before" => s.effect[w] = Nil
        /\ c.action = "replace" => s.effect[w] # Nil /\ c.target = s.effect[w]
        /\ \/ c.action = "before" /\ c.target = s.output[w]
           \/ c.action = "replace"
    BY DEF Command
  <1>7. c.node.worm = w /\ c.node.role = "effect" /\ c.node.id = s.last + 1
    BY <1>6 DEF Node
  <1>8. z.effect[w] = s.last + 1 /\ z.output[w] = s.output[w] /\ Born(w, z)
    BY <1>1 DEF Born, Sound, IsClient
  <1>9. /\ s.last + 1 \in NodeBase + 1 .. z.last /\ s.last + 1 <= s.last + 1
        /\ s.effect[w] \in NodeBase + 1 .. s.last
             => s.effect[w] \in NodeBase + 1 .. (s.last + 1) - 1
    BY <1>1
  <1>10. Issued(c.node, z)
    BY <1>7, <1>8, <1>9 DEF Issued, SynthRoles
  <1>11. c.action = "replace" => c.target \in NodeBase + 1 .. c.node.id - 1
    BY <1>2, <1>6, <1>7, <1>9
  <1>12. Formed(c, z)
    BY <1>6, <1>7, <1>8, <1>10, <1>11 DEF Formed
  <1> QED
    BY <1>1, <1>5, <1>6, <1>12, SoundSynth

\* -[EWPitchEvent fire]
LEMMA SoundNote ==
    ASSUME NEW t, NEW q, NEW s, Sound(t, q, s), NEW w \in Worms, Born(w, s),
           s.last < NodeBase + MaxIssued, NEW z,
           z.life = s.life, z.last = s.last + 1, z.lastGroup = s.lastGroup,
           z.group = s.group, z.output = s.output, z.effect = s.effect
    PROVE  Sound(t, Append(q, Command(s.last + 1, w, "note", "head", s.group[w])), z)
  <1> DEFINE c == Command(s.last + 1, w, "note", "head", s.group[w])
  <1>1. /\ s.last \in Nat /\ NodeBase \in Nat /\ NodeBase <= s.last /\ s.group[w] \in Nat
    BY ClientFacts
  <1>2. "note" \in Roles /\ "head" \in Actions /\ s.last + 1 \in Nat
    BY <1>1 DEF Roles, Actions
  <1>3. c \in CommandSet
    BY <1>1, <1>2, CommandTyped
  <1>4. c.node = Node(s.last + 1, w, "note") /\ c.action = "head" /\ c.target = s.group[w]
    BY DEF Command
  <1> HIDE DEF c
  <1>5. c.node.worm = w /\ c.node.role = "note" /\ c.node.id = s.last + 1
    BY <1>4 DEF Node
  <1>6. s.last + 1 \in NodeBase + 1 .. z.last
    BY <1>1
  <1>7. Formed(c, z)
    BY <1>4, <1>5, <1>6 DEF Formed, Issued, Born, SynthRoles
  <1>8. Sound(t, Append(q, c), z)
    BY <1>3, <1>4, <1>7, SoundSynth
  <1> QED
    BY <1>8 DEF c

\* -[PWWorm dismantleSynths]
LEMMA SoundDismantle ==
    ASSUME NEW t, NEW q, NEW s, Sound(t, q, s), NEW w \in Worms, Born(w, s), NEW z,
           NEW x \in {"cleared", "clearedTwice"},
           z.life = [s.life EXCEPT ![w] = x], z.last = s.last, z.lastGroup = s.lastGroup,
           z.group = s.group, z.output = s.output, z.effect = s.effect
    PROVE  Sound(t, q \o << Command(s.group[w], w, "freeAll", "freeAll", s.group[w]),
                            Command(s.group[w], w, "free", "free", s.group[w]) >>, z)
  <1> DEFINE g == s.group[w]
             c == Command(g, w, "freeAll", "freeAll", g)
             d == Command(g, w, "free", "free", g)
             add == << c, d >>
             n == Node(g, w, "free")
  <1>1. s.last \in Nat /\ s.lastGroup \in Nat /\ g \in Nat
    BY ClientFacts
  <1>2. IsClient(s) /\ IdsHandedOut(s) /\ q \in Seq(CommandSet)
    BY DEF Sound
  <1>3. IsClient(z)
    BY <1>2 DEF IsClient, Lives
  <1>4. z.life[w] = x /\ \A v \in Worms \ {w} : z.life[v] = s.life[v]
    BY <1>2 DEF IsClient
  <1>5. \A v \in Worms : Born(v, z) <=> Born(v, s)
    BY <1>4 DEF Born
  <1>6. GrowsTo(s, z)
    <2>1. s.last <= z.last /\ s.lastGroup <= z.lastGroup
      BY <1>1
    <2>2. \A v \in Worms : s.effect[v] <= z.effect[v]
      <3>1. \A v \in Worms : s.effect[v] \in Int
        BY <1>2 DEF IsClient
      <3> QED
        BY <3>1
    <2>3. \A v \in Worms : s.life[v] # "alive" => z.life[v] # "alive"
      BY <1>4
    <2> QED
      BY <1>5, <2>1, <2>2, <2>3 DEF GrowsTo
  <1>7. IdsHandedOut(z)
    BY <1>2, <1>5 DEF IdsHandedOut
  <1>8. c \in CommandSet /\ d \in CommandSet
    <2>1. {"free", "freeAll"} \subseteq Roles /\ {"free", "freeAll"} \subseteq Actions
      BY DEF Roles, Actions
    <2> QED
      BY <1>1, <2>1, CommandTyped
  <1>9. /\ c.node.worm = w /\ c.node.role = "freeAll" /\ c.action = "freeAll" /\ c.target = g
        /\ d.node.worm = w /\ d.node.role = "free" /\ d.action = "free" /\ d.target = g
    BY DEF Command, Node
  <1> HIDE DEF c, d
  <1>10. add \in Seq(CommandSet) /\ Len(add) = 2 /\ add[1] = c /\ add[2] = d
    BY <1>8
  <1>11. \A i \in 1 .. Len(add) : add[i] = c \/ add[i] = d
    BY <1>10
  <1>20. add \in Seq(CommandSet)
    BY <1>10
  <1> HIDE DEF add, g
  <1>12. Formed(c, z) /\ Formed(d, z)
    BY <1>4, <1>5, <1>9 DEF Formed, SynthRoles, g
  <1>13. \A i \in 1 .. Len(add) : Formed(add[i], z)
    BY <1>11, <1>12
  <1>14. \A i \in 1 .. Len(add) : ~Makes(add[i]) /\ add[i].action # "before"
    BY <1>9, <1>11 DEF Makes
  <1>15. ASSUME NEW a \in NodeSet, Named(a, t, q \o add, z)
         PROVE  Named(a, t, q, s)
    <2>1. Named(a, t, q, z) => Named(a, t, q, s)
      BY <1>5 DEF Named
    <2>2. \A i \in 1 .. Len(add) :
             add[i].action # "replace" /\ (add[i].node = a => a.role \notin SynthRoles)
      BY <1>9, <1>11 DEF SynthRoles
    <2> QED
      BY <1>2, <1>15, <1>20, <2>1, <2>2, NamedAfter
  <1>16. \A a \in NodeSet : Named(a, t, q \o add, z) =>
               Named(a, t, q, s) \/ (a = n /\ n.id \in s.last + 1 .. z.last)
    BY <1>15
  <1>17. \A i \in 1 .. Len(add) : Makes(add[i]) => ~Issued(add[i].node, s)
    BY <1>14
  <1>18. \A i, j \in 1 .. Len(add) :
            i # j /\ Makes(add[i]) /\ Makes(add[j]) => add[i].node # add[j].node
    BY <1>14
  <1>19. \A i \in 1 .. Len(add) : add[i].action = "before" =>
               /\ s.effect[add[i].node.worm] = Nil
               /\ \A j \in 1 .. Len(add) : j # i => add[j].action # "before"
    BY <1>14
  <1> HIDE DEF n
  <1>21. Sound(t, q \o add, z)
    BY <1>3, <1>6, <1>7, <1>13, <1>16, <1>17, <1>18, <1>19, <1>20, SoundClient, Zenon
  <1> QED
    BY <1>21 DEF add, c, d, g

-----------------------------------------------------------------------------
\* A queue that stays as it is.
LEMMA WithinItself ==
    ASSUME NEW q \in Seq(CommandSet)
    PROVE  Within(q, q)
  <1> DEFINE f == [i \in 1 .. Len(q) |-> i]
  <1>1. f \in [1 .. Len(q) -> 1 .. Len(q)] /\ \A i \in 1 .. Len(q) : f[i] = i
    OBVIOUS
  <1> HIDE DEF f
  <1> QED
    BY <1>1 DEF Within

\* What a change of the tree needs to keep the invariant, when the server has
\* taken commands from the queue.
LEMMA SoundTree ==
    ASSUME NEW t, NEW q, NEW s, Sound(t, q, s),
           NEW r \in Seq(CommandSet), Within(r, q),
           NEW u, NEW made, NEW place, NEW gone, NEW cleared,
           Changed(t, u, made, place, gone, cleared),
           Root \notin gone, Root \notin cleared,
           \A x, y \in made : x = y,
           \A x \in made : /\ x \in NodeSet /\ Issued(x, s) /\ x.id \notin Ids(t)
                           /\ x.role = "group" => place = Root
                           /\ place # Root => place = s.group[x.worm]
                           /\ x.role # "group" => Named(x, t, q, s),
           \A x \in made : \A k \in 1 .. Len(r) : Makes(r[k]) => r[k].node # x,
           s.lastGroup <= NodeBase => OneBefore(u, r) /\ Paths(u)
    PROVE  Sound(u, r, s)
  <1>0. Sound(t, r, s)
    BY SoundWithin
  <1>1. IsTree(t) /\ WellFormed(t) /\ IsTree(u)
    BY DEF Sound, Changed
  <1>2. WellFormed(u)
    BY <1>1, ChangedWellFormed
  <1>3. \A x \in Nodes(u) : x \in Nodes(t) \/ x \in made
    BY NodesAre DEF Changed
  <1>4. AllIssued(u, s)
    BY <1>3 DEF Sound, AllIssued
  <1>5. \A a : Named(a, u, r, s) => Named(a, t, q, s)
    <2>1. PICK f \in [1 .. Len(r) -> 1 .. Len(q)] :
              \A i \in 1 .. Len(r) : r[i] = q[f[i]]
      BY DEF Within
    <2>2. \A i \in 1 .. Len(r) : f[i] \in 1 .. Len(q) /\ r[i] = q[f[i]]
      BY <2>1
    <2>3. \A a : Named(a, u, r, s) => Named(a, u, q, s)
      BY <2>2 DEF Named
    <2>4. \A a : Named(a, u, q, s) => Named(a, t, q, s)
      BY <1>3 DEF Named
    <2> QED
      BY <2>3, <2>4
  <1>6. OneName(u, r, s)
    BY <1>5 DEF Sound, OneName
  <1>7. InOwnGroup(u, s)
    <2> SUFFICES ASSUME NEW g \in DOMAIN u \ {Root}, NEW x \in Elements(u[g])
                 PROVE  s.group[x.worm] = g
      BY DEF InOwnGroup
    <2>1. \/ x \in made /\ g = place
          \/ g \in DOMAIN t /\ x \in Elements(t[g])
      BY DEF Changed
    <2> QED
      BY <2>1 DEF Sound, InOwnGroup
  <1>8. Once(u, r)
    BY <1>0, <1>3 DEF Sound, Once
  <1> QED
    BY <1>0, <1>1, <1>2, <1>4, <1>6, <1>7, <1>8 DEF Sound

-----------------------------------------------------------------------------
(* What the server does to the invariant. *)

\* What the invariant says of the command that is next.
LEMMA NextCommand ==
    ASSUME NEW t, NEW q, NEW s, Sound(t, q, s), q # << >>,
           NEW c, c = Head(q), NEW r, r = Tail(q)
    PROVE  /\ c \in CommandSet /\ Formed(c, s) /\ c.node \in NodeSet
           /\ r \in Seq(CommandSet) /\ Within(r, q) /\ Sound(t, r, s)
           /\ Makes(c) => c.node \notin Nodes(t)
           /\ Makes(c) => \A k \in 1 .. Len(r) : Makes(r[k]) => r[k].node # c.node
           /\ Makes(c) /\ c.node.role # "group" => Named(c.node, t, q, s)
           /\ c.action = "replace" => Named(Node(c.target, c.node.worm, "effect"), t, q, s)
           /\ c.action = "before" /\ OneBefore(t, q) =>
                /\ \A n \in Nodes(t) : n.worm = c.node.worm => n.role # "effect"
                /\ \A k \in 1 .. Len(r) : r[k].action = "before" => r[k].node.worm # c.node.worm
  <1>0. q \in Seq(CommandSet) /\ AllFormed(q, s) /\ Once(t, q)
    BY DEF Sound
  <1>1. /\ 1 \in 1 .. Len(q) /\ c = q[1] /\ c \in CommandSet
        /\ \A k \in 1 .. Len(r) : k + 1 \in 1 .. Len(q) /\ k + 1 # 1 /\ r[k] = q[k + 1]
    BY <1>0
  <1>2. Formed(c, s) /\ c.node \in NodeSet
    BY <1>0, <1>1 DEF AllFormed, CommandSet
  <1>3. r \in Seq(CommandSet) /\ Within(r, q)
    BY <1>0, WithinTail
  <1>4. Sound(t, r, s)
    BY <1>3, SoundWithin
  <1>5. Makes(c) => c.node \notin Nodes(t)
    BY <1>0, <1>1 DEF Once
  <1>6. ASSUME Makes(c), NEW k \in 1 .. Len(r), Makes(r[k]) PROVE r[k].node # c.node
    BY <1>0, <1>1, <1>6 DEF Once
  <1>7. ASSUME Makes(c), c.node.role # "group" PROVE Named(c.node, t, q, s)
    <2>1. c.node.role \in SynthRoles
      BY <1>1, <1>2, <1>7, ActionRole
    <2> QED
      BY <1>1, <2>1 DEF Named
  <1>8. c.action = "replace" => Named(Node(c.target, c.node.worm, "effect"), t, q, s)
    BY <1>1 DEF Named
  <1>9. ASSUME c.action = "before", OneBefore(t, q)
        PROVE  /\ \A n \in Nodes(t) : n.worm = c.node.worm => n.role # "effect"
               /\ \A k \in 1 .. Len(r) : r[k].action = "before" => r[k].node.worm # c.node.worm
    BY <1>1, <1>9 DEF OneBefore
  <1> QED
    BY <1>1, <1>2, <1>3, <1>4, <1>5, <1>6, <1>7, <1>8, <1>9

\* OneBefore stands when no effect is new, or the new one is of a worm whose
\* first effect is not awaited any more.
LEMMA BeforeStays ==
    ASSUME NEW t, NEW u, NEW r, OneBefore(t, r),
           \A n \in Nodes(u) : n.role = "effect" =>
               \/ n \in Nodes(t)
               \/ \A k \in 1 .. Len(r) : r[k].action = "before" => r[k].node.worm # n.worm
    PROVE  OneBefore(u, r)
  BY DEF OneBefore

\* The root group holds groups only, if only groups are put into it.
LEMMA RootStays ==
    ASSUME NEW t, Paths(t), NEW u, NEW made, NEW place, NEW gone, NEW cleared,
           Changed(t, u, made, place, gone, cleared),
           \A x \in made : place = Root => x.role = "group"
    PROVE  \A x \in Elements(u[Root]) : x.role = "group"
  <1>1. Root \in DOMAIN u
    BY DEF Changed, IsTree
  <1> QED
    BY <1>1 DEF Changed, Paths

\* What a node that is made needs to keep the invariant.
LEMMA SoundMade ==
    ASSUME NEW t, NEW q, NEW s, Sound(t, q, s), q # << >>,
           NEW c, c = Head(q), Makes(c), c.node.id \notin Ids(t),
           NEW u, NEW place, NEW gone, Changed(t, u, {c.node}, place, gone, {}),
           Root \notin gone, c.node.role = "group" => place = Root,
           place # Root => place = s.group[c.node.worm],
           s.lastGroup <= NodeBase => OneBefore(u, Tail(q)) /\ Paths(u)
    PROVE  Sound(u, Tail(q), s)
  <1> DEFINE r == Tail(q)
             n == c.node
  <1>1. /\ c \in CommandSet /\ Formed(c, s) /\ n \in NodeSet
        /\ r \in Seq(CommandSet) /\ Within(r, q)
        /\ \A k \in 1 .. Len(r) : Makes(r[k]) => r[k].node # n
        /\ n.role # "group" => Named(n, t, q, s)
    BY NextCommand
  <1> HIDE DEF r
  <1>2. n.role \in SynthRoles \cup {"group"}
    BY <1>1, ActionRole
  <1>3. Issued(n, s)
    BY <1>1, <1>2 DEF Formed
  <1>4. \A x \in {n} : /\ x \in NodeSet /\ Issued(x, s) /\ x.id \notin Ids(t)
                       /\ x.role = "group" => place = Root
                       /\ place # Root => place = s.group[x.worm]
                       /\ x.role # "group" => Named(x, t, q, s)
    BY <1>1, <1>3
  <1>5. \A x \in {n} : \A k \in 1 .. Len(r) : Makes(r[k]) => r[k].node # x
    BY <1>1
  <1>6. \A x, y \in {n} : x = y
    OBVIOUS
  <1>7. Root \notin {}
    OBVIOUS
  <1>8. s.lastGroup <= NodeBase => OneBefore(u, r) /\ Paths(u)
    BY DEF r
  <1>9. Changed(t, u, {n}, place, gone, {})
    OBVIOUS
  <1>11. r \in Seq(CommandSet) /\ Within(r, q)
    BY <1>1
  <1> HIDE DEF n
  <1>10. Sound(u, r, s)
    BY <1>11, <1>4, <1>5, <1>6, <1>7, <1>8, <1>9, SoundTree
  <1> QED
    BY <1>10 DEF r

\* The nodes of a group of a worm are of that worm, and are synths.
LEMMA GroupMembers ==
    ASSUME NEW t, NEW q, NEW s, Sound(t, q, s), NEW g \in DOMAIN t \ {Root},
           NEW x \in Elements(t[g])
    PROVE  /\ x \in NodeSet /\ x \in Nodes(t) /\ x.worm \in Worms /\ Issued(x, s)
           /\ x.role \in SynthRoles /\ s.group[x.worm] = g
           /\ x.id \in NodeBase + 1 .. s.last
           /\ Named(x, t, q, s)
           /\ \A w \in Worms : Born(w, s) /\ s.group[w] = g => x.worm = w
  <1>1. /\ IsTree(t) /\ WellFormed(t) /\ AllIssued(t, s) /\ InOwnGroup(t, s)
        /\ IdsHandedOut(s)
    BY DEF Sound
  <1>2. x \in NodeSet /\ x \in Nodes(t) /\ x.worm \in Worms
    BY <1>1, ListOf, NodesAre DEF NodeSet
  <1>3. Issued(x, s) /\ x.role # "group" /\ s.group[x.worm] = g
    BY <1>1, <1>2 DEF AllIssued, WellFormed, InOwnGroup
  <1>4. x.role \in SynthRoles /\ x.id \in NodeBase + 1 .. s.last /\ Born(x.worm, s)
    BY <1>3 DEF Issued
  <1>5. Named(x, t, q, s)
    BY <1>2, <1>3 DEF Named
  <1>6. \A w \in Worms : Born(w, s) /\ s.group[w] = g => x.worm = w
    BY <1>1, <1>2, <1>3, <1>4 DEF IdsHandedOut
  <1> QED
    BY <1>2, <1>3, <1>4, <1>5, <1>6

\* Group_AddHead and Group_AddTail: a group, a connector or a note arrives.
LEMMA SoundInto ==
    ASSUME NEW t, NEW q, NEW s, Sound(t, q, s), q # << >>,
           NEW c, c = Head(q), c.action \in {"head", "tail"},
           c.target \in DOMAIN t, c.node.id \notin Ids(t),
           NEW u, u = Entered(t, c.node, c.action, c.target)
    PROVE  Sound(u, Tail(q), s)
  <1> DEFINE n == c.node
             g == c.target
             r == Tail(q)
  <1>0. IsTree(t) /\ WellFormed(t) /\ IdsHandedOut(s)
    BY DEF Sound
  <1>1. Makes(c) /\ c \in CommandSet /\ Formed(c, s) /\ n \in NodeSet /\ Sound(t, r, s)
    BY NextCommand DEF Makes
  <1>2. n.role \in {"group", "output", "note"} /\ n.worm \in Worms
    BY <1>1, ActionRole DEF SynthRoles, NodeSet
  <1>3. /\ n.role = "group" => g = Root
        /\ n.role # "group" =>
             g = s.group[n.worm] /\ c.action = (IF n.role = "note" THEN "head" ELSE "tail")
        /\ Born(n.worm, s) /\ Issued(n, s)
    BY <1>1, <1>2 DEF Formed, SynthRoles
  <1>4. n.role # "group" => g # Root
    BY <1>2, <1>3, ClientFacts DEF Root
  <1>5. /\ Changed(t, u, {n}, g, {}, {})
        /\ u[g] = Lengthened(t[g], n, c.action)
        /\ \A h \in DOMAIN t \ {g} : u[h] = t[h]
        /\ n.role = "group" => u[n.id] = << >>
    <2>1. n.role = "group" => g = Root
      BY <1>3
    <2>2. /\ n.id \notin Ids(t) /\ g \in DOMAIN t /\ n \in NodeSet
          /\ (c.action = "head" \/ c.action = "tail")
          /\ u = Entered(t, n, c.action, g)
      BY <1>1
    <2> HIDE DEF n, g
    <2>3. JoinedAt(t, u, n, c.action, g)
      BY <1>0, <2>1, <2>2, IntoChanges
    <2> QED
      BY <2>3 DEF JoinedAt
  <1>6. \A x \in Nodes(u) : x \in Nodes(t) \/ x = n
    BY <1>5, NodesAre DEF Changed
  <1>7. ASSUME s.lastGroup <= NodeBase PROVE OneBefore(u, r)
    <2>1. OneBefore(t, r)
      BY <1>1, <1>7 DEF Sound
    <2>2. \A x \in Nodes(u) : x.role = "effect" => x \in Nodes(t)
      BY <1>2, <1>6
    <2> QED
      BY <2>1, <2>2, BeforeStays
  <1>8. ASSUME s.lastGroup <= NodeBase, NEW h \in DOMAIN u \ {Root} PROVE Path(u[h])
    <2>0. \A i \in DOMAIN t \ {Root} : Path(t[i]) /\ t[i] \in Seq(NodeSet)
      BY <1>0, <1>8, ListOf DEF Sound, Paths
    <2>1. h \in DOMAIN t \/ (n.role = "group" /\ h = n.id)
      BY <1>5 DEF Changed
    <2>2. CASE n.role = "group" /\ h = n.id
      BY <1>5, <2>2, PathOfNone
    <2>3. CASE h \in DOMAIN t /\ h # g
      BY <1>5, <2>0, <2>3
    <2>4. CASE h = g /\ n.role = "note"
      <3>1. u[h] = <<n>> \o t[g]
        BY <1>3, <1>5, <2>4 DEF Lengthened
      <3> QED
        BY <1>1, <1>4, <2>0, <2>4, <3>1, PathWithNote
    <2>5. CASE h = g /\ n.role = "output"
      <3>1. u[h] = Append(t[g], n)
        BY <1>3, <1>5, <2>5 DEF Lengthened
      <3>2. ASSUME NEW x \in Elements(t[g]), x.role = "output" PROVE FALSE
        <4>1. x.worm = n.worm /\ Issued(x, s) /\ x \in Nodes(t)
          BY <1>2, <1>3, <1>4, <2>5, GroupMembers
        <4>2. x.id = n.id
          BY <1>3, <2>5, <3>2, <4>1 DEF Issued
        <4> QED
          BY <4>1, <4>2, NodesAre
      <3> QED
        BY <1>1, <1>4, <2>0, <2>5, <3>1, <3>2, PathWithOutput
    <2> QED
      BY <1>2, <1>3, <2>1, <2>2, <2>3, <2>4, <2>5
  <1>9. s.lastGroup <= NodeBase => OneBefore(u, Tail(q)) /\ Paths(u)
    <2>1. ASSUME s.lastGroup <= NodeBase PROVE \A x \in Elements(u[Root]) : x.role = "group"
      <3>1. Paths(t) /\ \A x \in {n} : g = Root => x.role = "group"
        BY <1>4, <2>1 DEF Sound
      <3> QED
        BY <1>5, <3>1, RootStays
    <2> QED
      BY <1>7, <1>8, <2>1 DEF Paths, r
  <1>10. c.node.role = "group" => g = Root
    BY <1>3
  <1>11. g # Root => g = s.group[c.node.worm]
    BY <1>2, <1>3
  <1>12. Root \notin {} /\ Changed(t, u, {c.node}, g, {}, {})
    BY <1>5
  <1> HIDE DEF g, n, r
  <1>13. Sound(u, Tail(q), s)
    BY <1>1, <1>9, <1>10, <1>11, <1>12, SoundMade
  <1> QED
    BY <1>13

\* The node that a synth of a worm is put before, or takes the place of, is
\* the one its worm means, unless a group has its id.
LEMMA TargetMeant ==
    ASSUME NEW t, NEW q, NEW s, Sound(t, q, s), NEW w \in Worms,
           NEW a, Named(a, t, q, s), a \in NodeSet, a.worm = w,
           NEW g \in DOMAIN t, NEW x \in Elements(t[g]), x.id = a.id
    PROVE  /\ g # Root \/ s.lastGroup <= NodeBase => x = a
           /\ g # Root => g = s.group[w]
  <1>1. IsTree(t) /\ OneName(t, q, s) /\ AllIssued(t, s) /\ IsClient(s) /\ IdsHandedOut(s)
    BY DEF Sound
  <1>2. x \in NodeSet /\ x \in Nodes(t) /\ Issued(x, s) /\ x.worm \in Worms
    BY <1>1, ListOf, NodesAre DEF AllIssued, NodeSet
  <1>3. a.id \in NodeBase + 1 .. s.last
    BY <1>1 DEF OneName
  <1>4. x.role # "group" => x = a
    BY <1>1, <1>2 DEF Named, OneName
  <1>5. g # Root => x.role # "group" /\ s.group[x.worm] = g
    BY GroupMembers DEF SynthRoles
  <1>6. ASSUME s.lastGroup <= NodeBase PROVE x.role # "group"
    <2>1. SUFFICES ASSUME x.role = "group" PROVE FALSE
      OBVIOUS
    <2>2. x.id \in 1 .. s.lastGroup
      BY <1>1, <1>2, <2>1 DEF Issued, IdsHandedOut
    <2> QED
      BY <1>3, <1>6, <2>2, ClientFacts
  <1> QED
    BY <1>4, <1>5, <1>6

\* Node_AddBefore: the first effect of a worm arrives.
LEMMA SoundBefore ==
    ASSUME NEW t, NEW q, NEW s, Sound(t, q, s), q # << >>,
           NEW c, c = Head(q), c.action = "before",
           c.target \in Ids(t), c.node.id \notin Ids(t),
           NEW u, u = Entered(t, c.node, "before", c.target)
    PROVE  Sound(u, Tail(q), s)
  <1> DEFINE n == c.node
             w == n.worm
             i == c.target
             r == Tail(q)
             a == Node(i, w, "output")
  <1>0. IsTree(t) /\ WellFormed(t)
    BY DEF Sound
  <1>1. /\ Makes(c) /\ c \in CommandSet /\ Formed(c, s) /\ n \in NodeSet /\ Sound(t, r, s)
        /\ OneBefore(t, q) =>
                /\ \A x \in Nodes(t) : x.worm = w => x.role # "effect"
                /\ \A k \in 1 .. Len(r) : r[k].action = "before" => r[k].node.worm # w
    <2>1. Makes(c)
      BY DEF Makes
    <2> QED
      BY <2>1, NextCommand
  <1>2. n.role = "effect" /\ w \in Worms
    BY <1>1, ActionRole DEF NodeSet
  <1>3. Born(w, s) /\ i = s.output[w]
    BY <1>1, <1>2 DEF Formed
  <1>4. i \in Ids(t) \ {Root} /\ i \in Nat
    <2>1. NodeBase \in Nat /\ i \in NodeBase + 1 .. s.last /\ i \in Nat
      BY <1>2, <1>3, ClientFacts
    <2>2. i # Root
      BY <2>1 DEF Root
    <2> QED
      BY <2>1, <2>2
  <1>5. Named(a, t, q, s) /\ a \in NodeSet /\ a.id = i /\ a.worm = w /\ a.role = "output"
    BY <1>2, <1>3, <1>4 DEF Named, Node, NodeSet, Roles
  <1>6. PICK g \in DOMAIN t : \E k \in 1 .. Len(t[g]) :
               t[g][k].id = i /\ PutBefore(t, u, n, g, k)
    <2>1. /\ n.role # "group" /\ n \in NodeSet /\ n.id \notin Ids(t) /\ i \in Ids(t) /\ i # Root
          /\ u = Entered(t, n, "before", i)
      BY <1>1, <1>2, <1>4
    <2> HIDE DEF n, i
    <2> QED
      BY <1>0, <2>1, BeforeChanges
  <1>7. PICK k \in 1 .. Len(t[g]) :
             /\ t[g][k].id = i
             /\ Changed(t, u, {n}, g, {}, {})
             /\ u[g] = Spliced(t[g], k, n, k)
             /\ \A h \in DOMAIN t \ {g} : u[h] = t[h]
    BY <1>6 DEF PutBefore
  <1> HIDE DEF a
  <1>8. t[g][k] \in Elements(t[g])
    BY <1>0, ListOf
  <1>9. /\ g # Root \/ s.lastGroup <= NodeBase => t[g][k] = a
        /\ g # Root => g = s.group[w]
    BY <1>2, <1>5, <1>7, <1>8, TargetMeant
  <1>10. ASSUME s.lastGroup <= NodeBase PROVE OneBefore(u, r)
    <2>1. OneBefore(t, r) /\ OneBefore(t, q)
      BY <1>1, <1>10 DEF Sound
    <2>2. \A x \in Nodes(u) : x \in Nodes(t) \/ x = n
      BY <1>7, NodesAre DEF Changed
    <2>3. \A x \in Nodes(u) : x.role = "effect" =>
               \/ x \in Nodes(t)
               \/ \A j \in 1 .. Len(r) : r[j].action = "before" => r[j].node.worm # x.worm
      BY <1>1, <2>1, <2>2
    <2> HIDE DEF r
    <2> QED
      BY <2>1, <2>3, BeforeStays
  <1>11. ASSUME s.lastGroup <= NodeBase, NEW h \in DOMAIN u \ {Root} PROVE Path(u[h])
    <2>0. \A j \in DOMAIN t \ {Root} : Path(t[j]) /\ t[j] \in Seq(NodeSet)
      BY <1>0, <1>11, ListOf DEF Sound, Paths
    <2>1. h \in DOMAIN t
      BY <1>2, <1>7 DEF Changed
    <2>2. CASE h # g
      BY <1>7, <2>0, <2>1, <2>2
    <2>3. CASE h = g
      <3>1. t[g][k].role = "output"
        BY <1>5, <1>9, <2>3
      <3>2. ASSUME NEW x \in Elements(t[g]) PROVE x.role # "effect"
        <4>1. x.worm = w /\ x \in Nodes(t)
          BY <1>2, <1>3, <1>9, <2>3, GroupMembers
        <4> QED
          BY <1>1, <1>11, <4>1 DEF Sound
      <3>3. Path(Spliced(t[g], k, n, k))
        BY <1>1, <1>2, <2>0, <2>3, <3>1, <3>2, PathWithEffect
      <3> QED
        BY <1>7, <2>3, <3>3
    <2> QED
      BY <2>2, <2>3
  <1>12. s.lastGroup <= NodeBase => OneBefore(u, Tail(q)) /\ Paths(u)
    <2>1. ASSUME s.lastGroup <= NodeBase PROVE \A x \in Elements(u[Root]) : x.role = "group"
      <3>1. Paths(t) /\ t[g][k] = a
        BY <1>9, <2>1 DEF Sound
      <3>2. g # Root
        BY <1>5, <1>8, <3>1 DEF Paths
      <3> QED
        BY <1>7, <3>1, <3>2, RootStays
    <2> QED
      BY <1>10, <1>11, <2>1 DEF Paths, r
  <1>13. (c.node.role = "group" => g = Root) /\ Root \notin {} /\ Makes(c)
    BY <1>1, <1>2
  <1>14. g # Root => g = s.group[c.node.worm]
    BY <1>9
  <1>15. Changed(t, u, {c.node}, g, {}, {})
    BY <1>7
  <1> HIDE DEF i, n, r, w
  <1>16. Sound(u, Tail(q), s)
    BY <1>12, <1>13, <1>14, <1>15, SoundMade
  <1> QED
    BY <1>16

\* Node_Replace: a later effect of a worm arrives.
LEMMA SoundReplace ==
    ASSUME NEW t, NEW q, NEW s, Sound(t, q, s), q # << >>,
           NEW c, c = Head(q), c.action = "replace",
           c.target \in Ids(t), c.node.id \notin Ids(t),
           NEW u, u = Entered(t, c.node, "replace", c.target)
    PROVE  Sound(u, Tail(q), s)
  <1> DEFINE n == c.node
             w == n.worm
             i == c.target
             r == Tail(q)
             a == Node(i, w, "effect")
  <1>0. IsTree(t) /\ WellFormed(t)
    BY DEF Sound
  <1>1. /\ Makes(c) /\ c \in CommandSet /\ Formed(c, s) /\ n \in NodeSet /\ Sound(t, r, s)
        /\ Named(a, t, q, s)
    <2>1. Makes(c)
      BY DEF Makes
    <2> QED
      BY <2>1, NextCommand
  <1>2. n.role = "effect" /\ w \in Worms
    BY <1>1, ActionRole DEF NodeSet
  <1>3. i \in NodeBase + 1 .. n.id - 1
    BY <1>1, <1>2 DEF Formed
  <1>4. i \in Ids(t) /\ i # Root /\ i \in Nat
    <2>1. NodeBase \in Nat /\ n.id \in Nat
      BY <1>1, ServerAssumption DEF NodeSet
    <2> QED
      BY <1>3, <2>1 DEF Root
  <1>5. a \in NodeSet /\ a.id = i /\ a.worm = w /\ a.role = "effect"
    BY <1>2, <1>4 DEF Node, NodeSet, Roles
  <1>6. PICK g \in DOMAIN t : \E k \in 1 .. Len(t[g]) :
               t[g][k].id = i /\ PutInPlace(t, u, n, i, g, k)
    <2>1. /\ n.role # "group" /\ n \in NodeSet /\ n.id \notin Ids(t) /\ i \in Ids(t) /\ i # Root
          /\ u = Entered(t, n, "replace", i)
      BY <1>1, <1>2, <1>4
    <2> HIDE DEF n, i
    <2> QED
      BY <1>0, <2>1, ReplaceChanges
  <1>7. PICK k \in 1 .. Len(t[g]) :
             /\ t[g][k].id = i
             /\ Changed(t, u, {n}, g, {i}, {})
             /\ Len(u[g]) = Len(t[g]) /\ u[g][k] = n
             /\ \A j \in 1 .. Len(t[g]) : j # k => u[g][j] = t[g][j]
             /\ \A h \in DOMAIN t \ {g, i} : u[h] = t[h]
    BY <1>6 DEF PutInPlace
  <1> HIDE DEF a
  <1>8. t[g][k] \in Elements(t[g])
    BY <1>0, ListOf
  <1>9. /\ g # Root \/ s.lastGroup <= NodeBase => t[g][k] = a
        /\ g # Root => g = s.group[w]
    BY <1>1, <1>2, <1>5, <1>7, <1>8, TargetMeant
  <1>10. ASSUME s.lastGroup <= NodeBase PROVE OneBefore(u, r)
    <2>1. OneBefore(t, r)
      BY <1>1, <1>10 DEF Sound
    <2>2. \A x \in Nodes(u) : x \in Nodes(t) \/ x = n
      BY <1>7, NodesAre DEF Changed
    <2>3. a \in Nodes(t)
      BY <1>8, <1>9, <1>10, NodesAre
    <2> HIDE DEF r
    <2>4. \A j \in 1 .. Len(r) : r[j].action = "before" => r[j].node.worm # w
      BY <1>5, <2>1, <2>3 DEF OneBefore
    <2>5. \A x \in Nodes(u) : x.role = "effect" =>
               \/ x \in Nodes(t)
               \/ \A j \in 1 .. Len(r) : r[j].action = "before" => r[j].node.worm # x.worm
      BY <2>2, <2>4
    <2> QED
      BY <2>1, <2>5, BeforeStays
  <1>11. ASSUME s.lastGroup <= NodeBase, NEW h \in DOMAIN u \ {Root} PROVE Path(u[h])
    <2>0. \A j \in DOMAIN t \ {Root} : Path(t[j]) /\ t[j] \in Seq(NodeSet)
      BY <1>0, <1>11, ListOf DEF Sound, Paths
    <2>1. h \in DOMAIN t /\ h # i
      BY <1>2, <1>7 DEF Changed
    <2>2. CASE h # g
      BY <1>7, <2>0, <2>1, <2>2
    <2>3. CASE h = g
      <3>1. t[g][k].role = "effect" /\ u[g][k].role = "effect"
        BY <1>2, <1>5, <1>7, <1>9, <2>3
      <3>2. u[g] \in Seq(NodeSet)
        BY <1>7, <2>3, ListOf DEF Changed
      <3>3. Path(u[g])
        BY <1>7, <2>0, <2>1, <2>3, <3>1, <3>2, PathWithNewEffect
      <3> QED
        BY <2>3, <3>3
    <2> QED
      BY <2>2, <2>3
  <1>12. s.lastGroup <= NodeBase => OneBefore(u, Tail(q)) /\ Paths(u)
    <2>1. ASSUME s.lastGroup <= NodeBase PROVE \A x \in Elements(u[Root]) : x.role = "group"
      <3>1. Paths(t) /\ t[g][k] = a
        BY <1>9, <2>1 DEF Sound
      <3>2. g # Root
        BY <1>5, <1>8, <3>1 DEF Paths
      <3> QED
        BY <1>7, <3>1, <3>2, RootStays
    <2> QED
      BY <1>10, <1>11, <2>1 DEF Paths, r
  <1>13. (c.node.role = "group" => g = Root) /\ Root \notin {i} /\ Makes(c)
    BY <1>1, <1>2, <1>4
  <1>14. g # Root => g = s.group[c.node.worm]
    BY <1>9
  <1>15. Changed(t, u, {c.node}, g, {i}, {})
    BY <1>7
  <1> HIDE DEF i, n, r, w
  <1> QED
    BY <1>12, <1>13, <1>14, <1>15, SoundMade

\* What takes nodes out of the tree keeps the invariant, if no group loses
\* its connector alone.
LEMMA SoundLess ==
    ASSUME NEW t, NEW q, NEW s, Sound(t, q, s), NEW r \in Seq(CommandSet), Within(r, q),
           NEW u, NEW gone, NEW cleared, Changed(t, u, {}, Root, gone, cleared),
           Root \notin gone, Root \notin cleared,
           s.lastGroup <= NodeBase => \A g \in DOMAIN u \ {Root} : Path(u[g])
    PROVE  Sound(u, r, s)
  <1>1. \A x \in Nodes(u) : x \in Nodes(t)
    BY NodesAre DEF Changed
  <1>2. Sound(t, r, s)
    BY SoundWithin
  <1>3. s.lastGroup <= NodeBase => OneBefore(t, r)
    BY <1>2 DEF Sound
  <1>4. s.lastGroup <= NodeBase => OneBefore(u, r) /\ Paths(u)
    <2>1. ASSUME s.lastGroup <= NodeBase PROVE Paths(t)
      BY <2>1 DEF Sound
    <2>2. ASSUME s.lastGroup <= NodeBase PROVE \A x \in Elements(u[Root]) : x.role = "group"
      BY <2>1, <2>2, RootStays
    <2> QED
      BY <1>1, <1>3, <2>2, BeforeStays DEF Paths
  <1> DEFINE none == {}
  <1>5. /\ \A x, y \in none : x = y
        /\ \A x \in none : /\ x \in NodeSet /\ Issued(x, s) /\ x.id \notin Ids(t)
                           /\ x.role = "group" => Root = Root
                           /\ Root # Root => Root = s.group[x.worm]
                           /\ x.role # "group" => Named(x, t, q, s)
        /\ \A x \in none : \A k \in 1 .. Len(r) : Makes(r[k]) => r[k].node # x
        /\ Changed(t, u, none, Root, gone, cleared)
    OBVIOUS
  <1> HIDE DEF none
  <1> QED
    BY <1>4, <1>5, SoundTree

\* Group_DeleteAll: a group is emptied.
LEMMA SoundFreeAll ==
    ASSUME NEW t, NEW q, NEW s, Sound(t, q, s), NEW r \in Seq(CommandSet), Within(r, q),
           NEW i \in DOMAIN t, i # Root, NEW u, u = Emptied(t, i)
    PROVE  Sound(u, r, s)
  <1>1. IsTree(t) /\ WellFormed(t)
    BY DEF Sound
  <1>2. /\ Changed(t, u, {}, Root, {}, {i})
        /\ DOMAIN u = DOMAIN t /\ u[i] = << >>
        /\ \A g \in DOMAIN t \ {i} : u[g] = t[g]
    BY <1>1, EmptiedChanges
  <1>3. ASSUME s.lastGroup <= NodeBase PROVE \A g \in DOMAIN u \ {Root} : Path(u[g])
    <2>1. Paths(t)
      BY <1>3 DEF Sound
    <2> QED
      BY <1>2, <2>1, PathOfNone DEF Paths
  <1>4. Root \notin {} /\ Root \notin {i}
    OBVIOUS
  <1> QED
    BY <1>2, <1>3, <1>4, SoundLess

\* Node_Delete of a node that is no connector.
LEMMA SoundDeleted ==
    ASSUME NEW t, NEW q, NEW s, Sound(t, q, s), NEW r \in Seq(CommandSet), Within(r, q),
           NEW i, i # Root, NEW u, u = Deleted(t, i),
           s.lastGroup <= NodeBase =>
               \A g \in DOMAIN t \ {Root} : \A x \in Elements(t[g]) :
                   x.role = "output" => x.id # i
    PROVE  Sound(u, r, s)
  <1>1. IsTree(t) /\ WellFormed(t)
    BY DEF Sound
  <1>2. /\ Changed(t, u, {}, Root, {i}, {})
        /\ \A g \in DOMAIN u : \A R : Related(t[g], R) => Related(u[g], R)
    BY <1>1, DeletedChanges
  <1>3. ASSUME s.lastGroup <= NodeBase, NEW g \in DOMAIN u \ {Root} PROVE Path(u[g])
    <2>1. g \in DOMAIN t \ {Root} /\ g # i
      BY <1>2 DEF Changed
    <2>2. Path(t[g]) /\ (Related(t[g], PathOrder) => Related(u[g], PathOrder))
      BY <1>2, <1>3, <2>1 DEF Sound, Paths
    <2>3. \A x \in Elements(u[g]) : x \in Elements(t[g])
      BY <1>2 DEF Changed
    <2>4. \A x \in Elements(t[g]) : x.role = "output" => x \in Elements(u[g])
      BY <1>2, <1>3, <2>1 DEF Changed
    <2> QED
      BY <2>2, <2>3, <2>4, PathWithLess
  <1>4. /\ Root \notin {i} /\ Root \notin {}
        /\ s.lastGroup <= NodeBase => \A g \in DOMAIN u \ {Root} : Path(u[g])
    BY <1>3
  <1> QED
    BY <1>2, <1>4, SoundLess

\* The end of a note.
LEMMA SoundNoteEnds ==
    ASSUME NEW t, NEW q, NEW s, Sound(t, q, s), NEW n \in Nodes(t), n.role = "note"
    PROVE  Sound(Deleted(t, n.id), q, s)
  <1>1. IsTree(t) /\ WellFormed(t) /\ AllIssued(t, s) /\ q \in Seq(CommandSet)
    BY DEF Sound
  <1>2. PICK h \in DOMAIN t : n \in Elements(t[h])
    BY NodesAre
  <1>3. n.id # Root
    <2>1. n.id \in NodeBase + 1 .. s.last
      BY <1>1 DEF AllIssued, Issued
    <2> QED
      BY <2>1, ServerAssumption DEF Root
  <1>4. ASSUME NEW g \in DOMAIN t \ {Root}, NEW x \in Elements(t[g]), x.role = "output"
        PROVE  x.id # n.id
    BY <1>1, <1>2, <1>4, OneNode
  <1>5. Within(q, q)
    BY <1>1, WithinItself
  <1> QED
    BY <1>1, <1>3, <1>4, <1>5, SoundDeleted

\* meth_s_new, meth_g_new, meth_g_freeAll and meth_n_free, when they are not
\* refused.
LEMMA SoundPerformed ==
    ASSUME NEW t, NEW q, NEW s, Sound(t, q, s), q # << >>,
           NEW c, c = Head(q), ~Refuses(t, c)
    PROVE  Sound(Performed(t, c), Tail(q), s)
  <1> DEFINE w == c.node.worm
             r == Tail(q)
             u == Performed(t, c)
  <1>1. /\ c \in CommandSet /\ Formed(c, s) /\ c.node \in NodeSet
        /\ r \in Seq(CommandSet) /\ Within(r, q)
    BY NextCommand
  <1>2. w \in Worms /\ c.action \in Actions
    BY <1>1 DEF CommandSet, NodeSet
  <1>3. Makes(c) => c.node.id \notin Ids(t)
    BY DEF Refuses, NodeRefused
  <1>4. CASE c.action \in {"head", "tail"}
    <2>1. c.target \in DOMAIN t /\ Makes(c)
      BY <1>4 DEF Refuses, TargetFound, Makes
    <2>2. u = Entered(t, c.node, c.action, c.target)
      BY <2>1 DEF Performed
    <2> HIDE DEF u
    <2>3. Sound(u, Tail(q), s)
      BY <1>3, <1>4, <2>1, <2>2, SoundInto
    <2> QED
      BY <2>3 DEF u
  <1>5. CASE c.action = "before"
    <2>1. c.target \in Ids(t) /\ Makes(c)
      BY <1>5 DEF Refuses, TargetFound, Makes
    <2>2. u = Entered(t, c.node, "before", c.target)
      BY <1>5, <2>1 DEF Performed
    <2> HIDE DEF u
    <2>3. Sound(u, Tail(q), s)
      BY <1>3, <1>5, <2>1, <2>2, SoundBefore
    <2> QED
      BY <2>3 DEF u
  <1>6. CASE c.action = "replace"
    <2>1. c.target \in Ids(t) /\ Makes(c)
      BY <1>6 DEF Refuses, TargetFound, Makes
    <2>2. u = Entered(t, c.node, "replace", c.target)
      BY <1>6, <2>1 DEF Performed
    <2> HIDE DEF u
    <2>3. Sound(u, Tail(q), s)
      BY <1>3, <1>6, <2>1, <2>2, SoundReplace
    <2> QED
      BY <2>3 DEF u
  <1>7. c.action \in {"freeAll", "free"} =>
            c.target = s.group[w] /\ c.target # Root /\ ~Makes(c) /\ Born(w, s)
    <2>1. c.action \in {"freeAll", "free"} => c.target = s.group[w] /\ Born(w, s)
      BY <1>1, ActionRole DEF Formed
    <2>2. Born(w, s) => s.group[w] # Root
      BY <1>2, ClientFacts DEF Root
    <2> QED
      BY <2>1, <2>2 DEF Makes
  <1>8. CASE c.action = "freeAll"
    <2>1. c.target \in DOMAIN t
      BY <1>8 DEF Refuses, TargetFound
    <2>2. u = Emptied(t, c.target)
      BY <1>7, <1>8 DEF Performed
    <2> HIDE DEF u, r
    <2>3. Sound(u, r, s)
      BY <1>1, <1>7, <1>8, <2>1, <2>2, SoundFreeAll
    <2> QED
      BY <2>3 DEF u, r
  <1>9. CASE c.action = "free"
    <2>2. u = Deleted(t, c.target)
      BY <1>7, <1>9 DEF Performed
    <2>3. ASSUME s.lastGroup <= NodeBase, NEW g \in DOMAIN t \ {Root}, NEW x \in Elements(t[g])
          PROVE  x.id # c.target
      <3>1. x.id \in NodeBase + 1 .. s.last
        BY GroupMembers
      <3>2. c.target \in 1 .. s.lastGroup
        BY <1>2, <1>7, <1>9, ClientFacts
      <3> QED
        BY <1>2, <2>3, <3>1, <3>2, ClientFacts
    <2> HIDE DEF u, r
    <2>4. Sound(u, r, s)
      BY <1>1, <1>7, <1>9, <2>2, <2>3, SoundDeleted
    <2> QED
      BY <2>4 DEF u, r
  <1> QED
    BY <1>2, <1>4, <1>5, <1>6, <1>8, <1>9 DEF Actions

-----------------------------------------------------------------------------
(* The theorems about any delivery. *)

\* The inductive invariant of the specification.
ServerInv ==
    /\ ServerTypeOK
    /\ Sound(tree, queue, Client)

\* Before the first worm.
LEMMA ServerInit ==
    ASSUME Init
    PROVE  ServerInv
  <1> DEFINE s == Client
             q == << >>
             t == [g \in {Root} |-> << >>]
  <1>0. /\ NodeBase \in Nat /\ MaxIssued \in Nat /\ MaxLost \in Nat /\ MaxSetBack \in Nat
        /\ NodeBase \in NodeBase .. NodeBase + MaxIssued
        /\ \A b \in GroupBases : b \in Nat /\ b >= 1
    BY ServerAssumption
  <1>1. /\ s.life = [w \in Worms |-> "unborn"] /\ s.group = [w \in Worms |-> Nil]
        /\ s.output = [w \in Worms |-> Nil] /\ s.effect = [w \in Worms |-> Nil]
        /\ s.last = NodeBase /\ s.lastGroup \in GroupBases
        /\ queue = q /\ tree = t
    BY DEF Client, Init
  <1>2. ServerTypeOK
    BY <1>0 DEF ServerTypeOK, Init, Nil, Root
  <1> HIDE DEF s
  <1>3. \A w \in Worms : ~Born(w, s) /\ s.effect[w] = Nil
    BY <1>1 DEF Born
  <1>4. IsClient(s)
    BY <1>0, <1>1 DEF IsClient, Lives, Nil
  <1>5. IdsHandedOut(s)
    BY <1>3 DEF IdsHandedOut
  <1>6. DOMAIN t = {Root} /\ t[Root] = << >> /\ Elements(<< >>) = {}
    BY DEF Elements
  <1>7. IsTree(t)
    BY <1>6 DEF IsTree, Root
  <1>8. /\ q \in Seq(CommandSet) /\ Len(q) = 0 /\ \A k \in 1 .. Len(q) : FALSE
    OBVIOUS
  <1>9. Related(<< >>, IdsDiffer)
    BY DEF Related
  <1> HIDE DEF t, q
  <1>10. Nodes(t) = {}
    BY <1>6, NodesAre
  <1>11. WellFormed(t)
    BY <1>6, <1>9 DEF WellFormed
  <1>12. AllFormed(q, s) /\ Once(t, q) /\ OneBefore(t, q)
    BY <1>8 DEF AllFormed, Once, OneBefore
  <1>13. AllIssued(t, s) /\ InOwnGroup(t, s) /\ Paths(t)
    BY <1>6, <1>10 DEF AllIssued, InOwnGroup, Paths
  <1>14. \A a : ~Named(a, t, q, s)
    BY <1>3, <1>8, <1>10 DEF Named
  <1>15. OneName(t, q, s)
    BY <1>14 DEF OneName
  <1>16. Sound(t, q, s)
    BY <1>4, <1>5, <1>7, <1>8, <1>11, <1>12, <1>13, <1>15 DEF Sound
  <1> QED
    BY <1>1, <1>2, <1>16 DEF ServerInv, s

\* The history variables are of their types.
HistoryTyped ==
    /\ refused \subseteq Worms \X Roles
    /\ lost \in 0 .. MaxLost /\ setBack \in 0 .. MaxSetBack

\* Everything but the sets of the history variables follows from Sound.
LEMMA ServerTyped ==
    Sound(tree, queue, Client) /\ HistoryTyped => ServerTypeOK
  <1> SUFFICES ASSUME Sound(tree, queue, Client), HistoryTyped PROVE ServerTypeOK
    OBVIOUS
  <1>1. IsClient(Client) /\ IsTree(tree) /\ queue \in Seq(CommandSet)
    BY DEF Sound
  <1>2. /\ life \in [Worms -> Lives] /\ groupID \in [Worms -> Int]
        /\ outputNodeID \in [Worms -> Int] /\ activeEffectID \in [Worms -> Int]
        /\ lastNodeID \in NodeBase .. NodeBase + MaxIssued /\ lastGroupID \in Nat
    BY <1>1 DEF IsClient, Client
  <1>3. lastNodeID \in Nat
    BY <1>2, ServerAssumption
  <1> QED
    BY <1>1, <1>2, <1>3 DEF ServerTypeOK, IsTree, Lives, HistoryTyped

\* Every step of a worm and of the server keeps Sound.
LEMMA SoundStep ==
    ASSUME ServerInv, Next
    PROVE  Sound(tree, queue, Client)'
  <1> DEFINE s == Client
             z == Client'
  <1>0. Sound(tree, queue, s)
    BY DEF ServerInv
  <1>1. /\ s.life = life /\ s.group = groupID /\ s.output = outputNodeID
        /\ s.effect = activeEffectID /\ s.last = lastNodeID /\ s.lastGroup = lastGroupID
        /\ z.life = life' /\ z.group = groupID' /\ z.output = outputNodeID'
        /\ z.effect = activeEffectID' /\ z.last = lastNodeID' /\ z.lastGroup = lastGroupID'
    BY DEF Client
  <1>2. UNCHANGED clientVars => z = s
    BY DEF clientVars, Client
  <1> SUFFICES Sound(tree', queue', z)
    OBVIOUS
  <1> HIDE DEF s, z
  <1>3. ASSUME NEW w \in Worms, MantleSynths(w) PROVE Sound(tree', queue', z)
    <2>1. /\ s.life[w] = "unborn" /\ s.last < NodeBase + MaxIssued
          /\ z.life = [s.life EXCEPT ![w] = "alive"]
          /\ z.last = s.last + 1 /\ z.lastGroup = s.lastGroup + 1
          /\ z.group = [s.group EXCEPT ![w] = s.lastGroup + 1]
          /\ z.output = [s.output EXCEPT ![w] = s.last + 1]
          /\ z.effect = s.effect
      BY <1>1, <1>3 DEF MantleSynths, MayIssue, NextGroupID
    <2>2. tree' = tree /\ queue' = queue \o VoiceCommands(w, s.lastGroup + 1, s.last + 1)
      BY <1>1, <1>3 DEF MantleSynths, NextGroupID, serverVars
    <2>3. Sound(tree, queue \o VoiceCommands(w, s.lastGroup + 1, s.last + 1), z)
      BY <1>0, <2>1, SoundMantle
    <2> QED
      BY <2>2, <2>3, Zenon
  <1>4. ASSUME NEW w \in Worms, EatEffect(w) PROVE Sound(tree', queue', z)
    <2> DEFINE c == EffectCommand(w, lastNodeID + 1)
    <2>1. /\ s.life[w] = "alive" /\ s.last < NodeBase + MaxIssued
          /\ z.life = s.life /\ z.last = s.last + 1 /\ z.lastGroup = s.lastGroup
          /\ z.group = s.group /\ z.output = s.output
          /\ z.effect = [s.effect EXCEPT ![w] = s.last + 1]
      BY <1>1, <1>4 DEF EatEffect, MayIssue
    <2>2. tree' = tree /\ queue' = Append(queue, c)
      BY <1>4 DEF EatEffect, serverVars
    <2>3. c = IF s.effect[w] # Nil
                 THEN Command(s.last + 1, w, "effect", "replace", s.effect[w])
                 ELSE Command(s.last + 1, w, "effect", "before", s.output[w])
      BY <1>1 DEF EffectCommand
    <2> HIDE DEF c
    <2>4. Sound(tree, Append(queue, c), z)
      BY <1>0, <2>1, <2>3, SoundEffect
    <2> QED
      BY <2>2, <2>4, Zenon
  <1>5. ASSUME NEW w \in Worms, Fire(w) PROVE Sound(tree', queue', z)
    <2> DEFINE c == Command(s.last + 1, w, "note", "head", s.group[w])
    <2>1. /\ Born(w, s) /\ s.last < NodeBase + MaxIssued
          /\ z.life = s.life /\ z.last = s.last + 1 /\ z.lastGroup = s.lastGroup
          /\ z.group = s.group /\ z.output = s.output /\ z.effect = s.effect
      BY <1>1, <1>5 DEF Fire, MayIssue, Born
    <2>2. tree' = tree /\ queue' = Append(queue, c)
      BY <1>1, <1>5 DEF Fire, serverVars, NoteCommand
    <2>3. Sound(tree, Append(queue, c), z)
      BY <1>0, <2>1, SoundNote
    <2> HIDE DEF c
    <2> QED
      BY <2>2, <2>3, Zenon
  <1>6. ASSUME NEW w \in Worms, DismantleSynths(w) PROVE Sound(tree', queue', z)
    <2> DEFINE add == << Command(s.group[w], w, "freeAll", "freeAll", s.group[w]),
                         Command(s.group[w], w, "free", "free", s.group[w]) >>
               x == IF life[w] = "alive" THEN "cleared" ELSE "clearedTwice"
    <2>1. /\ Born(w, s) /\ x \in {"cleared", "clearedTwice"}
          /\ z.life = [s.life EXCEPT ![w] = x] /\ z.last = s.last /\ z.lastGroup = s.lastGroup
          /\ z.group = s.group /\ z.output = s.output /\ z.effect = s.effect
      BY <1>1, <1>6 DEF DismantleSynths, Born
    <2>2. tree' = tree /\ queue' = queue \o add
      BY <1>1, <1>6 DEF DismantleSynths, serverVars, FreeCommands
    <2>3. Sound(tree, queue \o add, z)
      <3> HIDE DEF x
      <3> QED
        BY <1>0, <2>1, SoundDismantle
    <2> HIDE DEF add
    <2> QED
      BY <2>2, <2>3, Zenon
  <1>7. ASSUME Perform PROVE Sound(tree', queue', z)
    <2>1. queue # << >> /\ queue' = Tail(queue) /\ z = s
      BY <1>2, <1>7 DEF Perform
    <2>2. CASE Refuses(tree, Head(queue))
      <3>1. tree' = tree
        BY <1>7, <2>2 DEF Perform
      <3>2. Sound(tree, Tail(queue), s)
        BY <1>0, <2>1, NextCommand
      <3> QED
        BY <2>1, <3>1, <3>2, Zenon
    <2>3. CASE ~Refuses(tree, Head(queue))
      <3>1. tree' = Performed(tree, Head(queue))
        BY <1>7, <2>3 DEF Perform
      <3>2. Sound(Performed(tree, Head(queue)), Tail(queue), s)
        BY <1>0, <2>1, <2>3, SoundPerformed
      <3> QED
        BY <2>1, <3>1, <3>2, Zenon
    <2> QED
      BY <2>2, <2>3
  <1>8. ASSUME NEW n \in Nodes(tree), NoteEnds(n) PROVE Sound(tree', queue', z)
    <2>1. n.role = "note" /\ tree' = Deleted(tree, n.id) /\ queue' = queue /\ z = s
      BY <1>2, <1>8 DEF NoteEnds
    <2>2. Sound(Deleted(tree, n.id), queue, s)
      BY <1>0, <2>1, SoundNoteEnds
    <2> QED
      BY <2>1, <2>2, Zenon
  <1>9. queue \in Seq(CommandSet) /\ DOMAIN queue = 1 .. Len(queue)
    BY <1>0 DEF Sound
  <1>10. ASSUME NEW k \in DOMAIN queue, Lose(k) PROVE Sound(tree', queue', z)
    <2>1. /\ queue' = SubSeq(queue, 1, k - 1) \o SubSeq(queue, k + 1, Len(queue))
          /\ tree' = tree /\ z = s
      BY <1>2, <1>10 DEF Lose
    <2>2. queue' \in Seq(CommandSet) /\ Within(queue', queue)
      BY <1>9, <2>1, WithinLose
    <2>3. Sound(tree, queue', s)
      BY <1>0, <2>2, SoundWithin
    <2> QED
      BY <2>1, <2>3, Zenon
  <1>11. ASSUME NEW k \in DOMAIN queue, NEW l \in DOMAIN queue, Overtake(k, l)
         PROVE  Sound(tree', queue', z)
    <2>1. /\ queue' = SubSeq(queue, 1, k - 1) \o << queue[l] >> \o
                      SubSeq(queue, k, l - 1) \o SubSeq(queue, l + 1, Len(queue))
          /\ tree' = tree /\ z = s /\ k < l
      BY <1>2, <1>11 DEF Overtake
    <2>2. queue' \in Seq(CommandSet) /\ Within(queue', queue)
      BY <1>9, <2>1, WithinOvertake
    <2>3. Sound(tree, queue', s)
      BY <1>0, <2>2, SoundWithin
    <2> QED
      BY <2>1, <2>3, Zenon
  <1> QED
    BY <1>3, <1>4, <1>5, <1>6, <1>7, <1>8, <1>10, <1>11 DEF Next

\* The counters and the history stay within their sets.
LEMMA HistoryStep ==
    ASSUME ServerInv, Next
    PROVE  HistoryTyped'
  <1>1. /\ refused \subseteq Worms \X Roles /\ queue \in Seq(CommandSet)
        /\ lost \in 0 .. MaxLost /\ setBack \in 0 .. MaxSetBack
        /\ MaxLost \in Nat /\ MaxSetBack \in Nat
    BY ServerAssumption DEF ServerInv, ServerTypeOK
  <1>2. CASE Perform
    <2>1. Head(queue) \in CommandSet /\ lost' = lost /\ setBack' = setBack
      BY <1>1, <1>2 DEF Perform
    <2>2. Head(queue).node.worm \in Worms /\ Head(queue).node.role \in Roles
      BY <2>1 DEF CommandSet, NodeSet
    <2>3. \/ refused' = refused
          \/ refused' = refused \cup {<<Head(queue).node.worm, Head(queue).node.role>>}
      BY <1>2 DEF Perform
    <2> QED
      BY <1>1, <2>1, <2>2, <2>3 DEF HistoryTyped
  <1>3. ASSUME NEW k \in DOMAIN queue, Lose(k)
        PROVE  HistoryTyped'
    BY <1>1, <1>3 DEF Lose, HistoryTyped
  <1>4. ASSUME NEW k \in DOMAIN queue, NEW l \in DOMAIN queue, Overtake(k, l)
        PROVE  HistoryTyped'
    BY <1>1, <1>4 DEF Overtake, HistoryTyped
  <1>5. ASSUME \/ \E w \in Worms : MantleSynths(w)
               \/ \E w \in Worms : EatEffect(w)
               \/ \E w \in Worms : Fire(w)
               \/ \E w \in Worms : DismantleSynths(w)
               \/ \E n \in Nodes(tree) : NoteEnds(n)
        PROVE  UNCHANGED <<refused, lost, setBack>>
    BY <1>5 DEF MantleSynths, EatEffect, Fire, DismantleSynths, NoteEnds, serverVars
  <1> QED
    BY <1>1, <1>2, <1>3, <1>4, <1>5 DEF Next, HistoryTyped

\* A step keeps the inductive invariant.
LEMMA ServerStep ==
    ASSUME ServerInv, [Next]_vars
    PROVE  ServerInv'
  <1>1. CASE Next
    <2>1. Sound(tree, queue, Client)'
      BY <1>1, SoundStep
    <2>2. HistoryTyped'
      BY <1>1, HistoryStep
    <2>3. ServerTypeOK'
      BY <2>1, <2>2, ServerTyped, PTL
    <2> QED
      BY <2>1, <2>3 DEF ServerInv
  <1>2. CASE UNCHANGED vars
    <2>1. tree' = tree /\ queue' = queue /\ Client' = Client
      BY <1>2 DEF vars, Client
    <2>2. ServerTypeOK'
      BY <1>2 DEF ServerInv, ServerTypeOK, vars
    <2> QED
      BY <2>1, <2>2 DEF ServerInv
  <1> QED
    BY <1>1, <1>2

\* The inductive invariant holds in every reachable state.
THEOREM ServerInvariant == Spec => []ServerInv
  <1>1. Init => ServerInv
    BY ServerInit
  <1>2. ServerInv /\ [Next]_vars => ServerInv'
    BY ServerStep
  <1> QED
    BY <1>1, <1>2, PTL DEF Spec

\* The counters, the worms' ids, the commands and the nodes of the tree are
\* always of their types.
THEOREM ServerTypeCorrect == Spec => []ServerTypeOK
  <1>1. ServerInv => ServerTypeOK
    BY DEF ServerInv
  <1> QED
    BY <1>1, ServerInvariant, PTL

\* Whatever is lost, overtaken or refused, no two nodes of the server have
\* one id and the groups with children are those in the root's list.
THEOREM TreeAlwaysWellFormed == Spec => []TreeWellFormed
  <1>1. ServerInv => TreeWellFormed
    BY WellFormedTree DEF ServerInv, Sound
  <1> QED
    BY <1>1, ServerInvariant, PTL

\* Whatever is lost, overtaken or refused, a worm's group holds only synths
\* of that worm.
THEOREM OwnGroupAlways == Spec => []OwnGroupOnly
  <1>1. ASSUME ServerInv PROVE OwnGroupOnly
    <2> DEFINE s == Client
    <2>1. Sound(tree, queue, s)
      BY <1>1 DEF ServerInv
    <2> HIDE DEF s
    <2> SUFFICES ASSUME NEW m \in Groups, NEW n \in Elements(tree[m.id])
                 PROVE  n.worm = m.worm
      BY DEF OwnGroupOnly
    <2>2. PICK g \in DOMAIN tree : m \in Elements(tree[g])
      BY NodesAre DEF Groups
    <2>3. m \in Nodes(tree) /\ m.role = "group"
      BY DEF Groups
    <2>4. m \in NodeSet /\ m.worm \in Worms
      BY <2>1, <2>2, ListOf DEF Sound, NodeSet
    <2>5. m.id \in DOMAIN tree
      BY <2>1, <2>2, <2>3 DEF Sound, WellFormed
    <2>6. Born(m.worm, s) /\ m.id = s.group[m.worm]
      BY <2>1, <2>3 DEF Sound, AllIssued, Issued
    <2>7. m.id # Root
      BY <2>1, <2>4, <2>6, ClientFacts DEF Root
    <2> QED
      BY <2>1, <2>4, <2>5, <2>6, <2>7, GroupMembers
  <1> QED
    BY <1>1, ServerInvariant, PTL

\* As long as group ids stay below the ids of synths, a connector is the last
\* node of its group and an effect stands directly before it.
THEOREM SignalPathAlways == Spec => []SignalPath
  <1>1. ASSUME ServerInv PROVE SignalPath
    <2> SUFFICES ASSUME GroupsFit, NEW g \in DOMAIN tree \ {Root}, NEW k \in DOMAIN tree[g]
                 PROVE  /\ tree[g][k].role = "output" => k = Len(tree[g])
                        /\ tree[g][k].role = "effect" =>
                              k = Len(tree[g]) - 1 /\ tree[g][k + 1].role = "output"
      BY DEF SignalPath
    <2>1. Client.lastGroup <= NodeBase
      BY DEF GroupsFit, Client
    <2>2. Path(tree[g]) /\ tree[g] \in Seq(NodeSet)
      BY <1>1, <2>1, ListOf DEF ServerInv, Sound, Paths
    <2> QED
      BY <2>2, PathMeans
  <1> QED
    BY <1>1, ServerInvariant, PTL

-----------------------------------------------------------------------------
(* The invariant of reliable delivery, and what the client does to it. *)

\* The roles of the commands of dismantleSynths.
Frees == {"freeAll", "free"}

\* The nodes a worm believes it has.
GroupOf(w, s) == Node(s.group[w], w, "group")
OutputOf(w, s) == Node(s.output[w], w, "output")
EffectOf(w, s) == Node(s.effect[w], w, "effect")

\* What is true of a command a and a later command b.
Follows(a, b, s) ==
    a.node.worm = b.node.worm =>
        /\ b.node.role # "group"
        /\ a.node.role \in Frees => b.node.role \in Frees \cup {"note"}
        /\ a.node.role = "free" /\ b.node.role \in Frees => s.life[b.node.worm] # "cleared"
        /\ a.action = "replace" /\ b.action = "replace" => a.target # b.target

\* The commands of a worm come in the order in which it sends them.
Orderly(q, s) == \A j, k \in 1 .. Len(q) : j < k => Follows(q[j], q[k], s)

\* Once a cleared worm's group is freed, the worm has no group and asks for none.
Freed(t, q, s) ==
    \A w \in Worms :
        s.life[w] \in {"cleared", "clearedTwice"} =>
            \/ \E k \in 1 .. Len(q) : q[k].node.worm = w /\ q[k].node.role = "free"
            \/ /\ s.group[w] \notin DOMAIN t
               /\ \A k \in 1 .. Len(q) : q[k].node.worm = w => q[k].node.role # "group"

\* The command c is in vain without the node n.
Needs(c, n, s) ==
    LET w == c.node.worm
    IN  \/ c.node.role = "output" /\ n = GroupOf(w, s)
        \/ c.node.role = "note" /\ s.life[w] = "alive" /\ n = GroupOf(w, s)
        \/ c.node.role \in Frees /\ s.life[w] = "cleared" /\ n = GroupOf(w, s)
        \/ c.action = "before" /\ n = OutputOf(w, s)
        \/ c.action = "replace" /\ n = Node(c.target, w, "effect")

\* A worm that is not cleared believes that it has the node n.
Believed(n, s) ==
    \E w \in Worms :
        /\ s.life[w] = "alive"
        /\ n = GroupOf(w, s) \/ n = OutputOf(w, s) \/ (s.effect[w] # Nil /\ n = EffectOf(w, s))

\* The node n is there when the first k - 1 commands are performed.
Stands(n, k, t, q) ==
    \/ n \in Nodes(t)
    \/ \E j \in 1 .. Len(q) : j < k /\ Makes(q[j]) /\ q[j].node = n

\* Whatever a command needs is there when its turn comes, and in the end all
\* that the worms believe they have.
Supplied(t, q, s) ==
    /\ \A k \in 1 .. Len(q) : \A n : Needs(q[k], n, s) => Stands(n, k, t, q)
    /\ \A n : Believed(n, s) => Stands(n, Len(q) + 1, t, q)

\* The inductive invariant of reliable delivery, of a tree, the commands on
\* their way and what the client knows.
Steady(t, q, s) ==
    /\ Orderly(q, s)
    /\ s.lastGroup <= NodeBase => Freed(t, q, s)
    /\ s.lastGroup <= NodeBase /\ Roomy => Supplied(t, q, s)

-----------------------------------------------------------------------------
\* A worm that is born keeps its group and its connector, and is cleared once
\* and a second time.
GoesOn(s, z) ==
    /\ s.lastGroup <= z.lastGroup
    /\ \A w \in Worms : Born(w, s) =>
         /\ z.group[w] = s.group[w] /\ z.output[w] = s.output[w]
         /\ \/ z.life[w] = s.life[w]
            \/ s.life[w] = "alive" /\ z.life[w] = "cleared"
            \/ s.life[w] = "cleared" /\ z.life[w] = "clearedTwice"

\* p is q and, behind it, add.
Longer(p, q, add) ==
    /\ p \in Seq(CommandSet) /\ Len(p) = Len(q) + Len(add)
    /\ Len(q) \in Nat /\ Len(add) \in Nat
    /\ \A k \in 1 .. Len(q) : k \in 1 .. Len(p) /\ p[k] = q[k]
    /\ \A i \in 1 .. Len(add) : Len(q) + i \in 1 .. Len(p) /\ p[Len(q) + i] = add[i]
    /\ \A k \in 1 .. Len(p) :
         \/ k \in 1 .. Len(q)
         \/ \E i \in 1 .. Len(add) : k = Len(q) + i

\* The commands of a queue that has got longer.
LEMMA Lengthening ==
    ASSUME NEW q \in Seq(CommandSet), NEW add \in Seq(CommandSet), NEW p, p = q \o add
    PROVE  Longer(p, q, add)
  <1>1. /\ p \in Seq(CommandSet) /\ Len(p) = Len(q) + Len(add)
        /\ \A i \in 1 .. Len(q) : p[i] = q[i]
        /\ \A i \in Len(q) + 1 .. Len(q) + Len(add) : p[i] = add[i - Len(q)]
    BY Joined
  <1>2. Len(q) \in Nat /\ Len(add) \in Nat
    OBVIOUS
  <1>3. \A k \in 1 .. Len(q) : k \in 1 .. Len(p)
    BY <1>1, <1>2
  <1>4. \A i \in 1 .. Len(add) :
            /\ Len(q) + i \in 1 .. Len(p) /\ Len(q) + i \in Len(q) + 1 .. Len(q) + Len(add)
            /\ (Len(q) + i) - Len(q) = i
    BY <1>1, <1>2
  <1>5. ASSUME NEW k \in 1 .. Len(p), k \notin 1 .. Len(q)
        PROVE  \E i \in 1 .. Len(add) : k = Len(q) + i
    <2>1. k - Len(q) \in 1 .. Len(add) /\ k = Len(q) + (k - Len(q))
      BY <1>1, <1>2, <1>5
    <2> QED
      BY <2>1
  <1>6. \A i \in 1 .. Len(add) : p[Len(q) + i] = add[i]
    BY <1>1, <1>4
  <1> QED
    BY <1>1, <1>2, <1>3, <1>4, <1>5, <1>6 DEF Longer

\* The commands add may come behind those of q.
InOrder(q, add, z) ==
    /\ \A j \in 1 .. Len(q), i \in 1 .. Len(add) : Follows(q[j], add[i], z)
    /\ \A i, j \in 1 .. Len(add) : i < j => Follows(add[i], add[j], z)

\* A worm that is cleared asks for its group to be freed.
FreesAtLast(add, s, z) ==
    \A w \in Worms : z.life[w] \in {"cleared", "clearedTwice"} =>
        \/ \E i \in 1 .. Len(add) : add[i].node.worm = w /\ add[i].node.role = "free"
        \/ /\ s.life[w] \in {"cleared", "clearedTwice"}
           /\ \A i \in 1 .. Len(add) : add[i].node.worm = w => add[i].node.role # "group"

\* What add needs, and what is believed with add on its way, was believed
\* before or is made by add.
NothingInVain(add, s, z) ==
    /\ \A i \in 1 .. Len(add) : \A n : Needs(add[i], n, z) =>
         \/ Believed(n, s)
         \/ \E j \in 1 .. Len(add) : j < i /\ Makes(add[j]) /\ add[j].node = n
    /\ \A n : Believed(n, z) =>
         \/ Believed(n, s)
         \/ \E j \in 1 .. Len(add) : Makes(add[j]) /\ add[j].node = n

\* What a step of a worm needs to keep the order.
LEMMA OrderlyClient ==
    ASSUME NEW q \in Seq(CommandSet), NEW s, Orderly(q, s), AllFormed(q, s),
           NEW z, GoesOn(s, z), NEW add \in Seq(CommandSet), NEW p, Longer(p, q, add),
           InOrder(q, add, z)
    PROVE  Orderly(p, z)
  <1>1. /\ p \in Seq(CommandSet) /\ Len(p) = Len(q) + Len(add)
        /\ Len(q) \in Nat /\ Len(add) \in Nat
        /\ \A k \in 1 .. Len(q) : k \in 1 .. Len(p) /\ p[k] = q[k]
        /\ \A i \in 1 .. Len(add) : Len(q) + i \in 1 .. Len(p) /\ p[Len(q) + i] = add[i]
        /\ \A k \in 1 .. Len(p) :
             \/ k \in 1 .. Len(q)
             \/ \E i \in 1 .. Len(add) : k = Len(q) + i
    BY DEF Longer
  <1> SUFFICES ASSUME NEW j \in 1 .. Len(p), NEW k \in 1 .. Len(p), j < k
               PROVE  Follows(p[j], p[k], z)
    BY DEF Orderly
  <1>2. CASE k \in 1 .. Len(q)
    <2>1. j \in 1 .. Len(q) /\ p[j] = q[j] /\ p[k] = q[k]
      BY <1>1, <1>2
    <2>2. Follows(q[j], q[k], s) /\ Formed(q[k], s) /\ q[k] \in CommandSet
      BY <1>2, <2>1 DEF Orderly, AllFormed
    <2>3. q[k].node.worm \in Worms /\ Born(q[k].node.worm, s)
      BY <2>2 DEF CommandSet, NodeSet, Formed
    <2>4. q[k].node.role \in Frees => s.life[q[k].node.worm] # "alive"
      BY <2>2 DEF Formed, Frees
    <2>5. q[k].node.role \in Frees /\ z.life[q[k].node.worm] = "cleared"
             => s.life[q[k].node.worm] = "cleared"
      BY <2>3, <2>4 DEF GoesOn
    <2> QED
      BY <2>1, <2>2, <2>5 DEF Follows
  <1>3. ASSUME NEW i \in 1 .. Len(add), k = Len(q) + i PROVE Follows(p[j], p[k], z)
    <2>1. CASE j \in 1 .. Len(q)
      BY <1>1, <1>3, <2>1 DEF InOrder
    <2>2. ASSUME NEW l \in 1 .. Len(add), j = Len(q) + l PROVE Follows(p[j], p[k], z)
      <3>1. l < i
        BY <1>1, <1>3, <2>2
      <3> QED
        BY <1>1, <1>3, <2>2, <3>1 DEF InOrder
    <2> QED
      BY <1>1, <2>1, <2>2
  <1> QED
    BY <1>1, <1>2, <1>3

\* What a step of a worm needs so that the groups of cleared worms stay freed.
LEMMA FreedClient ==
    ASSUME NEW t, NEW q \in Seq(CommandSet), NEW s, Freed(t, q, s), IsClient(s),
           NEW z, GoesOn(s, z), NEW add \in Seq(CommandSet), NEW p, Longer(p, q, add),
           FreesAtLast(add, s, z)
    PROVE  Freed(t, p, z)
  <1>1. /\ \A k \in 1 .. Len(q) : k \in 1 .. Len(p) /\ p[k] = q[k]
        /\ \A i \in 1 .. Len(add) : Len(q) + i \in 1 .. Len(p) /\ p[Len(q) + i] = add[i]
        /\ \A k \in 1 .. Len(p) :
             \/ k \in 1 .. Len(q)
             \/ \E i \in 1 .. Len(add) : k = Len(q) + i
    BY DEF Longer
  <1> SUFFICES ASSUME NEW w \in Worms, z.life[w] \in {"cleared", "clearedTwice"},
                      \A k \in 1 .. Len(p) : ~(p[k].node.worm = w /\ p[k].node.role = "free")
               PROVE  /\ z.group[w] \notin DOMAIN t
                      /\ \A k \in 1 .. Len(p) : p[k].node.worm = w => p[k].node.role # "group"
    BY DEF Freed
  <1>2. /\ s.life[w] \in {"cleared", "clearedTwice"}
        /\ \A i \in 1 .. Len(add) : add[i].node.worm = w => add[i].node.role # "group"
    <2>1. ASSUME NEW i \in 1 .. Len(add)
          PROVE  ~(add[i].node.worm = w /\ add[i].node.role = "free")
      <3>1. Len(q) + i \in 1 .. Len(p) /\ p[Len(q) + i] = add[i]
        BY <1>1
      <3> QED
        BY <3>1, Zenon
    <2> QED
      BY <2>1 DEF FreesAtLast
  <1>3. /\ s.group[w] \notin DOMAIN t
        /\ \A k \in 1 .. Len(q) : q[k].node.worm = w => q[k].node.role # "group"
    <2>1. \A k \in 1 .. Len(q) : ~(q[k].node.worm = w /\ q[k].node.role = "free")
      BY <1>1
    <2> QED
      BY <1>2, <2>1 DEF Freed
  <1>4. z.group[w] = s.group[w]
    BY <1>2 DEF GoesOn, Born
  <1>5. ASSUME NEW k \in 1 .. Len(p), p[k].node.worm = w PROVE p[k].node.role # "group"
    <2>1. CASE k \in 1 .. Len(q)
      BY <1>1, <1>3, <1>5, <2>1
    <2>2. ASSUME NEW i \in 1 .. Len(add), k = Len(q) + i PROVE p[k].node.role # "group"
      BY <1>1, <1>2, <1>5, <2>2
    <2> QED
      BY <1>1, <2>1, <2>2
  <1> QED
    BY <1>3, <1>4, <1>5

\* What a step of a worm needs to keep the nodes that commands need.
LEMMA SuppliedClient ==
    ASSUME NEW t, NEW q \in Seq(CommandSet), NEW s, Supplied(t, q, s), AllFormed(q, s),
           NEW z, GoesOn(s, z), NEW add \in Seq(CommandSet), NEW p, Longer(p, q, add),
           NothingInVain(add, s, z)
    PROVE  Supplied(t, p, z)
  <1>1. /\ Len(p) = Len(q) + Len(add) /\ Len(q) \in Nat /\ Len(add) \in Nat
        /\ \A k \in 1 .. Len(q) : k \in 1 .. Len(p) /\ p[k] = q[k]
        /\ \A i \in 1 .. Len(add) : Len(q) + i \in 1 .. Len(p) /\ p[Len(q) + i] = add[i]
        /\ \A k \in 1 .. Len(p) :
             \/ k \in 1 .. Len(q)
             \/ \E i \in 1 .. Len(add) : k = Len(q) + i
    BY DEF Longer
  <1>2. ASSUME NEW n, NEW k \in 1 .. Len(q) + 1, Stands(n, k, t, q), NEW l \in Nat, k <= l
        PROVE  Stands(n, l, t, p)
    <2>1. CASE n \in Nodes(t)
      BY <2>1 DEF Stands
    <2>2. ASSUME NEW j \in 1 .. Len(q), j < k, Makes(q[j]), q[j].node = n
          PROVE  Stands(n, l, t, p)
      <3>1. j \in 1 .. Len(p) /\ p[j] = q[j]
        BY <1>1
      <3>2. j < l
        BY <1>1, <1>2, <2>2
      <3> QED
        BY <2>2, <3>1, <3>2 DEF Stands
    <2> QED
      BY <1>2, <2>1, <2>2 DEF Stands
  <1>3. ASSUME NEW n, Believed(n, s), NEW l \in Nat, Len(q) + 1 <= l
        PROVE  Stands(n, l, t, p)
    <2>1. Stands(n, Len(q) + 1, t, q) /\ Len(q) + 1 \in 1 .. Len(q) + 1
      BY <1>1, <1>3 DEF Supplied
    <2> QED
      BY <1>2, <1>3, <2>1
  <1>4. ASSUME NEW j \in 1 .. Len(add), Makes(add[j]), NEW l \in Nat, Len(q) + j < l
        PROVE  Stands(add[j].node, l, t, p)
    BY <1>1, <1>4 DEF Stands
  <1>5. ASSUME NEW k \in 1 .. Len(q), NEW n, Needs(q[k], n, z) PROVE Needs(q[k], n, s)
    <2> DEFINE w == q[k].node.worm
    <2>1. q[k] \in CommandSet /\ Formed(q[k], s)
      BY DEF AllFormed
    <2>2. w \in Worms /\ Born(w, s)
      BY <2>1 DEF CommandSet, NodeSet, Formed
    <2>3. GroupOf(w, z) = GroupOf(w, s) /\ OutputOf(w, z) = OutputOf(w, s)
      BY <2>2 DEF GoesOn, GroupOf, OutputOf
    <2>4. z.life[w] = "alive" => s.life[w] = "alive"
      BY <2>2 DEF GoesOn
    <2>5. q[k].node.role \in Frees => s.life[w] # "alive"
      BY <2>1 DEF Formed, Frees
    <2>6. q[k].node.role \in Frees /\ z.life[w] = "cleared" => s.life[w] = "cleared"
      BY <2>2, <2>5 DEF GoesOn
    <2> QED
      BY <1>5, <2>3, <2>4, <2>6 DEF Needs
  <1>6. ASSUME NEW k \in 1 .. Len(p), NEW n, Needs(p[k], n, z) PROVE Stands(n, k, t, p)
    <2>0. k \in Nat /\ k <= k
      BY <1>1
    <2>1. CASE k \in 1 .. Len(q)
      <3>1. p[k] = q[k] /\ Needs(q[k], n, s)
        BY <1>1, <1>5, <1>6, <2>1
      <3>2. Stands(n, k, t, q) /\ k \in 1 .. Len(q) + 1
        BY <1>1, <2>1, <3>1 DEF Supplied
      <3> QED
        BY <1>2, <2>0, <3>2
    <2>2. ASSUME NEW i \in 1 .. Len(add), k = Len(q) + i PROVE Stands(n, k, t, p)
      <3>1. Needs(add[i], n, z) /\ Len(q) + 1 <= k
        BY <1>1, <1>6, <2>2
      <3>2. CASE Believed(n, s)
        BY <1>3, <2>0, <3>1, <3>2
      <3>3. ASSUME NEW j \in 1 .. Len(add), j < i, Makes(add[j]), add[j].node = n
            PROVE  Stands(n, k, t, p)
        <4>1. Len(q) + j < k
          BY <1>1, <2>2, <3>3
        <4> QED
          BY <1>4, <2>0, <3>3, <4>1
      <3> QED
        BY <3>1, <3>2, <3>3 DEF NothingInVain
    <2> QED
      BY <1>1, <2>1, <2>2
  <1>7. ASSUME NEW n, Believed(n, z) PROVE Stands(n, Len(p) + 1, t, p)
    <2>0. Len(p) + 1 \in Nat /\ Len(q) + 1 <= Len(p) + 1
      BY <1>1
    <2>1. CASE Believed(n, s)
      BY <1>3, <2>0, <2>1
    <2>2. ASSUME NEW j \in 1 .. Len(add), Makes(add[j]), add[j].node = n
          PROVE  Stands(n, Len(p) + 1, t, p)
      <3>1. Len(q) + j < Len(p) + 1
        BY <1>1
      <3> QED
        BY <1>4, <2>0, <2>2, <3>1
    <2> QED
      BY <1>7, <2>1, <2>2 DEF NothingInVain
  <1> QED
    BY <1>6, <1>7 DEF Supplied

\* What a step of a worm needs to keep Steady.
LEMMA SteadyClient ==
    ASSUME NEW t, NEW q, NEW s, Sound(t, q, s), Steady(t, q, s),
           NEW z, GoesOn(s, z), z.lastGroup \in Nat,
           NEW add \in Seq(CommandSet), NEW p, p = q \o add,
           InOrder(q, add, z), FreesAtLast(add, s, z), NothingInVain(add, s, z)
    PROVE  Steady(t, p, z)
  <1>1. q \in Seq(CommandSet) /\ IsClient(s) /\ AllFormed(q, s)
    BY DEF Sound
  <1>2. Longer(p, q, add)
    BY <1>1, Lengthening
  <1>3. z.lastGroup <= NodeBase => s.lastGroup <= NodeBase
    BY <1>1, ServerAssumption DEF GoesOn, IsClient
  <1>4. Orderly(p, z)
    <2>1. Orderly(q, s)
      BY DEF Steady
    <2> QED
      BY <1>1, <1>2, <2>1, OrderlyClient, Zenon
  <1>5. ASSUME s.lastGroup <= NodeBase PROVE Freed(t, p, z)
    <2>1. Freed(t, q, s)
      BY <1>5 DEF Steady
    <2> QED
      BY <1>1, <1>2, <2>1, FreedClient, Zenon
  <1>6. ASSUME s.lastGroup <= NodeBase, Roomy PROVE Supplied(t, p, z)
    <2>1. Supplied(t, q, s)
      BY <1>6 DEF Steady
    <2> QED
      BY <1>1, <1>2, <2>1, SuppliedClient, Zenon
  <1> QED
    BY <1>3, <1>4, <1>5, <1>6 DEF Steady

\* The commands of an unborn worm, and of one that is not cleared.
LEMMA NotYetSent ==
    ASSUME NEW t, NEW q, NEW s, Sound(t, q, s), NEW w \in Worms, NEW k \in 1 .. Len(q),
           q[k].node.worm = w
    PROVE  /\ s.life[w] # "unborn"
           /\ s.life[w] = "alive" => q[k].node.role \notin Frees
           /\ q[k].action = "replace" /\ s.effect[w] # Nil => q[k].target # s.effect[w]
  <1>1. q[k] \in CommandSet /\ Formed(q[k], s) /\ IsClient(s)
    BY DEF Sound, AllFormed
  <1>2. ASSUME q[k].action = "replace", s.effect[w] # Nil PROVE q[k].target # s.effect[w]
    <2>1. q[k].node.role = "effect"
      BY <1>1, <1>2, ActionRole
    <2>2. q[k].target \in NodeBase + 1 .. q[k].node.id - 1 /\ q[k].node.id <= s.effect[w]
      BY <1>1, <1>2, <2>1 DEF Formed, Issued, SynthRoles
    <2>3. q[k].node.id \in Nat /\ s.effect[w] \in Int /\ NodeBase \in Nat
      BY <1>1, ServerAssumption DEF CommandSet, NodeSet, IsClient
    <2> QED
      BY <2>2, <2>3
  <1> QED
    BY <1>1, <1>2 DEF Formed, Born, Frees

\* -[PWWorm mantleSynths]
LEMMA SteadyMantle ==
    ASSUME NEW t, NEW q, NEW s, Sound(t, q, s), Steady(t, q, s),
           NEW w \in Worms, s.life[w] = "unborn", NEW z,
           z.life = [s.life EXCEPT ![w] = "alive"], z.lastGroup = s.lastGroup + 1,
           z.group = [s.group EXCEPT ![w] = s.lastGroup + 1],
           z.output = [s.output EXCEPT ![w] = s.last + 1], z.effect = s.effect
    PROVE  Steady(t, q \o VoiceCommands(w, s.lastGroup + 1, s.last + 1), z)
  <1> DEFINE g == s.lastGroup + 1
             o == s.last + 1
             c == Command(g, w, "group", "tail", Root)
             d == Command(o, w, "output", "tail", g)
             add == << c, d >>
             p == q \o add
  <1>1. IsClient(s) /\ IdsHandedOut(s) /\ s.lastGroup \in Nat /\ s.last \in Nat
    BY ClientFacts DEF Sound
  <1>2. c \in CommandSet /\ d \in CommandSet
    <2>1. {"group", "output"} \subseteq Roles /\ "tail" \in Actions /\ Root \in Nat
      BY DEF Roles, Actions, Root
    <2> QED
      BY <1>1, <2>1, CommandTyped
  <1>3. /\ z.life[w] = "alive" /\ z.group[w] = g /\ z.output[w] = o /\ z.effect[w] = Nil
        /\ \A v \in Worms \ {w} : /\ z.life[v] = s.life[v] /\ z.group[v] = s.group[v]
                                  /\ z.output[v] = s.output[v] /\ z.effect[v] = s.effect[v]
    BY <1>1 DEF IsClient, IdsHandedOut, Born
  <1>4. /\ c.node = Node(g, w, "group") /\ c.action = "tail" /\ c.node.worm = w
        /\ c.node.role = "group"
        /\ d.node = Node(o, w, "output") /\ d.action = "tail" /\ d.node.worm = w
        /\ d.node.role = "output"
    BY DEF Command, Node
  <1>5. Makes(c) /\ Makes(d) /\ c.node = GroupOf(w, z) /\ d.node = OutputOf(w, z)
    BY <1>3, <1>4 DEF Makes, GroupOf, OutputOf
  <1>6. /\ add \in Seq(CommandSet) /\ Len(add) = 2 /\ add[1] = c /\ add[2] = d
    BY <1>2
  <1>7. VoiceCommands(w, g, o) = add
    BY DEF VoiceCommands
  <1> HIDE DEF c, d, add
  <1>8. 1 \in 1 .. Len(add) /\ 2 \in 1 .. Len(add) /\ \A i \in 1 .. Len(add) : i = 1 \/ i = 2
    BY <1>6
  <1>9. GoesOn(s, z)
    <2>1. s.lastGroup <= z.lastGroup
      BY <1>1
    <2>2. \A v \in Worms : Born(v, s) => v # w
      BY DEF Born
    <2> QED
      BY <1>3, <2>1, <2>2 DEF GoesOn
  <1>10. \A j \in 1 .. Len(q), i \in 1 .. Len(add) : Follows(q[j], add[i], z)
    <2>1. \A j \in 1 .. Len(q) : q[j].node.worm # w
      BY NotYetSent
    <2> QED
      BY <1>4, <1>6, <1>8, <2>1 DEF Follows
  <1>11. \A i, j \in 1 .. Len(add) : i < j => Follows(add[i], add[j], z)
    <2>1. Follows(c, d, z)
      BY <1>4 DEF Follows, Frees
    <2>2. \A i, j \in 1 .. Len(add) : i < j => i = 1 /\ j = 2
      BY <1>8
    <2> QED
      BY <1>6, <2>1, <2>2
  <1>12. ASSUME NEW v \in Worms, z.life[v] \in {"cleared", "clearedTwice"}
         PROVE  /\ s.life[v] \in {"cleared", "clearedTwice"}
                /\ \A i \in 1 .. Len(add) : add[i].node.worm = v => add[i].node.role # "group"
    <2>1. v # w
      BY <1>3, <1>12
    <2> QED
      BY <1>3, <1>4, <1>6, <1>8, <1>12, <2>1
  <1>13. ASSUME NEW i \in 1 .. Len(add), NEW n, Needs(add[i], n, z)
         PROVE  \E j \in 1 .. Len(add) : j < i /\ Makes(add[j]) /\ add[j].node = n
    <2>1. i = 2 /\ n = GroupOf(w, z)
      BY <1>4, <1>6, <1>8, <1>13 DEF Needs, Frees
    <2>2. 1 < i
      BY <2>1
    <2> QED
      BY <1>5, <1>6, <1>8, <2>1, <2>2
  <1>14. ASSUME NEW n, Believed(n, z)
         PROVE  \/ Believed(n, s)
                \/ \E j \in 1 .. Len(add) : Makes(add[j]) /\ add[j].node = n
    <2>1. PICK v \in Worms : /\ z.life[v] = "alive"
                             /\ \/ n = GroupOf(v, z) \/ n = OutputOf(v, z)
                                \/ z.effect[v] # Nil /\ n = EffectOf(v, z)
      BY <1>14 DEF Believed
    <2>2. CASE v = w
      <3>1. n = GroupOf(w, z) \/ n = OutputOf(w, z)
        BY <1>3, <2>1, <2>2
      <3> QED
        BY <1>5, <1>6, <1>8, <3>1
    <2>3. CASE v # w
      <3>1. /\ GroupOf(v, z) = GroupOf(v, s) /\ OutputOf(v, z) = OutputOf(v, s)
            /\ EffectOf(v, z) = EffectOf(v, s) /\ z.life[v] = s.life[v]
            /\ z.effect[v] = s.effect[v]
        BY <1>3, <2>3 DEF GroupOf, OutputOf, EffectOf
      <3> QED
        BY <2>1, <3>1 DEF Believed
    <2> QED
      BY <2>2, <2>3
  <1>15. z.lastGroup \in Nat /\ add \in Seq(CommandSet)
    BY <1>1, <1>6
  <1>17. InOrder(q, add, z)
    BY <1>10, <1>11 DEF InOrder
  <1>18. FreesAtLast(add, s, z)
    BY <1>12 DEF FreesAtLast
  <1>19. NothingInVain(add, s, z)
    BY <1>13, <1>14 DEF NothingInVain
  <1>20. p = q \o add
    OBVIOUS
  <1> HIDE DEF p
  <1>16. Steady(t, p, z)
    BY <1>9, <1>15, <1>17, <1>18, <1>19, <1>20, SteadyClient, Zenon
  <1> QED
    BY <1>7, <1>16, <1>20

\* The command c of the worm w makes a synth, and w may keep its id as the
\* one of its effect.
SynthSent(c, w, s, z) ==
    /\ Makes(c) /\ c.node.worm = w
    /\ c.node.role = "effect" \/ c.node.role = "note"
    /\ \A v \in Worms : v # w => z.effect[v] = s.effect[v]
    /\ z.effect[w] = s.effect[w] \/ c.node = EffectOf(w, z)
    /\ c.node.role = "effect" => s.life[w] = "alive"
    /\ c.node.role = "note" => c.action = "head"
    /\ c.action = "replace" => s.effect[w] # Nil /\ c.target = s.effect[w]

\* One command about a new synth, which the server will be able to perform.
LEMMA SteadySynth ==
    ASSUME NEW t, NEW q, NEW s, Sound(t, q, s), Steady(t, q, s), NEW w \in Worms, Born(w, s),
           NEW z, z.life = s.life, z.lastGroup = s.lastGroup,
           z.group = s.group, z.output = s.output,
           NEW c \in CommandSet, SynthSent(c, w, s, z)
    PROVE  Steady(t, Append(q, c), z)
  <1>0. /\ Makes(c) /\ c.node.worm = w
        /\ c.node.role = "effect" \/ c.node.role = "note"
        /\ \A v \in Worms : v # w => z.effect[v] = s.effect[v]
        /\ z.effect[w] = s.effect[w] \/ c.node = EffectOf(w, z)
        /\ c.node.role = "effect" => s.life[w] = "alive"
        /\ c.node.role = "note" => c.action = "head"
        /\ c.action = "replace" => s.effect[w] # Nil /\ c.target = s.effect[w]
    BY DEF SynthSent
  <1> DEFINE add == << c >>
             p == Append(q, c)
  <1>1. q \in Seq(CommandSet) /\ s.lastGroup \in Nat
    BY ClientFacts DEF Sound
  <1>2. add \in Seq(CommandSet) /\ Len(add) = 1 /\ add[1] = c /\ p = q \o add
    BY <1>1
  <1> HIDE DEF add, p
  <1>3. 1 \in 1 .. Len(add) /\ \A i \in 1 .. Len(add) : i = 1
    BY <1>2
  <1>4. GoesOn(s, z)
    BY <1>1 DEF GoesOn
  <1>5. \A j \in 1 .. Len(q), i \in 1 .. Len(add) : Follows(q[j], add[i], z)
    <2>1. ASSUME NEW j \in 1 .. Len(q) PROVE Follows(q[j], c, z)
      <3>1. q[j].node.worm = w =>
               /\ s.life[w] = "alive" => q[j].node.role \notin Frees
               /\ q[j].action = "replace" /\ s.effect[w] # Nil => q[j].target # s.effect[w]
        BY NotYetSent
      <3> QED
        BY <1>0, <3>1 DEF Follows, Frees
    <2> QED
      BY <1>2, <1>3, <2>1
  <1>6. \A i, j \in 1 .. Len(add) : i < j => Follows(add[i], add[j], z)
    BY <1>2
  <1>7. \A v \in Worms : z.life[v] \in {"cleared", "clearedTwice"} =>
               \/ \E i \in 1 .. Len(add) : add[i].node.worm = v /\ add[i].node.role = "free"
               \/ /\ s.life[v] \in {"cleared", "clearedTwice"}
                  /\ \A i \in 1 .. Len(add) : add[i].node.worm = v => add[i].node.role # "group"
    <2>1. \A i \in 1 .. Len(add) : add[i].node.role # "group"
      BY <1>0, <1>2, <1>3
    <2> QED
      BY <2>1
  <1>8. /\ \A v \in Worms : GroupOf(v, z) = GroupOf(v, s) /\ OutputOf(v, z) = OutputOf(v, s)
        /\ \A v \in Worms \ {w} : EffectOf(v, z) = EffectOf(v, s)
        /\ z.effect[w] = s.effect[w] => EffectOf(w, z) = EffectOf(w, s)
    BY <1>0 DEF GroupOf, OutputOf, EffectOf
  <1>9. ASSUME NEW n, Needs(c, n, z) PROVE Believed(n, s)
    <2>1. s.life[w] = "alive"
      BY <1>0, <1>9 DEF Needs, Frees
    <2>2. \/ n = GroupOf(w, s) \/ n = OutputOf(w, s)
          \/ s.effect[w] # Nil /\ n = Node(s.effect[w], w, "effect")
      BY <1>0, <1>8, <1>9 DEF Needs
    <2> QED
      BY <2>1, <2>2 DEF Believed, EffectOf
  <1>10. \A i \in 1 .. Len(add) : \A n : Needs(add[i], n, z) =>
               \/ Believed(n, s)
               \/ \E j \in 1 .. Len(add) : j < i /\ Makes(add[j]) /\ add[j].node = n
    BY <1>2, <1>3, <1>9
  <1>11. ASSUME NEW n, Believed(n, z)
         PROVE  \/ Believed(n, s)
                \/ \E j \in 1 .. Len(add) : Makes(add[j]) /\ add[j].node = n
    <2>1. PICK v \in Worms : /\ z.life[v] = "alive"
                             /\ \/ n = GroupOf(v, z) \/ n = OutputOf(v, z)
                                \/ z.effect[v] # Nil /\ n = EffectOf(v, z)
      BY <1>11 DEF Believed
    <2>2. CASE n = GroupOf(v, z) \/ n = OutputOf(v, z)
      BY <1>8, <2>1, <2>2 DEF Believed
    <2>3. CASE z.effect[v] # Nil /\ n = EffectOf(v, z)
      <3>1. CASE v = w /\ c.node = EffectOf(w, z)
        BY <1>0, <1>2, <1>3, <2>3, <3>1
      <3>2. CASE z.effect[v] = s.effect[v] /\ EffectOf(v, z) = EffectOf(v, s)
        BY <2>1, <2>3, <3>2 DEF Believed
      <3> QED
        BY <1>0, <1>8, <3>1, <3>2
    <2> QED
      BY <2>1, <2>2, <2>3
  <1>12. z.lastGroup \in Nat /\ add \in Seq(CommandSet)
    BY <1>1, <1>2
  <1>13. p = q \o add
    BY <1>2
  <1>14. /\ InOrder(q, add, z) /\ FreesAtLast(add, s, z) /\ NothingInVain(add, s, z)
    BY <1>5, <1>6, <1>7, <1>10, <1>11 DEF InOrder, FreesAtLast, NothingInVain
  <1>15. Steady(t, p, z)
    BY <1>4, <1>12, <1>13, <1>14, SteadyClient, Zenon
  <1> QED
    BY <1>15 DEF p

\* -[PWWorm eatEffect:]
LEMMA SteadyEffect ==
    ASSUME NEW t, NEW q, NEW s, Sound(t, q, s), Steady(t, q, s),
           NEW w \in Worms, s.life[w] = "alive", NEW z,
           z.life = s.life, z.lastGroup = s.lastGroup,
           z.group = s.group, z.output = s.output,
           z.effect = [s.effect EXCEPT ![w] = s.last + 1],
           NEW c,
           s.effect[w] # Nil => c = Command(s.last + 1, w, "effect", "replace", s.effect[w]),
           s.effect[w] = Nil => c = Command(s.last + 1, w, "effect", "before", s.output[w])
    PROVE  Steady(t, Append(q, c), z)
  <1>1. /\ s.last \in Nat /\ Born(w, s) /\ s.output[w] \in Nat /\ s.effect[w] \in Int
        /\ NodeBase \in Nat
    BY ClientFacts DEF Born
  <1>2. s.effect[w] # Nil => s.effect[w] \in NodeBase + 1 .. s.last
    BY DEF Sound, IdsHandedOut
  <1>3. s.effect[w] # Nil => s.effect[w] \in Nat
    BY <1>1, <1>2
  <1>4. "effect" \in Roles /\ "before" \in Actions /\ "replace" \in Actions /\ s.last + 1 \in Nat
    BY <1>1 DEF Roles, Actions
  <1>5. c \in CommandSet
    BY <1>1, <1>3, <1>4, CommandTyped
  <1>6. /\ c.node = Node(s.last + 1, w, "effect")
        /\ c.action = "replace" => s.effect[w] # Nil /\ c.target = s.effect[w]
        /\ c.action = "before" \/ c.action = "replace"
    BY DEF Command
  <1>7. c.node.worm = w /\ c.node.role = "effect" /\ Makes(c)
    BY <1>6 DEF Node, Makes
  <1>8. z.effect[w] = s.last + 1 /\ \A v \in Worms : v # w => z.effect[v] = s.effect[v]
    BY DEF Sound, IsClient
  <1>9. c.node = EffectOf(w, z)
    BY <1>6, <1>8 DEF EffectOf
  <1>10. SynthSent(c, w, s, z)
    BY <1>6, <1>7, <1>8, <1>9 DEF SynthSent
  <1> QED
    BY <1>1, <1>5, <1>10, SteadySynth

\* -[EWPitchEvent fire]
LEMMA SteadyNote ==
    ASSUME NEW t, NEW q, NEW s, Sound(t, q, s), Steady(t, q, s),
           NEW w \in Worms, Born(w, s), NEW z,
           z.life = s.life, z.lastGroup = s.lastGroup,
           z.group = s.group, z.output = s.output, z.effect = s.effect
    PROVE  Steady(t, Append(q, Command(s.last + 1, w, "note", "head", s.group[w])), z)
  <1> DEFINE c == Command(s.last + 1, w, "note", "head", s.group[w])
  <1>1. s.last \in Nat /\ s.group[w] \in Nat
    BY ClientFacts
  <1>2. "note" \in Roles /\ "head" \in Actions /\ s.last + 1 \in Nat
    BY <1>1 DEF Roles, Actions
  <1>3. c \in CommandSet
    BY <1>1, <1>2, CommandTyped
  <1>4. /\ c.action = "head" /\ c.node.worm = w /\ c.node.role = "note" /\ Makes(c)
    BY DEF Command, Node, Makes
  <1> HIDE DEF c
  <1>5. SynthSent(c, w, s, z)
    BY <1>4 DEF SynthSent
  <1>6. Steady(t, Append(q, c), z)
    BY <1>3, <1>4, <1>5, SteadySynth
  <1> QED
    BY <1>6 DEF c

\* -[PWWorm dismantleSynths]
LEMMA SteadyDismantle ==
    ASSUME NEW t, NEW q, NEW s, Sound(t, q, s), Steady(t, q, s), NEW w \in Worms,
           NEW z, NEW x,
           \/ s.life[w] = "alive" /\ x = "cleared"
           \/ s.life[w] = "cleared" /\ x = "clearedTwice",
           z.life = [s.life EXCEPT ![w] = x], z.lastGroup = s.lastGroup,
           z.group = s.group, z.output = s.output, z.effect = s.effect
    PROVE  Steady(t, q \o << Command(s.group[w], w, "freeAll", "freeAll", s.group[w]),
                             Command(s.group[w], w, "free", "free", s.group[w]) >>, z)
  <1> DEFINE g == s.group[w]
             c == Command(g, w, "freeAll", "freeAll", g)
             d == Command(g, w, "free", "free", g)
             add == << c, d >>
             p == q \o add
  <1>1. s.lastGroup \in Nat /\ g \in Nat /\ Born(w, s) /\ IsClient(s)
    BY ClientFacts DEF Born, Sound
  <1>2. c \in CommandSet /\ d \in CommandSet
    <2>1. {"free", "freeAll"} \subseteq Roles /\ {"free", "freeAll"} \subseteq Actions
      BY DEF Roles, Actions
    <2> QED
      BY <1>1, <2>1, CommandTyped
  <1>3. /\ c.node.worm = w /\ c.node.role = "freeAll" /\ c.action = "freeAll"
        /\ d.node.worm = w /\ d.node.role = "free" /\ d.action = "free"
    BY DEF Command, Node
  <1> HIDE DEF c, d
  <1>4. add \in Seq(CommandSet) /\ Len(add) = 2 /\ add[1] = c /\ add[2] = d
    BY <1>2
  <1> HIDE DEF add, g
  <1>5. 1 \in 1 .. Len(add) /\ 2 \in 1 .. Len(add) /\ \A i \in 1 .. Len(add) : i = 1 \/ i = 2
    BY <1>4
  <1>6. z.life[w] = x /\ \A v \in Worms \ {w} : z.life[v] = s.life[v]
    BY <1>1 DEF IsClient
  <1>7. GoesOn(s, z)
    <2>1. s.lastGroup <= z.lastGroup
      BY <1>1
    <2> QED
      BY <1>6, <2>1 DEF GoesOn
  <1>8. \A i \in 1 .. Len(add) :
            add[i].node.worm = w /\ add[i].node.role \in Frees /\ add[i].action # "replace"
    BY <1>3, <1>4, <1>5 DEF Frees
  <1>9. ASSUME NEW j \in 1 .. Len(q), NEW i \in 1 .. Len(add) PROVE Follows(q[j], add[i], z)
    <2>1. q[j].node.worm = w => (s.life[w] = "alive" => q[j].node.role \notin Frees)
      BY NotYetSent
    <2>2. add[i].node.role # "group"
      BY <1>8 DEF Frees
    <2>3. q[j].node.worm = w /\ q[j].node.role = "free" => z.life[w] # "cleared"
      BY <1>6, <2>1 DEF Frees
    <2> QED
      BY <1>8, <2>2, <2>3 DEF Follows
  <1>10. ASSUME NEW i \in 1 .. Len(add), NEW j \in 1 .. Len(add), i < j
         PROVE  Follows(add[i], add[j], z)
    <2>1. i = 1 /\ j = 2
      BY <1>5, <1>10
    <2> QED
      BY <1>3, <1>4, <2>1 DEF Follows, Frees
  <1>11. InOrder(q, add, z)
    BY <1>9, <1>10 DEF InOrder
  <1>12. FreesAtLast(add, s, z)
    <2> SUFFICES ASSUME NEW v \in Worms, z.life[v] \in {"cleared", "clearedTwice"}
                 PROVE  \/ \E i \in 1 .. Len(add) : add[i].node.worm = v /\ add[i].node.role = "free"
                        \/ /\ s.life[v] \in {"cleared", "clearedTwice"}
                           /\ \A i \in 1 .. Len(add) :
                                add[i].node.worm = v => add[i].node.role # "group"
      BY DEF FreesAtLast
    <2>1. CASE v = w
      BY <1>3, <1>4, <1>5, <2>1
    <2>2. CASE v # w
      BY <1>6, <1>8, <2>2
    <2> QED
      BY <2>1, <2>2
  <1>13. \A v \in Worms : /\ GroupOf(v, z) = GroupOf(v, s) /\ OutputOf(v, z) = OutputOf(v, s)
                          /\ EffectOf(v, z) = EffectOf(v, s)
    BY DEF GroupOf, OutputOf, EffectOf
  <1>14. ASSUME NEW i \in 1 .. Len(add), NEW n, Needs(add[i], n, z) PROVE Believed(n, s)
    <2>1. n = GroupOf(w, s) /\ z.life[w] = "cleared"
      <3>1. add[i].action # "before" /\ add[i].action # "replace"
        BY <1>3, <1>4, <1>5
      <3> QED
        BY <1>8, <1>13, <1>14, <3>1 DEF Needs, Frees
    <2> QED
      BY <1>6, <2>1 DEF Believed
  <1>15. ASSUME NEW n, Believed(n, z) PROVE Believed(n, s)
    <2>1. \A v \in Worms : z.life[v] = "alive" => s.life[v] = "alive"
      BY <1>6
    <2> QED
      BY <1>13, <1>15, <2>1 DEF Believed
  <1>16. NothingInVain(add, s, z)
    BY <1>14, <1>15 DEF NothingInVain
  <1>17. p = q \o add /\ z.lastGroup \in Nat /\ add \in Seq(CommandSet)
    BY <1>1, <1>4
  <1> HIDE DEF p
  <1>18. Steady(t, p, z)
    BY <1>7, <1>11, <1>12, <1>16, <1>17, SteadyClient, Zenon
  <1> QED
    BY <1>18 DEF p, add, c, d, g

-----------------------------------------------------------------------------
\* What the server must keep: the nodes that a command of r needs or a worm
\* believes it has.
Keeps(t, u, r, s) ==
    \A n \in Nodes(t) :
        Believed(n, s) \/ (\E k \in 1 .. Len(r) : Needs(r[k], n, s)) => n \in Nodes(u)

\* What is left when the server has taken a command.
LEMMA QueueTail ==
    ASSUME NEW q \in Seq(CommandSet), q # << >>, NEW c, c = Head(q), NEW r, r = Tail(q)
    PROVE  /\ r \in Seq(CommandSet) /\ Len(q) = Len(r) + 1 /\ Len(r) \in Nat
           /\ 1 \in 1 .. Len(q) /\ q[1] = c
           /\ \A k \in 1 .. Len(r) : k + 1 \in 1 .. Len(q) /\ r[k] = q[k + 1]
           /\ \A j \in 1 .. Len(q) : j # 1 => j - 1 \in 1 .. Len(r) /\ r[j - 1] = q[j]
  <1>1. /\ r \in Seq(CommandSet) /\ Len(q) = Len(r) + 1 /\ Len(r) \in Nat
        /\ 1 \in 1 .. Len(q) /\ q[1] = c
        /\ \A k \in 1 .. Len(r) : r[k] = q[k + 1]
    OBVIOUS
  <1>2. \A k \in 1 .. Len(r) : k + 1 \in 1 .. Len(q)
    BY <1>1
  <1>3. \A j \in 1 .. Len(q) : j # 1 => j - 1 \in 1 .. Len(r) /\ (j - 1) + 1 = j
    BY <1>1
  <1> QED
    BY <1>1, <1>2, <1>3

\* What a command of the server needs to keep the nodes that later ones need.
LEMMA SuppliedServer ==
    ASSUME NEW t, NEW q \in Seq(CommandSet), NEW s, Supplied(t, q, s), q # << >>,
           NEW c, c = Head(q), NEW r, r = Tail(q), NEW u, Keeps(t, u, r, s),
           Makes(c) /\ c.node.role # "note" => c.node \in Nodes(u)
    PROVE  Supplied(u, r, s)
  <1>1. /\ r \in Seq(CommandSet) /\ Len(q) = Len(r) + 1 /\ Len(r) \in Nat
        /\ 1 \in 1 .. Len(q) /\ q[1] = c
        /\ \A k \in 1 .. Len(r) : k + 1 \in 1 .. Len(q) /\ r[k] = q[k + 1]
        /\ \A j \in 1 .. Len(q) : j # 1 => j - 1 \in 1 .. Len(r) /\ r[j - 1] = q[j]
    BY QueueTail
  <1>2. ASSUME NEW n, NEW l \in 1 .. Len(r) + 1, Stands(n, l + 1, t, q), n.role # "note",
               Believed(n, s) \/ \E k \in 1 .. Len(r) : Needs(r[k], n, s)
        PROVE  Stands(n, l, u, r)
    <2>1. CASE n \in Nodes(t)
      BY <1>2, <2>1 DEF Stands, Keeps
    <2>2. ASSUME NEW j \in 1 .. Len(q), j < l + 1, Makes(q[j]), q[j].node = n
          PROVE  Stands(n, l, u, r)
      <3>1. CASE j = 1
        BY <1>1, <1>2, <2>2, <3>1 DEF Stands
      <3>2. CASE j # 1
        <4>1. j - 1 \in 1 .. Len(r) /\ r[j - 1] = q[j] /\ j - 1 < l
          BY <1>1, <2>2, <3>2
        <4> QED
          BY <2>2, <4>1 DEF Stands
      <3> QED
        BY <3>1, <3>2
    <2> QED
      BY <1>2, <2>1, <2>2 DEF Stands
  <1>3. /\ \A n : Believed(n, s) => n.role # "note"
        /\ \A d, n : Needs(d, n, s) => n.role # "note"
    BY DEF Believed, Needs, GroupOf, OutputOf, EffectOf, Node
  <1>4. ASSUME NEW k \in 1 .. Len(r), NEW n, Needs(r[k], n, s) PROVE Stands(n, k, u, r)
    <2>1. k + 1 \in 1 .. Len(q) /\ Needs(q[k + 1], n, s) /\ k \in 1 .. Len(r) + 1
      BY <1>1, <1>4
    <2>2. Stands(n, k + 1, t, q)
      BY <2>1 DEF Supplied
    <2> QED
      BY <1>2, <1>3, <1>4, <2>1, <2>2
  <1>5. ASSUME NEW n, Believed(n, s) PROVE Stands(n, Len(r) + 1, u, r)
    <2>1. Stands(n, (Len(r) + 1) + 1, t, q) /\ Len(r) + 1 \in 1 .. Len(r) + 1
      BY <1>1, <1>5 DEF Supplied
    <2> QED
      BY <1>2, <1>3, <1>5, <2>1
  <1> QED
    BY <1>4, <1>5 DEF Supplied

-----------------------------------------------------------------------------
(* What the server refuses when delivery is reliable. *)

\* While group ids stay below the ids of synths, a node that is made has an
\* id no other node has.
LEMMA FreshId ==
    ASSUME NEW t, NEW q, NEW s, Sound(t, q, s), s.lastGroup <= NodeBase, q # << >>,
           NEW c, c = Head(q), Makes(c)
    PROVE  /\ c.node.id \notin Ids(t) /\ c.node \in NodeSet /\ Issued(c.node, s)
  <1> DEFINE n == c.node
  <1>1. /\ c \in CommandSet /\ Formed(c, s) /\ n \in NodeSet /\ n \notin Nodes(t)
        /\ n.role # "group" => Named(n, t, q, s)
    BY NextCommand
  <1>2. Issued(n, s) /\ n.worm \in Worms
    BY <1>1, ActionRole DEF Formed, NodeSet
  <1>3. /\ IsTree(t) /\ AllIssued(t, s) /\ OneName(t, q, s) /\ IdsHandedOut(s)
        /\ NodeBase \in Nat /\ s.lastGroup \in Nat /\ s.last \in Nat
    BY <1>2, ClientFacts DEF Sound
  <1> HIDE DEF n
  <1>4. \A x \in NodeSet : Issued(x, s) =>
            /\ x.role = "group" => x.id \in 1 .. s.lastGroup
            /\ x.role # "group" => x.id \in NodeBase + 1 .. s.last
    BY <1>3 DEF Issued, IdsHandedOut, NodeSet
  <1>5. \A x, y \in NodeSet : Issued(x, s) /\ Issued(y, s) /\ x.id = y.id =>
            (x.role = "group" <=> y.role = "group")
    BY <1>3, <1>4
  <1>6. ASSUME NEW x \in Nodes(t), x.id = n.id PROVE FALSE
    <2>1. x \in NodeSet /\ Issued(x, s) /\ x.worm \in Worms
      <3>1. PICK g \in DOMAIN t : x \in Elements(t[g])
        BY NodesAre
      <3> QED
        BY <1>3, <3>1, ListOf DEF AllIssued, NodeSet
    <2>2. CASE n.role = "group"
      <3>1. x.role = "group"
        BY <1>1, <1>2, <1>5, <1>6, <2>1, <2>2 DEF n
      <3>2. x.worm = n.worm
        BY <1>2, <1>3, <1>6, <2>1, <2>2, <3>1 DEF Issued, IdsHandedOut
      <3>3. x = n
        BY <1>1, <1>6, <2>1, <2>2, <3>1, <3>2 DEF NodeSet, n
      <3> QED
        BY <1>1, <3>3
    <2>3. CASE n.role # "group"
      <3>1. x.role # "group"
        BY <1>1, <1>2, <1>5, <1>6, <2>1, <2>3
      <3>2. Named(x, t, q, s) /\ Named(n, t, q, s)
        BY <1>1, <2>3, <3>1 DEF Named
      <3>3. x = n
        BY <1>1, <1>3, <1>6, <2>1, <3>2 DEF OneName
      <3> QED
        BY <1>1, <3>3
    <2> QED
      BY <2>2, <2>3
  <1>7. n.id # Root
    BY <1>1, <1>2, <1>3, <1>4 DEF Root
  <1>8. n.id \notin Ids(t)
    BY <1>6, <1>7, NodesAre
  <1> QED
    BY <1>1, <1>2, <1>8 DEF n

\* The ids the client hands out are few enough for a server that is Roomy.
LEMMA RoomLeft ==
    ASSUME NEW t, NEW q, NEW s, Sound(t, q, s), Roomy,
           NEW n \in NodeSet, Issued(n, s), n.id \notin Ids(t)
    PROVE  Cardinality(Ids(t)) < MaxNodes /\ Cardinality(Ids(t)) \in Nat
  <1> DEFINE A == NodeBase + 1 .. NodeBase + MaxIssued
             G == { s.group[w] : w \in Worms }
             B == A \cup G
             S == B \cup {Root}
  <1>0. /\ NodeBase \in Nat /\ MaxIssued \in Nat /\ IsFiniteSet(Worms) /\ MaxNodes \in Nat
        /\ n.worm \in Worms
    BY ServerAssumption DEF NodeSet
  <1>1. IsFiniteSet(A) /\ Cardinality(A) = MaxIssued
    <2>1. NodeBase + 1 \in Int /\ NodeBase + MaxIssued \in Int
      BY <1>0
    <2>2. /\ IsFiniteSet(A)
          /\ Cardinality(A) = IF NodeBase + 1 > NodeBase + MaxIssued THEN 0
                              ELSE (NodeBase + MaxIssued) - (NodeBase + 1) + 1
      BY <2>1, FS_Interval
    <2> HIDE DEF A
    <2> QED
      BY <1>0, <2>2
  <1>2. IsFiniteSet(G) /\ Cardinality(G) <= Cardinality(Worms)
    <2> DEFINE f == [w \in Worms |-> s.group[w]]
    <2>1. f \in Surjection(Worms, G)
      BY DEF Surjection
    <2> HIDE DEF f, G
    <2> QED
      BY <1>0, <2>1, FS_Surjection
  <1> HIDE DEF A, G
  <1>3. IsFiniteSet(B) /\ Cardinality(B) <= MaxIssued + Cardinality(Worms)
    <2>1. IsFiniteSet(B) /\ Cardinality(B) = Cardinality(A) + Cardinality(G) - Cardinality(A \cap G)
      BY <1>1, <1>2, FS_Union
    <2>2. IsFiniteSet(A \cap G)
      BY <1>1, FS_Intersection
    <2>3. Cardinality(A \cap G) \in Nat
      BY <2>2, FS_CardinalityType
    <2>4. Cardinality(G) \in Nat
      BY <1>2, FS_CardinalityType
    <2>5. Cardinality(Worms) \in Nat
      BY <1>0, FS_CardinalityType
    <2> HIDE DEF B
    <2> QED
      BY <1>0, <1>1, <1>2, <2>1, <2>3, <2>4, <2>5
  <1>4. Cardinality(B) \in Nat /\ Cardinality(Worms) \in Nat
    BY <1>0, <1>3, FS_CardinalityType
  <1>5. IsFiniteSet(S) /\ Cardinality(S) <= 1 + MaxIssued + Cardinality(Worms)
    <2>1. /\ IsFiniteSet(S)
          /\ Cardinality(S) = IF Root \in B THEN Cardinality(B) ELSE Cardinality(B) + 1
      BY <1>3, FS_AddElement
    <2> HIDE DEF S, B
    <2> QED
      BY <1>0, <1>3, <1>4, <2>1
  <1>6. \A x \in NodeSet : Issued(x, s) => x.id \in S
    <2>1. s.last \in Nat /\ s.last <= NodeBase + MaxIssued
      BY <1>0 DEF Sound, IsClient
    <2>2. NodeBase + 1 .. s.last \subseteq A
      BY <1>0, <2>1 DEF A
    <2>3. \A x \in NodeSet : Issued(x, s) => x.id \in A \/ x.id \in G
      BY <2>2 DEF Issued, NodeSet, G
    <2> QED
      BY <2>3
  <1>7. Ids(t) \subseteq S
    <2>1. ASSUME NEW x \in Nodes(t) PROVE x.id \in S
      <3>1. PICK g \in DOMAIN t : x \in Elements(t[g])
        BY NodesAre
      <3>2. x \in NodeSet /\ Issued(x, s)
        BY <3>1, ListOf DEF Sound, AllIssued
      <3> HIDE DEF S
      <3> QED
        BY <1>6, <3>2
    <2>2. Root \in S
      OBVIOUS
    <2> HIDE DEF S
    <2> QED
      BY <2>1, <2>2, NodesAre
  <1>8. n.id \in S
    BY <1>6
  <1> HIDE DEF S
  <1>9. Ids(t) \in SUBSET S /\ Ids(t) # S
    BY <1>7, <1>8
  <1>10. /\ IsFiniteSet(Ids(t)) /\ Cardinality(Ids(t)) <= Cardinality(S)
         /\ Cardinality(Ids(t)) # Cardinality(S)
    BY <1>5, <1>9, FS_Subset
  <1>11. Cardinality(Ids(t)) \in Nat /\ Cardinality(S) \in Nat
    BY <1>5, <1>10, FS_CardinalityType
  <1> QED
    BY <1>0, <1>4, <1>5, <1>10, <1>11 DEF Roomy

\* Whatever the next command needs is in the tree.
LEMMA NeedMet ==
    ASSUME NEW t, NEW q, NEW s, Sound(t, q, s), Supplied(t, q, s), q # << >>,
           NEW c, c = Head(q), NEW n, Needs(c, n, s)
    PROVE  n \in Nodes(t) /\ n.id \in Ids(t) /\ (n.role = "group" => n.id \in DOMAIN t)
  <1>1. 1 \in 1 .. Len(q) /\ q[1] = c
    BY QueueTail DEF Sound
  <1>2. Stands(n, 1, t, q)
    BY <1>1 DEF Supplied
  <1>3. \A j \in 1 .. Len(q) : ~(j < 1)
    BY DEF Sound
  <1>4. n \in Nodes(t)
    BY <1>2, <1>3 DEF Stands
  <1>5. PICK g \in DOMAIN t : n \in Elements(t[g])
    BY <1>4, NodesAre
  <1> QED
    BY <1>4, <1>5, NodesAre DEF Sound, WellFormed

\* With reliable delivery and room the server refuses only the notes of
\* worms that are cleared, and a second dismantling.
LEMMA RefusedOnly ==
    ASSUME NEW t, NEW q, NEW s, Sound(t, q, s), Supplied(t, q, s), Roomy,
           s.lastGroup <= NodeBase, q # << >>, NEW c, c = Head(q), Refuses(t, c),
           NEW w, w = c.node.worm
    PROVE  \/ c.node.role = "note" /\ s.life[w] \in {"cleared", "clearedTwice"}
           \/ c.node.role \in Frees /\ s.life[w] = "clearedTwice"
  <1>1. c \in CommandSet /\ Formed(c, s) /\ c.node \in NodeSet /\ w \in Worms
    BY NextCommand DEF NodeSet
  <1>2. s.life[w] \in {"alive", "cleared", "clearedTwice"} /\ IsTree(t)
    BY <1>1 DEF Formed, Born, Sound, IsClient, Lives
  <1>3. ASSUME Makes(c) PROVE ~NodeRefused(t, c)
    <2>1. c.node.id \notin Ids(t) /\ c.node \in NodeSet /\ Issued(c.node, s)
      BY <1>3, FreshId
    <2>2. Cardinality(Ids(t)) < MaxNodes /\ Cardinality(Ids(t)) \in Nat
      BY <2>1, RoomLeft
    <2>3. ~(Cardinality(Ids(t)) >= MaxNodes)
      BY <2>2, ServerAssumption
    <2> QED
      BY <2>1, <2>3 DEF NodeRefused
  <1>4. ~TargetFound(t, c)
    BY <1>3 DEF Refuses
  <1>5. \A n : Needs(c, n, s) => n.id \in Ids(t) /\ (n.role = "group" => n.id \in DOMAIN t)
    BY NeedMet
  <1>6. c.node.role \in Roles
    BY <1>1 DEF NodeSet
  <1>7. c.node.role # "group"
    <2>1. Root \in DOMAIN t
      BY <1>2 DEF IsTree
    <2> QED
      BY <1>1, <1>4, <2>1 DEF Formed, TargetFound
  <1>8. Needs(c, GroupOf(w, s), s) => s.group[w] \in DOMAIN t /\ s.group[w] \in Ids(t)
    BY <1>5 DEF GroupOf, Node
  <1>9. c.node.role # "output"
    BY <1>1, <1>4, <1>8 DEF Formed, TargetFound, Needs
  <1>10. ASSUME c.node.role = "note" PROVE s.life[w] # "alive"
    BY <1>1, <1>4, <1>8, <1>10 DEF Formed, TargetFound, Needs
  <1>11. ASSUME c.node.role \in Frees PROVE s.life[w] = "clearedTwice"
    <2>1. c.target = s.group[w] /\ s.life[w] # "alive"
      BY <1>1, <1>11 DEF Formed, Frees
    <2>2. s.life[w] # "cleared"
      BY <1>4, <1>8, <1>11, <2>1 DEF TargetFound, Needs
    <2> QED
      BY <1>2, <2>1, <2>2
  <1>12. c.node.role # "effect"
    <2> SUFFICES ASSUME c.node.role = "effect" PROVE FALSE
      OBVIOUS
    <2>1. CASE c.action = "before" /\ c.target = s.output[w]
      <3>1. OutputOf(w, s).id \in Ids(t)
        BY <1>5, <2>1 DEF Needs
      <3> QED
        BY <1>4, <2>1, <3>1 DEF TargetFound, OutputOf, Node
    <2>2. CASE c.action = "replace"
      <3>1. Node(c.target, w, "effect").id \in Ids(t)
        BY <1>5, <2>2 DEF Needs
      <3> QED
        BY <1>4, <2>2, <3>1 DEF TargetFound, Node
    <2> QED
      BY <1>1, <2>1, <2>2 DEF Formed
  <1> QED
    BY <1>2, <1>6, <1>7, <1>9, <1>10, <1>11, <1>12 DEF Roles, Frees

-----------------------------------------------------------------------------
(* What the server does to the invariant of reliable delivery. *)

\* What a command that is not refused does to the tree, in terms of Changed.
LEMMA WhatChanges ==
    ASSUME NEW t, NEW q, NEW s, Sound(t, q, s), q # << >>,
           NEW c, c = Head(q), ~Refuses(t, c), NEW u, u = Performed(t, c)
    PROVE  \E made, place, gone, cleared :
               /\ Changed(t, u, made, place, gone, cleared)
               /\ \A x : x \in made <=> Makes(c) /\ x = c.node
               /\ \A i : i \in gone <=> (c.action = "replace" \/ c.action = "free") /\ i = c.target
               /\ \A i : i \in cleared <=> c.action = "freeAll" /\ i = c.target
  <1> DEFINE n == c.node
             w == c.node.worm
             i == c.target
  <1>1. c \in CommandSet /\ Formed(c, s) /\ n \in NodeSet
    BY NextCommand
  <1>2. w \in Worms /\ c.action \in Actions /\ Born(w, s)
    BY <1>1 DEF CommandSet, NodeSet, Formed
  <1>3. IsTree(t) /\ WellFormed(t) /\ (Makes(c) => n.id \notin Ids(t))
    BY DEF Sound, Refuses, NodeRefused
  <1>4. /\ c.action \in {"before", "replace"} <=> n.role = "effect"
        /\ Makes(c) <=> n.role \in SynthRoles \cup {"group"}
        /\ c.action = "freeAll" <=> n.role = "freeAll"
        /\ c.action = "free" <=> n.role = "free"
    BY <1>1, ActionRole
  <1>5. /\ NodeBase \in Nat /\ s.group[w] \in Nat \ {0} /\ s.output[w] \in NodeBase + 1 .. s.last
    BY <1>2, ClientFacts
  <1>6. n.role = "effect" \/ n.role \in Frees => i # Root
    BY <1>1, <1>5 DEF Formed, Root, Frees
  <1>7. CASE c.action = "head" \/ c.action = "tail"
    <2>1. Makes(c) /\ i \in DOMAIN t /\ u = Entered(t, n, c.action, i)
      BY <1>7 DEF Makes, Refuses, TargetFound, Performed
    <2>2. n.role = "group" => i = Root
      BY <1>1 DEF Formed
    <2>3. JoinedAt(t, u, n, c.action, i)
      BY <1>1, <1>3, <1>7, <2>1, <2>2, IntoChanges
    <2>4. Changed(t, u, {n}, i, {}, {})
      BY <2>3 DEF JoinedAt
    <2>5. /\ \A x : x \in {n} <=> Makes(c) /\ x = c.node
          /\ \A j : j \in {} <=> (c.action = "replace" \/ c.action = "free") /\ j = c.target
          /\ \A j : j \in {} <=> c.action = "freeAll" /\ j = c.target
      BY <1>7, <2>1
    <2> QED
      BY <2>4, <2>5
  <1>8. CASE c.action = "before"
    <2>1. Makes(c) /\ i \in Ids(t) /\ u = Entered(t, n, "before", i)
      BY <1>8 DEF Makes, Refuses, TargetFound, Performed
    <2>2. PICK g \in DOMAIN t : \E k \in 1 .. Len(t[g]) : t[g][k].id = i /\ PutBefore(t, u, n, g, k)
      BY <1>1, <1>3, <1>4, <1>6, <1>8, <2>1, BeforeChanges
    <2>3. Changed(t, u, {n}, g, {}, {})
      BY <2>2 DEF PutBefore
    <2>4. /\ \A x : x \in {n} <=> Makes(c) /\ x = c.node
          /\ \A j : j \in {} <=> (c.action = "replace" \/ c.action = "free") /\ j = c.target
          /\ \A j : j \in {} <=> c.action = "freeAll" /\ j = c.target
      BY <1>8, <2>1
    <2> QED
      BY <2>3, <2>4
  <1>9. CASE c.action = "replace"
    <2>1. Makes(c) /\ i \in Ids(t) /\ u = Entered(t, n, "replace", i)
      BY <1>9 DEF Makes, Refuses, TargetFound, Performed
    <2>2. PICK g \in DOMAIN t :
                \E k \in 1 .. Len(t[g]) : t[g][k].id = i /\ PutInPlace(t, u, n, i, g, k)
      BY <1>1, <1>3, <1>4, <1>6, <1>9, <2>1, ReplaceChanges
    <2>3. Changed(t, u, {n}, g, {i}, {})
      BY <2>2 DEF PutInPlace
    <2>4. /\ \A x : x \in {n} <=> Makes(c) /\ x = c.node
          /\ \A j : j \in {i} <=> (c.action = "replace" \/ c.action = "free") /\ j = c.target
          /\ \A j : j \in {} <=> c.action = "freeAll" /\ j = c.target
      BY <1>9, <2>1
    <2> QED
      BY <2>3, <2>4
  <1>10. CASE c.action = "freeAll"
    <2>1. ~Makes(c) /\ i \in DOMAIN t /\ u = Emptied(t, i)
      BY <1>10 DEF Makes, Refuses, TargetFound, Performed
    <2>2. Changed(t, u, {}, Root, {}, {i})
      BY <1>3, <2>1, EmptiedChanges
    <2>3. /\ \A x : x \in {} <=> Makes(c) /\ x = c.node
          /\ \A j : j \in {} <=> (c.action = "replace" \/ c.action = "free") /\ j = c.target
          /\ \A j : j \in {i} <=> c.action = "freeAll" /\ j = c.target
      BY <1>10, <2>1
    <2> QED
      BY <2>2, <2>3
  <1>11. CASE c.action = "free"
    <2>1. ~Makes(c) /\ u = Deleted(t, i)
      BY <1>11 DEF Makes, Refuses, TargetFound, Performed
    <2>2. i # Root
      BY <1>4, <1>6, <1>11 DEF Frees
    <2>3. Changed(t, u, {}, Root, {i}, {})
      BY <1>3, <2>1, <2>2, DeletedChanges
    <2>4. /\ \A x : x \in {} <=> Makes(c) /\ x = c.node
          /\ \A j : j \in {i} <=> (c.action = "replace" \/ c.action = "free") /\ j = c.target
          /\ \A j : j \in {} <=> c.action = "freeAll" /\ j = c.target
      BY <1>11, <2>1
    <2> QED
      BY <2>3, <2>4
  <1> QED
    BY <1>2, <1>7, <1>8, <1>9, <1>10, <1>11 DEF Actions

\* What a performed command leaves: the groups there were and the one it
\* makes, without the one it frees; the node it makes; and all but the nodes
\* with the id of its target, or in the list of its target.
LEMMA WhatIsLeft ==
    ASSUME NEW t, NEW q, NEW s, Sound(t, q, s), q # << >>,
           NEW c, c = Head(q), ~Refuses(t, c), NEW u, u = Performed(t, c)
    PROVE  /\ \A g \in DOMAIN u :
                \/ g \in DOMAIN t
                \/ Makes(c) /\ c.node.role = "group" /\ g = c.node.id
           /\ c.action = "free" => c.target \notin DOMAIN u
           /\ Makes(c) => c.node \in Nodes(u)
           /\ \A g \in DOMAIN t : \A n \in Elements(t[g]) :
                \/ n \in Nodes(u)
                \/ (c.action = "replace" \/ c.action = "free") /\ (n.id = c.target \/ g = c.target)
                \/ c.action = "freeAll" /\ g = c.target
  <1>1. PICK made, place, gone, cleared :
               /\ Changed(t, u, made, place, gone, cleared)
               /\ \A x : x \in made <=> Makes(c) /\ x = c.node
               /\ \A i : i \in gone <=> (c.action = "replace" \/ c.action = "free") /\ i = c.target
               /\ \A i : i \in cleared <=> c.action = "freeAll" /\ i = c.target
    BY WhatChanges
  <1>2. /\ \A g : g \in DOMAIN u <=> \/ g \in DOMAIN t \ gone
                                     \/ \E m \in made : m.role = "group" /\ m.id = g
        /\ \A g \in DOMAIN t : \A x \in Elements(t[g]) :
              g \notin gone /\ g \notin cleared /\ x.id \notin gone => x \in Elements(u[g])
        /\ \A x \in made : place \in DOMAIN u /\ x \in Elements(u[place])
    BY <1>1 DEF Changed
  <1>3. \A g \in DOMAIN u :
                \/ g \in DOMAIN t
                \/ Makes(c) /\ c.node.role = "group" /\ g = c.node.id
    BY <1>1, <1>2
  <1>4. c.action = "free" => c.target \notin DOMAIN u
    <2>1. c.action = "free" => ~Makes(c)
      BY DEF Makes
    <2> QED
      BY <1>1, <1>2, <2>1
  <1>5. Makes(c) => c.node \in Nodes(u)
    BY <1>1, <1>2, NodesAre
  <1>6. ASSUME NEW g \in DOMAIN t, NEW n \in Elements(t[g]), n \notin Nodes(u)
        PROVE  \/ (c.action = "replace" \/ c.action = "free") /\ (n.id = c.target \/ g = c.target)
               \/ c.action = "freeAll" /\ g = c.target
    <2>1. CASE g \notin gone /\ g \notin cleared /\ n.id \notin gone
      <3>1. n \in Elements(u[g]) /\ g \in DOMAIN u
        BY <1>2, <2>1
      <3> QED
        BY <1>6, <3>1, NodesAre
    <2> QED
      BY <1>1, <2>1
  <1> QED
    BY <1>3, <1>4, <1>5, <1>6

\* A node that is lost is the worm's own: the effect that is replaced, a synth
\* of the group that is emptied, or what goes with a freed group.
LEMMA LostNode ==
    ASSUME NEW t, NEW q, NEW s, Sound(t, q, s), s.lastGroup <= NodeBase, q # << >>,
           NEW c, c = Head(q), ~Refuses(t, c), NEW u, u = Performed(t, c),
           NEW n \in Nodes(t), n \notin Nodes(u)
    PROVE  /\ n.worm = c.node.worm
           /\ \/ c.action = "replace" /\ n = Node(c.target, c.node.worm, "effect")
              \/ c.action = "freeAll" /\ n.role # "group"
              \/ c.action = "free"
  <1> DEFINE w == c.node.worm
             i == c.target
  <1>1. c \in CommandSet /\ Formed(c, s) /\ w \in Worms
    BY NextCommand DEF NodeSet
  <1>2. PICK g \in DOMAIN t : n \in Elements(t[g])
    BY NodesAre
  <1>3. \/ (c.action = "replace" \/ c.action = "free") /\ (n.id = i \/ g = i)
        \/ c.action = "freeAll" /\ g = i
    BY <1>2, WhatIsLeft
  <1>4. /\ c.action \in {"before", "replace"} <=> c.node.role = "effect"
        /\ c.action = "freeAll" <=> c.node.role = "freeAll"
        /\ c.action = "free" <=> c.node.role = "free"
    BY <1>1, ActionRole
  <1>5. IsTree(t) /\ WellFormed(t) /\ AllIssued(t, s) /\ IdsHandedOut(s)
    BY DEF Sound
  <1>6. n \in NodeSet /\ Issued(n, s)
    BY <1>2, <1>5, ListOf DEF AllIssued
  <1>7. CASE c.action = "replace"
    <2> DEFINE a == Node(i, w, "effect")
    <2>1. Named(a, t, q, s) /\ i \in NodeBase + 1 .. c.node.id - 1
      BY <1>1, <1>4, <1>7, NextCommand DEF Formed
    <2>2. a \in NodeSet /\ a.worm = w /\ a.id = i /\ a.role = "effect"
      BY <1>1 DEF Node, NodeSet, CommandSet, Roles
    <2> HIDE DEF a
    <2>3. ASSUME g = i PROVE FALSE
      <3>1. g # Root
        BY <2>1, <2>3, ServerAssumption DEF Root
      <3>2. PICK m \in Elements(t[Root]) : m.role = "group" /\ m.id = g
        BY <1>5, <3>1 DEF WellFormed
      <3>3. Root \in DOMAIN t
        BY <1>5 DEF IsTree
      <3>4. m = a
        BY <1>1, <2>1, <2>2, <2>3, <3>2, <3>3, TargetMeant
      <3> QED
        BY <2>2, <3>2, <3>4
    <2>4. n.id = i
      BY <1>3, <1>7, <2>3
    <2>5. n = a
      BY <1>1, <1>2, <2>1, <2>2, <2>4, TargetMeant
    <2> QED
      BY <1>7, <2>2, <2>5 DEF a
  <1>8. c.action \in {"freeAll", "free"} => i = s.group[w] /\ Born(w, s) /\ i # Root
    <2>1. c.action \in {"freeAll", "free"} => i = s.group[w] /\ Born(w, s)
      BY <1>1, <1>4 DEF Formed
    <2>2. Born(w, s) => s.group[w] # Root
      BY <1>1, ClientFacts DEF Root
    <2> QED
      BY <2>1, <2>2
  <1>9. ASSUME c.action \in {"freeAll", "free"}, g = i PROVE n.worm = w /\ n.role # "group"
    <2>1. g \in DOMAIN t \ {Root}
      BY <1>8, <1>9
    <2>2. n.role \in SynthRoles /\ (Born(w, s) /\ s.group[w] = g => n.worm = w)
      BY <1>1, <1>2, <2>1, GroupMembers
    <2> QED
      BY <1>8, <1>9, <2>2 DEF SynthRoles
  <1>10. ASSUME c.action = "free", n.id = i PROVE n.worm = w
    <2>1. n.worm \in Worms /\ Born(n.worm, s)
      BY <1>6 DEF NodeSet, Issued
    <2>2. n.role = "group"
      <3>1. n.role # "group" => n.id \in NodeBase + 1 .. s.last
        BY <1>6 DEF Issued
      <3>2. i \in 1 .. s.lastGroup /\ s.lastGroup \in Nat /\ NodeBase \in Nat
        BY <1>1, <1>8, <1>10, ClientFacts
      <3> QED
        BY <1>10, <3>1, <3>2
    <2>3. n.id = s.group[n.worm]
      BY <1>6, <2>2 DEF Issued
    <2> QED
      BY <1>1, <1>5, <1>8, <1>10, <2>1, <2>3 DEF IdsHandedOut
  <1> QED
    BY <1>3, <1>7, <1>9, <1>10

\* The order of the commands stands when the first one is taken.
LEMMA OrderlyTail ==
    ASSUME NEW q \in Seq(CommandSet), q # << >>, NEW s, Orderly(q, s),
           NEW c, c = Head(q), NEW r, r = Tail(q)
    PROVE  /\ Orderly(r, s)
           /\ \A k \in 1 .. Len(r) : Follows(c, r[k], s)
  <1>1. /\ Len(q) = Len(r) + 1 /\ Len(r) \in Nat
        /\ 1 \in 1 .. Len(q) /\ q[1] = c
        /\ \A k \in 1 .. Len(r) : k + 1 \in 1 .. Len(q) /\ r[k] = q[k + 1]
    BY QueueTail
  <1>2. ASSUME NEW k \in 1 .. Len(r) PROVE Follows(c, r[k], s)
    <2>1. 1 < k + 1 /\ k + 1 \in 1 .. Len(q)
      BY <1>1
    <2>2. Follows(q[1], q[k + 1], s)
      BY <1>1, <2>1 DEF Orderly
    <2> QED
      BY <1>1, <2>2
  <1>3. ASSUME NEW j \in 1 .. Len(r), NEW k \in 1 .. Len(r), j < k
        PROVE  Follows(r[j], r[k], s)
    <2>1. j + 1 < k + 1 /\ j + 1 \in 1 .. Len(q) /\ k + 1 \in 1 .. Len(q)
      BY <1>1, <1>3
    <2>2. Follows(q[j + 1], q[k + 1], s)
      BY <2>1 DEF Orderly
    <2> QED
      BY <1>1, <2>2
  <1> QED
    BY <1>2, <1>3 DEF Orderly

\* What a command loses, no later one needs and no worm believes it has.
LEMMA KeepsPerformed ==
    ASSUME NEW t, NEW q, NEW s, Sound(t, q, s), Orderly(q, s), s.lastGroup <= NodeBase,
           q # << >>, NEW c, c = Head(q), ~Refuses(t, c), NEW u, u = Performed(t, c),
           NEW r, r = Tail(q)
    PROVE  Keeps(t, u, r, s)
  <1> SUFFICES ASSUME NEW n \in Nodes(t), n \notin Nodes(u)
               PROVE  ~Believed(n, s) /\ \A k \in 1 .. Len(r) : ~Needs(r[k], n, s)
    BY DEF Keeps
  <1> DEFINE w == c.node.worm
  <1>1. c \in CommandSet /\ Formed(c, s) /\ w \in Worms /\ r \in Seq(CommandSet) /\ Sound(t, r, s)
    BY NextCommand DEF NodeSet
  <1>2. /\ n.worm = w
        /\ \/ c.action = "replace" /\ n = Node(c.target, w, "effect")
           \/ c.action = "freeAll" /\ n.role # "group"
           \/ c.action = "free"
    BY LostNode
  <1>3. /\ c.action \in {"before", "replace"} <=> c.node.role = "effect"
        /\ c.action = "freeAll" <=> c.node.role = "freeAll"
        /\ c.action = "free" <=> c.node.role = "free"
    BY <1>1, ActionRole
  <1>4. c.action \in {"freeAll", "free"} => s.life[w] # "alive"
    BY <1>1, <1>3 DEF Formed
  <1>5. ASSUME c.action = "replace"
        PROVE  n.role = "effect" /\ n.id = c.target /\ s.effect[w] # c.target
    <2>1. c.target \in NodeBase + 1 .. c.node.id - 1 /\ c.node.id <= s.effect[w]
      BY <1>1, <1>3, <1>5 DEF Formed, Issued, SynthRoles
    <2>2. c.node.id \in Nat /\ c.target \in Nat /\ s.effect[w] \in Int
      BY <1>1, ClientFacts DEF CommandSet, NodeSet
    <2>3. s.effect[w] # c.target
      BY <2>1, <2>2
    <2> QED
      BY <1>2, <1>5, <2>3 DEF Node
  <1>6. ~Believed(n, s)
    <2> SUFFICES ASSUME NEW v \in Worms, s.life[v] = "alive",
                        n = GroupOf(v, s) \/ n = OutputOf(v, s) \/ n = EffectOf(v, s)
                 PROVE  FALSE
      BY DEF Believed
    <2>1. v = w
      BY <1>2 DEF GroupOf, OutputOf, EffectOf, Node
    <2>2. c.action = "replace"
      BY <1>2, <1>4, <2>1
    <2>3. n = EffectOf(w, s)
      BY <1>5, <2>1, <2>2 DEF GroupOf, OutputOf, Node
    <2> QED
      BY <1>5, <2>2, <2>3 DEF EffectOf, Node
  <1>7. ASSUME NEW k \in 1 .. Len(r), Needs(r[k], n, s) PROVE FALSE
    <2> DEFINE d == r[k]
    <2>1. d \in CommandSet /\ Formed(d, s) /\ Follows(c, d, s)
      <3>1. q \in Seq(CommandSet)
        BY DEF Sound
      <3>2. \A j \in 1 .. Len(r) : Follows(c, r[j], s)
        BY <3>1, OrderlyTail
      <3> QED
        BY <1>1, <3>2 DEF Sound, AllFormed
    <2> HIDE DEF d
    <2>2. Needs(d, n, s)
      BY <1>7 DEF d
    <2>3. d.node.worm = w
      BY <1>2, <2>2 DEF Needs, GroupOf, OutputOf, Node
    <2>4. d.action \in {"before", "replace"} <=> d.node.role = "effect"
      BY <2>1, ActionRole
    <2>5. CASE c.action = "replace"
      <3>1. d.action = "replace" /\ n = Node(d.target, w, "effect")
        BY <1>5, <2>2, <2>3, <2>5 DEF Needs, GroupOf, OutputOf, Node
      <3>2. d.target = c.target
        BY <1>5, <2>5, <3>1 DEF Node
      <3> QED
        BY <2>1, <2>3, <2>5, <3>1, <3>2 DEF Follows
    <2>6. CASE c.action \in {"freeAll", "free"}
      <3>1. d.node.role \in Frees \/ d.node.role = "note"
        BY <1>3, <2>1, <2>3, <2>6 DEF Follows, Frees
      <3>2. /\ d.node.role \in Frees /\ s.life[w] = "cleared" /\ n = GroupOf(w, s)
        <4>1. d.action # "before" /\ d.action # "replace" /\ d.node.role # "output"
          BY <2>4, <3>1 DEF Frees
        <4> QED
          BY <1>4, <2>2, <2>3, <2>6, <4>1 DEF Needs
      <3>3. c.action = "free"
        BY <1>2, <2>6, <3>2 DEF GroupOf, Node
      <3> QED
        BY <1>3, <2>1, <2>3, <3>2, <3>3 DEF Follows
    <2> QED
      BY <1>2, <2>5, <2>6
  <1> QED
    BY <1>6, <1>7

\* What a command of the server needs to keep the cleared worms silent: it
\* brings no group but its own, and none when it frees it.
LEMMA FreedServer ==
    ASSUME NEW t, NEW q, NEW s, Sound(t, q, s), Orderly(q, s), Freed(t, q, s),
           q # << >>, NEW c, c = Head(q), NEW r, r = Tail(q), NEW u,
           \A g \in DOMAIN u :
               \/ g \in DOMAIN t
               \/ Makes(c) /\ c.node.role = "group" /\ g = c.node.id,
           c.action = "free" => c.target \notin DOMAIN u
    PROVE  Freed(u, r, s)
  <1>0. q \in Seq(CommandSet) /\ IdsHandedOut(s)
    BY DEF Sound
  <1>1. /\ 1 \in 1 .. Len(q) /\ q[1] = c
        /\ \A k \in 1 .. Len(r) : k + 1 \in 1 .. Len(q) /\ r[k] = q[k + 1]
        /\ \A j \in 1 .. Len(q) : j # 1 => j - 1 \in 1 .. Len(r) /\ r[j - 1] = q[j]
    BY <1>0, QueueTail
  <1>2. c \in CommandSet /\ Formed(c, s) /\ c.node.worm \in Worms
    BY NextCommand DEF NodeSet
  <1>3. \A k \in 1 .. Len(r) : Follows(c, r[k], s)
    BY <1>0, OrderlyTail
  <1> SUFFICES ASSUME NEW v \in Worms, s.life[v] \in {"cleared", "clearedTwice"},
                      \A k \in 1 .. Len(r) : ~(r[k].node.worm = v /\ r[k].node.role = "free")
               PROVE  /\ s.group[v] \notin DOMAIN u
                      /\ \A k \in 1 .. Len(r) : r[k].node.worm = v => r[k].node.role # "group"
    BY DEF Freed
  <1>4. CASE c.node.worm = v /\ c.node.role = "free"
    <2>1. c.action = "free" /\ c.target = s.group[v]
      BY <1>2, <1>4 DEF Formed
    <2> QED
      BY <1>3, <1>4, <2>1 DEF Follows
  <1>5. CASE ~(c.node.worm = v /\ c.node.role = "free")
    <2>1. \A k \in 1 .. Len(q) : ~(q[k].node.worm = v /\ q[k].node.role = "free")
      BY <1>1, <1>5
    <2>2. /\ s.group[v] \notin DOMAIN t
          /\ \A k \in 1 .. Len(q) : q[k].node.worm = v => q[k].node.role # "group"
      BY <2>1 DEF Freed
    <2>3. ASSUME c.node.role = "group", s.group[v] = c.node.id PROVE FALSE
      <3>1. c.node.id = s.group[c.node.worm] /\ Born(c.node.worm, s)
        BY <1>2, <2>3 DEF Formed, Issued
      <3>2. c.node.worm = v
        BY <1>0, <1>2, <2>3, <3>1 DEF IdsHandedOut, Born
      <3> QED
        BY <1>1, <2>2, <2>3, <3>2
    <2> QED
      BY <1>1, <2>2, <2>3
  <1> QED
    BY <1>4, <1>5

\* The audio thread performs a command.
LEMMA SteadyPerformed ==
    ASSUME NEW t, NEW q, NEW s, Sound(t, q, s), Steady(t, q, s), q # << >>,
           NEW c, c = Head(q), ~Refuses(t, c), NEW u, u = Performed(t, c),
           NEW r, r = Tail(q)
    PROVE  Steady(u, r, s)
  <1>1. q \in Seq(CommandSet) /\ Orderly(q, s)
    BY DEF Sound, Steady
  <1>2. Orderly(r, s)
    BY <1>1, OrderlyTail
  <1>3. /\ \A g \in DOMAIN u :
              \/ g \in DOMAIN t
              \/ Makes(c) /\ c.node.role = "group" /\ g = c.node.id
        /\ c.action = "free" => c.target \notin DOMAIN u
        /\ Makes(c) => c.node \in Nodes(u)
    BY WhatIsLeft
  <1>4. ASSUME s.lastGroup <= NodeBase PROVE Freed(u, r, s)
    <2>1. Freed(t, q, s)
      BY <1>4 DEF Steady
    <2> QED
      BY <1>1, <1>3, <2>1, FreedServer
  <1>5. ASSUME s.lastGroup <= NodeBase, Roomy PROVE Supplied(u, r, s)
    <2>1. Supplied(t, q, s)
      BY <1>5 DEF Steady
    <2>2. Keeps(t, u, r, s)
      BY <1>1, <1>5, KeepsPerformed
    <2> QED
      BY <1>1, <1>3, <2>1, <2>2, SuppliedServer
  <1> QED
    BY <1>2, <1>4, <1>5 DEF Steady

\* The audio thread refuses a command.
LEMMA SteadyRefused ==
    ASSUME NEW t, NEW q, NEW s, Sound(t, q, s), Steady(t, q, s), q # << >>,
           NEW c, c = Head(q), Refuses(t, c), NEW r, r = Tail(q)
    PROVE  Steady(t, r, s)
  <1>1. q \in Seq(CommandSet) /\ Orderly(q, s) /\ IsTree(t) /\ WellFormed(t)
    BY DEF Sound, Steady
  <1>2. Orderly(r, s)
    BY <1>1, OrderlyTail
  <1>3. c \in CommandSet /\ Formed(c, s)
    BY NextCommand
  <1>4. ASSUME s.lastGroup <= NodeBase PROVE Freed(t, r, s)
    <2>1. Freed(t, q, s)
      BY <1>4 DEF Steady
    <2>2. c.action = "free" => c.target \notin DOMAIN t
      <3>1. c.action = "free" => c.target \notin Ids(t)
        BY DEF Refuses, TargetFound, Makes
      <3> QED
        BY <1>1, <3>1, GroupIds
    <2> QED
      BY <1>1, <2>1, <2>2, FreedServer
  <1>5. ASSUME s.lastGroup <= NodeBase, Roomy PROVE Supplied(t, r, s)
    <2>1. Supplied(t, q, s)
      BY <1>5 DEF Steady
    <2>2. Keeps(t, t, r, s)
      BY DEF Keeps
    <2>3. c.node.role = "note" \/ c.node.role \in Frees
      BY <1>5, <2>1, RefusedOnly
    <2>4. Makes(c) <=> c.node.role \in SynthRoles \cup {"group"}
      BY <1>3, ActionRole
    <2>5. Makes(c) /\ c.node.role # "note" => c.node \in Nodes(t)
      BY <2>3, <2>4 DEF Frees, SynthRoles
    <2> QED
      BY <1>1, <2>1, <2>2, <2>5, SuppliedServer
  <1> QED
    BY <1>2, <1>4, <1>5 DEF Steady

\* The end of a note.
LEMMA SteadyNoteEnds ==
    ASSUME NEW t, NEW q, NEW s, Sound(t, q, s), Steady(t, q, s),
           NEW n \in Nodes(t), n.role = "note", NEW u, u = Deleted(t, n.id)
    PROVE  Steady(u, q, s)
  <1>1. IsTree(t) /\ WellFormed(t) /\ AllIssued(t, s) /\ Root \in DOMAIN t
    BY DEF Sound, IsTree
  <1>2. PICK h \in DOMAIN t : n \in Elements(t[h])
    BY NodesAre
  <1>3. n.id # Root
    <2>1. n.id \in NodeBase + 1 .. s.last
      BY <1>1 DEF AllIssued, Issued
    <2> QED
      BY <2>1, ServerAssumption DEF Root
  <1>4. Changed(t, u, {}, Root, {n.id}, {})
    BY <1>1, <1>3, DeletedChanges
  <1>5. n.id \notin DOMAIN t
    <2> SUFFICES ASSUME n.id \in DOMAIN t PROVE FALSE
      OBVIOUS
    <2>1. PICK m \in Elements(t[Root]) : m.role = "group" /\ m.id = n.id
      BY <1>1, <1>3 DEF WellFormed
    <2>2. m = n
      BY <1>1, <1>2, <2>1, OneNode
    <2> QED
      BY <2>1, <2>2
  <1>6. /\ \A g : g \in DOMAIN u <=> g \in DOMAIN t
        /\ \A g \in DOMAIN t : \A x \in Elements(t[g]) : x.id # n.id => x \in Elements(u[g])
    BY <1>4, <1>5 DEF Changed
  <1>7. ASSUME NEW x \in Nodes(t), x.role # "note" PROVE x \in Nodes(u)
    <2>1. PICK g \in DOMAIN t : x \in Elements(t[g])
      BY NodesAre
    <2>2. x.id # n.id
      BY <1>1, <1>2, <1>7, <2>1, OneNode
    <2> QED
      BY <1>6, <2>1, <2>2, NodesAre
  <1>8. /\ \A x : Believed(x, s) => x.role # "note"
        /\ \A d, x : Needs(d, x, s) => x.role # "note"
    BY DEF Believed, Needs, GroupOf, OutputOf, EffectOf, Node
  <1>9. \A x, k : x.role # "note" /\ Stands(x, k, t, q) => Stands(x, k, u, q)
    BY <1>7 DEF Stands
  <1>10. Supplied(t, q, s) => Supplied(u, q, s)
    BY <1>8, <1>9 DEF Supplied
  <1>11. Freed(t, q, s) => Freed(u, q, s)
    BY <1>6 DEF Freed
  <1> QED
    BY <1>10, <1>11 DEF Steady

-----------------------------------------------------------------------------
(* The theorems about reliable delivery. *)

\* What may be refused: a note of a worm that is cleared, and the second
\* dismantling of a worm.
MayRefuse(w, role, s) ==
    \/ role = "note" /\ s.life[w] \in {"cleared", "clearedTwice"}
    \/ role \in Frees /\ s.life[w] = "clearedTwice"

\* All that has been refused may be.
RightlyRefused(R, s) ==
    \A w \in Worms, role \in Roles : <<w, role>> \in R => MayRefuse(w, role, s)

\* The inductive invariant of reliable delivery.
ReliableInv ==
    Reliable =>
        /\ Steady(tree, queue, Client)
        /\ GroupsFit /\ Roomy => RightlyRefused(refused, Client)

\* Before the first worm.
LEMMA ReliableInit ==
    ASSUME Init
    PROVE  ReliableInv
  <1> DEFINE s == Client
  <1>1. \A w \in Worms : s.life[w] = "unborn"
    BY DEF Init, Client
  <1> HIDE DEF s
  <1>2. queue = << >> /\ refused = {}
    BY DEF Init
  <1>3. \A k \in 1 .. Len(queue) : FALSE
    BY <1>2
  <1>4. Steady(tree, queue, s)
    <2>1. Orderly(queue, s)
      BY <1>3 DEF Orderly
    <2>2. Freed(tree, queue, s)
      BY <1>1 DEF Freed
    <2>3. Supplied(tree, queue, s)
      BY <1>1, <1>3 DEF Supplied, Believed
    <2> QED
      BY <2>1, <2>2, <2>3 DEF Steady
  <1>5. RightlyRefused(refused, s)
    BY <1>2 DEF RightlyRefused
  <1> QED
    BY <1>4, <1>5 DEF ReliableInv, s

\* A step that leaves delivery reliable loses nothing and lets nothing
\* overtake, and delivery was reliable before it.
LEMMA StaysReliable ==
    ASSUME ServerInv, Next, Reliable'
    PROVE  /\ Reliable
           /\ \A k \in DOMAIN queue : ~Lose(k)
           /\ \A k, l \in DOMAIN queue : ~Overtake(k, l)
  <1>1. lost \in Nat /\ setBack \in Nat
    <2>1. lost \in 0 .. MaxLost /\ setBack \in 0 .. MaxSetBack
      BY DEF ServerInv, ServerTypeOK
    <2> QED
      BY <2>1, ServerAssumption
  <1>2. lost' = 0 /\ setBack' = 0
    BY DEF Reliable
  <1>3. \A k \in DOMAIN queue : ~Lose(k)
    <2>1. lost' # lost + 1
      BY <1>1, <1>2
    <2> QED
      BY <2>1 DEF Lose
  <1>4. \A k, l \in DOMAIN queue : ~Overtake(k, l)
    <2>1. setBack' # setBack + 1
      BY <1>1, <1>2
    <2> QED
      BY <2>1 DEF Overtake
  <1>5. lost' = lost /\ setBack' = setBack
    BY <1>3, <1>4 DEF Next, MantleSynths, EatEffect, Fire, DismantleSynths, Perform, NoteEnds,
                      serverVars
  <1> QED
    BY <1>2, <1>3, <1>4, <1>5 DEF Reliable

\* Every step that loses nothing and lets nothing overtake keeps Steady.
LEMMA SteadyStep ==
    ASSUME ServerInv, Steady(tree, queue, Client), Next,
           \A k \in DOMAIN queue : ~Lose(k),
           \A k, l \in DOMAIN queue : ~Overtake(k, l)
    PROVE  Steady(tree, queue, Client)'
  <1> DEFINE s == Client
             z == Client'
  <1>0. Sound(tree, queue, s) /\ Steady(tree, queue, s)
    BY DEF ServerInv
  <1>1. /\ s.life = life /\ s.group = groupID /\ s.output = outputNodeID
        /\ s.effect = activeEffectID /\ s.last = lastNodeID /\ s.lastGroup = lastGroupID
        /\ z.life = life' /\ z.group = groupID' /\ z.output = outputNodeID'
        /\ z.effect = activeEffectID' /\ z.last = lastNodeID' /\ z.lastGroup = lastGroupID'
    BY DEF Client
  <1>2. UNCHANGED clientVars => z = s
    BY DEF clientVars, Client
  <1> SUFFICES Steady(tree', queue', z)
    OBVIOUS
  <1> HIDE DEF s, z
  <1>3. ASSUME NEW w \in Worms, MantleSynths(w) PROVE Steady(tree', queue', z)
    <2>1. /\ s.life[w] = "unborn"
          /\ z.life = [s.life EXCEPT ![w] = "alive"] /\ z.lastGroup = s.lastGroup + 1
          /\ z.group = [s.group EXCEPT ![w] = s.lastGroup + 1]
          /\ z.output = [s.output EXCEPT ![w] = s.last + 1]
          /\ z.effect = s.effect
      BY <1>1, <1>3 DEF MantleSynths, NextGroupID
    <2>2. tree' = tree /\ queue' = queue \o VoiceCommands(w, s.lastGroup + 1, s.last + 1)
      BY <1>1, <1>3 DEF MantleSynths, NextGroupID, serverVars
    <2>3. Steady(tree, queue \o VoiceCommands(w, s.lastGroup + 1, s.last + 1), z)
      BY <1>0, <2>1, SteadyMantle
    <2> QED
      BY <2>2, <2>3, Zenon
  <1>4. ASSUME NEW w \in Worms, EatEffect(w) PROVE Steady(tree', queue', z)
    <2> DEFINE c == EffectCommand(w, lastNodeID + 1)
    <2>1. /\ s.life[w] = "alive"
          /\ z.life = s.life /\ z.lastGroup = s.lastGroup
          /\ z.group = s.group /\ z.output = s.output
          /\ z.effect = [s.effect EXCEPT ![w] = s.last + 1]
      BY <1>1, <1>4 DEF EatEffect
    <2>2. tree' = tree /\ queue' = Append(queue, c)
      BY <1>4 DEF EatEffect, serverVars
    <2>3. /\ s.effect[w] # Nil => c = Command(s.last + 1, w, "effect", "replace", s.effect[w])
          /\ s.effect[w] = Nil => c = Command(s.last + 1, w, "effect", "before", s.output[w])
      BY <1>1 DEF EffectCommand
    <2> HIDE DEF c
    <2>4. Steady(tree, Append(queue, c), z)
      BY <1>0, <2>1, <2>3, SteadyEffect
    <2> QED
      BY <2>2, <2>4, Zenon
  <1>5. ASSUME NEW w \in Worms, Fire(w) PROVE Steady(tree', queue', z)
    <2> DEFINE c == Command(s.last + 1, w, "note", "head", s.group[w])
    <2>1. /\ Born(w, s)
          /\ z.life = s.life /\ z.lastGroup = s.lastGroup
          /\ z.group = s.group /\ z.output = s.output /\ z.effect = s.effect
      BY <1>1, <1>5 DEF Fire, Born
    <2>2. tree' = tree /\ queue' = Append(queue, c)
      BY <1>1, <1>5 DEF Fire, serverVars, NoteCommand
    <2>3. Steady(tree, Append(queue, c), z)
      BY <1>0, <2>1, SteadyNote
    <2> HIDE DEF c
    <2> QED
      BY <2>2, <2>3, Zenon
  <1>6. ASSUME NEW w \in Worms, DismantleSynths(w) PROVE Steady(tree', queue', z)
    <2> DEFINE add == << Command(s.group[w], w, "freeAll", "freeAll", s.group[w]),
                         Command(s.group[w], w, "free", "free", s.group[w]) >>
               x == IF life[w] = "alive" THEN "cleared" ELSE "clearedTwice"
    <2>1. /\ \/ s.life[w] = "alive" /\ x = "cleared"
             \/ s.life[w] = "cleared" /\ x = "clearedTwice"
          /\ z.life = [s.life EXCEPT ![w] = x] /\ z.lastGroup = s.lastGroup
          /\ z.group = s.group /\ z.output = s.output /\ z.effect = s.effect
      BY <1>1, <1>6 DEF DismantleSynths
    <2>2. tree' = tree /\ queue' = queue \o add
      BY <1>1, <1>6 DEF DismantleSynths, serverVars, FreeCommands
    <2>3. Steady(tree, queue \o add, z)
      <3> HIDE DEF x
      <3> QED
        BY <1>0, <2>1, SteadyDismantle
    <2> HIDE DEF add
    <2> QED
      BY <2>2, <2>3, Zenon
  <1>7. ASSUME Perform PROVE Steady(tree', queue', z)
    <2>1. queue # << >> /\ queue' = Tail(queue) /\ z = s
      BY <1>2, <1>7 DEF Perform
    <2>2. CASE Refuses(tree, Head(queue))
      <3>1. tree' = tree
        BY <1>7, <2>2 DEF Perform
      <3>2. Steady(tree, Tail(queue), s)
        BY <1>0, <2>1, <2>2, SteadyRefused
      <3> QED
        BY <2>1, <3>1, <3>2, Zenon
    <2>3. CASE ~Refuses(tree, Head(queue))
      <3>1. tree' = Performed(tree, Head(queue))
        BY <1>7, <2>3 DEF Perform
      <3>2. Steady(Performed(tree, Head(queue)), Tail(queue), s)
        BY <1>0, <2>1, <2>3, SteadyPerformed
      <3> QED
        BY <2>1, <3>1, <3>2, Zenon
    <2> QED
      BY <2>2, <2>3
  <1>8. ASSUME NEW n \in Nodes(tree), NoteEnds(n) PROVE Steady(tree', queue', z)
    <2>1. n.role = "note" /\ tree' = Deleted(tree, n.id) /\ queue' = queue /\ z = s
      BY <1>2, <1>8 DEF NoteEnds
    <2>2. Steady(Deleted(tree, n.id), queue, s)
      BY <1>0, <2>1, SteadyNoteEnds
    <2> QED
      BY <2>1, <2>2, Zenon
  <1> QED
    BY <1>3, <1>4, <1>5, <1>6, <1>7, <1>8 DEF Next

\* A worm that is cleared stays so, and group ids are counted up.
LEMMA LifeGoesOn ==
    ASSUME ServerInv, Next
    PROVE  /\ lastGroupID' <= NodeBase => lastGroupID <= NodeBase
           /\ \A w \in Worms :
                /\ life[w] \in {"cleared", "clearedTwice"} =>
                       life'[w] \in {"cleared", "clearedTwice"}
                /\ life[w] = "clearedTwice" => life'[w] = "clearedTwice"
  <1>1. life \in [Worms -> Lives] /\ lastGroupID \in Nat /\ NodeBase \in Nat
    BY ServerAssumption DEF ServerInv, ServerTypeOK, Lives
  <1>2. ASSUME NEW w \in Worms, MantleSynths(w)
        PROVE  /\ lastGroupID' = lastGroupID + 1
               /\ life[w] = "unborn" /\ \A v \in Worms : v # w => life'[v] = life[v]
    BY <1>1, <1>2 DEF MantleSynths, NextGroupID
  <1>3. ASSUME NEW w \in Worms, DismantleSynths(w)
        PROVE  /\ lastGroupID' = lastGroupID
               /\ life[w] # "clearedTwice" /\ life'[w] \in {"cleared", "clearedTwice"}
               /\ \A v \in Worms : v # w => life'[v] = life[v]
    BY <1>1, <1>3 DEF DismantleSynths
  <1>4. \/ \E w \in Worms : MantleSynths(w)
        \/ \E w \in Worms : DismantleSynths(w)
        \/ lastGroupID' = lastGroupID /\ life' = life
    BY DEF Next, EatEffect, Fire, Perform, NoteEnds, Lose, Overtake, clientVars
  <1>5. lastGroupID' = lastGroupID \/ lastGroupID' = lastGroupID + 1
    BY <1>2, <1>3, <1>4
  <1>6. lastGroupID' <= NodeBase => lastGroupID <= NodeBase
    BY <1>1, <1>5
  <1>7. ASSUME NEW v \in Worms
        PROVE  /\ life[v] \in {"cleared", "clearedTwice"} =>
                      life'[v] \in {"cleared", "clearedTwice"}
               /\ life[v] = "clearedTwice" => life'[v] = "clearedTwice"
    BY <1>2, <1>3, <1>4
  <1> QED
    BY <1>6, <1>7

\* A step adds to what is refused only what may be refused.
LEMMA RefusedStep ==
    ASSUME ServerInv, Next, Steady(tree, queue, Client), GroupsFit, Roomy,
           RightlyRefused(refused, Client)
    PROVE  RightlyRefused(refused, Client)'
  <1> DEFINE s == Client
             z == Client'
  <1>1. s.life = life /\ s.lastGroup = lastGroupID /\ z.life = life'
    BY DEF Client
  <1>2. Sound(tree, queue, s) /\ RightlyRefused(refused, s) /\ Steady(tree, queue, s)
    BY DEF ServerInv
  <1> SUFFICES RightlyRefused(refused', z)
    BY DEF RightlyRefused, MayRefuse
  <1> HIDE DEF s, z
  <1>3. \A w \in Worms, role \in Roles : MayRefuse(w, role, s) => MayRefuse(w, role, z)
    BY <1>1, LifeGoesOn DEF MayRefuse
  <1>4. ASSUME NEW w \in Worms, NEW role \in Roles,
               <<w, role>> \in refused', <<w, role>> \notin refused
        PROVE  MayRefuse(w, role, s)
    <2> DEFINE c == Head(queue)
    <2>1. Perform
      BY <1>4 DEF Next, MantleSynths, EatEffect, Fire, DismantleSynths, NoteEnds, Lose, Overtake,
                  serverVars
    <2>2. queue # << >> /\ Refuses(tree, c) /\ refused' = refused \cup {<<c.node.worm, c.node.role>>}
      BY <1>4, <2>1 DEF Perform
    <2>3. s.lastGroup <= NodeBase /\ Supplied(tree, queue, s)
      BY <1>1, <1>2 DEF GroupsFit, Steady
    <2>4. \/ c.node.role = "note" /\ s.life[c.node.worm] \in {"cleared", "clearedTwice"}
          \/ c.node.role \in Frees /\ s.life[c.node.worm] = "clearedTwice"
      BY <1>2, <2>2, <2>3, RefusedOnly
    <2>5. w = c.node.worm /\ role = c.node.role
      BY <1>4, <2>2
    <2> QED
      BY <2>4, <2>5 DEF MayRefuse
  <1> QED
    BY <1>2, <1>3, <1>4 DEF RightlyRefused

\* A step keeps the inductive invariant of reliable delivery.
LEMMA ReliableStep ==
    ASSUME ServerInv, ReliableInv, [Next]_vars
    PROVE  ReliableInv'
  <1>1. CASE Next
    <2> SUFFICES ASSUME Reliable'
                 PROVE  /\ Steady(tree, queue, Client)'
                        /\ (GroupsFit /\ Roomy)' => RightlyRefused(refused, Client)'
      BY DEF ReliableInv
    <2>1. /\ Reliable
          /\ \A k \in DOMAIN queue : ~Lose(k)
          /\ \A k, l \in DOMAIN queue : ~Overtake(k, l)
      BY <1>1, StaysReliable
    <2>2. /\ Steady(tree, queue, Client)
          /\ GroupsFit /\ Roomy => RightlyRefused(refused, Client)
      BY <2>1 DEF ReliableInv
    <2>3. Steady(tree, queue, Client)'
      BY <1>1, <2>1, <2>2, SteadyStep
    <2>4. (GroupsFit /\ Roomy)' => GroupsFit /\ Roomy
      BY <1>1, LifeGoesOn DEF GroupsFit, Roomy
    <2>5. ASSUME GroupsFit, Roomy PROVE RightlyRefused(refused, Client)'
      BY <1>1, <2>2, <2>5, RefusedStep
    <2> QED
      BY <2>3, <2>4, <2>5
  <1>2. CASE UNCHANGED vars
    <2>1. /\ tree' = tree /\ queue' = queue /\ Client' = Client /\ refused' = refused
          /\ lost' = lost /\ setBack' = setBack /\ lastGroupID' = lastGroupID
      BY <1>2 DEF vars, Client
    <2> QED
      BY <2>1 DEF ReliableInv, Reliable, GroupsFit, Roomy
  <1> QED
    BY <1>1, <1>2

\* As long as nothing is lost or overtaken, the commands on their way are
\* those that make the tree what the worms believe it to be.
THEOREM ReliableInvariant == Spec => []ReliableInv
  <1>1. Init => ReliableInv
    BY ReliableInit
  <1>2. ServerInv /\ ReliableInv /\ [Next]_vars => ReliableInv'
    BY ReliableStep
  <1> QED
    BY <1>1, <1>2, ServerInvariant, PTL DEF Spec

\* What is in the set Awaited.
LEMMA AwaitedIs ==
    ASSUME NEW w, queue \in Seq(CommandSet), NEW k \in 1 .. Len(queue), queue[k].node.worm = w
    PROVE  queue[k].node.role \in Awaited(w)
  <1>1. k \in DOMAIN queue
    OBVIOUS
  <1> QED
    BY <1>1 DEF Awaited

\* As long as nothing is lost or overtaken and there is room, the server
\* refuses only notes of cleared worms, and second dismantlings.
THEOREM RefusalsAlwaysRight == Spec => []OnlyTheClearedAreRefused
  <1>1. ASSUME ReliableInv PROVE OnlyTheClearedAreRefused
    <2> SUFFICES ASSUME Reliable, GroupsFit, Roomy,
                        NEW w \in Worms, NEW role \in Roles, <<w, role>> \in refused
                 PROVE  \/ role = "note" /\ life[w] \in {"cleared", "clearedTwice"}
                        \/ role \in {"free", "freeAll"} /\ life[w] = "clearedTwice"
      BY DEF OnlyTheClearedAreRefused
    <2>1. MayRefuse(w, role, Client)
      BY <1>1 DEF ReliableInv, RightlyRefused
    <2>2. Client.life = life
      BY DEF Client
    <2> QED
      BY <2>1, <2>2 DEF MayRefuse, Frees
  <1> QED
    BY <1>1, ReliableInvariant, PTL

\* As long as nothing is lost or overtaken, a cleared worm whose group has
\* been freed has no node on the server.
THEOREM SilenceAlways == Spec => []ClearedStaySilent
  <1>1. ASSUME ServerInv, ReliableInv PROVE ClearedStaySilent
    <2> SUFFICES ASSUME NEW w \in Worms, life[w] \in {"cleared", "clearedTwice"},
                        Reliable, GroupsFit, "free" \notin Awaited(w),
                        NEW n \in Nodes(tree), n.worm = w
                 PROVE  FALSE
      BY DEF ClearedStaySilent, Owned
    <2> DEFINE s == Client
    <2>1. s.life = life /\ s.lastGroup = lastGroupID
      BY DEF Client
    <2>2. Sound(tree, queue, s) /\ Steady(tree, queue, s)
      BY <1>1 DEF ServerInv, ReliableInv
    <2> HIDE DEF s
    <2>3. s.lastGroup <= NodeBase
      BY <2>1 DEF GroupsFit
    <2>4. /\ WellFormed(tree) /\ Paths(tree) /\ AllIssued(tree, s) /\ InOwnGroup(tree, s)
          /\ queue \in Seq(CommandSet)
      BY <2>2, <2>3 DEF Sound
    <2>5. s.group[w] \notin DOMAIN tree
      <3>1. \A k \in 1 .. Len(queue) : ~(queue[k].node.worm = w /\ queue[k].node.role = "free")
        BY <2>4, AwaitedIs
      <3>2. Freed(tree, queue, s)
        BY <2>2, <2>3 DEF Steady
      <3> QED
        BY <2>1, <3>1, <3>2 DEF Freed
    <2>6. PICK h \in DOMAIN tree : n \in Elements(tree[h])
      BY NodesAre
    <2>7. CASE h = Root
      <3>1. n.role = "group"
        BY <2>4, <2>6, <2>7 DEF Paths
      <3>2. n.id \in DOMAIN tree /\ n.id = s.group[w]
        BY <2>4, <2>6, <3>1 DEF WellFormed, AllIssued, Issued
      <3> QED
        BY <2>5, <3>2
    <2>8. CASE h # Root
      BY <2>4, <2>5, <2>6, <2>8 DEF InOwnGroup
    <2> QED
      BY <2>7, <2>8
  <1> QED
    BY <1>1, ServerInvariant, ReliableInvariant, PTL

\* As long as nothing is lost or overtaken and there is room, a worm that is
\* not cleared and awaits nothing has the connector, and before it the
\* effect, that it believes it has.
THEOREM VoiceAlwaysAsBelieved == Spec => []VoiceAsBelieved
  <1>1. ASSUME ServerInv, ReliableInv PROVE VoiceAsBelieved
    <2> SUFFICES ASSUME NEW w \in Worms, life[w] = "alive", Reliable, GroupsFit, Roomy,
                        Awaited(w) = {}
                 PROVE  /\ groupID[w] \in DOMAIN tree
                        /\ LET voice == tree[groupID[w]] IN
                             /\ voice # << >> /\ voice[Len(voice)].id = outputNodeID[w]
                             /\ activeEffectID[w] # Nil =>
                                   Len(voice) > 1 /\ voice[Len(voice) - 1].id = activeEffectID[w]
      BY DEF VoiceAsBelieved
    <2> DEFINE s == Client
               g == s.group[w]
    <2>1. /\ s.life = life /\ s.lastGroup = lastGroupID /\ s.group = groupID
          /\ s.output = outputNodeID /\ s.effect = activeEffectID
      BY DEF Client
    <2>2. Sound(tree, queue, s) /\ Steady(tree, queue, s)
      BY <1>1 DEF ServerInv, ReliableInv
    <2> HIDE DEF s
    <2>3. s.lastGroup <= NodeBase
      BY <2>1 DEF GroupsFit
    <2>4. /\ IsTree(tree) /\ WellFormed(tree) /\ Paths(tree) /\ InOwnGroup(tree, s)
          /\ queue \in Seq(CommandSet) /\ Supplied(tree, queue, s)
      BY <2>2, <2>3 DEF Sound, Steady
    <2>5. ASSUME NEW n, Believed(n, s), n.worm = w PROVE n \in Nodes(tree)
      <3>1. Stands(n, Len(queue) + 1, tree, queue)
        BY <2>4, <2>5 DEF Supplied
      <3>2. \A k \in 1 .. Len(queue) : queue[k].node.worm # w
        BY <2>4, AwaitedIs
      <3> QED
        BY <2>5, <3>1, <3>2 DEF Stands
    <2>6. /\ GroupOf(w, s).worm = w /\ GroupOf(w, s).role = "group" /\ GroupOf(w, s).id = g
          /\ OutputOf(w, s).worm = w /\ OutputOf(w, s).role = "output"
          /\ OutputOf(w, s).id = outputNodeID[w]
          /\ EffectOf(w, s).worm = w /\ EffectOf(w, s).role = "effect"
          /\ EffectOf(w, s).id = activeEffectID[w]
      BY <2>1 DEF GroupOf, OutputOf, EffectOf, Node
    <2>7. /\ Believed(GroupOf(w, s), s) /\ Believed(OutputOf(w, s), s)
          /\ activeEffectID[w] # Nil => Believed(EffectOf(w, s), s)
      BY <2>1 DEF Believed
    <2>8. g \in DOMAIN tree
      <3>1. PICK h \in DOMAIN tree : GroupOf(w, s) \in Elements(tree[h])
        BY <2>5, <2>6, <2>7, NodesAre
      <3> QED
        BY <2>4, <2>6, <3>1 DEF WellFormed
    <2>9. ASSUME NEW n \in Nodes(tree), n.worm = w, n.role # "group"
          PROVE  g # Root /\ n \in Elements(tree[g])
      <3>1. PICK h \in DOMAIN tree : n \in Elements(tree[h])
        BY NodesAre
      <3>2. h # Root
        BY <2>4, <2>9, <3>1 DEF Paths
      <3> QED
        BY <2>4, <2>9, <3>1, <3>2 DEF InOwnGroup
    <2> DEFINE voice == tree[g]
    <2>10. /\ voice \in Seq(NodeSet) /\ Len(voice) \in Nat /\ DOMAIN voice = 1 .. Len(voice)
           /\ \A x : x \in Elements(voice) <=> \E k \in 1 .. Len(voice) : voice[k] = x
      BY <2>4, <2>8, ListOf
    <2>11. OutputOf(w, s) \in Elements(voice) /\ g # Root
      BY <2>5, <2>6, <2>7, <2>9
    <2>12. Path(voice)
      BY <2>4, <2>8, <2>11 DEF Paths
    <2>13. voice # << >> /\ voice[Len(voice)].id = outputNodeID[w]
      <3>1. PICK k \in 1 .. Len(voice) : voice[k] = OutputOf(w, s)
        BY <2>10, <2>11
      <3>2. k = Len(voice)
        BY <2>6, <2>10, <2>12, <3>1, PathMeans
      <3> QED
        BY <2>6, <2>10, <3>1, <3>2
    <2>14. ASSUME activeEffectID[w] # Nil
           PROVE  Len(voice) > 1 /\ voice[Len(voice) - 1].id = activeEffectID[w]
      <3>1. EffectOf(w, s) \in Elements(voice)
        BY <2>5, <2>6, <2>7, <2>9, <2>14
      <3>2. PICK k \in 1 .. Len(voice) : voice[k] = EffectOf(w, s)
        BY <2>10, <3>1
      <3>3. k = Len(voice) - 1
        BY <2>6, <2>10, <2>12, <3>2, PathMeans
      <3> QED
        BY <2>6, <2>10, <3>2, <3>3
    <2> QED
      BY <2>1, <2>8, <2>13, <2>14
  <1> QED
    BY <1>1, ServerInvariant, ReliableInvariant, PTL

=============================================================================
