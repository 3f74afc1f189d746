-------------------------- MODULE Preparation_proofs --------------------------
(***************************************************************************)
(* What is prepared for a run and reported of it, for every value of the   *)
(* constants that is well formed.                                          *)
(*                                                                         *)
(* A value is a tree, and what is known of a tree is what is found at a    *)
(* path and beside it: putting a value at a path leaves what is not under  *)
(* it.  So what was made of a declaration stays made while what it refers  *)
(* to stays, and two trees that agree in every resource are one.           *)
(*                                                                         *)
(* The invariant (PreparationInv) says that names are resolved, ordered or *)
(* remain, none referring to one that comes after (Layered), that those    *)
(* resolved are what was declared (Making, Based), that the faults lead    *)
(* from there to what there is (Faulted, Local), that constraints were     *)
(* decided of it (Checked), and that a replay is on the way of the run it  *)
(* replays (Kept, Repeated).                                               *)
(***************************************************************************)
EXTENDS MCDefinitions, FiniteSetTheorems, SequenceTheorems, TLAPS

-----------------------------------------------------------------------------
(* Paths.                                                                  *)
Paths == Seq(STRING)

LEMMA PathsJoin ==
  ASSUME NEW p \in Paths, NEW q \in Paths
  PROVE  /\ p \o q \in Paths /\ Preparing!IsPrefix(p, p \o q)
         /\ SubSeq(p \o q, Len(p) + 1, Len(p \o q)) = q
<1>1. /\ p \o q \in Paths /\ Len(p \o q) = Len(p) + Len(q)
      /\ \A i \in 1..(Len(p) + Len(q)) :
           (p \o q)[i] = IF i <= Len(p) THEN p[i] ELSE q[i - Len(p)]
      /\ Len(p) \in Nat /\ Len(q) \in Nat
  BY DEF Paths
<1>2. Preparing!IsPrefix(p, p \o q)
  <2>1. SubSeq(p, 1, Len(p)) = p
    BY DEF Paths
  <2>2. SubSeq(p \o q, 1, Len(p)) = p
    BY <1>1 DEF Paths
  <2> QED
    BY <1>1, <2>1, <2>2 DEF Preparing!IsPrefix
<1>3. SubSeq(p \o q, Len(p) + 1, Len(p \o q)) = q
  BY <1>1 DEF Paths
<1> QED
  BY <1>1, <1>2, <1>3

LEMMA PathsSplit ==
  ASSUME NEW p \in Paths, NEW k \in Paths, Preparing!IsPrefix(p, k)
  PROVE  /\ SubSeq(k, Len(p) + 1, Len(k)) \in Paths
         /\ k = p \o SubSeq(k, Len(p) + 1, Len(k))
<1> DEFINE q == SubSeq(k, Len(p) + 1, Len(k))
<1>1. /\ Len(p) \in Nat /\ Len(k) \in Nat /\ Len(p) <= Len(k)
      /\ \A i \in 1..Len(p) : p[i] = k[i]
  BY DEF Paths, Preparing!IsPrefix
<1>2. q \in Paths /\ Len(q) = Len(k) - Len(p) /\ \A i \in 1..Len(q) : q[i] = k[Len(p) + i]
  BY <1>1 DEF Paths
<1>3. /\ p \o q \in Paths /\ Len(p \o q) = Len(k)
      /\ \A i \in 1..Len(k) : (p \o q)[i] = IF i <= Len(p) THEN p[i] ELSE q[i - Len(p)]
  <2> HIDE DEF q
  <2> QED
    BY <1>1, <1>2 DEF Paths
<1>4. \A i \in 1..Len(k) : (p \o q)[i] = k[i]
  <2> HIDE DEF q
  <2> QED
    BY <1>1, <1>2, <1>3
<1>5. k = p \o q
  <2> HIDE DEF q
  <2> QED
    BY <1>1, <1>3, <1>4, SeqEqual DEF Paths
<1> QED
  BY <1>2, <1>5

LEMMA PathsCancel ==
  ASSUME NEW p \in Paths, NEW q \in Paths, NEW r \in Paths, p \o q = p \o r
  PROVE  q = r
<1>1. SubSeq(p \o q, Len(p) + 1, Len(p \o q)) = q
  BY PathsJoin
<1>2. SubSeq(p \o r, Len(p) + 1, Len(p \o r)) = r
  BY PathsJoin
<1> QED
  BY <1>1, <1>2

LEMMA PathsAssociate ==
  ASSUME NEW p \in Paths, NEW q \in Paths, NEW r \in Paths
  PROVE  (p \o q) \o r = p \o (q \o r)
BY ConcatAssociative DEF Paths

(* Two beginnings of one path: one of them is a beginning of the other.    *)
LEMMA PathsCompare ==
  ASSUME NEW p \in Paths, NEW q \in Paths, NEW k \in Paths, Preparing!IsPrefix(p, k), Preparing!IsPrefix(q, k)
  PROVE  Preparing!IsPrefix(p, q) \/ Preparing!IsPrefix(q, p)
<1>1. /\ Len(p) \in Nat /\ Len(q) \in Nat
      /\ SubSeq(p, 1, Len(p)) = SubSeq(k, 1, Len(p)) /\ Len(p) <= Len(k)
      /\ SubSeq(q, 1, Len(q)) = SubSeq(k, 1, Len(q)) /\ Len(q) <= Len(k)
  BY DEF Paths, Preparing!IsPrefix
<1>2. SubSeq(p, 1, Len(p)) = p /\ SubSeq(q, 1, Len(q)) = q
  BY DEF Paths
<1>3. \A i \in 1..Len(p) : p[i] = k[i]
  BY <1>1 DEF Paths
<1>4. \A i \in 1..Len(q) : q[i] = k[i]
  BY <1>1 DEF Paths
<1>5. CASE Len(p) <= Len(q)
  <2>1. SubSeq(q, 1, Len(p)) \in Paths /\ Len(SubSeq(q, 1, Len(p))) = Len(p)
        /\ \A i \in 1..Len(p) : SubSeq(q, 1, Len(p))[i] = q[i]
    BY <1>1, <1>5 DEF Paths
  <2>2. p = SubSeq(q, 1, Len(p))
    BY <1>1, <1>3, <1>4, <1>5, <2>1, SeqEqual DEF Paths
  <2> QED
    BY <1>2, <1>5, <2>2 DEF Preparing!IsPrefix
<1>6. CASE Len(q) <= Len(p)
  <2>1. SubSeq(p, 1, Len(q)) \in Paths /\ Len(SubSeq(p, 1, Len(q))) = Len(q)
        /\ \A i \in 1..Len(q) : SubSeq(p, 1, Len(q))[i] = p[i]
    BY <1>1, <1>6 DEF Paths
  <2>2. q = SubSeq(p, 1, Len(q))
    BY <1>1, <1>3, <1>4, <1>6, <2>1, SeqEqual DEF Paths
  <2> QED
    BY <1>2, <1>6, <2>2 DEF Preparing!IsPrefix
<1> QED
  BY <1>1, <1>5, <1>6

LEMMA OneIsSeq ==
  ASSUME NEW T, NEW a \in T PROVE <<a>> \in Seq(T) /\ Len(<<a>>) = 1 /\ <<a>>[1] = a
  OBVIOUS

LEMMA ConsIs ==
  ASSUME NEW T, NEW a, NEW x \in Seq(T)
  PROVE  /\ (<<a>> \o x)[1] = a /\ Len(<<a>> \o x) = Len(x) + 1 /\ Len(x) \in Nat
         /\ \A i \in 1..Len(x) : (<<a>> \o x)[i + 1] = x[i]
  OBVIOUS

LEMMA SameSeq ==
  ASSUME NEW p \in Paths, NEW q \in Paths, Len(p) = Len(q), \A i \in 1..Len(q) : p[i] = q[i]
  PROVE  p = q
  BY SeqEqual DEF Paths

LEMMA PathsOfOne ==
  ASSUME NEW n \in STRING
  PROVE  /\ <<n>> \in Paths /\ <<>> \in Paths
         /\ \A q \in Paths : (<<n>> \o q)[1] = n /\ <<n>> \o q # <<>> /\ <<n>> \o <<>> = <<n>>
         /\ \A k \in Paths : k # <<>> /\ k[1] = n => Tail(k) \in Paths /\ k = <<n>> \o Tail(k)
         /\ \A k \in Paths : Preparing!IsPrefix(<<n>>, k) <=> k # <<>> /\ k[1] = n
<1>1. <<n>> \in Paths /\ Len(<<n>>) = 1
  BY OneIsSeq DEF Paths
<1>2. <<>> \in Paths
  BY EmptySeq DEF Paths
<1>3. \A q \in Paths : (<<n>> \o q)[1] = n /\ <<n>> \o q # <<>>
  BY <1>1 DEF Paths
<1>4. <<n>> \o <<>> = <<n>>
  BY <1>1, ConcatEmptySeq DEF Paths
<1>5. ASSUME NEW k \in Paths, k # <<>>, k[1] = n PROVE Tail(k) \in Paths /\ k = <<n>> \o Tail(k)
  <2>1. /\ Tail(k) \in Paths /\ Len(Tail(k)) = Len(k) - 1 /\ Len(k) \in Nat \ {0}
        /\ \A i \in 1..Len(Tail(k)) : Tail(k)[i] = k[i + 1]
    BY <1>5, HeadTailProperties, EmptySeq DEF Paths
  <2>2. PICK t \in Paths : t = Tail(k)
    BY <2>1
  <2>3. PICK u \in Paths : u = <<n>> \o t
    BY <1>1, PathsJoin
  <2>4. u[1] = n /\ Len(u) = Len(t) + 1 /\ \A i \in 1..Len(t) : u[i + 1] = t[i]
    <3>1. t \in Seq(STRING)
      BY DEF Paths
    <3> QED
      BY <2>3, <3>1, ConsIs
  <2>5. Len(u) = Len(k) /\ Len(k) \in Nat \ {0} /\ Len(t) = Len(k) - 1
    BY <2>1, <2>2, <2>4
  <2>6. ASSUME NEW i \in 1..Len(k) PROVE u[i] = k[i]
    <3>1. CASE i = 1
      BY <1>5, <2>4, <3>1
    <3>2. CASE i # 1
      <4>1. i - 1 \in 1..Len(t) /\ i = (i - 1) + 1
        BY <2>5, <3>2
      <4>2. t[i - 1] = k[i]
        BY <2>1, <2>2, <4>1
      <4> QED
        BY <2>4, <4>1, <4>2
    <3> QED
      BY <3>1, <3>2
  <2>7. u = k
    BY <2>5, <2>6, SameSeq
  <2> QED
    BY <2>1, <2>2, <2>3, <2>7
<1>6. ASSUME NEW k \in Paths, k # <<>>, k[1] = n PROVE Preparing!IsPrefix(<<n>>, k)
  <2>1. Tail(k) \in Paths /\ k = <<n>> \o Tail(k)
    BY <1>5, <1>6
  <2>2. Preparing!IsPrefix(<<n>>, <<n>> \o Tail(k))
    BY <1>1, <2>1, PathsJoin
  <2> QED
    BY <2>1, <2>2
<1>7. ASSUME NEW k \in Paths, Preparing!IsPrefix(<<n>>, k) PROVE k # <<>> /\ k[1] = n
  <2>1. PICK q \in Paths : k = <<n>> \o q
    BY <1>1, <1>7, PathsSplit
  <2> QED
    BY <1>3, <2>1
<1> QED
  BY <1>1, <1>2, <1>3, <1>4, <1>5, <1>6, <1>7

-----------------------------------------------------------------------------
(* Trees.                                                                  *)
LEMMA SameTree ==
  ASSUME NEW t, NEW u, Preparing!IsTree(t), Preparing!IsTree(u), DOMAIN t =
           DOMAIN u, \A k \in DOMAIN t : t[k] = u[k]
  PROVE  t = u
<1>1. t = [k \in DOMAIN t |-> t[k]] /\ u = [k \in DOMAIN u |-> u[k]]
  BY DEF Preparing!IsTree
<1> QED
  BY <1>1

LEMMA NoTree == Preparing!IsTree(Preparing!Missing) /\ DOMAIN Preparing!Missing = {}
  /\ \A t : Preparing!IsTree(t) /\ DOMAIN t = {} => t = Preparing!Missing
<1>1. DOMAIN Preparing!Missing = {}
  BY DEF Preparing!Missing
<1>2. Preparing!IsTree(Preparing!Missing)
  <2>1. Preparing!Missing = [k \in {} |-> Preparing!Missing[k]]
    BY DEF Preparing!Missing
  <2> QED
    BY <1>1, <2>1 DEF Preparing!IsTree
<1> QED
  BY <1>1, <1>2, SameTree

LEMMA SubIs ==
  ASSUME NEW t, Preparing!IsTree(t), NEW p \in Paths
  PROVE  /\ Preparing!IsTree(Preparing!Sub(t, p))
         /\ \A q : q \in DOMAIN Preparing!Sub(t, p) <=> q \in Paths /\ p \o q \in DOMAIN t
         /\ \A q \in DOMAIN Preparing!Sub(t, p) : Preparing!Sub(t, p)[q] = t[p \o q]
<1> DEFINE D == {SubSeq(k, Len(p) + 1, Len(k)) : k \in Preparing!Under(p, t)}
<1>1. DOMAIN t \subseteq Paths
  BY DEF Preparing!IsTree, Paths
<1>2. ASSUME NEW q \in D PROVE q \in Paths /\ p \o q \in DOMAIN t
  <2>1. PICK k \in Preparing!Under(p, t) : q = SubSeq(k, Len(p) + 1, Len(k))
    OBVIOUS
  <2>2. k \in DOMAIN t /\ k \in Paths /\ Preparing!IsPrefix(p, k)
    BY <1>1 DEF Preparing!Under
  <2> QED
    BY <2>1, <2>2, PathsSplit
<1>3. ASSUME NEW q \in Paths, p \o q \in DOMAIN t PROVE q \in D
  <2>1. p \o q \in Preparing!Under(p, t)
    BY <1>3, PathsJoin DEF Preparing!Under
  <2>2. q = SubSeq(p \o q, Len(p) + 1, Len(p \o q))
    BY PathsJoin
  <2> QED
    BY <2>1, <2>2
<1>4. D = {q \in Paths : p \o q \in DOMAIN t}
  <2> HIDE DEF D
  <2> QED
    BY <1>2, <1>3
<1>5. Preparing!Sub(t, p) = [q \in D |-> t[p \o q]]
  BY DEF Preparing!Sub
<1> HIDE DEF D
<1> QED
  BY <1>4, <1>5 DEF Preparing!IsTree, Paths

LEMMA SubMissing ==
  ASSUME NEW t, Preparing!IsTree(t), NEW p \in Paths
  PROVE  Preparing!Sub(t, p) = Preparing!Missing <=> \A q \in Paths : p \o q \notin DOMAIN t
<1>1. Preparing!IsTree(Preparing!Sub(t, p))
        /\ \A q : q \in DOMAIN Preparing!Sub(t, p) <=> q \in Paths /\ p \o q \in DOMAIN t
  BY SubIs
<1> QED
  BY <1>1, NoTree

LEMMA SubSub ==
  ASSUME NEW t, Preparing!IsTree(t), NEW p \in Paths, NEW q \in Paths
  PROVE  Preparing!Sub(Preparing!Sub(t, p), q) = Preparing!Sub(t, p \o q)
<1>0. p \o q \in Paths
  BY PathsJoin
<1>1. /\ Preparing!IsTree(Preparing!Sub(t, p))
           /\ \A r : r \in DOMAIN Preparing!Sub(t, p) <=> r \in Paths /\ p \o r \in DOMAIN t
      /\ \A r \in DOMAIN Preparing!Sub(t, p) : Preparing!Sub(t, p)[r] = t[p \o r]
  BY SubIs
<1>2. PICK s : s = Preparing!Sub(t, p) /\ Preparing!IsTree(s)
  BY <1>1
<1>3. /\ \A r : r \in DOMAIN Preparing!Sub(s, q) <=> r \in Paths /\ q \o r \in DOMAIN s
      /\ \A r \in DOMAIN Preparing!Sub(s, q) : Preparing!Sub(s, q)[r] = s[q \o r]
      /\ Preparing!IsTree(Preparing!Sub(s, q))
  <2>1. \A r : r \in DOMAIN Preparing!Sub(s, q) <=> r \in Paths /\ q \o r \in DOMAIN s
    BY <1>2, SubIs, SMT
  <2>2. \A r \in DOMAIN Preparing!Sub(s, q) : Preparing!Sub(s, q)[r] = s[q \o r]
    BY <1>2, SubIs, SMT
  <2>3. Preparing!IsTree(Preparing!Sub(s, q))
    BY <1>2, SubIs, SMT
  <2> QED
    BY <2>1, <2>2, <2>3
<1>4. /\ Preparing!IsTree(Preparing!Sub(t, p \o q))
           /\ \A r : r \in DOMAIN Preparing!Sub(t, p \o q) <=> r \in Paths /\ (p \o q) \o r \in DOMAIN t
      /\ \A r \in DOMAIN Preparing!Sub(t, p \o q) : Preparing!Sub(t, p \o q)[r] = t[(p \o q) \o r]
  BY <1>0, SubIs
<1>5. \A r \in Paths : q \o r \in Paths /\ (p \o q) \o r = p \o (q \o r)
  BY PathsAssociate, PathsJoin
<1>6. DOMAIN Preparing!Sub(s, q) = DOMAIN Preparing!Sub(t, p \o q)
  <2>1. ASSUME NEW r PROVE r \in DOMAIN Preparing!Sub(s, q) <=> r \in DOMAIN Preparing!Sub(t, p \o q)
    <3>1. r \in DOMAIN Preparing!Sub(s, q) <=> r \in Paths /\ q \o r \in DOMAIN s
      BY <1>3
    <3>2. r \in Paths => (q \o r \in DOMAIN s <=> p \o (q \o r) \in DOMAIN t)
      BY <1>1, <1>2, <1>5
    <3> QED
      BY <1>4, <1>5, <3>1, <3>2
  <2> QED
    BY <2>1
<1>7. ASSUME NEW r \in DOMAIN Preparing!Sub(s, q) PROVE Preparing!Sub(s, q)[r] = Preparing!Sub(t, p \o q)[r]
  <2>1. r \in Paths /\ q \o r \in DOMAIN s /\ r \in DOMAIN Preparing!Sub(t, p \o q)
    BY <1>3, <1>6
  <2>2. Preparing!Sub(s, q)[r] = t[p \o (q \o r)]
    BY <1>1, <1>2, <1>3, <2>1
  <2>3. Preparing!Sub(t, p \o q)[r] = t[(p \o q) \o r]
    BY <1>4, <2>1
  <2> QED
    BY <1>5, <2>1, <2>2, <2>3
<1> QED
  BY <1>2, <1>3, <1>4, <1>6, <1>7, SameTree

LEMMA GraftIs ==
  ASSUME NEW t, Preparing!IsTree(t), NEW p \in Paths, NEW v, Preparing!IsTree(v)
  PROVE  /\ Preparing!IsTree(Preparing!Graft(t, p, v))
         /\ \A k : k \in DOMAIN Preparing!Graft(t, p, v) <=>
                     \/ k \in DOMAIN t /\ ~Preparing!IsPrefix(p, k)
                     \/ \E q \in DOMAIN v : k = p \o q
         /\ \A k \in DOMAIN Preparing!Graft(t, p, v) : ~Preparing!IsPrefix(p, k) =>
              Preparing!Graft(t, p, v)[k] = t[k]
         /\ \A q \in DOMAIN v : Preparing!Graft(t, p, v)[p \o q] = v[q]
<1> DEFINE kept == DOMAIN t \ Preparing!Under(p, t)
           D == kept \cup {p \o q : q \in DOMAIN v}
<1>1. DOMAIN t \subseteq Paths /\ DOMAIN v \subseteq Paths
  BY DEF Preparing!IsTree, Paths
<1>2. \A k : k \in kept <=> k \in DOMAIN t /\ ~Preparing!IsPrefix(p, k)
  BY DEF Preparing!Under
<1>3. Preparing!Graft(t, p, v) = [k \in D |-> IF k \in kept THEN t[k] ELSE v[SubSeq(k, Len(p) + 1, Len(k))]]
  BY DEF Preparing!Graft
<1>4. \A q \in DOMAIN v : /\ p \o q \in Paths /\ Preparing!IsPrefix(p, p \o q)
                          /\ SubSeq(p \o q, Len(p) + 1, Len(p \o q)) = q
  BY <1>1, PathsJoin
<1> HIDE DEF kept
<1>5. \A k : k \in D <=> k \in kept \/ \E q \in DOMAIN v : k = p \o q
  OBVIOUS
<1> HIDE DEF D
<1>6. D \subseteq Seq(STRING)
  <2> SUFFICES ASSUME NEW k \in D PROVE k \in Paths
    BY DEF Paths
  <2>1. CASE k \in kept
    BY <1>1, <1>2, <2>1
  <2>2. CASE \E q \in DOMAIN v : k = p \o q
    BY <1>4, <2>2
  <2> QED
    BY <1>5, <2>1, <2>2
<1>7. PICK g : g = Preparing!Graft(t, p, v)
  OBVIOUS
<1>8. /\ g = [k \in DOMAIN g |-> g[k]] /\ DOMAIN g = D
      /\ \A k \in D : g[k] = IF k \in kept THEN t[k] ELSE v[SubSeq(k, Len(p) + 1, Len(k))]
  BY <1>3, <1>7
<1>9. ASSUME NEW k \in D, ~Preparing!IsPrefix(p, k) PROVE g[k] = t[k]
  <2>1. k \in kept
    BY <1>4, <1>5, <1>9
  <2> QED
    BY <1>8, <2>1
<1>10. ASSUME NEW q \in DOMAIN v PROVE g[p \o q] = v[q]
  <2>1. p \o q \in D /\ p \o q \notin kept
    BY <1>2, <1>4, <1>5
  <2>2. g[p \o q] = v[SubSeq(p \o q, Len(p) + 1, Len(p \o q))]
    BY <1>8, <2>1
  <2> QED
    BY <1>4, <2>2
<1> QED
  BY <1>2, <1>5, <1>6, <1>7, <1>8, <1>9, <1>10 DEF Preparing!IsTree

LEMMA SubGraft ==
  ASSUME NEW t, Preparing!IsTree(t), NEW p \in Paths, NEW v, Preparing!IsTree(v)
  PROVE  Preparing!Sub(Preparing!Graft(t, p, v), p) = v
<1>1. PICK g : g = Preparing!Graft(t, p, v)
  OBVIOUS
<1>2. /\ Preparing!IsTree(g)
      /\ \A k : k \in DOMAIN g <=> \/ k \in DOMAIN t /\ ~Preparing!IsPrefix(p, k)
                                   \/ \E q \in DOMAIN v : k = p \o q
      /\ \A q \in DOMAIN v : g[p \o q] = v[q]
  <2>1. Preparing!IsTree(Preparing!Graft(t, p, v))
    BY GraftIs, SMT
  <2>2. \A k : k \in DOMAIN Preparing!Graft(t, p, v) <=>
                \/ k \in DOMAIN t /\ ~Preparing!IsPrefix(p, k)
                \/ \E q \in DOMAIN v : k = p \o q
    BY GraftIs, SMT
  <2>3. \A q \in DOMAIN v : Preparing!Graft(t, p, v)[p \o q] = v[q]
    BY GraftIs, SMT
  <2> QED
    BY <1>1, <2>1, <2>2, <2>3
<1>3. /\ Preparing!IsTree(Preparing!Sub(g, p))
      /\ \A q : q \in DOMAIN Preparing!Sub(g, p) <=> q \in Paths /\ p \o q \in DOMAIN g
      /\ \A q \in DOMAIN Preparing!Sub(g, p) : Preparing!Sub(g, p)[q] = g[p \o q]
  BY <1>2, SubIs
<1>4. DOMAIN v \subseteq Paths
  BY DEF Preparing!IsTree, Paths
<1>5. ASSUME NEW q \in Paths, p \o q \in DOMAIN g PROVE q \in DOMAIN v
  <2>1. Preparing!IsPrefix(p, p \o q)
    BY PathsJoin
  <2>2. PICK r \in DOMAIN v : p \o q = p \o r
    BY <1>2, <1>5, <2>1
  <2> QED
    BY <1>4, <2>2, PathsCancel
<1>6. \A q \in DOMAIN v : p \o q \in DOMAIN g
  BY <1>2
<1>7. DOMAIN Preparing!Sub(g, p) = DOMAIN v
  BY <1>3, <1>4, <1>5, <1>6
<1> QED
  BY <1>1, <1>2, <1>3, <1>7, SameTree

LEMMA SubGraftApart ==
  ASSUME NEW t, Preparing!IsTree(t), NEW p \in Paths, NEW v, Preparing!IsTree(v),
         NEW r \in Paths, ~Preparing!IsPrefix(p, r), ~Preparing!IsPrefix(r, p)
  PROVE  Preparing!Sub(Preparing!Graft(t, p, v), r) = Preparing!Sub(t, r)
<1>0. /\ Preparing!IsTree(Preparing!Graft(t, p, v))
      /\ \A k : k \in DOMAIN Preparing!Graft(t, p, v) <=>
                  \/ k \in DOMAIN t /\ ~Preparing!IsPrefix(p, k)
                  \/ \E q \in DOMAIN v : k = p \o q
      /\ \A k \in DOMAIN Preparing!Graft(t, p, v) : ~Preparing!IsPrefix(p, k) =>
           Preparing!Graft(t, p, v)[k] = t[k]
  BY GraftIs
<1>1. PICK g : g = Preparing!Graft(t, p, v)
  OBVIOUS
<1>2. /\ Preparing!IsTree(g)
      /\ \A k : k \in DOMAIN g <=> \/ k \in DOMAIN t /\ ~Preparing!IsPrefix(p, k)
                                   \/ \E q \in DOMAIN v : k = p \o q
      /\ \A k \in DOMAIN g : ~Preparing!IsPrefix(p, k) => g[k] = t[k]
  BY <1>0, <1>1
<1>3. /\ Preparing!IsTree(Preparing!Sub(g, r))
      /\ \A q : q \in DOMAIN Preparing!Sub(g, r) <=> q \in Paths /\ r \o q \in DOMAIN g
      /\ \A q \in DOMAIN Preparing!Sub(g, r) : Preparing!Sub(g, r)[q] = g[r \o q]
  BY <1>2, SubIs
<1>4. /\ Preparing!IsTree(Preparing!Sub(t, r))
      /\ \A q : q \in DOMAIN Preparing!Sub(t, r) <=> q \in Paths /\ r \o q \in DOMAIN t
      /\ \A q \in DOMAIN Preparing!Sub(t, r) : Preparing!Sub(t, r)[q] = t[r \o q]
  BY SubIs
<1>5. ASSUME NEW q \in Paths PROVE ~Preparing!IsPrefix(p, r \o q)
  <2>1. r \o q \in Paths /\ Preparing!IsPrefix(r, r \o q)
    BY PathsJoin
  <2> QED
    BY <2>1, PathsCompare
<1>6. ASSUME NEW q \in Paths PROVE r \o q \in DOMAIN g <=> r \o q \in DOMAIN t
  <2>1. \A x \in DOMAIN v : Preparing!IsPrefix(p, p \o x)
    BY PathsJoin DEF Preparing!IsTree, Paths
  <2> QED
    BY <1>2, <1>5, <2>1
<1>7. DOMAIN Preparing!Sub(g, r) = DOMAIN Preparing!Sub(t, r)
  BY <1>3, <1>4, <1>6
<1>8. \A q \in DOMAIN Preparing!Sub(g, r) : Preparing!Sub(g, r)[q] = Preparing!Sub(t, r)[q]
  BY <1>2, <1>3, <1>4, <1>5, <1>7
<1> QED
  BY <1>1, <1>3, <1>4, <1>7, <1>8, SameTree

LEMMA JoinIs ==
  ASSUME NEW f, f = [p \in DOMAIN f |-> f[p]], DOMAIN f \subseteq Paths,
         \A p, q \in DOMAIN f : Preparing!IsPrefix(p, q) => p = q, \A p \in DOMAIN f : Preparing!IsTree(f[p])
  PROVE  Preparing!IsTree(Preparing!Join(f)) /\ \A p \in DOMAIN f : Preparing!Sub(Preparing!Join(f), p) = f[p]
<1> DEFINE At(k) == CHOOSE p \in DOMAIN f : Preparing!IsPrefix(p, k)
           D == UNION {{p \o q : q \in DOMAIN f[p]} : p \in DOMAIN f}
<1>1. Preparing!Join(f) = [k \in D |-> f[At(k)][SubSeq(k, Len(At(k)) + 1, Len(k))]]
  BY DEF Preparing!Join
<1> HIDE DEF At
<1>2. \A k : k \in D <=> \E p \in DOMAIN f : \E q \in DOMAIN f[p] : k = p \o q
  <2> DEFINE Part(p) == {p \o q : q \in DOMAIN f[p]}
  <2>1. \A p : \A k : k \in Part(p) <=> \E q \in DOMAIN f[p] : k = p \o q
    OBVIOUS
  <2>2. D = UNION {Part(p) : p \in DOMAIN f}
    OBVIOUS
  <2> HIDE DEF Part, D
  <2>3. ASSUME NEW k PROVE k \in D <=> \E p \in DOMAIN f : k \in Part(p)
    BY <2>2
  <2> QED
    BY <2>1, <2>3
<1>3. ASSUME NEW p \in DOMAIN f, NEW q \in Paths
      PROVE  /\ p \o q \in Paths /\ Preparing!IsPrefix(p, p \o q) /\ At(p \o q) = p
             /\ SubSeq(p \o q, Len(p) + 1, Len(p \o q)) = q
  <2>1. /\ p \in Paths /\ p \o q \in Paths /\ Preparing!IsPrefix(p, p \o q)
        /\ SubSeq(p \o q, Len(p) + 1, Len(p \o q)) = q
    BY PathsJoin
  <2>2. ASSUME NEW r \in DOMAIN f, Preparing!IsPrefix(r, p \o q) PROVE r = p
    BY <2>1, <2>2, PathsCompare
  <2> QED
    BY <2>1, <2>2 DEF At
<1>4. \A p \in DOMAIN f : DOMAIN f[p] \subseteq Paths
  BY DEF Preparing!IsTree, Paths
<1> HIDE DEF D
<1>5. PICK g : g = Preparing!Join(f)
  OBVIOUS
<1>6. /\ g = [k \in DOMAIN g |-> g[k]] /\ DOMAIN g = D
      /\ \A k \in D : g[k] = f[At(k)][SubSeq(k, Len(At(k)) + 1, Len(k))]
  BY <1>1, <1>5
<1>7. Preparing!IsTree(g)
  <2>1. ASSUME NEW k \in D PROVE k \in Paths
    <3>1. PICK p \in DOMAIN f : \E q \in DOMAIN f[p] : k = p \o q
      BY <1>2
    <3> QED
      BY <1>3, <1>4, <3>1
  <2> QED
    BY <1>6, <2>1 DEF Preparing!IsTree, Paths
<1>8. ASSUME NEW p \in DOMAIN f PROVE Preparing!Sub(g, p) = f[p]
  <2>1. /\ Preparing!IsTree(Preparing!Sub(g, p))
        /\ \A q : q \in DOMAIN Preparing!Sub(g, p) <=> q \in Paths /\ p \o q \in DOMAIN g
        /\ \A q \in DOMAIN Preparing!Sub(g, p) : Preparing!Sub(g, p)[q] = g[p \o q]
    BY <1>7, SubIs
  <2>2. ASSUME NEW q \in DOMAIN f[p] PROVE q \in Paths /\ p \o q \in D /\ g[p \o q] = f[p][q]
    <3>1. q \in Paths /\ p \o q \in D
      BY <1>2, <1>4
    <3>2. g[p \o q] = f[At(p \o q)][SubSeq(p \o q, Len(At(p \o q)) + 1, Len(p \o q))]
      BY <1>6, <3>1
    <3>3. At(p \o q) = p /\ SubSeq(p \o q, Len(p) + 1, Len(p \o q)) = q
      BY <1>3, <3>1
    <3> QED
      BY <3>1, <3>2, <3>3
  <2>3. ASSUME NEW q \in Paths, p \o q \in D PROVE q \in DOMAIN f[p]
    <3>1. PICK r \in DOMAIN f : \E x \in DOMAIN f[r] : p \o q = r \o x
      BY <1>2, <2>3
    <3>2. PICK x \in DOMAIN f[r] : p \o q = r \o x
      BY <3>1
    <3>3. x \in Paths
      BY <1>4
    <3>4. At(p \o q) = p /\ At(r \o x) = r
      BY <1>3, <3>3
    <3>5. r = p
      BY <3>2, <3>4
    <3>6. p \in Paths /\ p \o q = p \o x
      BY <3>2, <3>5
    <3> QED
      BY <3>3, <3>5, <3>6, PathsCancel
  <2>4. DOMAIN Preparing!Sub(g, p) = DOMAIN f[p]
    BY <1>6, <2>1, <2>2, <2>3
  <2>5. \A q \in DOMAIN f[p] : Preparing!Sub(g, p)[q] = f[p][q]
    BY <2>1, <2>2, <2>4
  <2> QED
    BY <2>1, <2>4, <2>5, SameTree
<1> QED
  BY <1>5, <1>7, <1>8

-----------------------------------------------------------------------------
(* What a document declares.                                               *)
Deps(d, n) == {leaf.path[1] : leaf \in {l \in Preparing!Range(d.resources[n]) : l.op = "$ref"}}
Reads(d, n) == {leaf.path[1] : leaf \in {l \in Preparing!Range(d.resources[n]) : l.op = "$input"}}
AllNames(d) == DOMAIN d.resources
Known(d) == \A n \in AllNames(d) : Deps(d, n) \subseteq AllNames(d)
Knot(d, S) == S # {} /\ \A n \in S : Deps(d, n) \cap S # {}

(* The values at the leaves of a declaration, and a tree that has them.    *)
Values(d, given, tree, n) ==
  [p \in DOMAIN d.resources[n] |-> Preparing!ValueIn(given, tree, d.resources[n][p])]
Made(d, given, tree, n) ==
  /\ Preparing!Missing \notin Preparing!Range(Values(d, given, tree, n))
  /\ Preparing!Sub(tree, <<n>>) = Preparing!Join(Values(d, given, tree, n))
Rooted(tree, S) == \A k \in DOMAIN tree : k # <<>> /\ k[1] \in S

LEMMA Declared ==
  ASSUME Preparing!DocumentsAreWellFormed, NEW d \in Documents, NEW n \in AllNames(d)
  PROVE  Preparing!IsDeclaration(d.resources[n]) /\ n \in STRING
BY DEF Preparing!DocumentsAreWellFormed, AllNames

LEMMA LeafIs ==
  ASSUME NEW leaf, NEW ops, ops \subseteq {"$input", "$ref"}, Preparing!IsLeaf(leaf, ops)
  PROVE  /\ leaf.op \in {"literal"} \cup ops
         /\ leaf.op # "literal" => /\ leaf.path \in Paths /\ leaf.path # <<>> /\ leaf.path[1] \in STRING
                                   /\ <<leaf.path[1]>> \in Paths /\ Tail(leaf.path) \in Paths
                                   /\ leaf.path = <<leaf.path[1]>> \o Tail(leaf.path)
<1>1. leaf.op \in {"literal"} \cup ops
  BY DEF Preparing!IsLeaf, Preparing!Literal
<1>2. ASSUME leaf.op # "literal"
      PROVE  leaf.path \in Paths /\ leaf.path # <<>> /\ leaf.path[1] \in STRING
  BY <1>2 DEF Preparing!IsLeaf, Preparing!Literal, Paths
<1>3. PICK n, k : n = leaf.path[1] /\ k = leaf.path
  OBVIOUS
<1>4. ASSUME leaf.op # "literal"
      PROVE  <<n>> \in Paths /\ Tail(k) \in Paths /\ k = <<n>> \o Tail(k)
  <2>1. n \in STRING /\ k \in Paths /\ k # <<>> /\ k[1] = n
    BY <1>2, <1>3, <1>4
  <2> QED
    BY <2>1, PathsOfOne
<1> QED
  BY <1>1, <1>2, <1>3, <1>4

LEMMA ValueIs ==
  ASSUME NEW leaf, NEW given, NEW tree
  PROVE  /\ leaf.op = "literal" => Preparing!ValueIn(given, tree, leaf) = Preparing!Scalar(leaf.value)
         /\ leaf.op = "$input" => Preparing!ValueIn(given, tree, leaf) = Preparing!Sub(given, leaf.path)
         /\ leaf.op = "$ref" => Preparing!ValueIn(given, tree, leaf) = Preparing!Sub(tree, leaf.path)
BY DEF Preparing!ValueIn

LEMMA ScalarIsTree == ASSUME NEW v PROVE Preparing!IsTree(Preparing!Scalar(v))
<1>1. <<>> \in Seq(STRING)
  BY EmptySeq
<1> QED
  BY <1>1 DEF Preparing!IsTree, Preparing!Scalar

LEMMA ValueIsTree ==
  ASSUME NEW leaf, Preparing!IsLeaf(leaf, {"$input", "$ref"}), NEW given, NEW tree,
           Preparing!IsTree(given), Preparing!IsTree(tree)
  PROVE  Preparing!IsTree(Preparing!ValueIn(given, tree, leaf))
<1>1. leaf.op \in {"literal", "$input", "$ref"}
  BY LeafIs
<1>2. CASE leaf.op = "literal"
  BY <1>2, ValueIs, ScalarIsTree
<1>3. CASE leaf.op # "literal"
  <2>1. leaf.path \in Paths
    BY <1>3, LeafIs
  <2>2. Preparing!IsTree(Preparing!Sub(given, leaf.path)) /\ Preparing!IsTree(Preparing!Sub(tree, leaf.path))
    BY <2>1, SubIs
  <2> QED
    BY <1>1, <1>3, <2>2, ValueIs
<1> QED
  BY <1>2, <1>3

LEMMA ValuesAre ==
  ASSUME Preparing!DocumentsAreWellFormed, NEW d \in Documents, NEW n \in AllNames(d),
         NEW given, NEW tree, Preparing!IsTree(given), Preparing!IsTree(tree)
  PROVE  /\ Preparing!IsTree(Preparing!Join(Values(d, given, tree, n)))
         /\ \A p \in DOMAIN d.resources[n] :
              Preparing!Sub(Preparing!Join(Values(d, given, tree, n)), p) =
                Preparing!ValueIn(given, tree, d.resources[n][p])
<1>1. PICK at : at = d.resources[n]
  OBVIOUS
<1>2. PICK f : f = Values(d, given, tree, n)
  OBVIOUS
<1>3. Preparing!IsDeclaration(at)
  BY <1>1, Declared
<1>4. f = [p \in DOMAIN at |-> Preparing!ValueIn(given, tree, at[p])]
  BY <1>1, <1>2 DEF Values
<1>5. f = [p \in DOMAIN f |-> f[p]] /\ DOMAIN f = DOMAIN at
  BY <1>4
<1>6. DOMAIN f \subseteq Paths /\ \A p, q \in DOMAIN f : Preparing!IsPrefix(p, q) => p = q
  BY <1>3, <1>5 DEF Preparing!IsDeclaration, Preparing!IsTree, Paths
<1>7. \A p \in DOMAIN f : Preparing!IsTree(f[p])
  BY <1>3, <1>4, ValueIsTree DEF Preparing!IsDeclaration
<1>8. Preparing!IsTree(Preparing!Join(f)) /\ \A p \in DOMAIN f : Preparing!Sub(Preparing!Join(f), p) = f[p]
  BY <1>5, <1>6, <1>7, JoinIs
<1> QED
  BY <1>1, <1>2, <1>4, <1>8

(* The leaves of a declaration.                                            *)
LEMMA LeavesAre ==
  ASSUME Preparing!DocumentsAreWellFormed, NEW d \in Documents, NEW n \in AllNames(d),
         NEW p \in DOMAIN d.resources[n]
  PROVE  /\ Preparing!IsLeaf(d.resources[n][p], {"$input", "$ref"})
         /\ d.resources[n][p].op = "$ref" => d.resources[n][p].path[1] \in Deps(d, n)
         /\ d.resources[n][p].op = "$input" => d.resources[n][p].path[1] \in Reads(d, n)
<1>1. Preparing!IsLeaf(d.resources[n][p], {"$input", "$ref"})
  BY Declared DEF Preparing!IsDeclaration
<1>2. d.resources[n][p] \in Preparing!Range(d.resources[n])
  BY DEF Preparing!Range
<1> QED
  BY <1>1, <1>2 DEF Deps, Reads

LEMMA DepsAreNames ==
  ASSUME Preparing!DocumentsAreWellFormed, NEW d \in Documents, NEW n \in AllNames(d)
  PROVE  Deps(d, n) \subseteq STRING /\ Reads(d, n) \subseteq STRING
<1>1. \A l \in Preparing!Range(d.resources[n]) : Preparing!IsLeaf(l, {"$input", "$ref"})
  BY LeavesAre DEF Preparing!Range
<1>2. \A l \in Preparing!Range(d.resources[n]) : l.op # "literal" => l.path[1] \in STRING
  BY <1>1, LeafIs
<1> QED
  BY <1>2 DEF Deps, Reads

(* Values depend on what the declaration refers to and reads.              *)
LEMMA ValuesAgree ==
  ASSUME Preparing!DocumentsAreWellFormed, NEW d \in Documents, NEW n \in AllNames(d),
         NEW g, NEW h, NEW t, NEW u, Preparing!IsTree(g), Preparing!IsTree(h), Preparing!IsTree(t),
           Preparing!IsTree(u),
         \A m \in Deps(d, n) : Preparing!Sub(t, <<m>>) = Preparing!Sub(u, <<m>>),
         \A i \in Reads(d, n) : Preparing!Sub(g, <<i>>) = Preparing!Sub(h, <<i>>)
  PROVE  Values(d, g, t, n) = Values(d, h, u, n)
<1> SUFFICES ASSUME NEW p \in DOMAIN d.resources[n]
             PROVE  Preparing!ValueIn(g, t, d.resources[n][p]) = Preparing!ValueIn(h, u, d.resources[n][p])
  BY DEF Values
<1>1. PICK leaf : leaf = d.resources[n][p]
  OBVIOUS
<1>2. /\ Preparing!IsLeaf(leaf, {"$input", "$ref"})
      /\ leaf.op = "$ref" => leaf.path[1] \in Deps(d, n)
      /\ leaf.op = "$input" => leaf.path[1] \in Reads(d, n)
  BY <1>1, LeavesAre
<1>3. leaf.op \in {"literal", "$input", "$ref"}
  BY <1>2, LeafIs
<1>4. CASE leaf.op = "literal"
  BY <1>1, <1>4, ValueIs
<1>5. CASE leaf.op = "$input"
  <2>1. /\ <<leaf.path[1]>> \in Paths /\ Tail(leaf.path) \in Paths
        /\ leaf.path = <<leaf.path[1]>> \o Tail(leaf.path)
    BY <1>2, <1>5, LeafIs
  <2>2. Preparing!Sub(g, leaf.path) = Preparing!Sub(Preparing!Sub(g, <<leaf.path[1]>>), Tail(leaf.path))
    BY <2>1, SubSub
  <2>3. Preparing!Sub(h, leaf.path) = Preparing!Sub(Preparing!Sub(h, <<leaf.path[1]>>), Tail(leaf.path))
    BY <2>1, SubSub
  <2> QED
    BY <1>1, <1>2, <1>5, <2>2, <2>3, ValueIs
<1>6. CASE leaf.op = "$ref"
  <2>1. /\ <<leaf.path[1]>> \in Paths /\ Tail(leaf.path) \in Paths
        /\ leaf.path = <<leaf.path[1]>> \o Tail(leaf.path)
    BY <1>2, <1>6, LeafIs
  <2>2. Preparing!Sub(t, leaf.path) = Preparing!Sub(Preparing!Sub(t, <<leaf.path[1]>>), Tail(leaf.path))
    BY <2>1, SubSub
  <2>3. Preparing!Sub(u, leaf.path) = Preparing!Sub(Preparing!Sub(u, <<leaf.path[1]>>), Tail(leaf.path))
    BY <2>1, SubSub
  <2> QED
    BY <1>1, <1>2, <1>6, <2>2, <2>3, ValueIs
<1> QED
  BY <1>3, <1>4, <1>5, <1>6

(* A resource is put beside the others.                                    *)
LEMMA GraftOne ==
  ASSUME NEW t, Preparing!IsTree(t), NEW n \in STRING, NEW v, Preparing!IsTree(v), NEW S, Rooted(t, S)
  PROVE  /\ Preparing!IsTree(Preparing!Graft(t, <<n>>, v)) /\ Rooted(Preparing!Graft(t, <<n>>, v), S \cup {n})
         /\ Preparing!Sub(Preparing!Graft(t, <<n>>, v), <<n>>) = v
         /\ \A m \in STRING \ {n} : Preparing!Sub(Preparing!Graft(t, <<n>>, v), <<m>>) =
              Preparing!Sub(t, <<m>>)
<1>1. <<n>> \in Paths /\ \A q \in Paths : (<<n>> \o q)[1] = n /\ <<n>> \o q # <<>>
  BY PathsOfOne
<1>2. DOMAIN v \subseteq Paths
  BY DEF Preparing!IsTree, Paths
<1>3. PICK g : g = Preparing!Graft(t, <<n>>, v)
  OBVIOUS
<1>4. /\ Preparing!IsTree(Preparing!Graft(t, <<n>>, v))
      /\ \A k : k \in DOMAIN Preparing!Graft(t, <<n>>, v) <=>
                  \/ k \in DOMAIN t /\ ~Preparing!IsPrefix(<<n>>, k)
                  \/ \E q \in DOMAIN v : k = <<n>> \o q
  <2>1. PICK p \in Paths : p = <<n>>
    BY <1>1
  <2>2. /\ Preparing!IsTree(Preparing!Graft(t, p, v))
        /\ \A k : k \in DOMAIN Preparing!Graft(t, p, v) <=>
                    \/ k \in DOMAIN t /\ ~Preparing!IsPrefix(p, k)
                    \/ \E q \in DOMAIN v : k = p \o q
    BY GraftIs
  <2> QED
    BY <2>1, <2>2, Zenon
<1>5. Rooted(g, S \cup {n})
  <2> SUFFICES ASSUME NEW k \in DOMAIN g PROVE k # <<>> /\ k[1] \in S \cup {n}
    BY DEF Rooted
  <2>1. CASE k \in DOMAIN t
    BY <2>1 DEF Rooted
  <2>2. CASE k \notin DOMAIN t
    <3>1. PICK q \in DOMAIN v : k = <<n>> \o q
      BY <1>3, <1>4, <2>2
    <3> QED
      BY <1>1, <1>2, <3>1
  <2> QED
    BY <2>1, <2>2
<1>6. ASSUME NEW m \in STRING \ {n} PROVE Preparing!Sub(Preparing!Graft(t, <<n>>, v), <<m>>) =
               Preparing!Sub(t, <<m>>)
  <2>1. <<m>> \in Paths /\ <<n>>[1] = n /\ <<m>>[1] = m
    BY PathsOfOne
  <2>2. ~Preparing!IsPrefix(<<n>>, <<m>>) /\ ~Preparing!IsPrefix(<<m>>, <<n>>)
    BY <1>1, <2>1, PathsOfOne
  <2> QED
    BY <1>1, <2>1, <2>2, SubGraftApart
<1>7. Preparing!Sub(Preparing!Graft(t, <<n>>, v), <<n>>) = v
  BY <1>1, SubGraft
<1> QED
  BY <1>3, <1>4, <1>5, <1>6, <1>7

(* What was made stays made while other resources come to be.              *)
LEMMA MadeAgain ==
  ASSUME Preparing!DocumentsAreWellFormed, NEW d \in Documents, NEW n \in AllNames(d),
         NEW g, NEW t, NEW u, Preparing!IsTree(g), Preparing!IsTree(t), Preparing!IsTree(u), Made(d, g, t, n),
         Preparing!Sub(u, <<n>>) = Preparing!Sub(t, <<n>>), \A m \in Deps(d, n) : Preparing!Sub(u, <<m>>) = Preparing!Sub(t, <<m>>)
  PROVE  Made(d, g, u, n)
<1>1. Values(d, g, u, n) = Values(d, g, t, n)
  BY ValuesAgree
<1> QED
  BY <1>1 DEF Made

(* What was made is there, and has at its leaves what was declared.        *)
LEMMA MadeIsThere ==
  ASSUME Preparing!DocumentsAreWellFormed, NEW d \in Documents, NEW n \in AllNames(d),
         NEW g, NEW t, Preparing!IsTree(g), Preparing!IsTree(t), Made(d, g, t, n)
  PROVE  /\ Preparing!Sub(t, <<n>>) # Preparing!Missing
         /\ \A p \in DOMAIN d.resources[n] : Preparing!Sub(t, <<n>> \o p) =
              Preparing!ValueIn(g, t, d.resources[n][p])
<1>1. Preparing!IsDeclaration(d.resources[n]) /\ n \in STRING
  BY Declared
<1>2. PICK at : at = d.resources[n]
  OBVIOUS
<1>3. DOMAIN at # {} /\ DOMAIN at \subseteq Paths
  BY <1>1, <1>2 DEF Preparing!IsDeclaration, Preparing!IsTree, Paths
<1>4. <<n>> \in Paths
  BY <1>1, PathsOfOne
<1>5. PICK s : s = Preparing!Sub(t, <<n>>)
  OBVIOUS
<1>6. \A p \in DOMAIN at : Preparing!Sub(s, p) = Preparing!ValueIn(g, t, at[p])
  BY <1>2, <1>5, ValuesAre DEF Made
<1>7. \A p \in DOMAIN at : Preparing!Sub(t, <<n>> \o p) = Preparing!Sub(s, p)
  BY <1>3, <1>4, <1>5, SubSub
<1>8. s # Preparing!Missing
  <2>1. PICK p \in DOMAIN at : TRUE
    BY <1>3
  <2>2. Preparing!ValueIn(g, t, at[p]) # Preparing!Missing
    BY <1>2, <2>1 DEF Made, Values, Preparing!Range
  <2>3. Preparing!Sub(Preparing!Missing, p) = Preparing!Missing
    BY <1>3, <2>1, NoTree, SubMissing
  <2> QED
    BY <1>6, <2>1, <2>2, <2>3
<1> QED
  BY <1>2, <1>5, <1>6, <1>7, <1>8

LEMMA SameRooted ==
  ASSUME NEW t, NEW u, Preparing!IsTree(t), Preparing!IsTree(u), NEW S, S \subseteq STRING,
           Rooted(t, S), Rooted(u, S),
         \A n \in S : Preparing!Sub(t, <<n>>) = Preparing!Sub(u, <<n>>)
  PROVE  t = u
<1>1. DOMAIN t \subseteq Paths /\ DOMAIN u \subseteq Paths
  BY DEF Preparing!IsTree, Paths
<1>2. ASSUME NEW k \in Paths, k # <<>>, k[1] \in S
      PROVE  (k \in DOMAIN t <=> k \in DOMAIN u) /\ (k \in DOMAIN t => t[k] = u[k])
  <2>1. PICK n \in S : n = k[1]
    BY <1>2
  <2>2. n \in STRING /\ <<n>> \in Paths
    BY PathsOfOne
  <2>3. PICK q \in Paths : k = <<n>> \o q
    <3>1. k \in Paths /\ k # <<>> /\ k[1] = n
      BY <1>2, <2>1
    <3>2. Tail(k) \in Paths /\ k = <<n>> \o Tail(k)
      BY <2>2, <3>1, PathsOfOne
    <3> QED
      BY <3>2
  <2>4. /\ \A x : x \in DOMAIN Preparing!Sub(t, <<n>>) <=> x \in Paths /\ <<n>> \o x \in DOMAIN t
        /\ \A x \in DOMAIN Preparing!Sub(t, <<n>>) : Preparing!Sub(t, <<n>>)[x] = t[<<n>> \o x]
    BY <2>2, SubIs
  <2>5. /\ \A x : x \in DOMAIN Preparing!Sub(u, <<n>>) <=> x \in Paths /\ <<n>> \o x \in DOMAIN u
        /\ \A x \in DOMAIN Preparing!Sub(u, <<n>>) : Preparing!Sub(u, <<n>>)[x] = u[<<n>> \o x]
    BY <2>2, SubIs
  <2>6. Preparing!Sub(t, <<n>>) = Preparing!Sub(u, <<n>>)
    OBVIOUS
  <2>7. q \in DOMAIN Preparing!Sub(t, <<n>>) <=> k \in DOMAIN t
    BY <2>3, <2>4
  <2>8. q \in DOMAIN Preparing!Sub(u, <<n>>) <=> k \in DOMAIN u
    BY <2>3, <2>5
  <2> QED
    BY <2>3, <2>4, <2>5, <2>6, <2>7, <2>8
<1>3. DOMAIN t = DOMAIN u
  BY <1>1, <1>2 DEF Rooted
<1> QED
  BY <1>1, <1>2, <1>3, SameTree DEF Rooted

-----------------------------------------------------------------------------
(* The trees that resource faults make of the one that was resolved.       *)
Hits(f) == f.at = "before_validation" /\ f.enabled
FaultStep(f, t, u) ==
  \/ /\ Hits(f) /\ Preparing!ValueIn(Preparing!Missing, t, f.value) # Preparing!Missing
       /\ Preparing!Sub(t, f.path) # Preparing!Missing
     /\ u = Preparing!Graft(t, f.path, Preparing!ValueIn(Preparing!Missing, t, f.value))
  \/ ~Hits(f) /\ u = t
Trail(d, b, m, g) ==
  g[1] = b /\ \A i \in 1..(m - 1) : FaultStep(d.faults[i], g[i], g[i + 1])
LeadsTo(d, b, m, t) == \E g : Trail(d, b, m, g) /\ g[m] = t

LEMMA TrailStarts == ASSUME NEW d, NEW b PROVE LeadsTo(d, b, 1, b)
<1> DEFINE g == [i \in {1} |-> b]
<1>1. g[1] = b
  OBVIOUS
<1>2. Trail(d, b, 1, g)
  BY <1>1 DEF Trail
<1> QED
  BY <1>1, <1>2 DEF LeadsTo

LEMMA TrailGoesOn ==
  ASSUME NEW d, NEW b, NEW m \in Nat \ {0}, NEW t, NEW u, LeadsTo(d, b, m, t),
         FaultStep(d.faults[m], t, u)
  PROVE  LeadsTo(d, b, m + 1, u)
<1>1. PICK g : Trail(d, b, m, g) /\ g[m] = t
  BY DEF LeadsTo
<1> DEFINE h == [i \in 1..(m + 1) |-> IF i = m + 1 THEN u ELSE g[i]]
<1>2. \A i \in 1..m : h[i] = g[i]
  OBVIOUS
<1>3. h[m + 1] = u
  OBVIOUS
<1> HIDE DEF h
<1>4. ASSUME NEW i \in 1..m PROVE FaultStep(d.faults[i], h[i], h[i + 1])
  <2>1. CASE i = m
    BY <1>1, <1>2, <1>3, <2>1
  <2>2. CASE i # m
    <3>1. i \in 1..(m - 1) /\ i + 1 \in 1..m
      BY <2>2
    <3> QED
      BY <1>1, <1>2, <3>1 DEF Trail
  <2> QED
    BY <2>1, <2>2
<1>5. Trail(d, b, m + 1, h)
  BY <1>1, <1>2, <1>4 DEF Trail
<1> QED
  BY <1>3, <1>5 DEF LeadsTo

(* Where a longer trail leads in its first steps.                          *)
LEMMA FaultStepIs ==
  ASSUME NEW f, NEW t, NEW u, NEW v, FaultStep(f, t, u), FaultStep(f, t, v)
  PROVE  u = v
  BY DEF FaultStep

-----------------------------------------------------------------------------
(* What constraints say of what was prepared.                              *)
Valid(d, t) == \A v \in Preparing!Range(d.validators) : Preparing!Sub(t, v.path) # Preparing!Missing /\ Preparing!Sub(t, v.path) \in v.allowed
Met(c, t) == Preparing!Sub(t, c.path) = Preparing!Scalar(c.value)
Judged(d, t, ran, seen) ==
  \/ ran /\ seen \subseteq d.invariants /\ \A i \in 1..Len(d.constraints) : Met(d.constraints[i], t)
  \/ /\ ~ran
     /\ \E i \in 1..Len(d.constraints) :
          /\ ~Met(d.constraints[i], t) /\ seen = {d.constraints[i].id}
          /\ \A j \in 1..(i - 1) : Met(d.constraints[j], t)

LEMMA JudgedAlike ==
  ASSUME Preparing!DocumentsAreWellFormed, NEW d \in Documents, NEW t,
         NEW r \in BOOLEAN, NEW s, Judged(d, t, r, s),
         NEW x \in BOOLEAN, NEW y, Judged(d, t, x, y)
  PROVE  r = x /\ (~r => s = y)
<1>0. Len(d.constraints) \in Nat
  BY DEF Preparing!DocumentsAreWellFormed
<1>1. CASE r \/ x
  BY <1>1 DEF Judged
<1>2. CASE ~r /\ ~x
  <2>1. PICK i \in 1..Len(d.constraints) :
          /\ ~Met(d.constraints[i], t) /\ s = {d.constraints[i].id}
          /\ \A k \in 1..(i - 1) : Met(d.constraints[k], t)
    BY <1>2 DEF Judged
  <2>2. PICK j \in 1..Len(d.constraints) :
          /\ ~Met(d.constraints[j], t) /\ y = {d.constraints[j].id}
          /\ \A k \in 1..(j - 1) : Met(d.constraints[k], t)
    BY <1>2 DEF Judged
  <2>3. ~(i < j)
    BY <1>0, <2>1, <2>2
  <2>4. ~(j < i)
    BY <1>0, <2>1, <2>2
  <2>5. i = j
    BY <1>0, <2>3, <2>4
  <2> QED
    BY <1>2, <2>1, <2>2, <2>5
<1> QED
  BY <1>1, <1>2

(* A trail that is at t after m - 1 faults and at u in the end.            *)
Between(d, b, m, t, e, u) == \E g : Trail(d, b, e, g) /\ g[m] = t /\ g[e] = u

-----------------------------------------------------------------------------
(* The inductive invariant.                                                *)
Prepared(d, given, c, b) ==
  /\ Preparing!IsTree(b) /\ Rooted(b, AllNames(d)) /\ c = UNION {Reads(d, n) : n \in AllNames(d)}
  /\ \A n \in AllNames(d) : Made(d, given, b, n)


FaultIds(d) == {f.id : f \in Preparing!Range(d.faults)}

Shaped ==
  /\ engine \in 1..2 /\ doc \in Documents /\ inputs \in InputSets /\ run \in 1..2
  /\ phase \in {"declared", "layering", "faults", "validators", "constraints", "ended", "error"}
  /\ code \in {"none", "unknown", "cycle", "segment", "incompatible", "validation",
               "expression", "step"}
  /\ (phase = "error") = (code # "none")
  /\ remaining \subseteq AllNames(doc) /\ order \in Seq(AllNames(doc))
  /\ Preparing!IsTree(resources) /\ Preparing!IsTree(base)
  /\ next \in 1..(Len(doc.faults) + Len(doc.constraints) + 1)
  /\ applied \in Seq(FaultIds(doc))
  /\ executed \in BOOLEAN /\ report \in {"none", "passed", "failed"}

Phased ==
  /\ phase = "declared" =>
       remaining = AllNames(doc) /\ order = <<>> /\ resources = Preparing!Missing /\ consumed = {}
  /\ phase \in {"declared", "layering"} => next = 1 /\ applied = <<>>
  /\ remaining # {} => resources = Preparing!Missing /\ phase \in {"declared", "layering", "error"}
  /\ order # <<>> => phase \in {"layering", "error"}
  /\ phase = "faults" => engine = 1 /\ next \in 1..(Len(doc.faults) + 1)
  /\ phase = "validators" => next = 1
  /\ phase \in {"constraints", "ended"} => next \in 1..(Len(doc.constraints) + 1)
  /\ executed \/ report # "none" => phase = "ended"
  /\ run = 2 => engine = 1

(* Names are resolved, ordered or remain.                                  *)
Done == AllNames(doc) \ (remaining \cup Preparing!Range(order))
Layered ==
  /\ Preparing!IsInjective(order) /\ Preparing!Range(order) \cap remaining = {}
  /\ phase # "declared" /\ code # "unknown" => Known(doc)
  /\ \A n \in AllNames(doc) \ remaining : Deps(doc, n) \cap remaining = {}
  /\ \A i, j \in 1..Len(order) : i <= j => order[j] \notin Deps(doc, order[i])
  /\ \A n \in Done : Deps(doc, n) \cap Preparing!Range(order) = {}
  /\ \A S \in SUBSET (AllNames(doc) \ remaining) : ~Knot(doc, S)
  /\ code = "cycle" => Knot(doc, remaining) /\ resources = Preparing!Missing

(* The inputs agree with those of the run that is replayed.                *)
Agree == \A i \in DOMAIN first.hashes[1] : Preparing!Sub(inputs, <<i>>) = first.hashes[1][i]

Making ==
  /\ phase \in {"declared", "layering"} =>
       /\ Rooted(resources, Done) /\ consumed = UNION {Reads(doc, n) : n \in Done}
       /\ \A n \in Done : Made(doc, inputs, resources, n)
       /\ run = 2 /\ Agree => \A n \in Done : Preparing!Sub(resources, <<n>>) =
            Preparing!Sub(first.hashes[2], <<n>>)
  /\ \A n \in Preparing!Range(order) : Preparing!Sub(resources, <<n>>) = Preparing!Missing
  /\ code = "segment" /\ order # <<>> =>
       \A m \in Deps(doc, order[1]) : Preparing!Sub(resources, <<m>>) # Preparing!Missing

Based ==
  phase \in {"faults", "validators", "constraints", "ended"} => Prepared(doc, inputs, consumed, base)

Faulted ==
  engine = 1 /\ run = 1 =>
    /\ phase = "faults" => LeadsTo(doc, base, next, resources)
    /\ phase \in {"validators", "constraints", "ended"} =>
         LeadsTo(doc, base, Len(doc.faults) + 1, resources)

(* What lies under no path of an applied fault is as it was resolved.      *)
Untouched(d, a, k) == \A f \in Preparing!Range(d.faults) : f.id \in Preparing!Range(a) =>
  ~Preparing!IsPrefix(f.path, k)
LocalTo(d, a, b, t) ==
  \A k \in DOMAIN b \cup DOMAIN t :
    Untouched(d, a, k) => k \in DOMAIN b \cap DOMAIN t /\ b[k] = t[k]
Local ==
  phase \in {"faults", "validators", "constraints", "ended"} => LocalTo(doc, applied, base, resources)

Checked ==
  /\ phase \in {"constraints", "ended"} => Valid(doc, resources)
  /\ phase = "constraints" => \A i \in 1..(next - 1) : Met(doc.constraints[i], resources)
  /\ phase = "ended" => Judged(doc, resources, executed, observed)

(* What is kept of the run that is replayed.                               *)
Kept ==
  run = 2 =>
    /\ Preparing!IsTree(first.inputs) /\ Known(doc) /\ first.hashes = <<first.hashes[1], first.hashes[2]>>
    /\ first.hashes[1] = [i \in DOMAIN first.hashes[1] |-> Preparing!Sub(first.inputs, <<i>>)]
    /\ Prepared(doc, first.inputs, DOMAIN first.hashes[1], first.hashes[2])
    /\ LeadsTo(doc, first.hashes[2], Len(doc.faults) + 1, first.resources)
    /\ Valid(doc, first.resources) /\ first.executed \in BOOLEAN
    /\ Judged(doc, first.resources, first.executed, first.observed)

(* The replay goes the same way.                                           *)
Repeated ==
  run = 2 =>
    /\ phase = "faults" =>
         Between(doc, first.hashes[2], next, resources, Len(doc.faults) + 1, first.resources)
    /\ phase \in {"validators", "constraints", "ended"} => resources = first.resources
    /\ code \in {"segment", "unknown", "validation", "incompatible"} => ~Agree

PreparationInv ==
  /\ Shaped /\ Phased /\ Layered /\ Making /\ Based /\ Faulted /\ Local
  /\ Checked /\ Kept /\ Repeated /\ Preparing!PassMeansObserved

LEMMA DocIs ==
  ASSUME Preparing!DocumentsAreWellFormed, NEW d \in Documents
  PROVE  /\ IsFiniteSet(AllNames(d)) /\ AllNames(d) \subseteq STRING
         /\ Len(d.faults) \in Nat /\ Len(d.constraints) \in Nat
         /\ \A i \in 1..Len(d.faults) : /\ d.faults[i] \in Preparing!Range(d.faults)
                                        /\ d.faults[i].path \in Paths
                                        /\ Preparing!IsLeaf(d.faults[i].value, {"$ref"})
         /\ \A i \in 1..Len(d.constraints) : /\ d.constraints[i] \in Preparing!Range(d.constraints)
                                             /\ d.constraints[i].id \notin d.invariants
<1>1. /\ d.faults \in Seq(Preparing!Range(d.faults)) /\ d.constraints \in Seq(Preparing!Range(d.constraints))
      /\ \A f \in Preparing!Range(d.faults) : f.path \in Seq(STRING) /\ Preparing!IsLeaf(f.value, {"$ref"})
      /\ \A c \in Preparing!Range(d.constraints) : c.id \notin d.invariants
      /\ IsFiniteSet(AllNames(d)) /\ AllNames(d) \subseteq STRING
  BY DEF Preparing!DocumentsAreWellFormed, AllNames, Preparing!IsFiniteSet, IsFiniteSet
<1>2. /\ Len(d.faults) \in Nat /\ Len(d.constraints) \in Nat
      /\ \A i \in 1..Len(d.faults) : d.faults[i] \in Preparing!Range(d.faults)
      /\ \A i \in 1..Len(d.constraints) : d.constraints[i] \in Preparing!Range(d.constraints)
  BY <1>1
<1> QED
  BY <1>1, <1>2 DEF Paths

LEMMA PreparationInit == ASSUME Preparing!DocumentsAreWellFormed, Preparing!Init PROVE PreparationInv
<1>1. doc \in Documents /\ inputs \in InputSets /\ remaining = AllNames(doc)
  BY DEF Preparing!Init, Preparing!Names, AllNames
<1>2. Len(doc.faults) \in Nat /\ Len(doc.constraints) \in Nat
  BY <1>1, DocIs
<1>3. Preparing!IsTree(Preparing!Missing) /\ DOMAIN Preparing!Missing = {}
  BY NoTree
<1>4. <<>> \in Seq(AllNames(doc)) /\ <<>> \in Seq(FaultIds(doc))
  BY EmptySeq
<1>5. Shaped
  <2>1. order \in Seq(AllNames(doc)) /\ applied \in Seq(FaultIds(doc))
    BY <1>4 DEF Preparing!Init
  <2>2. Preparing!IsTree(resources) /\ Preparing!IsTree(base)
    BY <1>3 DEF Preparing!Init
  <2>3. next \in 1..(Len(doc.faults) + Len(doc.constraints) + 1)
    <3>1. next = 1
      BY DEF Preparing!Init
    <3>2. PICK a \in Nat, b \in Nat : a = Len(doc.faults) /\ b = Len(doc.constraints)
      BY <1>2
    <3>3. 1 \in 1..(a + b + 1)
      OBVIOUS
    <3> QED
      BY <3>1, <3>2, <3>3
  <2>4. phase = "declared" /\ code = "none" /\ report = "none" /\ executed \in BOOLEAN
          /\ run = 1 /\ engine \in 1..2
    BY DEF Preparing!Init
  <2>5. /\ engine \in 1..2 /\ run \in 1..2 /\ (phase = "error") = (code # "none")
        /\ executed \in BOOLEAN /\ report \in {"none", "passed", "failed"}
    BY <2>4
  <2> QED
    BY <1>1, <2>1, <2>2, <2>3, <2>4, <2>5 DEF Shaped
<1>6. Phased
  BY <1>1, <1>2 DEF Preparing!Init, Phased
<1>7. Done = {} /\ AllNames(doc) \ remaining = {} /\ Preparing!Range(order) = {}
  BY <1>1 DEF Done, Preparing!Init, Preparing!Range
<1>8. Layered
  <2>1. Preparing!IsInjective(order) /\ Len(order) = 0 /\ phase = "declared" /\ code = "none"
    BY DEF Preparing!Init, Preparing!IsInjective
  <2> QED
    BY <1>7, <2>1 DEF Layered, Knot
<1>9. Making
  <2>1. Rooted(resources, Done)
    BY <1>3 DEF Preparing!Init, Rooted
  <2> QED
    BY <1>7, <2>1 DEF Making, Preparing!Init
<1>10. Based /\ Faulted /\ Local /\ Checked /\ Kept /\ Repeated /\ Preparing!PassMeansObserved
  BY DEF Preparing!Init, Based, Faulted, Local, Checked, Kept, Repeated, Preparing!PassMeansObserved
<1> QED
  BY <1>5, <1>6, <1>8, <1>9, <1>10 DEF PreparationInv

LEMMA RaiseKeeps ==
  ASSUME PreparationInv, phase \notin {"ended", "error"},
         NEW c \in {"unknown", "cycle", "segment", "incompatible", "validation", "expression", "step"},
         Preparing!Raise(c),
         c # "unknown" => phase # "declared",
         c = "cycle" => Knot(doc, remaining) /\ resources = Preparing!Missing,
         c = "segment" /\ order # <<>> => \A m \in Deps(doc, order[1]) : Preparing!Sub(resources, <<m>>) # Preparing!Missing,
         run = 2 /\ c \in {"segment", "unknown", "validation", "incompatible"} => ~Agree
  PROVE  PreparationInv'
<1>1. /\ phase' = "error" /\ code' = c /\ code = "none"
      /\ UNCHANGED <<Preparing!coordinates, Preparing!resolving, resources, next, applied, Preparing!judged>>
  BY DEF Preparing!Raise, PreparationInv, Shaped
<1>2. Shaped'
  BY <1>1 DEF PreparationInv, Shaped, Preparing!coordinates, Preparing!resolving, Preparing!judged
<1>3. Phased'
  BY <1>1 DEF PreparationInv, Phased, Preparing!coordinates, Preparing!resolving, Preparing!judged
<1>4. Layered'
  BY <1>1 DEF PreparationInv, Layered, Done, Preparing!coordinates, Preparing!resolving
<1>5. Making'
  BY <1>1 DEF PreparationInv, Making, Preparing!coordinates, Preparing!resolving
<1>6. Based' /\ Faulted' /\ Local' /\ Checked'
  BY <1>1 DEF Based, Faulted, Local, Checked
<1>7. Kept' /\ Preparing!PassMeansObserved'
  BY <1>1 DEF PreparationInv, Kept, Preparing!PassMeansObserved, Preparing!FaultsOf,
    Preparing!Expected, Preparing!coordinates, Preparing!judged
<1>8. Repeated'
  BY <1>1 DEF PreparationInv, Repeated, Agree, Preparing!coordinates
<1> QED
  BY <1>2, <1>3, <1>4, <1>5, <1>6, <1>7, <1>8 DEF PreparationInv

LEMMA StutterKeeps == ASSUME PreparationInv, UNCHANGED Preparing!vars PROVE PreparationInv'
<1> USE DEF Preparing!vars, Preparing!coordinates, Preparing!resolving, Preparing!judged
<1>1. Shaped' /\ Phased'
  BY DEF PreparationInv, Shaped, Phased
<1>2. Layered' /\ Making'
  BY DEF PreparationInv, Layered, Making, Done, Agree
<1>3. Based' /\ Faulted' /\ Checked' /\ Kept' /\ Repeated'
  BY DEF PreparationInv, Based, Faulted, Checked, Kept, Repeated, Agree
<1>4. Local' /\ Preparing!PassMeansObserved'
  BY DEF PreparationInv, Local, Preparing!FaultsOf, Preparing!PassMeansObserved, Preparing!Expected
<1> QED
  BY <1>1, <1>2, <1>3, <1>4 DEF PreparationInv

LEMMA NamesOfDocument ==
  /\ Preparing!Names = AllNames(doc)
  /\ \A n : Preparing!DependenciesOf(n) = Deps(doc, n) /\ Preparing!ReadBy(n) = Reads(doc, n)
  /\ \A leaf : Preparing!ValueOf(leaf) = Preparing!ValueIn(inputs, resources, leaf)
<1>1. Preparing!Names = AllNames(doc)
  BY DEF Preparing!Names, AllNames
<1>2. ASSUME NEW n PROVE Preparing!DependenciesOf(n) = Deps(doc, n) /\ Preparing!ReadBy(n) = Reads(doc, n)
  BY DEF Preparing!DependenciesOf, Deps, Preparing!ReadBy, Reads, Preparing!Leaves
<1>3. ASSUME NEW leaf PROVE Preparing!ValueOf(leaf) = Preparing!ValueIn(inputs, resources, leaf)
  BY DEF Preparing!ValueOf
<1> QED
  BY <1>1, <1>2, <1>3

LEMMA CheckReferencesKeeps ==
  ASSUME Preparing!DocumentsAreWellFormed, PreparationInv, Preparing!CheckReferences PROVE PreparationInv'
<1>1. phase = "declared" /\ code = "none"
  BY DEF Preparing!CheckReferences, PreparationInv, Shaped
<1>2. (\A n \in Preparing!Names : Preparing!DependenciesOf(n) \subseteq Preparing!Names) <=> Known(doc)
  BY NamesOfDocument DEF Known
<1>3. CASE Known(doc)
  <2>1. /\ phase' = "layering" /\ code' = "none"
        /\ UNCHANGED <<Preparing!coordinates, code, Preparing!resolving, resources, next, applied,
             Preparing!judged>>
    BY <1>1, <1>2, <1>3 DEF Preparing!CheckReferences
  <2> USE DEF Preparing!coordinates, Preparing!resolving, Preparing!judged
  <2>2. Shaped' /\ Phased'
    BY <1>1, <2>1 DEF PreparationInv, Shaped, Phased
  <2>3. Layered'
    BY <1>1, <1>3, <2>1 DEF PreparationInv, Layered, Done
  <2>4. Making'
    BY <1>1, <2>1 DEF PreparationInv, Making, Done, Agree
  <2>5. Based' /\ Faulted' /\ Local' /\ Checked'
    BY <2>1 DEF Based, Faulted, Local, Checked
  <2>6. Kept' /\ Repeated'
    BY <1>1, <2>1 DEF PreparationInv, Kept, Repeated, Agree
  <2>7. Preparing!PassMeansObserved'
    BY <1>1, <2>1 DEF PreparationInv, Phased, Preparing!PassMeansObserved
  <2> QED
    BY <2>2, <2>3, <2>4, <2>5, <2>6, <2>7 DEF PreparationInv
<1>4. CASE ~Known(doc)
  <2>1. Preparing!Raise("unknown")
    BY <1>2, <1>4 DEF Preparing!CheckReferences
  <2>2. run # 2
    BY <1>4 DEF PreparationInv, Kept
  <2> QED
    BY <1>1, <2>1, <2>2, RaiseKeeps
<1> QED
  BY <1>3, <1>4

-----------------------------------------------------------------------------
(* A layer has every name that is ready, once.                             *)
LEMMA LayerIs ==
  ASSUME NEW S, IsFiniteSet(S), NEW layer \in Preparing!SetToSeqs(S)
  PROVE  layer \in Seq(S) /\ Preparing!Range(layer) = S /\ Preparing!IsInjective(layer)
<1>1. PICK N \in Nat : N = Cardinality(S)
  BY FS_CardinalityType
<1>2. layer \in [1..N -> S] /\ \A i, j \in 1..N : i # j => layer[i] # layer[j]
  <2>1. Preparing!Cardinality(S) = N
    BY <1>1 DEF Preparing!Cardinality, Cardinality
  <2> QED
    BY <1>1, <2>1 DEF Preparing!SetToSeqs
<1>3. Preparing!IsInjective(layer) /\ IsInjective(layer)
  BY <1>2 DEF Preparing!IsInjective, IsInjective
<1>4. layer \in Injection(1..N, S)
  BY <1>2, <1>3 DEF Injection
<1>5. Cardinality(1..N) = N
  BY <1>1, FS_Interval
<1>6. layer \in Surjection(1..N, S)
  BY <1>1, <1>4, <1>5, FS_Injection
<1>7. Preparing!Range(layer) = S
  BY <1>2, <1>6 DEF Surjection, Preparing!Range
<1>8. layer \in Seq(S)
  BY <1>1, <1>2
<1> QED
  BY <1>3, <1>7, <1>8

LEMMA OrderGrows ==
  ASSUME NEW N, NEW o \in Seq(N), NEW S, NEW l \in Seq(S), S \subseteq N, Preparing!Range(o) \cap S = {},
         Preparing!Range(l) = S, Preparing!IsInjective(o), Preparing!IsInjective(l)
  PROVE  /\ o \o l \in Seq(N) /\ Preparing!IsInjective(o \o l)
              /\ Preparing!Range(o \o l) = Preparing!Range(o) \cup S
         /\ Len(o) \in Nat /\ Len(l) \in Nat
         /\ \A i \in 1..Len(o \o l) : \/ i \in 1..Len(o) /\ (o \o l)[i] = o[i]
                                      \/ i - Len(o) \in 1..Len(l) /\ (o \o l)[i] = l[i - Len(o)]
<1>0. l \in Seq(N)
  OBVIOUS
<1>1. PICK k : k = o \o l
  OBVIOUS
<1>2. /\ k \in Seq(N) /\ Len(o) \in Nat /\ Len(l) \in Nat /\ Len(k) = Len(o) + Len(l)
      /\ \A i \in 1..Len(k) : k[i] = IF i <= Len(o) THEN o[i] ELSE l[i - Len(o)]
      /\ DOMAIN k = 1..Len(k) /\ DOMAIN o = 1..Len(o) /\ DOMAIN l = 1..Len(l)
  BY <1>0, <1>1
<1>3. \A i \in 1..Len(k) : \/ i \in 1..Len(o) /\ k[i] = o[i]
                           \/ i \notin 1..Len(o) /\ i - Len(o) \in 1..Len(l) /\ k[i] = l[i - Len(o)]
  BY <1>2
<1>4. \A i \in 1..Len(o) : o[i] \in Preparing!Range(o)
  BY <1>2 DEF Preparing!Range
<1>5. \A i \in 1..Len(l) : l[i] \in S
  BY <1>2 DEF Preparing!Range
<1>6. Preparing!IsInjective(k)
  <2> SUFFICES ASSUME NEW i \in 1..Len(k), NEW j \in 1..Len(k), k[i] = k[j] PROVE i = j
    BY <1>2 DEF Preparing!IsInjective
  <2>1. CASE i \in 1..Len(o) /\ j \in 1..Len(o)
    BY <1>2, <2>1 DEF Preparing!IsInjective
  <2>2. CASE i \notin 1..Len(o) /\ j \notin 1..Len(o)
    <3>1. i - Len(o) = j - Len(o)
      BY <1>2, <1>3, <2>2 DEF Preparing!IsInjective
    <3> QED
      BY <1>2, <3>1
  <2>3. CASE i \in 1..Len(o) /\ j \notin 1..Len(o)
    <3>1. k[i] \in Preparing!Range(o) /\ k[j] \in S
      BY <1>3, <1>4, <1>5, <2>3
    <3> QED
      BY <3>1
  <2>4. CASE i \notin 1..Len(o) /\ j \in 1..Len(o)
    <3>1. k[i] \in S /\ k[j] \in Preparing!Range(o)
      BY <1>3, <1>4, <1>5, <2>4
    <3> QED
      BY <3>1
  <2> QED
    BY <2>1, <2>2, <2>3, <2>4
<1>7. Preparing!Range(k) = Preparing!Range(o) \cup S
  <2>1. ASSUME NEW i \in 1..Len(k) PROVE k[i] \in Preparing!Range(o) \cup S
    BY <1>3, <1>4, <1>5
  <2>2. ASSUME NEW i \in 1..Len(o) PROVE o[i] \in Preparing!Range(k)
    <3>1. i \in 1..Len(k) /\ k[i] = o[i]
      BY <1>2
    <3> QED
      BY <1>2, <3>1 DEF Preparing!Range
  <2>3. ASSUME NEW i \in 1..Len(l) PROVE l[i] \in Preparing!Range(k)
    <3>1. PICK m \in Nat, n \in Nat : m = Len(o) /\ n = Len(l)
      BY <1>2
    <3>2. i + m \in 1..Len(k) /\ ~(i + m <= m) /\ (i + m) - m = i
      BY <1>2, <3>1
    <3>3. k[i + m] = l[i]
      BY <1>2, <3>1, <3>2
    <3> QED
      BY <1>2, <3>1, <3>2, <3>3 DEF Preparing!Range
  <2> QED
    BY <1>2, <2>1, <2>2, <2>3 DEF Preparing!Range
<1> QED
  BY <1>1, <1>2, <1>3, <1>6, <1>7

(* What is done and what is known stays so while a layer is taken.         *)
LEMMA TakeLayerKeeps ==
  ASSUME Preparing!DocumentsAreWellFormed, PreparationInv, Preparing!TakeLayer PROVE PreparationInv'
<1>1. /\ phase = "layering" /\ remaining # {} /\ code = "none" /\ doc \in Documents
      /\ order \in Seq(AllNames(doc)) /\ remaining \subseteq AllNames(doc)
  BY DEF Preparing!TakeLayer, PreparationInv, Shaped
<1>2. \A n : n \in Preparing!Ready <=> n \in remaining /\ Deps(doc, n) \cap remaining = {}
  BY NamesOfDocument DEF Preparing!Ready
<1>3. resources = Preparing!Missing
  BY <1>1 DEF PreparationInv, Phased
<1>4. CASE Preparing!Ready = {}
  <2>1. Preparing!Raise("cycle")
    BY <1>4 DEF Preparing!TakeLayer
  <2>2. Knot(doc, remaining)
    BY <1>1, <1>2, <1>4 DEF Knot
  <2> QED
    BY <1>1, <1>3, <2>1, <2>2, RaiseKeeps
<1>5. CASE Preparing!Ready # {}
  <2>1. PICK layer \in Preparing!SetToSeqs(Preparing!Ready) : order' = order \o layer
    BY <1>5 DEF Preparing!TakeLayer
  <2>2. /\ remaining' = remaining \ Preparing!Ready
        /\ UNCHANGED <<Preparing!coordinates, phase, code, base, consumed, resources, next,
             applied, Preparing!judged>>
    BY <1>5 DEF Preparing!TakeLayer
  <2>3. Preparing!Ready \subseteq remaining
    BY <1>2
  <2>4. IsFiniteSet(Preparing!Ready)
    BY <1>1, <2>3, DocIs, FS_Subset
  <2>5. layer \in Seq(Preparing!Ready) /\ Preparing!Range(layer) = Preparing!Ready
          /\ Preparing!IsInjective(layer)
    BY <2>4, LayerIs
  <2>6. /\ Preparing!IsInjective(order) /\ Preparing!Range(order) \cap remaining = {}
        /\ \A n \in AllNames(doc) \ remaining : Deps(doc, n) \cap remaining = {}
        /\ \A i, j \in 1..Len(order) : i <= j => order[j] \notin Deps(doc, order[i])
        /\ \A n \in Done : Deps(doc, n) \cap Preparing!Range(order) = {}
        /\ \A S \in SUBSET (AllNames(doc) \ remaining) : ~Knot(doc, S)
    BY DEF PreparationInv, Layered
  <2>7. /\ order' \in Seq(AllNames(doc)) /\ Preparing!IsInjective(order')
        /\ Preparing!Range(order') = Preparing!Range(order) \cup Preparing!Ready
        /\ Len(order) \in Nat /\ Len(layer) \in Nat
        /\ \A i \in 1..Len(order') :
             \/ i \in 1..Len(order) /\ order'[i] = order[i]
             \/ i - Len(order) \in 1..Len(layer) /\ order'[i] = layer[i - Len(order)]
    <3>1. Preparing!Ready \subseteq AllNames(doc) /\ Preparing!Range(order) \cap Preparing!Ready = {}
      BY <1>1, <2>3, <2>6
    <3> QED
      BY <1>1, <2>1, <2>5, <2>6, <3>1, OrderGrows
  <2>8. Preparing!Range(order) \subseteq AllNames(doc)
    BY <1>1 DEF Preparing!Range
  <2>9. Done' = Done
    BY <2>2, <2>3, <2>7 DEF Done, Preparing!coordinates
  <2>10. \A n \in Preparing!Ready : Deps(doc, n) \cap remaining = {}
    BY <1>2
  <2>11. Len(order') \in Nat /\ \A i \in 1..Len(order') : order'[i] \in Preparing!Range(order')
    <3>1. Len(order') \in Nat /\ DOMAIN order' = 1..Len(order')
      BY <2>7
    <3> QED
      BY <3>1 DEF Preparing!Range
  <2> USE DEF Preparing!coordinates, Preparing!judged
  <2>12. Shaped'
    BY <1>1, <2>2, <2>7 DEF PreparationInv, Shaped
  <2>13. Phased'
    BY <1>1, <2>2 DEF PreparationInv, Phased
  <2>14. Layered'
    <3>1. Preparing!IsInjective(order') /\ Preparing!Range(order') \cap remaining' = {}
      BY <2>2, <2>6, <2>7
    <3>2. \A n \in AllNames(doc) \ remaining' : Deps(doc, n) \cap remaining' = {}
      BY <2>2, <2>6, <2>10
    <3>3. ASSUME NEW i \in 1..Len(order'), NEW j \in 1..Len(order'), i <= j
          PROVE  order'[j] \notin Deps(doc, order'[i])
      <4>1. CASE j \in 1..Len(order) /\ i \in 1..Len(order)
        <5>1. order'[i] = order[i] /\ order'[j] = order[j]
          BY <2>7, <4>1
        <5> QED
          BY <2>6, <3>3, <4>1, <5>1
      <4>2. CASE j \notin 1..Len(order)
        <5>1. j - Len(order) \in 1..Len(layer) /\ order'[j] = layer[j - Len(order)]
          BY <2>7, <4>2
        <5>2. order'[j] \in remaining
          BY <2>3, <2>5, <5>1 DEF Preparing!Range
        <5>3. order'[i] \in Preparing!Range(order) \cup Preparing!Ready
          BY <2>7, <2>11
        <5>4. Deps(doc, order'[i]) \cap remaining = {}
          BY <2>6, <2>8, <2>10, <5>3
        <5> QED
          BY <5>2, <5>4
      <4>3. j \in 1..Len(order) => i \in 1..Len(order)
        BY <2>7, <2>11, <3>3
      <4> QED
        BY <4>1, <4>2, <4>3
    <3>4. ASSUME NEW n \in Done PROVE Deps(doc, n) \cap Preparing!Range(order') = {}
      <4>1. n \in AllNames(doc) \ remaining
        BY DEF Done
      <4> QED
        BY <2>3, <2>6, <2>7, <4>1
    <3>5. ASSUME NEW S \in SUBSET (AllNames(doc) \ remaining'), Knot(doc, S) PROVE FALSE
      <4>1. S \ remaining \in SUBSET (AllNames(doc) \ remaining)
        OBVIOUS
      <4>2. \A n \in S : Deps(doc, n) \cap remaining = {}
        BY <2>2, <2>6, <2>10
      <4>3. \A n \in S : Deps(doc, n) \cap (S \ remaining) # {}
        BY <3>5, <4>2 DEF Knot
      <4>4. S \ remaining # {}
        BY <3>5, <4>3 DEF Knot
      <4> QED
        BY <2>6, <4>1, <4>3, <4>4 DEF Knot
    <3>6. Known(doc) /\ code' = "none" /\ doc' = doc
      BY <1>1, <2>2 DEF PreparationInv, Layered
    <3> QED
      BY <2>9, <3>1, <3>2, <3>3, <3>4, <3>5, <3>6 DEF Layered
  <2>15. Making'
    <3>1. \A n \in Preparing!Range(order') : Preparing!Sub(resources', <<n>>) = Preparing!Missing
      <4>1. \A n \in STRING : <<n>> \in Paths
        BY PathsOfOne
      <4>2. \A p \in Paths : Preparing!Sub(Preparing!Missing, p) = Preparing!Missing
        BY NoTree, SubMissing
      <4>3. Preparing!Range(order') \subseteq STRING
        BY <1>1, <2>3, <2>7, <2>8, DocIs
      <4> QED
        BY <1>3, <2>2, <4>1, <4>2, <4>3
    <3> QED
      BY <1>1, <2>2, <2>9, <3>1 DEF PreparationInv, Making, Agree
  <2>16. Based' /\ Faulted' /\ Local' /\ Checked'
    BY <1>1, <2>2 DEF Based, Faulted, Local, Checked
  <2>17. Kept' /\ Repeated'
    BY <1>1, <2>2 DEF PreparationInv, Kept, Repeated, Agree
  <2>18. Preparing!PassMeansObserved'
    BY <1>1, <2>2 DEF PreparationInv, Phased, Preparing!PassMeansObserved
  <2> QED
    BY <2>12, <2>13, <2>14, <2>15, <2>16, <2>17, <2>18 DEF PreparationInv
<1> QED
  BY <1>4, <1>5

-----------------------------------------------------------------------------
(* The values of a resource that comes next, in the run and in the one     *)
(* that it replays.                                                        *)
LEMMA NextIs ==
  ASSUME Preparing!DocumentsAreWellFormed, PreparationInv, phase = "layering", remaining = {}, order # <<>>
  PROVE  /\ order[1] \in AllNames(doc) /\ order[1] \notin Done /\ order[1] \in STRING
         /\ Deps(doc, order[1]) \subseteq Done
         /\ Tail(order) \in Seq(AllNames(doc)) /\ Preparing!IsInjective(Tail(order))
         /\ Preparing!Range(order) = {order[1]} \cup Preparing!Range(Tail(order))
              /\ order[1] \notin Preparing!Range(Tail(order))
         /\ Len(order) \in Nat \ {0} /\ Len(Tail(order)) = Len(order) - 1
         /\ \A i \in 1..Len(Tail(order)) : Tail(order)[i] = order[i + 1]
<1>1. /\ order \in Seq(AllNames(doc)) /\ Preparing!IsInjective(order) /\ doc \in Documents /\ code = "none"
      /\ Known(doc)
      /\ \A i, j \in 1..Len(order) : i <= j => order[j] \notin Deps(doc, order[i])
  BY DEF PreparationInv, Shaped, Layered
<1>2. PICK t : t = Tail(order)
  OBVIOUS
<1>3. /\ Len(order) \in Nat \ {0} /\ t \in Seq(AllNames(doc)) /\ Len(t) = Len(order) - 1
      /\ \A i \in 1..Len(t) : t[i] = order[i + 1]
      /\ DOMAIN order = 1..Len(order) /\ DOMAIN t = 1..Len(t)
  BY <1>1, <1>2, HeadTailProperties, EmptySeq
<1>4. order[1] \in AllNames(doc) /\ order[1] \in Preparing!Range(order)
  BY <1>1, <1>3 DEF Preparing!Range
<1>5. Preparing!Range(order) = {order[1]} \cup Preparing!Range(t)
  <2>1. ASSUME NEW i \in 1..Len(order), i # 1 PROVE order[i] \in Preparing!Range(t)
    <3>1. i - 1 \in 1..Len(t) /\ t[i - 1] = order[i]
      BY <1>3, <2>1
    <3> QED
      BY <1>3, <3>1 DEF Preparing!Range
  <2>2. ASSUME NEW i \in 1..Len(t) PROVE t[i] \in Preparing!Range(order)
    <3>1. i + 1 \in 1..Len(order) /\ t[i] = order[i + 1]
      BY <1>3
    <3> QED
      BY <1>3, <3>1 DEF Preparing!Range
  <2>3. \A x \in Preparing!Range(order) : x \in {order[1]} \cup Preparing!Range(t)
    BY <1>3, <2>1 DEF Preparing!Range
  <2>4. \A x \in Preparing!Range(t) : x \in Preparing!Range(order)
    BY <1>3, <2>2 DEF Preparing!Range
  <2> QED
    BY <1>4, <2>3, <2>4
<1>6. Preparing!IsInjective(t) /\ order[1] \notin Preparing!Range(t)
  <2>1. \A i \in 1..Len(t) : i + 1 \in 1..Len(order) /\ i + 1 # 1 /\ t[i] = order[i + 1]
    BY <1>3
  <2>2. 1 \in 1..Len(order)
    BY <1>3
  <2>3. \A i \in 1..Len(t) : t[i] # order[1]
    BY <1>1, <1>3, <2>1, <2>2 DEF Preparing!IsInjective
  <2>4. ASSUME NEW i \in 1..Len(t), NEW j \in 1..Len(t), t[i] = t[j] PROVE i = j
    <3>1. i + 1 = j + 1
      BY <1>1, <1>3, <2>1, <2>4 DEF Preparing!IsInjective
    <3> QED
      BY <1>3, <3>1
  <2> QED
    BY <1>3, <2>3, <2>4 DEF Preparing!IsInjective, Preparing!Range
<1>7. Deps(doc, order[1]) \subseteq Done
  <2>1. Deps(doc, order[1]) \subseteq AllNames(doc)
    BY <1>1, <1>4 DEF Known
  <2>2. \A j \in 1..Len(order) : order[j] \notin Deps(doc, order[1])
    BY <1>1, <1>3
  <2>3. \A m \in Deps(doc, order[1]) : m \notin Preparing!Range(order)
    BY <1>3, <2>2 DEF Preparing!Range
  <2> QED
    BY <2>1, <2>3 DEF Done
<1>8. order[1] \notin Done /\ order[1] \in STRING
  BY <1>1, <1>4, DocIs DEF Done
<1> QED
  BY <1>2, <1>3, <1>4, <1>5, <1>6, <1>7, <1>8

LEMMA NextAgrees ==
  ASSUME Preparing!DocumentsAreWellFormed, PreparationInv, phase = "layering", remaining = {}, order # <<>>,
         run = 2, Agree
  PROVE  /\ Preparing!Missing \notin Preparing!Range(Values(doc, inputs, resources, order[1]))
         /\ Preparing!Sub(first.hashes[2], <<order[1]>>) =
              Preparing!Join(Values(doc, inputs, resources, order[1]))
<1>1. PICK n : n = order[1]
  OBVIOUS
<1>2. n \in AllNames(doc) /\ Deps(doc, n) \subseteq Done
  BY <1>1, NextIs
<1>3. doc \in Documents /\ Preparing!IsTree(inputs) /\ Preparing!IsTree(resources)
        /\ Preparing!IsTree(first.inputs)
  BY DEF PreparationInv, Shaped, Kept, Preparing!DocumentsAreWellFormed
<1>4. PICK B : B = first.hashes[2]
  OBVIOUS
<1>5. Preparing!IsTree(B) /\ Made(doc, first.inputs, B, n)
  BY <1>2, <1>4 DEF PreparationInv, Kept, Prepared
<1>6. \A m \in Deps(doc, n) : Preparing!Sub(resources, <<m>>) = Preparing!Sub(B, <<m>>)
  BY <1>2, <1>4 DEF PreparationInv, Making
<1>7. ASSUME NEW i \in Reads(doc, n) PROVE Preparing!Sub(inputs, <<i>>) = Preparing!Sub(first.inputs, <<i>>)
  <2>1. i \in DOMAIN first.hashes[1]
    BY <1>2 DEF PreparationInv, Kept, Prepared
  <2>2. first.hashes[1] = [j \in DOMAIN first.hashes[1] |-> Preparing!Sub(first.inputs, <<j>>)]
    BY DEF PreparationInv, Kept
  <2>3. first.hashes[1][i] = Preparing!Sub(first.inputs, <<i>>)
    BY <2>1, <2>2
  <2> QED
    BY <2>1, <2>3 DEF Agree
<1>8. Values(doc, inputs, resources, n) = Values(doc, first.inputs, B, n)
  BY <1>2, <1>3, <1>5, <1>6, <1>7, ValuesAgree
<1> QED
  BY <1>1, <1>4, <1>5, <1>8 DEF Made

LEMMA ResolveNextKeeps ==
  ASSUME Preparing!DocumentsAreWellFormed, PreparationInv, Preparing!ResolveNext PROVE PreparationInv'
<1>1. /\ phase = "layering" /\ remaining = {} /\ order # <<>> /\ code = "none"
      /\ doc \in Documents /\ Preparing!IsTree(inputs) /\ Preparing!IsTree(resources)
  BY DEF Preparing!ResolveNext, PreparationInv, Shaped, Preparing!DocumentsAreWellFormed
<1>2. PICK n : n = order[1]
  OBVIOUS
<1>3. PICK V : V = Values(doc, inputs, resources, n)
  OBVIOUS
<1>4. /\ n \in AllNames(doc) /\ n \notin Done /\ n \in STRING /\ Deps(doc, n) \subseteq Done
      /\ Tail(order) \in Seq(AllNames(doc)) /\ Preparing!IsInjective(Tail(order))
      /\ Preparing!Range(order) = {n} \cup Preparing!Range(Tail(order))
           /\ n \notin Preparing!Range(Tail(order))
      /\ Len(order) \in Nat \ {0} /\ Len(Tail(order)) = Len(order) - 1
      /\ \A i \in 1..Len(Tail(order)) : Tail(order)[i] = order[i + 1]
  BY <1>1, <1>2, NextIs
<1>5. /\ Rooted(resources, Done) /\ consumed = UNION {Reads(doc, m) : m \in Done}
      /\ \A m \in Done : Made(doc, inputs, resources, m)
      /\ run = 2 /\ Agree => \A m \in Done : Preparing!Sub(resources, <<m>>) =
           Preparing!Sub(first.hashes[2], <<m>>)
      /\ \A m \in Preparing!Range(order) : Preparing!Sub(resources, <<m>>) = Preparing!Missing
  BY <1>1 DEF PreparationInv, Making
<1>6. /\ Head(order) = n
      /\ V = [p \in DOMAIN doc.resources[n] |-> Preparing!ValueOf(doc.resources[n][p])]
  BY <1>2, <1>3, <1>4, NamesOfDocument DEF Values
<1>7. Done \subseteq AllNames(doc) /\ AllNames(doc) \subseteq STRING
  BY <1>1, DocIs DEF Done
<1>8. CASE Preparing!Missing \in Preparing!Range(V)
  <2>1. Preparing!Raise("segment")
    BY <1>6, <1>8 DEF Preparing!ResolveNext
  <2>2. ASSUME NEW m \in Deps(doc, n) PROVE Preparing!Sub(resources, <<m>>) # Preparing!Missing
    <3>1. m \in AllNames(doc) /\ Made(doc, inputs, resources, m)
      BY <1>4, <1>5, <1>7
    <3> QED
      BY <1>1, <3>1, MadeIsThere
  <2>3. ~(run = 2 /\ Agree)
    BY <1>1, <1>2, <1>3, <1>8, NextAgrees
  <2> QED
    BY <1>1, <1>2, <2>1, <2>2, <2>3, RaiseKeeps
<1>9. CASE Preparing!Missing \notin Preparing!Range(V)
  <2>1. /\ resources' = Preparing!Graft(resources, <<n>>, Preparing!Join(V))
             /\ consumed' = consumed \cup Reads(doc, n)
        /\ order' = Tail(order)
        /\ UNCHANGED <<Preparing!coordinates, phase, code, remaining, base, next, applied, Preparing!judged>>
    BY <1>6, <1>9, NamesOfDocument DEF Preparing!ResolveNext
  <2>2. Preparing!IsTree(Preparing!Join(V))
    BY <1>1, <1>3, <1>4, ValuesAre
  <2>3. /\ Preparing!IsTree(resources') /\ Rooted(resources', Done \cup {n})
        /\ Preparing!Sub(resources', <<n>>) = Preparing!Join(V)
        /\ \A m \in STRING \ {n} : Preparing!Sub(resources', <<m>>) = Preparing!Sub(resources, <<m>>)
    BY <1>1, <1>4, <1>5, <2>1, <2>2, GraftOne
  <2>4. PICK R : R = resources'
    OBVIOUS
  <2>5. Done' = Done \cup {n}
    BY <1>1, <1>4, <2>1 DEF Done, Preparing!coordinates
  <2> USE DEF Preparing!coordinates, Preparing!judged
  <2>6. Shaped'
    BY <1>1, <1>4, <2>1, <2>3 DEF PreparationInv, Shaped
  <2>7. Phased'
    BY <1>1, <2>1 DEF PreparationInv, Phased
  <2>8. Layered'
    <3>1. /\ Preparing!Range(order) \cap remaining = {} /\ Known(doc)
          /\ \A m \in AllNames(doc) \ remaining : Deps(doc, m) \cap remaining = {}
          /\ \A i, j \in 1..Len(order) : i <= j => order[j] \notin Deps(doc, order[i])
          /\ \A m \in Done : Deps(doc, m) \cap Preparing!Range(order) = {}
          /\ \A S \in SUBSET (AllNames(doc) \ remaining) : ~Knot(doc, S)
      BY <1>1 DEF PreparationInv, Layered
    <3>2. ASSUME NEW i \in 1..Len(order'), NEW j \in 1..Len(order'), i <= j
          PROVE  order'[j] \notin Deps(doc, order'[i])
      <4>1. i + 1 \in 1..Len(order) /\ j + 1 \in 1..Len(order) /\ i + 1 <= j + 1
        BY <1>4, <2>1, <3>2
      <4>2. order'[i] = order[i + 1] /\ order'[j] = order[j + 1]
        BY <1>4, <2>1
      <4> QED
        BY <3>1, <4>1, <4>2
    <3>3. \A m \in Done \cup {n} : Deps(doc, m) \cap Preparing!Range(order') = {}
      BY <1>4, <2>1, <3>1 DEF Done
    <3>4. code' = "none" /\ doc' = doc /\ remaining' = remaining
      BY <1>1, <2>1
    <3> QED
      BY <1>4, <2>1, <2>5, <3>1, <3>2, <3>3, <3>4 DEF Layered
  <2>9. \A m \in Done \cup {n} : Made(doc, inputs, resources', m)
    <3>1. ASSUME NEW m \in Done PROVE Made(doc, inputs, R, m)
      <4>1. m \in AllNames(doc) /\ m \in STRING \ {n} /\ Deps(doc, m) \subseteq STRING
        BY <1>1, <1>4, <1>7, DepsAreNames
      <4>2. n \notin Deps(doc, m)
        BY <1>4 DEF PreparationInv, Layered
      <4>3. Preparing!Sub(R, <<m>>) = Preparing!Sub(resources, <<m>>)
        BY <2>3, <2>4, <4>1
      <4>4. \A x \in Deps(doc, m) : Preparing!Sub(R, <<x>>) = Preparing!Sub(resources, <<x>>)
        BY <2>3, <2>4, <4>1, <4>2
      <4>5. Preparing!IsTree(R) /\ Made(doc, inputs, resources, m)
        BY <1>5, <2>3, <2>4
      <4> QED
        BY <1>1, <4>1, <4>3, <4>4, <4>5, MadeAgain
    <3>2. Made(doc, inputs, R, n)
      <4>1. \A x \in Deps(doc, n) : Preparing!Sub(R, <<x>>) = Preparing!Sub(resources, <<x>>)
        BY <1>4, <1>7, <2>3, <2>4
      <4>2. Preparing!IsTree(R)
        BY <2>3, <2>4
      <4>3. Values(doc, inputs, R, n) = V
        BY <1>1, <1>3, <1>4, <4>1, <4>2, ValuesAgree
      <4> QED
        BY <1>9, <2>3, <2>4, <4>3 DEF Made
    <3> QED
      BY <2>4, <3>1, <3>2
  <2>10. Making'
    <3>1. consumed' = UNION {Reads(doc, m) : m \in Done \cup {n}}
      BY <1>5, <2>1
    <3>2. ASSUME run = 2, Agree, NEW m \in Done \cup {n}
          PROVE  Preparing!Sub(resources', <<m>>) = Preparing!Sub(first.hashes[2], <<m>>)
      <4>1. CASE m = n
        BY <1>1, <1>2, <1>3, <2>3, <3>2, <4>1, NextAgrees
      <4>2. CASE m \in Done
        <5>1. m \in STRING \ {n}
          BY <1>4, <1>7, <4>2
        <5> QED
          BY <1>5, <2>3, <3>2, <4>2, <5>1
      <4> QED
        BY <4>1, <4>2
    <3>3. \A m \in Preparing!Range(order') : Preparing!Sub(resources', <<m>>) = Preparing!Missing
      <4>1. \A m \in Preparing!Range(order') : m \in STRING \ {n} /\ m \in Preparing!Range(order)
        <5>1. Preparing!Range(Tail(order)) \subseteq AllNames(doc)
          BY <1>4 DEF Preparing!Range
        <5> QED
          BY <1>4, <1>7, <2>1, <5>1
      <4> QED
        BY <1>5, <2>3, <4>1
    <3>4. Agree' <=> Agree
      BY <2>1 DEF Agree
    <3>5. /\ code' = "none" /\ doc' = doc /\ inputs' = inputs /\ run' = run /\ first' = first
      BY <1>1, <2>1
    <3> QED
      BY <2>3, <2>5, <2>9, <3>1, <3>2, <3>3, <3>4, <3>5 DEF Making
  <2>11. Based' /\ Faulted' /\ Local' /\ Checked'
    BY <1>1, <2>1 DEF Based, Faulted, Local, Checked
  <2>12. Kept' /\ Repeated'
    BY <1>1, <2>1 DEF PreparationInv, Kept, Repeated, Agree
  <2>13. Preparing!PassMeansObserved'
    BY <1>1, <2>1 DEF PreparationInv, Phased, Preparing!PassMeansObserved
  <2> QED
    BY <2>6, <2>7, <2>8, <2>10, <2>11, <2>12, <2>13 DEF PreparationInv
<1> QED
  BY <1>8, <1>9

-----------------------------------------------------------------------------
LEMMA ResolvedKeeps ==
  ASSUME Preparing!DocumentsAreWellFormed, PreparationInv, Preparing!Resolved PROVE PreparationInv'
<1>1. /\ phase = "layering" /\ remaining = {} /\ order = <<>> /\ code = "none" /\ run \in 1..2
      /\ doc \in Documents /\ Preparing!IsTree(inputs) /\ Preparing!IsTree(resources)
           /\ next = 1 /\ applied = <<>>
      /\ engine \in 1..2
  BY DEF Preparing!Resolved, PreparationInv, Shaped, Phased, Preparing!DocumentsAreWellFormed
<1>2. Done = AllNames(doc)
  BY <1>1 DEF Done, Preparing!Range
<1>3. /\ Rooted(resources, AllNames(doc)) /\ consumed = UNION {Reads(doc, n) : n \in AllNames(doc)}
      /\ \A n \in AllNames(doc) : Made(doc, inputs, resources, n)
      /\ run = 2 /\ Agree =>
           \A n \in AllNames(doc) : Preparing!Sub(resources, <<n>>) = Preparing!Sub(first.hashes[2], <<n>>)
  BY <1>1, <1>2 DEF PreparationInv, Making
<1>4. Len(doc.faults) \in Nat /\ AllNames(doc) \subseteq STRING
  BY <1>1, DocIs
<1>5. CASE ~Preparing!SameResources
  <2>1. Preparing!Raise("incompatible")
    BY <1>5 DEF Preparing!Resolved
  <2>2. run = 2 /\ <<[i \in consumed |-> Preparing!Sub(inputs, <<i>>)], resources>> # first.hashes
    BY <1>1, <1>5 DEF Preparing!SameResources
  <2>3. ASSUME Agree PROVE FALSE
    <3>1. /\ first.hashes = <<first.hashes[1], first.hashes[2]>>
          /\ first.hashes[1] = [i \in DOMAIN first.hashes[1] |-> Preparing!Sub(first.inputs, <<i>>)]
          /\ Prepared(doc, first.inputs, DOMAIN first.hashes[1], first.hashes[2])
      BY <2>2 DEF PreparationInv, Kept
    <3>2. resources = first.hashes[2]
      BY <1>1, <1>3, <1>4, <2>2, <2>3, <3>1, SameRooted DEF Prepared
    <3>3. consumed = DOMAIN first.hashes[1]
      BY <1>3, <3>1 DEF Prepared
    <3>4. \A i \in consumed : Preparing!Sub(inputs, <<i>>) = first.hashes[1][i]
      BY <2>3, <3>3 DEF Agree
    <3>5. [i \in consumed |-> Preparing!Sub(inputs, <<i>>)] = first.hashes[1]
      BY <3>1, <3>3, <3>4
    <3> QED
      BY <2>2, <3>1, <3>2, <3>5
  <2> QED
    BY <1>1, <2>1, <2>3, RaiseKeeps
<1>6. CASE Preparing!SameResources
  <2>1. /\ base' = resources /\ phase' = IF engine = 1 THEN "faults" ELSE "validators"
        /\ UNCHANGED <<Preparing!coordinates, code, remaining, order, consumed, resources, next,
             applied, Preparing!judged>>
    BY <1>6 DEF Preparing!Resolved
  <2>2. phase' \in {"faults", "validators"} /\ (phase' = "faults" <=> engine = 1)
    BY <2>1
  <2> USE DEF Preparing!coordinates, Preparing!judged
  <2>3. Shaped'
    BY <1>1, <2>1, <2>2 DEF PreparationInv, Shaped
  <2>4. Phased'
    <3>1. next' = 1 /\ next' \in 1..(Len(doc'.faults) + 1)
      BY <1>1, <1>4, <2>1
    <3> QED
      BY <1>1, <2>1, <2>2, <3>1 DEF PreparationInv, Phased
  <2>5. Layered'
    BY <1>1, <2>1, <2>2 DEF PreparationInv, Layered, Done
  <2>6. Making'
    BY <1>1, <2>1, <2>2 DEF PreparationInv, Making
  <2>7. Based'
    BY <1>1, <1>3, <2>1 DEF Based, Prepared
  <2>8. Faulted'
    <3>1. LeadsTo(doc, resources, 1, resources)
      BY TrailStarts
    <3> QED
      BY <1>1, <2>1, <2>2, <3>1 DEF Faulted
  <2>9. Local'
    BY <2>1 DEF Local, LocalTo
  <2>10. Checked' /\ Preparing!PassMeansObserved'
    BY <1>1, <2>1, <2>2 DEF Checked, PreparationInv, Phased, Preparing!PassMeansObserved
  <2>11. Kept'
    BY <2>1 DEF PreparationInv, Kept
  <2>12. Repeated'
    <3>1. ASSUME run = 2
          PROVE  Between(doc, first.hashes[2], 1, resources, Len(doc.faults) + 1, first.resources)
      <4>1. first.hashes = <<first.hashes[1], first.hashes[2]>>
        BY <3>1 DEF PreparationInv, Kept
      <4>2. resources = first.hashes[2]
        BY <1>6, <3>1, <4>1 DEF Preparing!SameResources
      <4>3. PICK g : Trail(doc, first.hashes[2], Len(doc.faults) + 1, g)
                     /\ g[Len(doc.faults) + 1] = first.resources
        BY <3>1 DEF PreparationInv, Kept, LeadsTo
      <4> QED
        BY <4>2, <4>3 DEF Between, Trail
    <3>2. run = 2 => phase' = "faults"
      BY <2>2 DEF PreparationInv, Phased
    <3> QED
      BY <1>1, <2>1, <2>2, <3>1, <3>2 DEF Repeated
  <2> QED
    BY <2>3, <2>4, <2>5, <2>6, <2>7, <2>8, <2>9, <2>10, <2>11, <2>12 DEF PreparationInv
<1> QED
  BY <1>5, <1>6

-----------------------------------------------------------------------------
(* The fault that comes next, and where it leads in the run replayed.      *)
LEMMA GraftKeeps ==
  ASSUME NEW t, Preparing!IsTree(t), NEW p \in Paths, NEW v, Preparing!IsTree(v)
  PROVE  \A k : ~Preparing!IsPrefix(p, k) => /\ k \in DOMAIN Preparing!Graft(t, p, v) <=> k \in DOMAIN t
                                             /\ k \in DOMAIN t => Preparing!Graft(t, p, v)[k] = t[k]
<1>1. \A x : x \in DOMAIN Preparing!Graft(t, p, v) <=>
              \/ x \in DOMAIN t /\ ~Preparing!IsPrefix(p, x)
              \/ \E q \in DOMAIN v : x = p \o q
  BY GraftIs, SMT
<1>3. \A x \in DOMAIN Preparing!Graft(t, p, v) :
        ~Preparing!IsPrefix(p, x) => Preparing!Graft(t, p, v)[x] = t[x]
  BY GraftIs, SMT

<1>2. \A q \in DOMAIN v : Preparing!IsPrefix(p, p \o q)
  BY PathsJoin DEF Preparing!IsTree, Paths
<1> QED
  BY <1>1, <1>2, <1>3

LEMMA LocalGrows ==
  ASSUME NEW d, NEW T, NEW a \in Seq(T), NEW b, NEW t, Preparing!IsTree(t), LocalTo(d, a, b, t),
         NEW f \in Preparing!Range(d.faults), f.id \in T, NEW p \in Paths, p =
           f.path, NEW v, Preparing!IsTree(v)
  PROVE  LocalTo(d, Append(a, f.id), b, Preparing!Graft(t, p, v))
<1>1. PICK g : g = Preparing!Graft(t, p, v)
  OBVIOUS
<1>2. \A k : ~Preparing!IsPrefix(p, k) => /\ k \in DOMAIN g <=> k \in DOMAIN t
                                          /\ k \in DOMAIN t => g[k] = t[k]
  BY <1>1, GraftKeeps
<1>4. Preparing!Range(a) \subseteq Preparing!Range(Append(a, f.id))
        /\ f.id \in Preparing!Range(Append(a, f.id))
  <2>1. PICK c, l : c = Append(a, f.id) /\ l = Len(a)
    OBVIOUS
  <2>2. /\ l \in Nat /\ DOMAIN c = 1..(l + 1) /\ DOMAIN a = 1..l /\ c[l + 1] = f.id
        /\ \A i \in 1..l : c[i] = a[i]
    BY <2>1
  <2>3. l + 1 \in DOMAIN c /\ \A i \in DOMAIN a : i \in DOMAIN c /\ c[i] = a[i]
    BY <2>2
  <2> QED
    BY <2>1, <2>2, <2>3 DEF Preparing!Range
<1>5. ASSUME NEW k \in DOMAIN b \cup DOMAIN g, Untouched(d, Append(a, f.id), k)
      PROVE  k \in DOMAIN b \cap DOMAIN g /\ b[k] = g[k]
  <2>1. Untouched(d, a, k) /\ ~Preparing!IsPrefix(p, k)
    BY <1>4, <1>5 DEF Untouched
  <2>2. k \in DOMAIN b \cup DOMAIN t
    BY <1>2, <1>5, <2>1
  <2>3. k \in DOMAIN b \cap DOMAIN t /\ b[k] = t[k]
    BY <2>1, <2>2 DEF LocalTo
  <2> QED
    BY <1>2, <2>1, <2>3
<1> QED
  BY <1>1, <1>5 DEF LocalTo

LEMMA LocalStays ==
  ASSUME NEW d, NEW a, NEW c, NEW b, NEW t, LocalTo(d, a, b, t),
           Preparing!Range(a) \subseteq Preparing!Range(c)
  PROVE  LocalTo(d, c, b, t)
BY DEF LocalTo, Untouched

LEMMA NextWithin ==
  ASSUME NEW a \in Nat, NEW b \in Nat, NEW n \in 1..(a + 1), n <= a
  PROVE  n + 1 \in 1..(a + 1) /\ n + 1 \in 1..(a + b + 1)
  OBVIOUS

LEMMA CurrentFaultIs ==
  ASSUME Preparing!DocumentsAreWellFormed, PreparationInv, phase = "faults"
  PROVE  /\ engine = 1 /\ code = "none" /\ order = <<>> /\ doc \in Documents /\ run \in 1..2
         /\ Preparing!IsTree(resources) /\ Len(doc.faults) \in Nat /\ Len(doc.constraints) \in Nat
         /\ next \in 1..(Len(doc.faults) + 1)
         /\ Preparing!BeforeValidation <=> next <= Len(doc.faults) /\ Hits(Preparing!Current)
         /\ next <= Len(doc.faults) =>
              /\ Preparing!Current = doc.faults[next]
                   /\ Preparing!Current \in Preparing!Range(doc.faults) /\ Preparing!Current.path \in Paths
              /\ Preparing!ValueOf(Preparing!Current.value) =
                   Preparing!ValueIn(Preparing!Missing, resources, Preparing!Current.value)
              /\ Preparing!IsTree(Preparing!ValueIn(Preparing!Missing, resources, Preparing!Current.value))
<1>1. /\ engine = 1 /\ code = "none" /\ order = <<>> /\ doc \in Documents /\ run \in 1..2
      /\ Preparing!IsTree(resources) /\ next \in 1..(Len(doc.faults) + 1)
  BY DEF PreparationInv, Shaped, Phased
<1>2. Len(doc.faults) \in Nat /\ Len(doc.constraints) \in Nat
  BY <1>1, DocIs
<1>3. Preparing!BeforeValidation <=> next <= Len(doc.faults) /\ Hits(Preparing!Current)
  BY DEF Preparing!BeforeValidation, Hits
<1>4. ASSUME next <= Len(doc.faults)
      PROVE  /\ Preparing!Current = doc.faults[next]
                  /\ Preparing!Current \in Preparing!Range(doc.faults) /\ Preparing!Current.path \in Paths
             /\ Preparing!ValueOf(Preparing!Current.value) =
                  Preparing!ValueIn(Preparing!Missing, resources, Preparing!Current.value)
             /\ Preparing!IsTree(Preparing!ValueIn(Preparing!Missing, resources, Preparing!Current.value))
  <2>1. next \in 1..Len(doc.faults)
    BY <1>1, <1>2, <1>4
  <2>2. /\ Preparing!Current = doc.faults[next]
             /\ Preparing!Current \in Preparing!Range(doc.faults) /\ Preparing!Current.path \in Paths
        /\ Preparing!IsLeaf(Preparing!Current.value, {"$ref"})
    BY <1>1, <2>1, DocIs DEF Preparing!Current
  <2>3. PICK leaf : leaf = Preparing!Current.value
    OBVIOUS
  <2>4. leaf.op \in {"literal", "$ref"}
    BY <2>2, <2>3 DEF Preparing!IsLeaf, Preparing!Literal
  <2>5. Preparing!ValueIn(inputs, resources, leaf) = Preparing!ValueIn(Preparing!Missing, resources, leaf)
    BY <2>4, ValueIs
  <2>6. Preparing!IsLeaf(leaf, {"$input", "$ref"})
    BY <2>2, <2>3 DEF Preparing!IsLeaf
  <2>7. Preparing!IsTree(Preparing!ValueIn(Preparing!Missing, resources, leaf))
    BY <1>1, <2>6, NoTree, ValueIsTree
  <2>8. Preparing!ValueOf(leaf) = Preparing!ValueIn(inputs, resources, leaf)
    BY NamesOfDocument
  <2> QED
    BY <2>2, <2>3, <2>5, <2>7, <2>8
<1> QED
  BY <1>1, <1>2, <1>3, <1>4

(* A step of the fault that comes next is the step of the run replayed.    *)
LEMMA FaultStepKeeps ==
  ASSUME Preparing!DocumentsAreWellFormed, PreparationInv, phase = "faults", next <= Len(doc.faults), NEW u,
         FaultStep(Preparing!Current, resources, u)
  PROVE  /\ run = 1 => LeadsTo(doc, base, next + 1, u)
         /\ run = 2 => Between(doc, first.hashes[2], next + 1, u, Len(doc.faults) + 1, first.resources)
<1>1. /\ engine = 1 /\ Len(doc.faults) \in Nat /\ next \in 1..(Len(doc.faults) + 1)
      /\ Preparing!Current = doc.faults[next]
  BY CurrentFaultIs
<1>2. ASSUME run = 1 PROVE LeadsTo(doc, base, next + 1, u)
  <2>1. LeadsTo(doc, base, next, resources) /\ next \in Nat \ {0}
    BY <1>1, <1>2 DEF PreparationInv, Faulted
  <2> QED
    BY <1>1, <2>1, TrailGoesOn
<1>3. ASSUME run = 2
      PROVE  Between(doc, first.hashes[2], next + 1, u, Len(doc.faults) + 1, first.resources)
  <2>1. PICK g : /\ Trail(doc, first.hashes[2], Len(doc.faults) + 1, g) /\ g[next] = resources
                 /\ g[Len(doc.faults) + 1] = first.resources
    BY <1>3 DEF PreparationInv, Repeated, Between
  <2>2. next \in 1..((Len(doc.faults) + 1) - 1)
    BY <1>1
  <2>3. FaultStep(Preparing!Current, resources, g[next + 1])
    BY <1>1, <2>1, <2>2 DEF Trail
  <2>4. g[next + 1] = u
    BY <2>3, FaultStepIs
  <2> QED
    BY <2>1, <2>4 DEF Between
<1> QED
  BY <1>2, <1>3

LEMMA ApplyFaultKeeps ==
  ASSUME Preparing!DocumentsAreWellFormed, PreparationInv, Preparing!ApplyFault PROVE PreparationInv'
<1>1. phase = "faults" /\ Preparing!BeforeValidation
  BY DEF Preparing!ApplyFault
<1>2. /\ engine = 1 /\ code = "none" /\ order = <<>> /\ doc \in Documents /\ run \in 1..2
      /\ Preparing!IsTree(resources) /\ Len(doc.faults) \in Nat /\ Len(doc.constraints) \in Nat
      /\ next \in 1..(Len(doc.faults) + 1) /\ next <= Len(doc.faults) /\ Hits(Preparing!Current)
      /\ Preparing!Current = doc.faults[next]
           /\ Preparing!Current \in Preparing!Range(doc.faults) /\ Preparing!Current.path \in Paths
      /\ Preparing!ValueOf(Preparing!Current.value) =
           Preparing!ValueIn(Preparing!Missing, resources, Preparing!Current.value)
      /\ Preparing!IsTree(Preparing!ValueIn(Preparing!Missing, resources, Preparing!Current.value))
  BY <1>1, CurrentFaultIs
<1>3. PICK v : v = Preparing!ValueOf(Preparing!Current.value)
  OBVIOUS
<1>4. CASE v = Preparing!Missing \/ Preparing!Sub(resources, Preparing!Current.path) = Preparing!Missing
  <2>1. Preparing!Raise("segment")
    BY <1>3, <1>4 DEF Preparing!ApplyFault
  <2>2. ASSUME run = 2 PROVE FALSE
    <3>1. PICK g : /\ Trail(doc, first.hashes[2], Len(doc.faults) + 1, g) /\ g[next] = resources
      BY <1>1, <2>2 DEF PreparationInv, Repeated, Between
    <3>2. next \in 1..((Len(doc.faults) + 1) - 1)
      BY <1>2
    <3>3. FaultStep(Preparing!Current, resources, g[next + 1])
      BY <1>2, <3>1, <3>2 DEF Trail
    <3> QED
      BY <1>2, <1>3, <1>4, <3>3 DEF FaultStep
  <2> QED
    BY <1>1, <1>2, <2>1, <2>2, RaiseKeeps
<1>5. CASE ~(v = Preparing!Missing \/ Preparing!Sub(resources, Preparing!Current.path) = Preparing!Missing)
  <2>1. /\ resources' = Preparing!Graft(resources, Preparing!Current.path, v)
        /\ applied' = Append(applied, Preparing!Current.id) /\ next' = next + 1
        /\ UNCHANGED <<Preparing!coordinates, phase, code, Preparing!resolving, Preparing!judged>>
    BY <1>3, <1>5 DEF Preparing!ApplyFault, Preparing!Overridden
  <2>2. FaultStep(Preparing!Current, resources, resources')
    BY <1>2, <1>3, <1>5, <2>1 DEF FaultStep
  <2>3. /\ run = 1 => LeadsTo(doc, base, next + 1, resources')
        /\ run = 2 => Between(doc, first.hashes[2], next + 1, resources',
                              Len(doc.faults) + 1, first.resources)
    BY <1>1, <1>2, <2>2, FaultStepKeeps
  <2>4. Preparing!IsTree(v)
    BY <1>2, <1>3
  <2>5. Preparing!IsTree(resources')
    BY <1>2, <2>1, <2>4, GraftIs
  <2>6. applied \in Seq(FaultIds(doc)) /\ Preparing!Current.id \in FaultIds(doc)
    BY <1>2 DEF PreparationInv, Shaped, FaultIds
  <2>7. applied' \in Seq(FaultIds(doc))
    BY <2>1, <2>6
  <2>8. next' \in 1..(Len(doc.faults) + 1) /\ next' \in 1..(Len(doc.faults) + Len(doc.constraints) + 1)
    BY <1>2, <2>1, NextWithin
  <2>9. LocalTo(doc, applied', base, resources')
    <3>1. LocalTo(doc, applied, base, resources)
      BY <1>1 DEF PreparationInv, Local
    <3> QED
      BY <1>2, <2>1, <2>4, <2>6, <3>1, LocalGrows
  <2> USE DEF Preparing!coordinates, Preparing!resolving, Preparing!judged
  <2>10. Shaped'
    BY <1>1, <1>2, <2>1, <2>5, <2>7, <2>8 DEF PreparationInv, Shaped
  <2>11. Phased'
    BY <1>1, <1>2, <2>1, <2>8 DEF PreparationInv, Phased
  <2>12. Layered'
    BY <1>2, <2>1 DEF PreparationInv, Layered, Done
  <2>13. Making'
    BY <1>1, <1>2, <2>1 DEF Making, Preparing!Range
  <2>14. Based' /\ Local'
    BY <1>1, <2>1, <2>9 DEF PreparationInv, Based, Local
  <2>15. Faulted'
    BY <1>1, <2>1, <2>3 DEF Faulted
  <2>16. Checked' /\ Preparing!PassMeansObserved'
    BY <1>1, <2>1 DEF Checked, PreparationInv, Phased, Preparing!PassMeansObserved
  <2>17. Kept' /\ Repeated'
    BY <1>1, <1>2, <2>1, <2>3 DEF PreparationInv, Kept, Repeated
  <2> QED
    BY <2>10, <2>11, <2>12, <2>13, <2>14, <2>15, <2>16, <2>17 DEF PreparationInv
<1> QED
  BY <1>4, <1>5

LEMMA SkipFaultKeeps ==
  ASSUME Preparing!DocumentsAreWellFormed, PreparationInv, Preparing!SkipFault PROVE PreparationInv'
<1>1. phase = "faults" /\ ~Preparing!BeforeValidation
  BY DEF Preparing!SkipFault
<1>2. /\ engine = 1 /\ code = "none" /\ order = <<>> /\ doc \in Documents /\ run \in 1..2
      /\ Len(doc.faults) \in Nat /\ Len(doc.constraints) \in Nat
      /\ next \in 1..(Len(doc.faults) + 1)
      /\ next <= Len(doc.faults) => ~Hits(Preparing!Current)
  BY <1>1, CurrentFaultIs
<1>3. /\ UNCHANGED <<Preparing!coordinates, code, Preparing!resolving, resources, applied, Preparing!judged>>
      /\ IF next <= Len(doc.faults) THEN next' = next + 1 /\ UNCHANGED phase
         ELSE next' = 1 /\ phase' = "validators"
  BY DEF Preparing!SkipFault
<1> USE DEF Preparing!coordinates, Preparing!resolving, Preparing!judged
<1>4. next' \in 1..(Len(doc.faults) + Len(doc.constraints) + 1)
  <2>1. CASE next <= Len(doc.faults)
    BY <1>2, <1>3, <2>1, NextWithin
  <2>2. CASE ~(next <= Len(doc.faults))
    <3>1. PICK a \in Nat, b \in Nat : a = Len(doc.faults) /\ b = Len(doc.constraints)
      BY <1>2
    <3>2. 1 \in 1..(a + b + 1)
      OBVIOUS
    <3> QED
      BY <1>3, <2>2, <3>1, <3>2
  <2> QED
    BY <2>1, <2>2
<1>5. phase' \in {"faults", "validators"}
  BY <1>1, <1>3
<1>6. Shaped'
  BY <1>2, <1>3, <1>4, <1>5 DEF PreparationInv, Shaped
<1>7. Phased'
  <2>1. phase' = "faults" => next' \in 1..(Len(doc.faults) + 1)
    BY <1>2, <1>3, NextWithin
  <2>2. phase' = "validators" => next' = 1
    BY <1>1, <1>3
  <2> QED
    BY <1>1, <1>2, <1>3, <1>5, <2>1, <2>2 DEF PreparationInv, Phased
<1>8. Layered'
  <2>1. phase # "declared" /\ code' = "none" /\ UNCHANGED <<doc, remaining, order>>
    BY <1>1, <1>2, <1>3
  <2> QED
    BY <1>2, <2>1 DEF PreparationInv, Layered, Done
<1>9. Making'
  BY <1>2, <1>3, <1>5 DEF Making, Preparing!Range
<1>10. Based' /\ Local' /\ Checked' /\ Preparing!PassMeansObserved'
  BY <1>1, <1>3, <1>5 DEF PreparationInv, Based, Local, Checked, Phased, Preparing!PassMeansObserved
<1>11. Kept'
  BY <1>3 DEF PreparationInv, Kept
<1>12. CASE next <= Len(doc.faults)
  <2>1. FaultStep(Preparing!Current, resources, resources)
    BY <1>2, <1>12 DEF FaultStep
  <2>2. /\ run = 1 => LeadsTo(doc, base, next + 1, resources)
        /\ run = 2 => Between(doc, first.hashes[2], next + 1, resources,
                              Len(doc.faults) + 1, first.resources)
    BY <1>1, <1>12, <2>1, FaultStepKeeps
  <2>3. phase' = "faults" /\ next' = next + 1
    BY <1>1, <1>3, <1>12
  <2>4. Faulted' /\ Repeated'
    BY <1>2, <1>3, <2>2, <2>3 DEF Faulted, Repeated
  <2> QED
    BY <1>6, <1>7, <1>8, <1>9, <1>10, <1>11, <2>4 DEF PreparationInv
<1>13. CASE ~(next <= Len(doc.faults))
  <2>1. next = Len(doc.faults) + 1 /\ phase' = "validators"
    BY <1>2, <1>3, <1>13
  <2>2. Faulted'
    BY <1>1, <1>2, <1>3, <2>1 DEF PreparationInv, Faulted
  <2>3. Repeated'
    BY <1>1, <1>2, <1>3, <2>1 DEF PreparationInv, Repeated, Between
  <2> QED
    BY <1>6, <1>7, <1>8, <1>9, <1>10, <1>11, <2>2, <2>3 DEF PreparationInv
<1> QED
  BY <1>12, <1>13

LEMMA ValidateKeeps ==
  ASSUME Preparing!DocumentsAreWellFormed, PreparationInv, Preparing!Validate PROVE PreparationInv'
<1>1. /\ phase = "validators" /\ code = "none" /\ next = 1 /\ order = <<>> /\ doc \in Documents
      /\ ~executed
  BY DEF Preparing!Validate, PreparationInv, Shaped, Phased
<1>2. Len(doc.faults) \in Nat /\ Len(doc.constraints) \in Nat
  BY <1>1, DocIs
<1>3. CASE ~Valid(doc, resources)
  <2>1. Preparing!Raise("validation")
    BY <1>3 DEF Preparing!Validate, Valid
  <2>2. run # 2
    BY <1>1, <1>3 DEF PreparationInv, Repeated, Kept
  <2> QED
    BY <1>1, <2>1, <2>2, RaiseKeeps
<1>4. CASE Valid(doc, resources)
  <2>1. /\ phase' = "constraints"
        /\ UNCHANGED <<Preparing!coordinates, code, Preparing!resolving, resources, next, applied,
             Preparing!judged>>
    BY <1>4 DEF Preparing!Validate, Valid
  <2> USE DEF Preparing!coordinates, Preparing!resolving, Preparing!judged
  <2>2. Shaped'
    BY <1>1, <2>1 DEF PreparationInv, Shaped
  <2>3. Phased'
    <3>1. next' \in 1..(Len(doc'.constraints) + 1)
      BY <1>1, <1>2, <2>1
    <3> QED
      BY <1>1, <2>1, <3>1 DEF PreparationInv, Phased
  <2>4. Layered'
    BY <1>1, <2>1 DEF PreparationInv, Layered, Done
  <2>5. Making'
    BY <1>1, <2>1 DEF Making, Preparing!Range
  <2>6. Based' /\ Local' /\ Faulted' /\ Preparing!PassMeansObserved'
    BY <1>1, <2>1 DEF PreparationInv, Based, Local, Faulted, Phased, Preparing!PassMeansObserved
  <2>7. Checked'
    BY <1>1, <1>4, <2>1 DEF Checked
  <2>8. Kept' /\ Repeated'
    BY <1>1, <2>1 DEF PreparationInv, Kept, Repeated
  <2> QED
    BY <2>2, <2>3, <2>4, <2>5, <2>6, <2>7, <2>8 DEF PreparationInv
<1> QED
  BY <1>3, <1>4

LEMMA ConstrainKeeps ==
  ASSUME Preparing!DocumentsAreWellFormed, PreparationInv, Preparing!Constrain PROVE PreparationInv'
<1>1. /\ phase = "constraints" /\ code = "none" /\ next \in 1..(Len(doc.constraints) + 1)
      /\ next <= Len(doc.constraints) /\ order = <<>> /\ doc \in Documents /\ executed = FALSE
      /\ report = "none"
  BY DEF Preparing!Constrain, PreparationInv, Shaped, Phased
<1>2. Len(doc.faults) \in Nat /\ Len(doc.constraints) \in Nat
  BY <1>1, DocIs
<1>3. PICK c : c = doc.constraints[next]
  OBVIOUS
<1>4. /\ Valid(doc, resources) /\ next \in 1..Len(doc.constraints)
      /\ \A i \in 1..(next - 1) : Met(doc.constraints[i], resources)
  BY <1>1, <1>2 DEF PreparationInv, Checked
<1>5. CASE Preparing!Sub(resources, c.path) = Preparing!Missing
  <2>1. Preparing!Raise("expression")
    BY <1>3, <1>5 DEF Preparing!Constrain
  <2> QED
    BY <1>1, <2>1, RaiseKeeps
<1>6. CASE Preparing!Sub(resources, c.path) # Preparing!Missing
  <2>1. /\ UNCHANGED <<Preparing!coordinates, code, Preparing!resolving, resources, applied,
             executed, report>>
        /\ IF Met(c, resources) THEN next' = next + 1 /\ UNCHANGED <<phase, observed>>
           ELSE phase' = "ended" /\ observed' = {c.id} /\ UNCHANGED next
    BY <1>3, <1>6 DEF Preparing!Constrain, Met
  <2> USE DEF Preparing!coordinates, Preparing!resolving
  <2>2. phase' \in {"constraints", "ended"}
    BY <1>1, <2>1
  <2>3. /\ next' \in 1..(Len(doc.constraints) + 1)
        /\ next' \in 1..(Len(doc.faults) + Len(doc.constraints) + 1)
    <3>1. PICK a \in Nat, b \in Nat : a = Len(doc.faults) /\ b = Len(doc.constraints)
      BY <1>2
    <3>2. next \in 1..b /\ next' \in {next, next + 1}
      BY <1>4, <2>1, <3>1
    <3>3. next' \in 1..(b + 1) /\ next' \in 1..(a + b + 1)
      BY <3>2
    <3> QED
      BY <3>1, <3>3
  <2>4. Shaped'
    BY <1>1, <2>1, <2>2, <2>3 DEF PreparationInv, Shaped
  <2>5. Phased'
    BY <1>1, <2>1, <2>2, <2>3 DEF PreparationInv, Phased
  <2>6. Layered'
    BY <1>1, <2>1, <2>2 DEF PreparationInv, Layered, Done
  <2>7. Making'
    BY <1>1, <2>1, <2>2 DEF Making, Preparing!Range
  <2>8. Based' /\ Local' /\ Faulted' /\ Preparing!PassMeansObserved'
    BY <1>1, <2>1, <2>2 DEF PreparationInv, Based, Local, Faulted, Phased, Preparing!PassMeansObserved
  <2>9. Checked'
    <3>1. CASE Met(c, resources)
      <4>1. next' = next + 1 /\ phase' = "constraints"
        BY <1>1, <2>1, <3>1
      <4>2. ASSUME NEW i \in 1..(next' - 1) PROVE Met(doc.constraints[i], resources)
        <5>1. i \in 1..(next - 1) \/ i = next
          BY <1>4, <4>1
        <5> QED
          BY <1>3, <1>4, <3>1, <5>1
      <4> QED
        BY <1>4, <2>1, <4>1, <4>2 DEF Checked
    <3>2. CASE ~Met(c, resources)
      <4>1. phase' = "ended" /\ observed' = {c.id}
        BY <2>1, <3>2
      <4>2. Judged(doc, resources, FALSE, {c.id})
        BY <1>3, <1>4, <3>2 DEF Judged
      <4> QED
        BY <1>1, <1>4, <2>1, <4>1, <4>2 DEF Checked
    <3> QED
      BY <3>1, <3>2
  <2>10. Kept' /\ Repeated'
    BY <1>1, <2>1, <2>2 DEF PreparationInv, Kept, Repeated
  <2> QED
    BY <2>4, <2>5, <2>6, <2>7, <2>8, <2>9, <2>10 DEF PreparationInv
<1> QED
  BY <1>5, <1>6

LEMMA ExecuteKeeps ==
  ASSUME Preparing!DocumentsAreWellFormed, PreparationInv, Preparing!Execute PROVE PreparationInv'
<1>1. /\ phase = "constraints" /\ code = "none" /\ next \in 1..(Len(doc.constraints) + 1)
      /\ next > Len(doc.constraints) /\ order = <<>> /\ doc \in Documents /\ report = "none"
  BY DEF Preparing!Execute, PreparationInv, Shaped, Phased
<1>2. Len(doc.constraints) \in Nat
  BY <1>1, DocIs
<1>3. /\ phase' = "ended" /\ executed' = TRUE
      /\ UNCHANGED <<Preparing!coordinates, code, Preparing!resolving, resources, next, report>>
  BY DEF Preparing!Execute
<1>4. observed' \subseteq doc.invariants
  BY DEF Preparing!Execute
<1>5. PICK hits \in Preparing!BoundedSeq({f.id : f \in Preparing!StepFaults}, MaxHits) : applied' =
        applied \o hits
  BY DEF Preparing!Execute
<1>6. hits \in Seq(FaultIds(doc))
  <2>1. PICK m \in 0..MaxHits : hits \in [1..m -> {f.id : f \in Preparing!StepFaults}]
    BY DEF Preparing!BoundedSeq, Preparing!SeqOf
  <2>2. {f.id : f \in Preparing!StepFaults} \subseteq FaultIds(doc)
    BY DEF Preparing!StepFaults, FaultIds
  <2>3. m \in Nat /\ hits \in [1..m -> FaultIds(doc)]
    BY <2>1, <2>2 DEF Preparing!DocumentsAreWellFormed
  <2> QED
    BY <2>3
<1>7. applied \in Seq(FaultIds(doc))
  BY DEF PreparationInv, Shaped
<1>8. applied' \in Seq(FaultIds(doc)) /\ Preparing!Range(applied) \subseteq Preparing!Range(applied')
  <2>1. PICK k : k = applied \o hits
    OBVIOUS
  <2>2. /\ k \in Seq(FaultIds(doc)) /\ Len(applied) \in Nat /\ Len(hits) \in Nat
        /\ DOMAIN applied = 1..Len(applied) /\ DOMAIN k = 1..(Len(applied) + Len(hits))
        /\ \A i \in 1..Len(applied) : k[i] = applied[i]
    BY <1>6, <1>7, <2>1
  <2>3. \A i \in DOMAIN applied : i \in DOMAIN k /\ k[i] = applied[i]
    BY <2>2
  <2> QED
    BY <1>5, <2>1, <2>2, <2>3 DEF Preparing!Range
<1> USE DEF Preparing!coordinates, Preparing!resolving
<1>9. Shaped'
  BY <1>1, <1>3, <1>8 DEF PreparationInv, Shaped
<1>10. Phased'
  BY <1>1, <1>3 DEF PreparationInv, Phased
<1>11. Layered'
  BY <1>1, <1>3 DEF PreparationInv, Layered, Done
<1>12. Making'
  BY <1>1, <1>3 DEF Making, Preparing!Range
<1>13. Based' /\ Faulted' /\ Preparing!PassMeansObserved'
  BY <1>1, <1>3 DEF PreparationInv, Based, Faulted, Preparing!PassMeansObserved
<1>14. Local'
  <2>1. LocalTo(doc, applied, base, resources)
    BY <1>1 DEF PreparationInv, Local
  <2>2. LocalTo(doc, applied', base, resources)
    BY <1>8, <2>1, LocalStays
  <2> QED
    BY <1>3, <2>2 DEF Local
<1>15. Checked'
  <2>1. \A i \in 1..Len(doc.constraints) : Met(doc.constraints[i], resources)
    <3>1. next - 1 = Len(doc.constraints)
      BY <1>1, <1>2
    <3> QED
      BY <1>1, <3>1 DEF PreparationInv, Checked
  <2>2. Judged(doc, resources, TRUE, observed')
    BY <1>4, <2>1 DEF Judged
  <2>3. Valid(doc, resources)
    BY <1>1 DEF PreparationInv, Checked
  <2> QED
    BY <1>3, <2>2, <2>3 DEF Checked
<1>16. Kept' /\ Repeated'
  BY <1>1, <1>3 DEF PreparationInv, Kept, Repeated
<1> QED
  BY <1>9, <1>10, <1>11, <1>12, <1>13, <1>14, <1>15, <1>16 DEF PreparationInv

(* What the report says of the run, which stopped where it was violated.   *)
LEMMA EvaluateKeeps ==
  ASSUME Preparing!DocumentsAreWellFormed, PreparationInv, Preparing!Evaluate PROVE PreparationInv'
<1>1. /\ phase = "ended" /\ code = "none" /\ doc \in Documents /\ executed \in BOOLEAN
  BY DEF Preparing!Evaluate, PreparationInv, Shaped
<1>2. /\ report' = IF Preparing!Missed = {}
           /\ (Preparing!Strict => Preparing!Unexpected = {}) THEN "passed" ELSE "failed"
      /\ UNCHANGED <<Preparing!coordinates, phase, code, Preparing!resolving, resources, next,
           applied, observed, executed>>
  BY DEF Preparing!Evaluate
<1> USE DEF Preparing!coordinates, Preparing!resolving
<1>3. Shaped' /\ Phased'
  BY <1>1, <1>2 DEF PreparationInv, Shaped, Phased
<1>4. Layered' /\ Making'
  BY <1>1, <1>2 DEF PreparationInv, Layered, Making, Done
<1>5. Based' /\ Local' /\ Faulted' /\ Checked'
  BY <1>1, <1>2 DEF PreparationInv, Based, Local, Faulted, Checked
<1>6. Kept' /\ Repeated'
  BY <1>1, <1>2 DEF PreparationInv, Kept, Repeated, Agree
<1>7. Preparing!PassMeansObserved'
  <2>1. Preparing!FaultsOf(Preparing!Range(applied))' =
          Preparing!FaultsOf(Preparing!Range(applied)) /\ Preparing!Expected' = Preparing!Expected
    BY <1>2 DEF Preparing!FaultsOf, Preparing!Expected
  <2>2. ASSUME Preparing!Missed = {}, Preparing!Strict => Preparing!Unexpected = {}
        PROVE  /\ doc.oracle.expected \subseteq observed
               /\ \A f \in Preparing!FaultsOf(Preparing!Range(applied)) :
                    f.expects \subseteq observed /\ (f.strict /\ observed # {} => observed \subseteq Preparing!Expected)
               /\ observed # {} /\ doc.oracle.strict => Preparing!Expected = observed
    <3>1. Preparing!Expected \subseteq observed
      BY <2>2 DEF Preparing!Missed
    <3>2. Preparing!Strict => observed \subseteq Preparing!Expected
      BY <2>2 DEF Preparing!Unexpected
    <3>3. doc.oracle.expected \subseteq Preparing!Expected
      BY DEF Preparing!Expected
    <3>4. \A f \in Preparing!FaultsOf(Preparing!Range(applied)) : f.expects \subseteq Preparing!Expected
      BY DEF Preparing!Expected
    <3>5. \A f \in Preparing!FaultsOf(Preparing!Range(applied)) : f.strict => Preparing!Strict
      BY DEF Preparing!Strict
    <3>6. doc.oracle.strict => Preparing!Strict
      BY DEF Preparing!Strict
    <3> QED
      BY <3>1, <3>2, <3>3, <3>4, <3>5, <3>6
  <2>3. observed \cap {c.id : c \in Preparing!Range(doc.constraints)} # {} => ~executed
    <3>1. \A c \in Preparing!Range(doc.constraints) : c.id \notin doc.invariants
      BY <1>1 DEF Preparing!DocumentsAreWellFormed
    <3>2. executed => observed \subseteq doc.invariants
      BY <1>1 DEF PreparationInv, Checked, Judged
    <3> QED
      BY <3>1, <3>2
  <2>4. report' = "passed" => Preparing!Missed = {} /\ (Preparing!Strict => Preparing!Unexpected = {})
    BY <1>2
  <2>5. UNCHANGED <<doc, observed, executed>>
    BY <1>2
  <2> QED
    BY <2>1, <2>2, <2>3, <2>4, <2>5 DEF Preparing!PassMeansObserved
<1> QED
  BY <1>3, <1>4, <1>5, <1>6, <1>7 DEF PreparationInv

LEMMA ReplayKeeps ==
  ASSUME Preparing!DocumentsAreWellFormed, PreparationInv, NEW given \in InputSets,
           Preparing!Replay(given) PROVE PreparationInv'
<1>1. /\ engine = 1 /\ phase = "ended" /\ run = 1 /\ code = "none" /\ doc \in Documents
      /\ executed \in BOOLEAN /\ Preparing!IsTree(inputs)
  BY DEF Preparing!Replay, PreparationInv, Shaped, Preparing!DocumentsAreWellFormed
<1>2. PICK F : F = [hashes |-> Preparing!Hashes, inputs |-> inputs, resources |-> resources,
                    observed |-> observed, executed |-> executed]
  OBVIOUS
<1>3. /\ run' = 2 /\ inputs' = given /\ first' = F
      /\ phase' = "declared" /\ remaining' = AllNames(doc) /\ order' = <<>> /\ resources' = Preparing!Missing
      /\ base' = Preparing!Missing /\ consumed' = {} /\ next' = 1 /\ applied' = <<>>
      /\ observed' = {} /\ executed' = FALSE /\ report' = "none"
      /\ UNCHANGED <<engine, doc, code>>
  BY <1>2, NamesOfDocument DEF Preparing!Replay
<1>4. Len(doc.faults) \in Nat /\ Len(doc.constraints) \in Nat
  BY <1>1, DocIs
<1>5. Preparing!IsTree(Preparing!Missing) /\ DOMAIN Preparing!Missing = {}
  BY NoTree
<1>6. Shaped'
  <2>1. order' \in Seq(AllNames(doc)) /\ applied' \in Seq(FaultIds(doc))
    BY <1>3, EmptySeq
  <2>2. next' \in 1..(Len(doc.faults) + Len(doc.constraints) + 1)
    <3>1. PICK a \in Nat, b \in Nat : a = Len(doc.faults) /\ b = Len(doc.constraints)
      BY <1>4
    <3>2. 1 \in 1..(a + b + 1)
      OBVIOUS
    <3> QED
      BY <1>3, <3>1, <3>2
  <2>3. /\ (phase' = "error") = (code' # "none")
        /\ phase' \in {"declared", "layering", "faults", "validators", "constraints", "ended", "error"}
        /\ code' \in {"none", "unknown", "cycle", "segment", "incompatible", "validation",
                      "expression", "step"}
        /\ executed' \in BOOLEAN /\ report' \in {"none", "passed", "failed"}
        /\ engine' \in 1..2 /\ run' \in 1..2 /\ doc' \in Documents /\ inputs' \in InputSets
    <3>1. /\ phase' = "declared" /\ code' = "none" /\ executed' = FALSE /\ report' = "none"
          /\ engine' = 1 /\ run' = 2
      BY <1>1, <1>3
    <3>2. doc' \in Documents /\ inputs' \in InputSets
      BY <1>1, <1>3
    <3>3. (phase' = "error") = (code' # "none")
      BY <3>1
    <3>4. executed' \in BOOLEAN
      BY <3>1
    <3>5. engine' \in 1..2 /\ run' \in 1..2
      BY <3>1
    <3> QED
      BY <3>1, <3>2, <3>3, <3>4, <3>5
  <2>4. Preparing!IsTree(resources') /\ Preparing!IsTree(base') /\ remaining' \subseteq AllNames(doc')
    BY <1>3, <1>5
  <2>5. doc' = doc
    BY <1>3
  <2> QED
    BY <2>1, <2>2, <2>3, <2>4, <2>5 DEF Shaped
<1>7. Phased'
  BY <1>1, <1>3 DEF Phased
<1>8. Done' = {} /\ AllNames(doc') \ remaining' = {} /\ Preparing!Range(order') = {}
  BY <1>3 DEF Done, Preparing!Range
<1>9. Layered'
  <2>1. Preparing!IsInjective(order') /\ Len(order') = 0 /\ phase' = "declared" /\ code' = "none"
    BY <1>1, <1>3 DEF Preparing!IsInjective
  <2> QED
    BY <1>8, <2>1 DEF Layered, Knot
<1>10. Making'
  <2>1. Rooted(resources', Done')
    BY <1>3, <1>5 DEF Rooted
  <2> QED
    BY <1>1, <1>3, <1>8, <2>1 DEF Making
<1>11. Based' /\ Faulted' /\ Local' /\ Checked' /\ Preparing!PassMeansObserved'
  BY <1>3 DEF Based, Faulted, Local, Checked, Preparing!PassMeansObserved
<1>12. Kept'
  <2>1. /\ F.hashes = Preparing!Hashes /\ F.inputs = inputs /\ F.resources = resources
        /\ F.observed = observed /\ F.executed = executed
    BY <1>2
  <2>2. /\ Preparing!Hashes[1] = [i \in consumed |-> Preparing!Sub(inputs, <<i>>)]
             /\ Preparing!Hashes[2] = base
        /\ Preparing!Hashes = <<Preparing!Hashes[1], Preparing!Hashes[2]>>
    BY DEF Preparing!Hashes
  <2>3. DOMAIN Preparing!Hashes[1] = consumed
    BY <2>2
  <2>4. Known(doc) /\ Prepared(doc, inputs, consumed, base)
    BY <1>1 DEF PreparationInv, Layered, Based
  <2>5. /\ LeadsTo(doc, base, Len(doc.faults) + 1, resources) /\ Valid(doc, resources)
        /\ Judged(doc, resources, executed, observed)
    BY <1>1 DEF PreparationInv, Faulted, Checked
  <2> HIDE DEF Preparing!Hashes
  <2> QED
    BY <1>1, <1>3, <2>1, <2>2, <2>3, <2>4, <2>5 DEF Kept
<1>13. Repeated'
  BY <1>1, <1>3 DEF Repeated
<1> QED
  BY <1>6, <1>7, <1>9, <1>10, <1>11, <1>12, <1>13 DEF PreparationInv

LEMMA PreparationNext == ASSUME Preparing!DocumentsAreWellFormed, PreparationInv,
  [Preparing!Next]_(Preparing!vars) PROVE PreparationInv'
<1>1. CASE UNCHANGED Preparing!vars
  BY <1>1, StutterKeeps
<1>2. CASE Preparing!CheckReferences
  BY <1>2, CheckReferencesKeeps
<1>3. CASE Preparing!TakeLayer
  BY <1>3, TakeLayerKeeps
<1>4. CASE Preparing!ResolveNext
  BY <1>4, ResolveNextKeeps
<1>5. CASE Preparing!Resolved
  BY <1>5, ResolvedKeeps
<1>6. CASE Preparing!ApplyFault
  BY <1>6, ApplyFaultKeeps
<1>7. CASE Preparing!SkipFault
  BY <1>7, SkipFaultKeeps
<1>8. CASE Preparing!Validate
  BY <1>8, ValidateKeeps
<1>9. CASE Preparing!Constrain
  BY <1>9, ConstrainKeeps
<1>10. CASE Preparing!Execute
  BY <1>10, ExecuteKeeps
<1>11. CASE Preparing!Crash
  <2>1. Preparing!Raise("step") /\ phase = "constraints"
    BY <1>11 DEF Preparing!Crash
  <2> QED
    BY <2>1, RaiseKeeps
<1>12. CASE Preparing!Evaluate
  BY <1>12, EvaluateKeeps
<1>13. CASE \E given \in InputSets : Preparing!Replay(given)
  BY <1>13, ReplayKeeps
<1> QED
  BY <1>1, <1>2, <1>3, <1>4, <1>5, <1>6, <1>7, <1>8, <1>9, <1>10, <1>11, <1>12, <1>13 DEF Preparing!Next

-----------------------------------------------------------------------------
(* What the invariant says of each part of PreparationIsFaithful.          *)
LEMMA PTypes == ASSUME Preparing!DocumentsAreWellFormed, PreparationInv PROVE Preparing!TypeOK
<1>1. Preparing!Range(order) \subseteq AllNames(doc) /\ Preparing!Range(applied) \subseteq FaultIds(doc)
  BY DEF PreparationInv, Shaped, Preparing!Range
<1>2. Preparing!Range(order) \subseteq AllNames(doc) \ remaining /\ Preparing!IsInjective(order)
  BY <1>1 DEF PreparationInv, Layered
<1>3. \A n \in Preparing!Range(order) : Preparing!Sub(resources, <<n>>) = Preparing!Missing
  BY DEF PreparationInv, Making
<1> QED
  BY <1>1, <1>2, <1>3, NamesOfDocument DEF PreparationInv, Shaped, Preparing!TypeOK, FaultIds

LEMMA PResolution == ASSUME Preparing!DocumentsAreWellFormed, PreparationInv
  PROVE Preparing!ResolutionIsFixpoint
<1> DEFINE Knots == {S \in SUBSET Preparing!Names : S # {} /\ \A n \in S : Preparing!DependenciesOf(n) \cap S # {}}
<1>1. doc \in Documents /\ Preparing!IsTree(inputs)
  BY DEF PreparationInv, Shaped, Preparing!DocumentsAreWellFormed
<1>2. \A S : S \in Knots <=> S \subseteq AllNames(doc) /\ Knot(doc, S)
  BY NamesOfDocument DEF Knot
<1>3. ASSUME Preparing!IsResolved, NEW n \in Preparing!Names
      PROVE  /\ Preparing!Sub(base, <<n>>) # Preparing!Missing
             /\ \A p \in DOMAIN doc.resources[n] :
                  Preparing!Sub(base, <<n>> \o p) = Preparing!ValueIn(inputs, base, doc.resources[n][p])
  <2>1. Prepared(doc, inputs, consumed, base)
    BY <1>3 DEF PreparationInv, Based, Preparing!IsResolved, Shaped
  <2>2. n \in AllNames(doc) /\ Preparing!IsTree(base) /\ Made(doc, inputs, base, n)
    BY <2>1, NamesOfDocument DEF Prepared
  <2> QED
    BY <1>1, <2>2, MadeIsThere
<1>4. ASSUME code = "cycle" PROVE Knots # {} /\ resources = Preparing!Missing
  <2>1. Knot(doc, remaining) /\ resources = Preparing!Missing /\ remaining \subseteq AllNames(doc)
    BY <1>4 DEF PreparationInv, Layered, Shaped
  <2>2. remaining \in Knots
    BY <1>2, <2>1
  <2> QED
    BY <2>1, <2>2
<1>5. ASSUME Preparing!IsResolved \/ resources # Preparing!Missing PROVE Knots = {}
  <2>1. remaining = {}
    BY <1>5 DEF PreparationInv, Phased, Preparing!IsResolved
  <2>2. \A S \in SUBSET AllNames(doc) : ~Knot(doc, S)
    BY <2>1 DEF PreparationInv, Layered
  <2> QED
    BY <1>2, <2>2
<1>6. ASSUME code = "segment", order # <<>>, NEW n \in Preparing!DependenciesOf(Head(order))
      PROVE  Preparing!Sub(resources, <<n>>) # Preparing!Missing
  <2>1. Head(order) = order[1]
    BY <1>6 DEF PreparationInv, Shaped
  <2> QED
    BY <1>6, <2>1, NamesOfDocument DEF PreparationInv, Making
<1> HIDE DEF Knots
<1>7. /\ Preparing!IsResolved => \A n \in Preparing!Names : Preparing!Sub(base, <<n>>) # Preparing!Missing
                                                            /\ \A p \in DOMAIN doc.resources[n] :
                                                                 Preparing!Sub(base, <<n>> \o p) =
                                                                   Preparing!ValueIn(inputs, base, doc.resources[n][p])
      /\ code = "cycle" => Knots # {} /\ resources = Preparing!Missing
      /\ Preparing!IsResolved \/ resources # Preparing!Missing => Knots = {}
      /\ code = "segment" /\ order # <<>> =>
           \A n \in Preparing!DependenciesOf(Head(order)) : Preparing!Sub(resources, <<n>>) # Preparing!Missing
  BY <1>3, <1>4, <1>5, <1>6
<1> QED
  BY <1>7 DEF Preparing!ResolutionIsFixpoint, Knots

LEMMA POverrides == ASSUME PreparationInv PROVE Preparing!OverridesAreLocal
<1> SUFFICES ASSUME Preparing!IsResolved, NEW k \in DOMAIN base \cup DOMAIN resources,
                    \A p \in {f.path : f \in Preparing!FaultsOf(Preparing!Range(applied))} : ~Preparing!IsPrefix(p, k)
             PROVE  k \in DOMAIN base \cap DOMAIN resources /\ base[k] = resources[k]
  BY DEF Preparing!OverridesAreLocal
<1>1. LocalTo(doc, applied, base, resources)
  BY DEF PreparationInv, Local, Preparing!IsResolved, Shaped
<1>2. Untouched(doc, applied, k)
  BY DEF Untouched, Preparing!FaultsOf
<1> QED
  BY <1>1, <1>2 DEF LocalTo

LEMMA PReplays == ASSUME Preparing!DocumentsAreWellFormed, PreparationInv PROVE Preparing!ReplayPreparesAlike
<1> SUFFICES ASSUME run = 2
             PROVE  /\ phase = "ended" => /\ resources = first.resources /\ executed = first.executed
                                          /\ ~executed => observed = first.observed
                    /\ code \in {"segment", "unknown", "validation", "incompatible"} => ~Agree
  BY DEF Preparing!ReplayPreparesAlike, Agree
<1>1. doc \in Documents /\ executed \in BOOLEAN
  BY DEF PreparationInv, Shaped
<1>2. first.executed \in BOOLEAN /\ Judged(doc, first.resources, first.executed, first.observed)
  BY DEF PreparationInv, Kept
<1>3. ASSUME phase = "ended"
      PROVE  /\ resources = first.resources /\ executed = first.executed
             /\ ~executed => observed = first.observed
  <2>1. resources = first.resources
    BY <1>3 DEF PreparationInv, Repeated
  <2>2. Judged(doc, first.resources, executed, observed)
    BY <1>3, <2>1 DEF PreparationInv, Checked
  <2> QED
    BY <1>1, <1>2, <2>1, <2>2, JudgedAlike
<1> QED
  BY <1>3 DEF PreparationInv, Repeated

LEMMA PreparationSound == ASSUME Preparing!DocumentsAreWellFormed, PreparationInv
  PROVE Preparing!PreparationIsFaithful
BY PTypes, PResolution, POverrides, PReplays DEF PreparationInv, Preparing!PreparationIsFaithful

-----------------------------------------------------------------------------
(* Among the other components, which do not touch its variables.           *)
PreparesInv == component = "preparing" => PreparationInv

LEMMA PreparesStart == ASSUME DefinitionsInit PROVE PreparesInv
<1> SUFFICES ASSUME component = "preparing" PROVE PreparationInv
  BY DEF PreparesInv
<1>1. Preparing!Init
  BY DEF DefinitionsInit
<1> QED
  BY <1>1, PreparationAssumption, PreparationInit

LEMMA PreparesStep ==
  ASSUME PreparesInv, [DefinitionsNext]_definitions PROVE PreparesInv'
<1> SUFFICES ASSUME component' = "preparing" PROVE PreparationInv'
  BY DEF PreparesInv
<1>1. component = "preparing"
  BY DEF DefinitionsNext, definitions
<1>2. Preparing!Next \/ UNCHANGED definitions
  BY <1>1 DEF DefinitionsNext
<1>3. [Preparing!Next]_(Preparing!vars)
  BY <1>2 DEF definitions, OfPrepared, Preparing!vars, Preparing!coordinates, Preparing!resolving,
    Preparing!judged
<1>4. PreparationInv
  BY <1>1 DEF PreparesInv
<1> QED
  BY <1>3, <1>4, PreparationAssumption, PreparationNext

(* Whatever documents declare and callers supply: resolution ends with the *)
(* one assignment that satisfies every declaration at once and refuses     *)
(* exactly the cycles, an override changes what lies under its path and    *)
(* nothing that referred to it, a replay whose inputs agree prepares what  *)
(* the run had and decides as it did, and a pass was observed              *)
(* (resolve_resources, with_override, replay_scenario, evaluate_scenario;  *)
(* PreparationIsFaithful).                                                 *)
THEOREM DefinitionsPrepareFaithfully == DefinitionsSpec => []PreparationIsFaithful
<1>1. DefinitionsInit => PreparesInv
  BY PreparesStart
<1>2. PreparesInv /\ [DefinitionsNext]_definitions => PreparesInv'
  BY PreparesStep
<1>3. PreparesInv => PreparationIsFaithful
  BY PreparationAssumption, PreparationSound DEF PreparesInv, PreparationIsFaithful
<1> QED
  BY <1>1, <1>2, <1>3, PTL DEF DefinitionsSpec
=============================================================================
