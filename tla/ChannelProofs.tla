--------------------------- MODULE ChannelProofs ---------------------------
(***************************************************************************)
(* Lemmas about the operators of Channels, for the proofs about the actors *)
(* that share them.                                                        *)
(***************************************************************************)
EXTENDS Channels, FiniteSetTheorems, TLAPS

(* HashMap::insert and HashMap::remove keep a map a map.                   *)

(* HashMap::insert: one key is set, the others keep their values.          *)
LEMMA InsertIsHashMap ==
    ASSUME NEW K, NEW V, NEW f, HashMap(f, K, V), NEW k \in K, NEW v \in V
    PROVE  /\ HashMap(Insert(f, k, v), K, V)
           /\ DOMAIN Insert(f, k, v) = DOMAIN f \cup {k}
           /\ Insert(f, k, v)[k] = v
           /\ \A x \in DOMAIN f \ {k} : Insert(f, k, v)[x] = f[x]
BY DEF HashMap, Insert

(* HashMap::remove: one key is gone, the others keep their values.         *)
LEMMA RemoveIsHashMap ==
    ASSUME NEW K, NEW V, NEW f, HashMap(f, K, V), NEW k
    PROVE  /\ HashMap(Remove(f, k), K, V)
           /\ DOMAIN Remove(f, k) = DOMAIN f \ {k}
           /\ \A x \in DOMAIN f \ {k} : Remove(f, k)[x] = f[x]
BY DEF HashMap, Remove, Restrict

(* The empty sequence is the empty map.                                    *)
LEMMA EmptyIsHashMap ==
    ASSUME NEW K, NEW V
    PROVE  HashMap(<< >>, K, V) /\ DOMAIN << >> = {}
BY DEF HashMap

(* Sending to one of a family of channels.                                 *)
LEMMA AppendToOne ==
    ASSUME NEW K, NEW S, NEW q \in [K -> Seq(S)], NEW c, NEW e \in S
    PROVE  [q EXCEPT ![c] = Append(@, e)] \in [K -> Seq(S)]
<1>1. ASSUME NEW x \in K PROVE [q EXCEPT ![c] = Append(@, e)][x] \in Seq(S)
  <2>1. q[x] \in Seq(S) /\ Append(q[x], e) \in Seq(S)
      OBVIOUS
  <2>2. QED
      BY <2>1
<1>2. QED
    BY <1>1

(* What a channel holds after a send, and after a receive.                 *)
LEMMA RangeOfAppend ==
    ASSUME NEW S, NEW q \in Seq(S), NEW e \in S
    PROVE  /\ Append(q, e) \in Seq(S)
           /\ Range(Append(q, e)) = Range(q) \cup {e}
<1>1. /\ Append(q, e) \in Seq(S)
      /\ DOMAIN Append(q, e) = DOMAIN q \cup {Len(q) + 1}
      /\ \A i \in DOMAIN q : Append(q, e)[i] = q[i]
      /\ Append(q, e)[Len(q) + 1] = e
    OBVIOUS
<1>2. QED
    BY <1>1 DEF Range

(* What is received and what is left were both in the queue.               *)
LEMMA RangeOfTail ==
    ASSUME NEW S, NEW q \in Seq(S), q # << >>
    PROVE  /\ Tail(q) \in Seq(S)
           /\ Head(q) \in S
           /\ Range(q) = {Head(q)} \cup Range(Tail(q))
<1>1. /\ Tail(q) \in Seq(S) /\ Head(q) \in S /\ Head(q) = q[1]
      /\ DOMAIN q = 1..Len(q) /\ DOMAIN Tail(q) = 1..(Len(q) - 1)
      /\ Len(q) \in Nat /\ Len(q) > 0
      /\ \A i \in DOMAIN Tail(q) : Tail(q)[i] = q[i + 1]
    OBVIOUS
<1>2. Range(q) \subseteq {Head(q)} \cup Range(Tail(q))
  <2> SUFFICES ASSUME NEW i \in DOMAIN q, i # 1
               PROVE  \E j \in DOMAIN Tail(q) : Tail(q)[j] = q[i]
      BY <1>1 DEF Range
  <2>1. i - 1 \in DOMAIN Tail(q)
      BY <1>1
  <2>2. Tail(q)[i - 1] = q[i]
      BY <1>1, <2>1
  <2>3. QED
      BY <2>1, <2>2
<1>3. Range(Tail(q)) \subseteq Range(q)
  <2> SUFFICES ASSUME NEW i \in DOMAIN Tail(q)
               PROVE  \E j \in DOMAIN q : q[j] = Tail(q)[i]
      BY DEF Range
  <2>1. i + 1 \in DOMAIN q
      BY <1>1
  <2>2. QED
      BY <1>1, <2>1
<1>4. Head(q) \in Range(q)
    BY <1>1 DEF Range
<1>5. QED
    BY <1>1, <1>2, <1>3, <1>4

(* Every event of a channel is one of those it may carry, and conversely.  *)
LEMMA RangeInSet ==
    ASSUME NEW S, NEW q \in Seq(S)
    PROVE  Range(q) \subseteq S
BY DEF Range

(* An empty channel holds nothing.                                         *)
LEMMA RangeOfEmpty == Range(<< >>) = {}
BY DEF Range

-----------------------------------------------------------------------------
(* What a stretch of a sequence of events becomes on its way through       *)
(* channels: q carries news[lo + 1] to news[hi], in this order and each    *)
(* once, and apart from them nothing that is relevant.                     *)
Carries(q, relevant, news, lo, hi) ==
    \E at \in [(lo + 1)..hi -> DOMAIN q] :
        /\ \A k, l \in (lo + 1)..hi : k < l => at[k] < at[l]
        /\ \A k \in (lo + 1)..hi : q[at[k]] = news[k] /\ news[k] \in relevant
        /\ \A i \in DOMAIN q : q[i] \in relevant => \E k \in (lo + 1)..hi : at[k] = i

(* A channel without anything relevant carries an empty stretch.           *)
LEMMA CarriesNothing ==
    ASSUME NEW q, NEW relevant, NEW news, NEW n \in Nat,
           \A e \in Range(q) : e \notin relevant
    PROVE  Carries(q, relevant, news, n, n)
<1> DEFINE at == [k \in (n + 1)..n |-> 1]
<1>1. (n + 1)..n = {}
    OBVIOUS
<1>2. \A i \in DOMAIN q : q[i] \notin relevant
    BY DEF Range
<1>3. at \in [(n + 1)..n -> DOMAIN q]
    BY <1>1
<1>4. QED
    BY <1>1, <1>2, <1>3 DEF Carries

(* Only the stretch itself matters of the news.                            *)
LEMMA CarriesSame ==
    ASSUME NEW q, NEW relevant, NEW news, NEW lo, NEW hi, Carries(q, relevant, news, lo, hi),
           NEW other, \A k \in (lo + 1)..hi : other[k] = news[k]
    PROVE  Carries(q, relevant, other, lo, hi)
<1>1. PICK at \in [(lo + 1)..hi -> DOMAIN q] :
        /\ \A k, l \in (lo + 1)..hi : k < l => at[k] < at[l]
        /\ \A k \in (lo + 1)..hi : q[at[k]] = news[k] /\ news[k] \in relevant
        /\ \A i \in DOMAIN q : q[i] \in relevant => \E k \in (lo + 1)..hi : at[k] = i
    BY DEF Carries
<1>2. \A k \in (lo + 1)..hi : q[at[k]] = other[k] /\ other[k] \in relevant
    BY <1>1
<1>3. QED
    BY <1>1, <1>2, Zenon DEF Carries

(* Something irrelevant is sent.                                           *)
LEMMA CarriesAppendOther ==
    ASSUME NEW S, NEW q \in Seq(S), NEW e \in S, NEW relevant, NEW news,
           NEW lo \in Nat, NEW hi \in Nat, Carries(q, relevant, news, lo, hi),
           e \notin relevant
    PROVE  Carries(Append(q, e), relevant, news, lo, hi)
<1>1. /\ DOMAIN q = 1..Len(q) /\ Len(q) \in Nat
      /\ DOMAIN Append(q, e) = 1..(Len(q) + 1)
      /\ \A i \in DOMAIN q : Append(q, e)[i] = q[i]
      /\ Append(q, e)[Len(q) + 1] = e
    OBVIOUS
<1>2. PICK at \in [(lo + 1)..hi -> DOMAIN q] :
        /\ \A k, l \in (lo + 1)..hi : k < l => at[k] < at[l]
        /\ \A k \in (lo + 1)..hi : q[at[k]] = news[k] /\ news[k] \in relevant
        /\ \A i \in DOMAIN q : q[i] \in relevant => \E k \in (lo + 1)..hi : at[k] = i
    BY DEF Carries
<1> HIDE DEF Carries
<1> DEFINE g == Append(q, e)
<1>3. at \in [(lo + 1)..hi -> DOMAIN g]
    BY <1>1
<1>4. \A k \in (lo + 1)..hi : g[at[k]] = news[k] /\ news[k] \in relevant
    BY <1>1, <1>2
<1>5. \A i \in DOMAIN g : g[i] \in relevant => \E k \in (lo + 1)..hi : at[k] = i
    BY <1>1, <1>2
<1>6. QED
    BY <1>2, <1>3, <1>4, <1>5 DEF Carries

(* The next of the news is sent.                                           *)
LEMMA CarriesAppendNext ==
    ASSUME NEW S, NEW q \in Seq(S), NEW e \in S, NEW relevant, NEW news,
           NEW lo \in Nat, NEW hi \in Nat, lo <= hi, Carries(q, relevant, news, lo, hi),
           e \in relevant, e = news[hi + 1]
    PROVE  Carries(Append(q, e), relevant, news, lo, hi + 1)
<1>1. /\ DOMAIN q = 1..Len(q) /\ Len(q) \in Nat
      /\ DOMAIN Append(q, e) = 1..(Len(q) + 1)
      /\ \A i \in DOMAIN q : Append(q, e)[i] = q[i]
      /\ Append(q, e)[Len(q) + 1] = e
    OBVIOUS
<1>2. PICK at \in [(lo + 1)..hi -> DOMAIN q] :
        /\ \A k, l \in (lo + 1)..hi : k < l => at[k] < at[l]
        /\ \A k \in (lo + 1)..hi : q[at[k]] = news[k] /\ news[k] \in relevant
        /\ \A i \in DOMAIN q : q[i] \in relevant => \E k \in (lo + 1)..hi : at[k] = i
    BY DEF Carries
<1> DEFINE g == Append(q, e)
           to == [k \in (lo + 1)..(hi + 1) |-> IF k = hi + 1 THEN Len(q) + 1 ELSE at[k]]
<1>3. (lo + 1)..(hi + 1) = (lo + 1)..hi \cup {hi + 1} /\ hi + 1 \notin (lo + 1)..hi
    OBVIOUS
<1>4. to[hi + 1] = Len(q) + 1 /\ \A k \in (lo + 1)..hi : to[k] = at[k]
    BY <1>3
<1>5. to \in [(lo + 1)..(hi + 1) -> DOMAIN g]
    BY <1>1, <1>3, <1>4
<1>6. \A k, l \in (lo + 1)..(hi + 1) : k < l => to[k] < to[l]
  <2> SUFFICES ASSUME NEW k \in (lo + 1)..(hi + 1), NEW l \in (lo + 1)..(hi + 1), k < l
               PROVE  to[k] < to[l]
      OBVIOUS
  <2>1. k \in (lo + 1)..hi /\ to[k] = at[k] /\ at[k] \in 1..Len(q)
      BY <1>1, <1>4
  <2>2. CASE l = hi + 1
      BY <1>1, <1>4, <2>1, <2>2
  <2>3. CASE l \in (lo + 1)..hi
      BY <1>2, <1>4, <2>1, <2>3
  <2>4. QED
      BY <1>3, <2>2, <2>3
<1>7. \A k \in (lo + 1)..(hi + 1) : g[to[k]] = news[k] /\ news[k] \in relevant
    BY <1>1, <1>2, <1>3, <1>4
<1>8. \A i \in DOMAIN g : g[i] \in relevant => \E k \in (lo + 1)..(hi + 1) : to[k] = i
    BY <1>1, <1>2, <1>3, <1>4
<1>9. QED
    BY <1>5, <1>6, <1>7, <1>8 DEF Carries

(* Something irrelevant is received.                                       *)
LEMMA CarriesTailOther ==
    ASSUME NEW S, NEW q \in Seq(S), q # << >>, NEW relevant, NEW news,
           NEW lo \in Nat, NEW hi \in Nat, Carries(q, relevant, news, lo, hi),
           Head(q) \notin relevant
    PROVE  Carries(Tail(q), relevant, news, lo, hi)
<1>1. /\ DOMAIN q = 1..Len(q) /\ Len(q) \in Nat /\ Len(q) > 0
      /\ DOMAIN Tail(q) = 1..(Len(q) - 1) /\ Head(q) = q[1]
      /\ \A i \in DOMAIN Tail(q) : Tail(q)[i] = q[i + 1]
    OBVIOUS
<1>2. PICK at \in [(lo + 1)..hi -> DOMAIN q] :
        /\ \A k, l \in (lo + 1)..hi : k < l => at[k] < at[l]
        /\ \A k \in (lo + 1)..hi : q[at[k]] = news[k] /\ news[k] \in relevant
        /\ \A i \in DOMAIN q : q[i] \in relevant => \E k \in (lo + 1)..hi : at[k] = i
    BY DEF Carries
<1> DEFINE g == Tail(q)
           to == [k \in (lo + 1)..hi |-> at[k] - 1]
<1>3. \A k \in (lo + 1)..hi : at[k] \in DOMAIN q /\ at[k] # 1
    BY <1>1, <1>2
<1>4. \A k \in (lo + 1)..hi : to[k] = at[k] - 1 /\ to[k] \in DOMAIN g /\ to[k] + 1 = at[k]
    BY <1>1, <1>3
<1>5. to \in [(lo + 1)..hi -> DOMAIN g]
    BY <1>4
<1>6. \A k, l \in (lo + 1)..hi : k < l => to[k] < to[l]
    BY <1>1, <1>2, <1>3, <1>4
<1>7. \A k \in (lo + 1)..hi : g[to[k]] = news[k] /\ news[k] \in relevant
    BY <1>1, <1>2, <1>4
<1>8. ASSUME NEW i \in DOMAIN g, g[i] \in relevant PROVE \E k \in (lo + 1)..hi : to[k] = i
  <2>1. i + 1 \in DOMAIN q /\ q[i + 1] \in relevant /\ i \in Nat
      BY <1>1, <1>8
  <2>2. PICK k \in (lo + 1)..hi : at[k] = i + 1
      BY <1>2, <2>1
  <2>3. QED
      BY <1>4, <2>1, <2>2
<1>9. QED
    BY <1>5, <1>6, <1>7, <1>8 DEF Carries

(* What is received of the news is the first of the stretch.               *)
LEMMA CarriesTailFirst ==
    ASSUME NEW S, NEW q \in Seq(S), q # << >>, NEW relevant, NEW news,
           NEW lo \in Nat, NEW hi \in Nat, Carries(q, relevant, news, lo, hi),
           Head(q) \in relevant
    PROVE  /\ lo < hi /\ Head(q) = news[lo + 1]
           /\ Carries(Tail(q), relevant, news, lo + 1, hi)
<1>1. /\ DOMAIN q = 1..Len(q) /\ Len(q) \in Nat /\ Len(q) > 0
      /\ DOMAIN Tail(q) = 1..(Len(q) - 1) /\ Head(q) = q[1]
      /\ \A i \in DOMAIN Tail(q) : Tail(q)[i] = q[i + 1]
    OBVIOUS
<1>2. PICK at \in [(lo + 1)..hi -> DOMAIN q] :
        /\ \A k, l \in (lo + 1)..hi : k < l => at[k] < at[l]
        /\ \A k \in (lo + 1)..hi : q[at[k]] = news[k] /\ news[k] \in relevant
        /\ \A i \in DOMAIN q : q[i] \in relevant => \E k \in (lo + 1)..hi : at[k] = i
    BY DEF Carries
<1>3. PICK n \in (lo + 1)..hi : at[n] = 1
    BY <1>1, <1>2
<1>4. lo + 1 \in (lo + 1)..hi /\ lo < hi
    BY <1>3
<1>5. n = lo + 1
  <2> SUFFICES ASSUME lo + 1 < n PROVE FALSE
      BY <1>3
  <2>1. at[lo + 1] < 1 /\ at[lo + 1] \in 1..Len(q)
      BY <1>1, <1>2, <1>3, <1>4
  <2>2. QED
      BY <1>1, <2>1
<1>6. Head(q) = news[lo + 1]
    BY <1>1, <1>2, <1>3, <1>5
<1> DEFINE g == Tail(q)
           rest == ((lo + 1) + 1)..hi
           to == [k \in rest |-> at[k] - 1]
<1>7. rest \subseteq (lo + 1)..hi /\ rest = ((lo + 1)..hi) \ {lo + 1}
    OBVIOUS
<1>8. \A k \in rest : at[k] \in DOMAIN q /\ at[k] # 1
  <2> SUFFICES ASSUME NEW k \in rest PROVE at[k] \in DOMAIN q /\ at[k] # 1
      OBVIOUS
  <2>1. k \in (lo + 1)..hi /\ lo + 1 < k
      BY <1>7
  <2>2. at[lo + 1] < at[k] /\ at[lo + 1] = 1 /\ at[k] \in DOMAIN q
      BY <1>2, <1>3, <1>4, <1>5, <2>1
  <2>3. QED
      BY <1>1, <2>2
<1>9. \A k \in rest : to[k] = at[k] - 1 /\ to[k] \in DOMAIN g /\ to[k] + 1 = at[k]
    BY <1>1, <1>8
<1>10. to \in [rest -> DOMAIN g]
    BY <1>9
<1>11. \A k, l \in rest : k < l => to[k] < to[l]
  <2> SUFFICES ASSUME NEW k \in rest, NEW l \in rest, k < l PROVE to[k] < to[l]
      OBVIOUS
  <2>1. at[k] < at[l]
      BY <1>2, <1>7
  <2>2. at[k] \in Nat /\ at[l] \in Nat
      BY <1>1, <1>8
  <2>3. to[k] = at[k] - 1 /\ to[l] = at[l] - 1
      BY <1>9
  <2>4. QED
      BY <2>1, <2>2, <2>3
<1>12. \A k \in rest : g[to[k]] = news[k] /\ news[k] \in relevant
    BY <1>1, <1>2, <1>7, <1>9
<1>13. ASSUME NEW i \in DOMAIN g, g[i] \in relevant PROVE \E k \in rest : to[k] = i
  <2>1. i + 1 \in DOMAIN q /\ q[i + 1] \in relevant /\ i \in Nat /\ i + 1 # 1
      BY <1>1, <1>13
  <2>2. PICK k \in (lo + 1)..hi : at[k] = i + 1
      BY <1>2, <2>1
  <2>3. k \in rest
      BY <1>3, <1>5, <1>7, <2>1, <2>2
  <2>4. QED
      BY <1>9, <2>1, <2>2, <2>3
<1>14. Carries(g, relevant, news, lo + 1, hi)
    BY <1>10, <1>11, <1>12, <1>13, Zenon DEF Carries
<1>15. QED
    BY <1>4, <1>6, <1>14

(* A stretch that is carried is there, and nothing else.                   *)
LEMMA CarriedIsThere ==
    ASSUME NEW q, NEW relevant, NEW news, NEW lo, NEW hi, Carries(q, relevant, news, lo, hi)
    PROVE  /\ \A k \in (lo + 1)..hi : news[k] \in Range(q)
           /\ \A e \in Range(q) \cap relevant : \E k \in (lo + 1)..hi : e = news[k]
BY DEF Carries, Range
=============================================================================
