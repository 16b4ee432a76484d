-------------------------- MODULE LinkedListProofs --------------------------
(***************************************************************************)
(* Proofs about LinkedList: whatever the threads that share a list do, for *)
(* any number of threads, Items and calls.                                 *)
(***************************************************************************)
EXTENDS LinkedList, TLAPS, FiniteSetTheorems, SequenceTheorems, WellFoundedInduction

(***************************************************************************)
(* A set of naturals that is not empty has a least element.                *)
(***************************************************************************)
LEMMA LeastNatural ==
  ASSUME NEW S \in SUBSET Nat, S # {}
  PROVE  \E n \in S : \A m \in S : n <= m
  <1> DEFINE Less == OpToRel(<, Nat)
  <1>1. \A m, n \in Nat : m < n => <<m, n>> \in Less
    BY DEF OpToRel
  <1>2. IsWellFoundedOn(Less, Nat)
    BY NatLessThanWellFounded
  <1> HIDE DEF Less
  <1>3. PICK n \in S : \A m \in S : ~ (<<m, n>> \in Less)
    BY <1>2, WFMin
  <1>4. \A m \in S : ~ (m < n)
    BY <1>1, <1>3, Zenon
  <1> QED
    BY <1>4

(***************************************************************************)
(* The walk from a pointer: one Item more, or the end.  There is one such  *)
(* walk: two that start alike never differ, and each can be continued.     *)
(***************************************************************************)
Further(w) == IF Last(w) = Null THEN w ELSE Append(w, next[Last(w)])

\* A walk of k steps from p.
Walked(p, g, n) ==
  g = [k \in 0 .. n |-> IF k = 0 THEN <<p>> ELSE Further(g[k - 1])]

LEMMA WalksAgree ==
  ASSUME NEW p, NEW g, NEW h, NEW m \in Nat, NEW n \in Nat, Walked(p, g, m), Walked(p, h, n)
  PROVE  \A k \in 0 .. m : k <= n => g[k] = h[k]
  <1> DEFINE S == { k \in 0 .. m : k <= n /\ g[k] # h[k] }
  <1> SUFFICES ASSUME S # {} PROVE FALSE
    OBVIOUS
  <1>1. S \in SUBSET Nat
    OBVIOUS
  <1>2. PICK k \in S : \A j \in S : k <= j
    BY <1>1, LeastNatural
  <1>3. k \in 0 .. m /\ k <= n /\ g[k] # h[k]
    OBVIOUS
  <1>4. k # 0
    BY <1>3 DEF Walked
  <1>5. k - 1 \in 0 .. m /\ k - 1 <= n /\ k - 1 \notin S
    <2>1. k \in Nat /\ k - 1 < k
      BY <1>3
    <2> HIDE DEF S
    <2> QED
      BY <1>2, <1>3, <1>4, <2>1
  <1>6. g[k - 1] = h[k - 1]
    BY <1>5
  <1>7. g[k] = Further(g[k - 1]) /\ h[k] = Further(h[k - 1])
    <2>1. k \in 0 .. m /\ k \in 0 .. n
      BY <1>3
    <2> HIDE DEF S
    <2> QED
      BY <1>4, <2>1 DEF Walked
  <1> QED
    BY <1>3, <1>6, <1>7

LEMMA WalkExists ==
  ASSUME NEW p, NEW n \in Nat
  PROVE  \E g : Walked(p, g, n)
  <1> DEFINE S == { m \in Nat : ~ \E g : Walked(p, g, m) }
  <1> SUFFICES ASSUME S # {} PROVE FALSE
    OBVIOUS
  <1>1. PICK m \in S : \A j \in S : m <= j
    BY LeastNatural
  <1>2. CASE m = 0
    <2> DEFINE g == [k \in 0 .. 0 |-> <<p>>]
    <2>1. Walked(p, g, 0)
      BY DEF Walked
    <2> QED
      BY <1>2, <2>1
  <1>3. CASE m # 0
    <2>1. m - 1 \in Nat /\ m - 1 \notin S
      BY <1>1, <1>3
    <2>2. PICK h : Walked(p, h, m - 1)
      BY <2>1
    <2> DEFINE g == [k \in 0 .. m |-> IF k = m THEN Further(h[m - 1]) ELSE h[k]]
    <2>3. \A k \in 0 .. m - 1 : h[k] = IF k = 0 THEN <<p>> ELSE Further(h[k - 1])
      BY <2>2 DEF Walked
    <2>4. \A k \in 0 .. m : g[k] = IF k = 0 THEN <<p>> ELSE Further(g[k - 1])
      BY <1>3, <2>1, <2>3
    <2>5. Walked(p, g, m)
      BY <2>4 DEF Walked
    <2> QED
      BY <2>5
  <1> QED
    BY <1>2, <1>3

LEMMA WalkIs ==
  ASSUME NEW p
  PROVE  LET walk[k \in Nat] ==
               IF k = 0 THEN <<p>>
               ELSE LET w == walk[k - 1]
                    IN  IF Last(w) = Null THEN w ELSE Append(w, next[Last(w)])
         IN  \A k \in Nat : walk[k] = IF k = 0 THEN <<p>> ELSE Further(walk[k - 1])
  <1> DEFINE f == [k \in Nat |-> (CHOOSE g : Walked(p, g, k))[k]]
             W(n) == CHOOSE g : Walked(p, g, n)
             walk[k \in Nat] ==
               IF k = 0 THEN <<p>>
               ELSE LET w == walk[k - 1]
                    IN  IF Last(w) = Null THEN w ELSE Append(w, next[Last(w)])
  <1>1. \A n \in Nat : Walked(p, W(n), n)
    BY WalkExists
  <1> HIDE DEF W
  <1>2. \A n \in Nat : f[n] = W(n)[n]
    BY DEF W
  <1> HIDE DEF f
  <1>3. ASSUME NEW k \in Nat, k # 0
        PROVE  f[k] = Further(f[k - 1])
    <2>1. W(k)[k] = Further(W(k)[k - 1])
      BY <1>1, <1>3 DEF Walked
    <2>2. W(k)[k - 1] = W(k - 1)[k - 1]
      BY <1>1, <1>3, WalksAgree, k - 1 \in Nat
    <2> QED
      BY <1>2, <1>3, <2>1, <2>2
  <1>4. f[0] = <<p>>
    BY <1>1, <1>2 DEF Walked
  <1>5. f = [k \in Nat |-> IF k = 0 THEN <<p>>
                           ELSE LET w == f[k - 1]
                                IN  IF Last(w) = Null THEN w ELSE Append(w, next[Last(w)])]
    BY <1>3, <1>4 DEF f, Further
  <1>6. walk = [k \in Nat |-> IF k = 0 THEN <<p>>
                           ELSE LET w == walk[k - 1]
                                IN  IF Last(w) = Null THEN w ELSE Append(w, next[Last(w)])]
    BY <1>5 DEF walk
  <1> HIDE DEF walk
  <1> QED
    BY <1>6 DEF Further, walk
(***************************************************************************)
(* A walk from an Item of K stays in K, if the Items of K point into K.    *)
(***************************************************************************)
LEMMA WalkStays ==
  ASSUME NEW K \in SUBSET Item, \A i \in K : next[i] \in K \cup {Null}, NEW p \in K \cup {Null}
  PROVE  ToSet(ChainFrom(p)) \subseteq K
  <1> DEFINE walk[k \in Nat] ==
               IF k = 0 THEN <<p>>
               ELSE LET w == walk[k - 1]
                    IN  IF Last(w) = Null THEN w ELSE Append(w, next[Last(w)])
             N == Cardinality(Item)
             \* Of what a walk has seen, only the last can be the null pointer.
             Seen(w) == /\ w \in Seq(K \cup {Null}) /\ Len(w) > 0
                        /\ \A j \in 1 .. Len(w) - 1 : w[j] # Null
             S == { n \in Nat : ~ Seen(walk[n]) }
  <1>1. \A k \in Nat : walk[k] = IF k = 0 THEN <<p>> ELSE Further(walk[k - 1])
    BY WalkIs
  <1> HIDE DEF walk
  <1>2. Seen(<<p>>)
    OBVIOUS
  <1>3. ASSUME NEW w, Seen(w) PROVE Seen(Further(w))
    <2>1. CASE Last(w) = Null
      BY <1>3, <2>1 DEF Further
    <2>2. CASE Last(w) # Null
      <3>1. Last(w) \in K
        BY <1>3, <2>2 DEF Last
      <3>2. next[Last(w)] \in K \cup {Null}
        BY <3>1
      <3> DEFINE x == next[Last(w)]
                 v == Append(w, x)
      <3> HIDE DEF x
      <3>3. v \in Seq(K \cup {Null}) /\ Len(v) = Len(w) + 1 /\ \A j \in 1 .. Len(w) : v[j] = w[j]
        BY <1>3, <3>2, AppendProperties DEF x
      <3>4. \A j \in 1 .. Len(w) : w[j] # Null
        BY <1>3, <2>2 DEF Last
      <3>5. Further(w) = v
        BY <2>2 DEF Further, x
      <3> HIDE DEF v
      <3> QED
        BY <1>3, <3>3, <3>4, <3>5
    <2> QED
      BY <2>1, <2>2
  <1> HIDE DEF Seen
  <1>4. \A n \in Nat : Seen(walk[n])
    <2> SUFFICES ASSUME S # {} PROVE FALSE
      OBVIOUS
    <2>1. PICK n \in S : \A m \in S : n <= m
      BY LeastNatural
    <2>2. n # 0
      BY <1>1, <1>2
    <2>3. n - 1 \in Nat /\ ~ (n <= n - 1)
      BY <2>2
    <2>4. Seen(walk[n - 1])
      BY <2>1, <2>3
    <2> QED
      BY <1>1, <1>3, <2>2, <2>4
  <1>5. N \in Nat
    BY LinkedListAssumption, FS_CardinalityType
  <1> DEFINE seen == walk[N]
  <1>6. Seen(seen)
    BY <1>4, <1>5
  <1>7. ChainFrom(p) = IF Last(seen) = Null THEN Front(seen) ELSE seen
    BY DEF ChainFrom, walk
  <1> HIDE DEF seen
  <1>8. CASE Last(seen) # Null
    <2>1. \A j \in 1 .. Len(seen) : seen[j] \in K
      BY <1>6, <1>8 DEF Seen, Last
    <2> QED
      BY <1>6, <1>7, <1>8, <2>1 DEF ToSet, Seen
  <1>9. CASE Last(seen) = Null
    <2>1. \A j \in 1 .. Len(seen) - 1 : seen[j] \in K
      BY <1>6 DEF Seen
    <2>2. Len(seen) - 1 \in Int
      BY <1>6 DEF Seen
    <2>3. /\ Front(seen) \in Seq(K)
          /\ \A j \in 1 .. Len(Front(seen)) : Front(seen)[j] \in K
      BY <2>1, <2>2, SubSeqProperties DEF Front
    <2> QED
      BY <1>7, <1>9, <2>3 DEF ToSet
  <1> QED
    BY <1>8, <1>9
(***************************************************************************)
(* ListTypeOK is inductive together with where the pointers of a thread    *)
(* are known to point to an Item.                                          *)
(***************************************************************************)
InHand(t) == op[t].pc \in {"count", "empty", "first", "start", "walk", "step", "link", "fault"}

HasItem(o) ==
  /\ o.pc \in {"count", "empty", "first", "start", "walk", "step", "link", "fault"} =>
       o.item \in Item
  /\ o.pc \in {"step", "link", "print", "unlink", "free"} => o.curr \in Item
  /\ o.pc \in {"check", "enter"} => o.prev = Null

Pointers == \A t \in Thread : HasItem(op[t])

ListTyped == ListTypeOK /\ Pointers

LEMMA ListConstants ==
  /\ Counts \in Nat /\ Counts > 0 /\ Cardinality(Item) \in Nat /\ Cardinality(Item) < Counts
  /\ Null \in Pointer /\ Null \notin Item /\ Item \subseteq Pointer /\ Pointer = Item \cup {Null}
  /\ MaxOps \in Nat
  BY LinkedListAssumption, FS_CardinalityType DEF Pointer

LEMMA IdleTyped == Idle \in Op /\ Idle.pc = "idle" /\ HasItem(Idle)
  BY ListConstants DEF Idle, Op, HasItem

\* A list of at most two different Items is no longer than there are Items.
LEMMA InitLists ==
  ASSUME NEW s \in SeqOf(Item, 2), IsInjective(s)
  PROVE  /\ \/ s \in [1 .. 0 -> Item] /\ Len(s) = 0
            \/ s \in [1 .. 1 -> Item] /\ Len(s) = 1
            \/ s \in [1 .. 2 -> Item] /\ Len(s) = 2 /\ s[1] # s[2]
         /\ Len(s) \in 0 .. Counts - 1
  <1>1. PICK m \in 0 .. 2 : s \in [1 .. m -> Item]
    BY DEF SeqOf
  <1>2. Len(s) = m /\ DOMAIN s = 1 .. m
    BY <1>1
  <1>3. m = 2 => s[1] \in Item /\ s[2] \in Item /\ s[1] # s[2]
    BY <1>1, <1>2 DEF IsInjective
  <1>4. m = 2 => Cardinality(Item) >= 2
    <2> SUFFICES ASSUME m = 2 PROVE Cardinality(Item) >= 2
      OBVIOUS
    <2> DEFINE one == {s[1]}
               two == one \cup {s[2]}
    <2>1. IsFiniteSet(one) /\ Cardinality(one) = 1 /\ s[2] \notin one
      BY <1>3, FS_Singleton
    <2>2. Cardinality(two) = 2
      BY <2>1, FS_AddElement
    <2>3. two \in SUBSET Item
      BY <1>3
    <2> HIDE DEF two
    <2> QED
      BY <2>2, <2>3, LinkedListAssumption, ListConstants, FS_Subset
  <1>5. m = 1 => Cardinality(Item) >= 1
    <2> SUFFICES ASSUME m = 1 PROVE Cardinality(Item) >= 1
      OBVIOUS
    <2>1. Item # {}
      BY <1>1
    <2> QED
      BY <2>1, LinkedListAssumption, ListConstants, FS_EmptySet
  <1>6. Len(s) \in 0 .. Counts - 1
    BY <1>2, <1>4, <1>5, ListConstants
  <1>7. m = 0 \/ m = 1 \/ m = 2
    OBVIOUS
  <1> QED
    BY <1>1, <1>2, <1>3, <1>6, <1>7

\* The list a behaviour starts with: none, one Item, or one before the other.
LEMMA InitShape ==
  ASSUME InitList
  PROVE  \E s \in Seq(Item) :
           /\ Len(s) \in 0 .. 2 /\ Len(s) <= Counts - 1 /\ Len(s) = number_of_items
           /\ \A j, k \in 1 .. Len(s) : s[j] = s[k] => j = k
           /\ head = IF Len(s) = 0 THEN Null ELSE s[1]
           /\ next \in [Item -> Pointer]
           /\ \A i \in Item : next[i] = IF Len(s) = 2 /\ i = s[1] THEN s[2] ELSE Null
           /\ allocated = { s[k] : k \in 1 .. Len(s) }
           /\ alone = allocated /\ linked = allocated
           /\ op = [t \in Thread |-> Idle] /\ ops = 0
           /\ serial = TRUE /\ clash = FALSE /\ mixed = FALSE /\ freed = {} /\ reused = FALSE
  <1>1. PICK s \in SeqOf(Item, 2) :
          /\ IsInjective(s)
          /\ head = IF s = << >> THEN Null ELSE s[1]
          /\ number_of_items = Len(s)
          /\ next = [i \in Item |->
                       IF \E k \in 1 .. Len(s) - 1 : s[k] = i
                       THEN s[1 + CHOOSE k \in 1 .. Len(s) - 1 : s[k] = i] ELSE Null]
          /\ allocated = ToSet(s)
          /\ op = [t \in Thread |-> Idle]
          /\ ops = 0
          /\ alone = ToSet(s) /\ linked = ToSet(s)
          /\ serial = TRUE /\ clash = FALSE /\ mixed = FALSE
          /\ freed = {} /\ reused = FALSE
    BY DEF InitList
  <1>2. /\ \/ s \in [1 .. 0 -> Item] /\ Len(s) = 0
           \/ s \in [1 .. 1 -> Item] /\ Len(s) = 1
           \/ s \in [1 .. 2 -> Item] /\ Len(s) = 2 /\ s[1] # s[2]
        /\ Len(s) \in 0 .. Counts - 1
    BY <1>1, InitLists
  <1>3. s \in Seq(Item) /\ Len(s) \in 0 .. 2 /\ DOMAIN s = 1 .. Len(s)
    <2>1. \E n \in 0 .. 2 : s \in [1 .. n -> Item] /\ Len(s) = n
      BY <1>2
    <2>2. PICK n \in 0 .. 2 : s \in [1 .. n -> Item] /\ Len(s) = n
      BY <2>1
    <2>3. s \in Seq(Item)
      BY <2>2
    <2> QED
      BY <2>2, <2>3
  <1>4. \A j, k \in 1 .. Len(s) : s[j] = s[k] => j = k
    BY <1>2
  <1>5. s = << >> <=> Len(s) = 0
    BY <1>3
  <1>6. ASSUME NEW i \in Item
        PROVE  next[i] = IF Len(s) = 2 /\ i = s[1] THEN s[2] ELSE Null
    <2>1. CASE Len(s) = 2 /\ i = s[1]
      <3>1. \A k \in 1 .. Len(s) - 1 : s[k] = i <=> k = 1
        BY <2>1
      <3>2. 1 \in 1 .. Len(s) - 1
        BY <2>1
      <3>3. (CHOOSE k \in 1 .. Len(s) - 1 : s[k] = i) = 1
        BY <3>1, <3>2
      <3> QED
        BY <1>1, <2>1, <3>1, <3>2, <3>3
    <2>2. CASE ~ (Len(s) = 2 /\ i = s[1])
      <3>1. ~ \E k \in 1 .. Len(s) - 1 : s[k] = i
        BY <1>3, <2>2
      <3> QED
        BY <1>1, <2>2, <3>1
    <2> QED
      BY <2>1, <2>2
  <1>7. next \in [Item -> Pointer]
    <2>1. \A i \in Item : next[i] \in Pointer
      BY <1>2, <1>6, ListConstants
    <2>2. next = [i \in Item |-> next[i]]
      BY <1>1
    <2> QED
      BY <2>1, <2>2
  <1>8. allocated = { s[k] : k \in 1 .. Len(s) }
    BY <1>1, <1>3 DEF ToSet
  <1>9. head = IF Len(s) = 0 THEN Null ELSE s[1]
    BY <1>1, <1>5
  <1>10. Len(s) <= Counts - 1
    BY <1>2
  <1> QED
    BY <1>1, <1>3, <1>4, <1>6, <1>7, <1>8, <1>9, <1>10, Zenon

(***************************************************************************)
(* A thread's next state is of the right type, and so are those of all.    *)
(***************************************************************************)
LEMMA StepTyped ==
  ASSUME op \in [Thread -> Op], Pointers,
         NEW t \in Thread, NEW o \in Op, HasItem(o), op' = [op EXCEPT ![t] = o]
  PROVE  op' \in [Thread -> Op] /\ Pointers'
  <1>1. \A u \in Thread : op'[u] = IF u = t THEN o ELSE op[u]
    OBVIOUS
  <1> QED
    BY <1>1 DEF Pointers, HasItem

LEMMA FieldsTyped ==
  ASSUME NEW o \in Op, HasItem(o), NEW p \in Pointer, NEW c \in Nat
  PROVE  /\ [Idle EXCEPT !.pc = "count", !.item = p, !.count = c] \in Op
         /\ p \in Item => HasItem([Idle EXCEPT !.pc = "count", !.item = p, !.count = c])
         /\ [Idle EXCEPT !.pc = "check", !.n = c] \in Op /\ (HasItem([Idle EXCEPT !.pc = "check", !.n = c]))
         /\ [o EXCEPT !.pc = "enter"] \in Op
         /\ o.prev = Null => HasItem([o EXCEPT !.pc = "enter"])
         /\ [o EXCEPT !.pc = "empty"] \in Op
         /\ o.item \in Item => HasItem([o EXCEPT !.pc = "empty"])
         /\ [o EXCEPT !.pc = "first"] \in Op
         /\ o.item \in Item => HasItem([o EXCEPT !.pc = "first"])
         /\ [o EXCEPT !.pc = "link"] \in Op
         /\ o.item \in Item /\ o.curr \in Item => HasItem([o EXCEPT !.pc = "link"])
         /\ [o EXCEPT !.pc = "free"] \in Op
         /\ o.curr \in Item => HasItem([o EXCEPT !.pc = "free"])
         /\ [o EXCEPT !.pc = "walk", !.curr = p] \in Op
         /\ o.item \in Item => HasItem([o EXCEPT !.pc = "walk", !.curr = p])
         /\ [o EXCEPT !.pc = "start"] \in Op
         /\ o.item \in Item => HasItem([o EXCEPT !.pc = "start"])
         /\ [o EXCEPT !.pc = "step"] \in Op
         /\ o.item \in Item /\ o.curr \in Item => HasItem([o EXCEPT !.pc = "step"])
         /\ [o EXCEPT !.pc = "fault"] \in Op
         /\ o.item \in Item => HasItem([o EXCEPT !.pc = "fault"])
         /\ [o EXCEPT !.pc = "seek", !.curr = p] \in Op /\ (HasItem([o EXCEPT !.pc = "seek", !.curr = p]))
         /\ [o EXCEPT !.pc = "unlink", !.item = p] \in Op
         /\ o.curr \in Item => HasItem([o EXCEPT !.pc = "unlink", !.item = p])
         /\ [o EXCEPT !.pc = "uncount", !.count = c] \in Op /\ (HasItem([o EXCEPT !.pc = "uncount", !.count = c]))
  <1>1. [Idle EXCEPT !.pc = "count", !.item = p, !.count = c] \in Op /\ (p \in Item => HasItem([Idle EXCEPT !.pc = "count", !.item = p, !.count = c]))
    <2> DEFINE q == [Idle EXCEPT !.pc = "count", !.item = p, !.count = c]
    <2>1. q \in Op
      BY ListConstants DEF Op, Idle
    <2>2. q.pc = "count" /\ q.item = p
      BY DEF Idle
    <2> HIDE DEF q
    <2>3. p \in Item => HasItem(q)
      BY <2>2 DEF HasItem
    <2> QED
      BY <2>1, <2>3 DEF q
  <1>2. [Idle EXCEPT !.pc = "check", !.n = c] \in Op /\ (HasItem([Idle EXCEPT !.pc = "check", !.n = c]))
    <2> DEFINE q == [Idle EXCEPT !.pc = "check", !.n = c]
    <2>1. q \in Op
      BY ListConstants DEF Op, Idle
    <2>2. q.pc = "check" /\ q.prev = Null
      BY DEF Idle
    <2> HIDE DEF q
    <2>3. HasItem(q)
      BY <2>2 DEF HasItem
    <2> QED
      BY <2>1, <2>3 DEF q
  <1>3. [o EXCEPT !.pc = "empty"] \in Op /\ (o.item \in Item => HasItem([o EXCEPT !.pc = "empty"]))
    BY ListConstants, IdleTyped DEF Op, HasItem
  <1>4. [o EXCEPT !.pc = "first"] \in Op /\ (o.item \in Item => HasItem([o EXCEPT !.pc = "first"]))
    BY ListConstants, IdleTyped DEF Op, HasItem
  <1>5. [o EXCEPT !.pc = "link"] \in Op /\ (o.item \in Item /\ o.curr \in Item => HasItem([o EXCEPT !.pc = "link"]))
    BY ListConstants, IdleTyped DEF Op, HasItem
  <1>6. [o EXCEPT !.pc = "free"] \in Op /\ (o.curr \in Item => HasItem([o EXCEPT !.pc = "free"]))
    BY ListConstants, IdleTyped DEF Op, HasItem
  <1>7. [o EXCEPT !.pc = "walk", !.curr = p] \in Op /\ (o.item \in Item => HasItem([o EXCEPT !.pc = "walk", !.curr = p]))
    BY ListConstants, IdleTyped DEF Op, HasItem
  <1>8. /\ [o EXCEPT !.pc = "start"] \in Op
        /\ o.item \in Item => HasItem([o EXCEPT !.pc = "start"])
    BY ListConstants, IdleTyped DEF Op, HasItem
  <1>14. /\ [o EXCEPT !.pc = "enter"] \in Op
         /\ o.prev = Null => HasItem([o EXCEPT !.pc = "enter"])
    BY ListConstants, IdleTyped DEF Op, HasItem
  <1>12. /\ [o EXCEPT !.pc = "step"] \in Op
         /\ o.item \in Item /\ o.curr \in Item => HasItem([o EXCEPT !.pc = "step"])
    BY ListConstants, IdleTyped DEF Op, HasItem
  <1>13. /\ [o EXCEPT !.pc = "fault"] \in Op
         /\ o.item \in Item => HasItem([o EXCEPT !.pc = "fault"])
    BY ListConstants, IdleTyped DEF Op, HasItem
  <1>9. [o EXCEPT !.pc = "seek", !.curr = p] \in Op /\ (HasItem([o EXCEPT !.pc = "seek", !.curr = p]))
    BY ListConstants, IdleTyped DEF Op, HasItem
  <1>10. [o EXCEPT !.pc = "unlink", !.item = p] \in Op /\ (o.curr \in Item => HasItem([o EXCEPT !.pc = "unlink", !.item = p]))
    BY ListConstants, IdleTyped DEF Op, HasItem
  <1>11. [o EXCEPT !.pc = "uncount", !.count = c] \in Op /\ (HasItem([o EXCEPT !.pc = "uncount", !.count = c]))
    BY ListConstants, IdleTyped DEF Op, HasItem
  <1> QED
    BY <1>1, <1>2, <1>3, <1>4, <1>5, <1>6, <1>7, <1>8, <1>9, <1>10, <1>11, <1>12, <1>13,
       <1>14

LEMMA CallTyped ==
  ASSUME ListTyped, NEW t \in Thread, Call(t)
  PROVE  ListTyped'
  <1> DEFINE o == op[t]
  <1>1. ListTypeOK /\ Pointers /\ o \in Op /\ HasItem(o)
    BY DEF ListTyped, ListTypeOK, Pointers
  <1>2. /\ head \in Pointer /\ number_of_items \in 0 .. Counts - 1 /\ next \in [Item -> Pointer]
        /\ op \in [Thread -> Op] /\ Counts \in Nat /\ Counts > 0
    BY <1>1, ListConstants DEF ListTypeOK
  <1> HIDE DEF o
  <1>3. SUFFICES /\ op' \in [Thread -> Op] /\ Pointers'
                 /\ head' \in Pointer /\ number_of_items' \in 0 .. Counts - 1
                 /\ next' \in [Item -> Pointer] /\ allocated' \subseteq Item
                 /\ ops' \in 0 .. MaxOps /\ alone' \subseteq Item /\ linked' \subseteq Item
                 /\ serial' \in BOOLEAN /\ clash' \in BOOLEAN /\ mixed' \in BOOLEAN
                 /\ freed' \subseteq Item /\ reused' \in BOOLEAN
    BY DEF ListTyped, ListTypeOK
  <1>4. CASE AddBegin(t)
    <2>1. PICK i \in Item \ allocated :
            /\ Begins(t, [Idle EXCEPT !.pc = "count", !.item = i, !.count = number_of_items], {i})
            /\ allocated' = allocated \cup {i}
            /\ next' = [next EXCEPT ![i] = Null]
            /\ reused' = (reused \/ i \in freed)
            /\ mixed' = (mixed \/ \E u \in Others(t) : Deleting(u))
            /\ UNCHANGED <<head, number_of_items, linked, clash, freed>>
      BY <1>4 DEF AddBegin
    <2> DEFINE q == [Idle EXCEPT !.pc = "count", !.item = i, !.count = number_of_items]
    <2>2. q \in Op /\ HasItem(q)
      <3>1. i \in Pointer /\ i \in Item /\ number_of_items \in Nat
        BY <1>2, ListConstants
      <3> QED
        BY <1>1, <3>1, FieldsTyped
    <2> HIDE DEF q
    <2>3. op' = [op EXCEPT ![t] = q]
      BY <2>1 DEF Begins, q
    <2>4. op' \in [Thread -> Op] /\ Pointers'
      BY <1>1, <1>2, <2>2, <2>3, StepTyped
    <2>5. ops' \in 0 .. MaxOps /\ serial' \in BOOLEAN /\ alone' \subseteq Item
      BY <1>1, <2>1, ListConstants DEF Begins, ListTypeOK
    <2> QED
      BY <1>1, <1>2, <2>1, <2>4, <2>5, ListConstants DEF ListTypeOK
  <1>5. CASE AddCount(t)
    <2>1. number_of_items' \in 0 .. Counts - 1
      BY <1>1, <1>2, <1>5 DEF AddCount, Op, o
    <2> DEFINE q == [o EXCEPT !.pc = "empty"]
    <2>2. q \in Op /\ HasItem(q)
      <3>1. o.item \in Item
        BY <1>1, <1>5 DEF HasItem, AddCount, At, o
      <3> QED
        BY <1>1, <3>1, FieldsTyped, ListConstants
    <2> HIDE DEF q
    <2>3. op' \in [Thread -> Op] /\ Pointers'
      BY <1>1, <1>2, <1>5, <2>2, StepTyped DEF AddCount, Goto, Step, q, o
    <2> QED
      BY <1>1, <1>5, <2>1, <2>3 DEF AddCount, Histories, ListTypeOK
  <1>6. CASE AddTest(t)
    <2> DEFINE q == IF head = Null THEN [o EXCEPT !.pc = "first"] ELSE [o EXCEPT !.pc = "start"]
    <2>2. q \in Op /\ HasItem(q)
      <3>1. o.item \in Item
        BY <1>1, <1>6 DEF HasItem, AddTest, At, o
      <3> QED
        BY <1>1, <1>2, <3>1, FieldsTyped, ListConstants
    <2>4. op' = [op EXCEPT ![t] = q]
      BY <1>6 DEF AddTest, Goto, Step, o
    <2> HIDE DEF q
    <2>3. op' \in [Thread -> Op] /\ Pointers'
      BY <1>1, <1>2, <2>2, <2>4, StepTyped
    <2> QED
      BY <1>1, <1>6, <2>3 DEF AddTest, Histories, ListTypeOK
  <1>7. CASE AddFirst(t)
    <2>3. op' \in [Thread -> Op] /\ Pointers'
      BY <1>1, <1>2, <1>7, IdleTyped, StepTyped DEF AddFirst, Step
    <2>4. o.item \in Item
      BY <1>1, <1>7 DEF AddFirst, At, HasItem, o
    <2> QED
      BY <1>1, <1>7, <2>3, <2>4, ListConstants DEF AddFirst, ListTypeOK, o
  <1>18. CASE AddStart(t)
    <2> DEFINE q == [o EXCEPT !.pc = "walk", !.curr = head]
    <2>2. q \in Op /\ HasItem(q)
      <3>1. o.item \in Item
        BY <1>1, <1>18 DEF HasItem, AddStart, At, o
      <3> QED
        BY <1>1, <1>2, <3>1, FieldsTyped, ListConstants
    <2>4. op' = [op EXCEPT ![t] = q]
      BY <1>18 DEF AddStart, Step, o
    <2> HIDE DEF q
    <2>3. op' \in [Thread -> Op] /\ Pointers'
      BY <1>1, <1>2, <2>2, <2>4, StepTyped
    <2> QED
      BY <1>1, <1>18, <2>3 DEF AddStart, Histories, ListTypeOK
  <1>8. CASE AddWalk(t)
    <2> DEFINE q == IF o.curr = Null THEN [o EXCEPT !.pc = "fault"]
                    ELSE IF next[o.curr] = Null THEN [o EXCEPT !.pc = "link"]
                    ELSE [o EXCEPT !.pc = "step"]
    <2>1. o.curr \in Pointer /\ o.item \in Item
      BY <1>1, <1>8 DEF AddWalk, At, HasItem, Op, o
    <2>2. q \in Op /\ HasItem(q)
      <3>1. o.curr # Null => o.curr \in Item
        BY <2>1, ListConstants
      <3> QED
        BY <1>1, <2>1, <3>1, FieldsTyped, ListConstants
    <2>4. op' = [op EXCEPT ![t] = q]
      BY <1>8 DEF AddWalk, Goto, Step, o
    <2> HIDE DEF q
    <2>3. op' \in [Thread -> Op] /\ Pointers'
      BY <1>1, <1>2, <2>2, <2>4, StepTyped
    <2> QED
      BY <1>1, <1>8, <2>3 DEF AddWalk, Histories, ListTypeOK
  <1>19. CASE AddNext(t)
    <2> DEFINE q == [o EXCEPT !.pc = "walk", !.curr = next[o.curr]]
    <2>1. o.curr \in Item /\ o.item \in Item /\ next[o.curr] \in Pointer
      BY <1>1, <1>2, <1>19 DEF AddNext, At, HasItem, o
    <2>2. q \in Op /\ HasItem(q)
      BY <1>1, <2>1, FieldsTyped, ListConstants
    <2>4. op' = [op EXCEPT ![t] = q]
      BY <1>19 DEF AddNext, Step, o
    <2> HIDE DEF q
    <2>3. op' \in [Thread -> Op] /\ Pointers'
      BY <1>1, <1>2, <2>2, <2>4, StepTyped
    <2> QED
      BY <1>1, <1>19, <2>3 DEF AddNext, Histories, ListTypeOK
  <1>9. CASE AddLink(t)
    <2>3. op' \in [Thread -> Op] /\ Pointers'
      BY <1>1, <1>2, <1>9, IdleTyped, StepTyped DEF AddLink, Step
    <2>4. o.item \in Item /\ o.curr \in Item
      BY <1>1, <1>9 DEF AddLink, At, HasItem, o
    <2> QED
      BY <1>1, <1>9, <2>3, <2>4, ListConstants DEF AddLink, ListTypeOK, o
  <1>10. CASE DeleteBegin(t)
    <2>1. PICK n \in 0 .. Cardinality(Item) : Begins(t, [Idle EXCEPT !.pc = "check", !.n = n], {})
      BY <1>10 DEF DeleteBegin
    <2> DEFINE q == [Idle EXCEPT !.pc = "check", !.n = n]
    <2>2. q \in Op /\ HasItem(q)
      <3>1. n \in Nat
        BY <2>1, ListConstants
      <3> QED
        BY <1>1, <3>1, FieldsTyped, ListConstants
    <2> HIDE DEF q
    <2>3. op' = [op EXCEPT ![t] = q]
      BY <2>1 DEF Begins, q
    <2>4. op' \in [Thread -> Op] /\ Pointers'
      BY <1>1, <1>2, <2>2, <2>3, StepTyped
    <2>5. ops' \in 0 .. MaxOps /\ serial' \in BOOLEAN /\ alone' \subseteq Item
      BY <1>1, <2>1, ListConstants DEF Begins, ListTypeOK
    <2>6. clash' \in BOOLEAN /\ mixed' \in BOOLEAN
      BY <1>1, <1>10 DEF DeleteBegin, ListTypeOK
    <2> QED
      BY <1>1, <1>10, <2>4, <2>5, <2>6 DEF DeleteBegin, ListTypeOK
  <1>11. CASE DeleteCheck(t)
    <2> DEFINE q == IF o.n > number_of_items THEN Idle ELSE [o EXCEPT !.pc = "enter"]
    <2>2. q \in Op /\ HasItem(q)
      <3>1. o.prev = Null
        BY <1>1, <1>11 DEF DeleteCheck, At, HasItem, o
      <3> QED
        BY <1>1, <3>1, FieldsTyped, ListConstants, IdleTyped
    <2>4. op' = [op EXCEPT ![t] = q]
      BY <1>11 DEF DeleteCheck, Goto, Step, o
    <2> HIDE DEF q
    <2>3. op' \in [Thread -> Op] /\ Pointers'
      BY <1>1, <1>2, <2>2, <2>4, StepTyped
    <2> QED
      BY <1>1, <1>11, <2>3 DEF DeleteCheck, Histories, ListTypeOK
  <1>20. CASE DeleteEnter(t)
    <2> DEFINE q == [o EXCEPT !.pc = "seek", !.curr = head]
    <2>2. q \in Op /\ HasItem(q)
      BY <1>1, <1>2, FieldsTyped, ListConstants
    <2>4. op' = [op EXCEPT ![t] = q]
      BY <1>20 DEF DeleteEnter, Step, o
    <2> HIDE DEF q
    <2>3. op' \in [Thread -> Op] /\ Pointers'
      BY <1>1, <1>2, <2>2, <2>4, StepTyped
    <2> QED
      BY <1>1, <1>20, <2>3 DEF DeleteEnter, Histories, ListTypeOK
  <1>12. CASE DeleteSeek(t)
    <2>1. PICK q : /\ op' = [op EXCEPT ![t] = q]
                   /\ \/ q = Idle
                      \/ o.curr # Null /\ q = [o EXCEPT !.pc = "unlink", !.item = next[o.curr]]
                      \/ /\ o.curr # Null
                         /\ q = [o EXCEPT !.prev = o.curr, !.curr = next[o.curr], !.i = @ + 1]
      BY <1>12 DEF DeleteSeek, Step, o
    <2>2. o.pc = "seek" /\ o.curr \in Pointer /\ o.i + 1 \in Nat
      BY <1>1, <1>12 DEF DeleteSeek, At, Op, o
    <2>3. o.curr # Null => o.curr \in Item /\ next[o.curr] \in Pointer
      BY <1>2, <2>2, ListConstants
    <2>4. q \in Op /\ HasItem(q)
      <3>1. CASE q = Idle
        BY <3>1, IdleTyped
      <3>2. CASE o.curr # Null /\ q = [o EXCEPT !.pc = "unlink", !.item = next[o.curr]]
        BY <1>1, <2>2, <2>3, <3>2, FieldsTyped, ListConstants
      <3>3. CASE o.curr # Null /\ q = [o EXCEPT !.prev = o.curr, !.curr = next[o.curr], !.i = @ + 1]
        <4>1. q \in Op /\ q.pc = "seek"
          BY <1>1, <2>2, <2>3, <3>3 DEF Op
        <4> QED
          BY <4>1 DEF HasItem
      <3> QED
        BY <2>1, <3>1, <3>2, <3>3
    <2>5. op' \in [Thread -> Op] /\ Pointers'
      BY <1>1, <1>2, <2>1, <2>4, StepTyped
    <2> QED
      BY <1>1, <1>12, <2>5 DEF DeleteSeek, Histories, ListTypeOK
  <1>13. CASE DeleteUnlink(t)
    <2>1. o.pc = "unlink" /\ o.curr \in Item /\ o.item \in Pointer
      BY <1>1, <1>13 DEF DeleteUnlink, At, HasItem, Op, o
    <2> DEFINE q == [o EXCEPT !.pc = "free"]
    <2>2. q \in Op /\ HasItem(q)
      BY <1>1, <2>1, FieldsTyped, ListConstants
    <2>4. op' = [op EXCEPT ![t] = q]
      BY <1>13 DEF DeleteUnlink, Goto, Step, o
    <2> HIDE DEF q
    <2>3. op' \in [Thread -> Op] /\ Pointers'
      BY <1>1, <1>2, <2>2, <2>4, StepTyped
    <2>5. head' \in Pointer /\ next' \in [Item -> Pointer]
      BY <1>2, <1>13, <2>1 DEF DeleteUnlink, o
    <2> QED
      BY <1>1, <1>13, <2>3, <2>5 DEF DeleteUnlink, ListTypeOK
  <1>14. CASE DeleteFree(t)
    <2>1. o.pc = "free" /\ o.curr \in Item
      BY <1>1, <1>14 DEF DeleteFree, At, HasItem, o
    <2> DEFINE q == [o EXCEPT !.pc = "uncount", !.count = number_of_items]
    <2>2. q \in Op /\ HasItem(q)
      <3>1. number_of_items \in Nat
        BY <1>2
      <3> QED
        BY <1>1, <3>1, FieldsTyped, ListConstants
    <2>4. op' = [op EXCEPT ![t] = q]
      BY <1>14 DEF DeleteFree, Step, o
    <2> HIDE DEF q
    <2>3. op' \in [Thread -> Op] /\ Pointers'
      BY <1>1, <1>2, <2>2, <2>4, StepTyped
    <2> QED
      BY <1>1, <1>14, <2>1, <2>3 DEF DeleteFree, ListTypeOK, o
  <1>15. CASE DeleteCount(t)
    <2>1. number_of_items' \in 0 .. Counts - 1
      BY <1>1, <1>2, <1>15 DEF DeleteCount, Op, o
    <2>3. op' \in [Thread -> Op] /\ Pointers'
      BY <1>1, <1>2, <1>15, IdleTyped, StepTyped DEF DeleteCount, Step
    <2> QED
      BY <1>1, <1>15, <2>1, <2>3 DEF DeleteCount, Histories, ListTypeOK
  <1>16. CASE PrintBegin(t)
    <2> DEFINE d == ToSet(Chain)
               q == [Idle EXCEPT !.pc = "print", !.curr = head, !.due = d]
    <2>1. d \in SUBSET Item
      <3>1. \A i \in Item : next[i] \in Item \cup {Null}
        BY <1>2, ListConstants
      <3>2. head \in Item \cup {Null}
        BY <1>2, ListConstants
      <3> QED
        BY <3>1, <3>2, WalkStays DEF Chain
    <2> HIDE DEF d
    <2>2. q \in Op /\ HasItem(q)
      <3>1. q \in Op /\ q.pc = "print" /\ q.curr = head
        BY <1>2, <2>1, IdleTyped DEF Op
      <3>2. head \in Item
        BY <1>2, <1>16, ListConstants DEF PrintBegin
      <3> QED
        BY <3>1, <3>2 DEF HasItem
    <2>4. op' = [op EXCEPT ![t] = q]
      BY <1>16 DEF PrintBegin, Step, d
    <2> HIDE DEF q
    <2>3. op' \in [Thread -> Op] /\ Pointers'
      BY <1>1, <1>2, <2>2, <2>4, StepTyped
    <2>5. ops' \in 0 .. MaxOps
      BY <1>1, <1>16, ListConstants DEF PrintBegin, ListTypeOK
    <2> QED
      BY <1>1, <1>16, <2>3, <2>5 DEF PrintBegin, ListTypeOK
  <1>17. CASE PrintStep(t)
    <2> DEFINE q == IF next[o.curr] = Null THEN Idle
                    ELSE [o EXCEPT !.curr = next[o.curr], !.due = @ \ {o.curr}]
    <2>1. o.curr \in Item /\ next[o.curr] \in Pointer /\ o.pc = "print"
      BY <1>1, <1>2, <1>17 DEF PrintStep, At, HasItem, o
    <2>2. q \in Op /\ HasItem(q)
      <3>1. CASE next[o.curr] = Null
        BY <3>1, IdleTyped
      <3>2. CASE next[o.curr] # Null
        <4>1. o.due \ {o.curr} \in SUBSET Item /\ o.due \ {o.curr} = o.due \ {o.curr}
          BY <1>1 DEF Op
        <4>2. q \in Op /\ q.pc = "print" /\ q.curr = next[o.curr]
          BY <1>1, <2>1, <3>2, <4>1 DEF Op
        <4> QED
          BY <2>1, <3>2, <4>2, ListConstants DEF HasItem
      <3> QED
        BY <3>1, <3>2
    <2>4. op' = [op EXCEPT ![t] = q]
      BY <1>17 DEF PrintStep, Step, o
    <2> HIDE DEF q
    <2>3. op' \in [Thread -> Op] /\ Pointers'
      BY <1>1, <1>2, <2>2, <2>4, StepTyped
    <2> QED
      BY <1>1, <1>17, <2>3 DEF PrintStep, Histories, ListTypeOK
  <1> QED
    BY <1>4, <1>5, <1>6, <1>7, <1>8, <1>9, <1>10, <1>11, <1>12, <1>13, <1>14, <1>15, <1>16, <1>17,
       <1>18, <1>19, <1>20
    DEF Call, Walk

(***************************************************************************)
(* Whatever the threads do, the pointers of the list and of the calls in   *)
(* progress point to memory for Items or nowhere, and number_of_items is a *)
(* number of 32 bits.                                                      *)
(***************************************************************************)
LEMMA InitTyped ==
  ASSUME InitList
  PROVE  ListTyped
  <1>1. PICK s \in Seq(Item) :
          /\ Len(s) \in 0 .. 2 /\ Len(s) <= Counts - 1 /\ Len(s) = number_of_items
          /\ head = IF Len(s) = 0 THEN Null ELSE s[1]
          /\ next \in [Item -> Pointer]
          /\ allocated = { s[k] : k \in 1 .. Len(s) }
          /\ alone = allocated /\ linked = allocated
          /\ op = [t \in Thread |-> Idle] /\ ops = 0
          /\ serial = TRUE /\ clash = FALSE /\ mixed = FALSE /\ freed = {} /\ reused = FALSE
    BY InitShape
  <1>2. head \in Pointer /\ allocated \subseteq Item
    BY <1>1, ListConstants
  <1>3. op \in [Thread -> Op] /\ Pointers
    BY <1>1, IdleTyped DEF Pointers
  <1>4. number_of_items \in 0 .. Counts - 1 /\ ops \in 0 .. MaxOps
    BY <1>1, ListConstants
  <1> QED
    BY <1>1, <1>2, <1>3, <1>4 DEF ListTyped, ListTypeOK

LEMMA NextTyped == ListTyped /\ [ListNext]_listVars => ListTyped'
  <1> SUFFICES ASSUME ListTyped, [ListNext]_listVars PROVE ListTyped'
    OBVIOUS
  <1>1. CASE ListNext
    BY <1>1, CallTyped DEF ListNext
  <1>2. CASE UNCHANGED listVars
    BY <1>2 DEF ListTyped, ListTypeOK, Pointers, listVars
  <1> QED
    BY <1>1, <1>2

(***************************************************************************)
(* However the calls overlap, every pointer of the list and of the calls   *)
(* in progress points to memory for Items or nowhere, and number_of_items  *)
(* keeps counting modulo its width.  It says nothing of which pointers are *)
(* null: that is NullOnlyByDelete.                                         *)
(***************************************************************************)
THEOREM ListTypes == ListSpec => []ListTypeOK
  <1>1. ListTyped => ListTypeOK
    BY DEF ListTyped
  <1> QED
    BY <1>1, InitTyped, NextTyped, PTL DEF ListSpec

(***************************************************************************)
(* What keeps a walk off freed memory while no two LL_deletes overlap.     *)
(* Live is what is allocated, but for the Item an LL_delete has unlinked   *)
(* and is about to free; Hands are the new Items no pointer leads to yet.  *)
(* The Items that are kept point at each other, no two at the same one and *)
(* none at the head, so that one pointer has to be turned to take an Item  *)
(* out, and the LL_delete in progress knows which.                         *)
(***************************************************************************)
Live == allocated \ { op[t].curr : t \in { u \in Thread : At(u, "free") } }

Hands == { op[t].item : t \in { u \in Thread : InHand(u) } }

OneDeletes == \A t, u \in Thread : Deleting(t) /\ Deleting(u) => t = u

EachItsOwn ==
  \A t, u \in Thread : InHand(t) /\ InHand(u) /\ op[t].item = op[u].item => t = u

Shape(K, h, n) ==
  /\ h \in K \cup {Null}
  /\ \A i \in K : n[i] \in K \cup {Null}
  /\ \A i, j \in K : n[i] = n[j] /\ n[i] # Null => i = j
  /\ \A i \in K : n[i] = h => h = Null

Apart(K, H, h, n) ==
  /\ H \subseteq K
  /\ h \notin H
  /\ \A i \in K : n[i] \notin H

Knows(o, K, H, h, n) ==
  /\ o.pc \in {"seek", "unlink"} =>
       /\ o.curr \in (K \ H) \cup {Null} /\ o.prev \in (K \ H) \cup {Null}
       /\ o.curr # Null => /\ \A j \in K : n[j] = o.curr => j = o.prev
                           /\ h = o.curr => o.prev = Null
                           /\ o.prev # o.curr
  /\ o.pc = "unlink" =>
       /\ o.curr # Null /\ o.item # o.curr
       /\ o.item \in (K \ H) \cup {Null}
       /\ o.item # Null => h # o.item /\ \A j \in K : n[j] = o.item => j = o.curr

DeleterKnows == \A t \in Thread : Knows(op[t], Live, Hands, head, next)

FreesAllocated == \A t \in Thread : At(t, "free") => op[t].curr \in allocated

ListSafe ==
  ~ clash =>
    /\ OneDeletes /\ EachItsOwn /\ FreesAllocated
    /\ Shape(Live, head, next)
    /\ Apart(Live, Hands, head, next)
    /\ DeleterKnows

\* A new Item is in hand, and nothing points to it.
LEMMA NewItemApart ==
  ASSUME NEW K \in SUBSET Item, NEW H, NEW h, NEW n \in [Item -> Pointer], NEW i \in Item \ K,
         Shape(K, h, n), Apart(K, H, h, n)
  PROVE  /\ Shape(K \cup {i}, h, [n EXCEPT ![i] = Null])
         /\ Apart(K \cup {i}, H \cup {i}, h, [n EXCEPT ![i] = Null])
         /\ \A o : Knows(o, K, H, h, n) =>
                     Knows(o, K \cup {i}, H \cup {i}, h, [n EXCEPT ![i] = Null])
  <1> DEFINE m == [n EXCEPT ![i] = Null]
  <1>1. m[i] = Null /\ \A j \in K : m[j] = n[j]
    OBVIOUS
  <1>2. Null \notin K /\ i # Null
    BY ListConstants
  <1> HIDE DEF m
  <1>3. Shape(K \cup {i}, h, m)
    BY <1>1, <1>2 DEF Shape
  <1>4. Apart(K \cup {i}, H \cup {i}, h, m)
    BY <1>1, <1>2 DEF Shape, Apart
  <1>5. ASSUME NEW o, Knows(o, K, H, h, n) PROVE Knows(o, K \cup {i}, H \cup {i}, h, m)
    BY <1>1, <1>2, <1>5 DEF Shape, Apart, Knows
  <1> QED
    BY <1>3, <1>4, <1>5 DEF m

\* The first Item of an empty list.
LEMMA FirstItem ==
  ASSUME NEW K \in SUBSET Item, NEW H, NEW h, NEW n \in [Item -> Pointer], NEW i \in H,
         Shape(K, h, n), Apart(K, H, h, n)
  PROVE  /\ Shape(K, i, n)
         /\ Apart(K, H \ {i}, i, n)
         /\ \A o : Knows(o, K, H, h, n) => Knows(o, K, H \ {i}, i, n)
  <1>1. Null \notin K /\ i \in K
    BY ListConstants DEF Apart
  <1>2. Shape(K, i, n)
    BY <1>1 DEF Shape, Apart
  <1>3. Apart(K, H \ {i}, i, n)
    BY <1>1 DEF Apart
  <1>4. ASSUME NEW o, Knows(o, K, H, h, n) PROVE Knows(o, K, H \ {i}, i, n)
    BY <1>1, <1>4 DEF Apart, Knows
  <1> QED
    BY <1>2, <1>3, <1>4

\* An Item in hand is linked behind c, which may have been freed meanwhile.
LEMMA LinkedItem ==
  ASSUME NEW K \in SUBSET Item, NEW H, NEW h, NEW n \in [Item -> Pointer], NEW i \in H,
         NEW c \in Item, Shape(K, h, n), Apart(K, H, h, n)
  PROVE  /\ Shape(K, h, [n EXCEPT ![c] = i])
         /\ Apart(K, H \ {i}, h, [n EXCEPT ![c] = i])
         /\ \A o : Knows(o, K, H, h, n) => Knows(o, K, H \ {i}, h, [n EXCEPT ![c] = i])
  <1> DEFINE m == [n EXCEPT ![c] = i]
  <1>1. Null \notin K /\ i \in K /\ i # Null
    BY ListConstants DEF Apart
  <1>2. \A j \in K : m[j] = IF j = c THEN i ELSE n[j]
    OBVIOUS
  <1> HIDE DEF m
  <1>3. Shape(K, h, m)
    BY <1>1, <1>2 DEF Shape, Apart
  <1>4. Apart(K, H \ {i}, h, m)
    BY <1>1, <1>2 DEF Apart
  <1>5. ASSUME NEW o, Knows(o, K, H, h, n) PROVE Knows(o, K, H \ {i}, h, m)
    BY <1>1, <1>2, <1>5 DEF Apart, Knows
  <1> QED
    BY <1>3, <1>4, <1>5 DEF m

\* An LL_delete turns the pointer that led to the Item it has found.
LEMMA UnlinkedItem ==
  ASSUME NEW K \in SUBSET Item, NEW H, NEW h, NEW n \in [Item -> Pointer], NEW o,
         Shape(K, h, n), Apart(K, H, h, n), o.pc = "unlink", Knows(o, K, H, h, n),
         NEW g, NEW m,
         \/ o.prev = Null /\ g = o.item /\ m = n
         \/ o.prev # Null /\ g = h /\ m = [n EXCEPT ![o.prev] = o.item]
  PROVE  /\ Shape(K \ {o.curr}, g, m)
         /\ Apart(K \ {o.curr}, H, g, m)
  <1>1. /\ Null \notin K /\ o.curr \in K \ H /\ o.item # o.curr
        /\ o.item \in (K \ H) \cup {Null} /\ o.prev \in (K \ H) \cup {Null} /\ o.prev # o.curr
        /\ \A j \in K : n[j] = o.curr => j = o.prev
        /\ h = o.curr => o.prev = Null
        /\ o.item # Null => h # o.item /\ \A j \in K : n[j] = o.item => j = o.curr
    BY ListConstants DEF Knows
  <1>2. CASE o.prev = Null /\ g = o.item /\ m = n
    BY <1>1, <1>2 DEF Shape, Apart
  <1>3. CASE o.prev # Null /\ g = h /\ m = [n EXCEPT ![o.prev] = o.item]
    <2>1. \A j \in K : m[j] = IF j = o.prev THEN o.item ELSE n[j]
      BY <1>3
    <2> QED
      BY <1>1, <1>3, <2>1 DEF Shape, Apart
  <1> QED
    BY <1>2, <1>3

\* The parts of ListSafe while a thread t goes on to q and the sets stay.
InHandOf(o) == o.pc \in {"count", "empty", "first", "start", "walk", "step", "link", "fault"}

DeletingOf(o) == o.pc \in {"check", "enter", "seek", "unlink", "free", "uncount"}

\* The Items the calls of other threads are about to free, and hold.
OthersFree(t) == { op[u].curr : u \in { v \in Thread \ {t} : At(v, "free") } }

OthersHold(t) == { op[u].item : u \in { v \in Thread \ {t} : InHand(v) } }

Freeing(o) == IF o.pc = "free" THEN {o.curr} ELSE {}

Holding(o) == IF InHandOf(o) THEN {o.item} ELSE {}

LEMMA SetsAfter ==
  ASSUME op \in [Thread -> Op], NEW t \in Thread, NEW q, op' = [op EXCEPT ![t] = q]
  PROVE  /\ Live = allocated \ (OthersFree(t) \cup Freeing(op[t]))
         /\ Live' = allocated' \ (OthersFree(t) \cup Freeing(q))
         /\ Hands = OthersHold(t) \cup Holding(op[t])
         /\ Hands' = OthersHold(t) \cup Holding(q)
  <1>1. \A u \in Thread : op'[u] = IF u = t THEN q ELSE op[u]
    OBVIOUS
  <1>2. { op[u].curr : u \in { v \in Thread : op[v].pc = "free" } } = OthersFree(t) \cup Freeing(op[t])
    BY DEF OthersFree, Freeing, At
  <1>3. { op'[u].curr : u \in { v \in Thread : op'[v].pc = "free" } } = OthersFree(t) \cup Freeing(q)
    BY <1>1 DEF OthersFree, Freeing, At
  <1>4. { op[u].item : u \in { v \in Thread : InHandOf(op[v]) } } = OthersHold(t) \cup Holding(op[t])
    BY DEF OthersHold, Holding, InHand, InHandOf
  <1>5. { op'[u].item : u \in { v \in Thread : InHandOf(op'[v]) } } = OthersHold(t) \cup Holding(q)
    BY <1>1 DEF OthersHold, Holding, InHand, InHandOf
  <1>6. Live = allocated \ (OthersFree(t) \cup Freeing(op[t]))
    BY <1>2 DEF Live, At
  <1>7. Live' = allocated' \ (OthersFree(t) \cup Freeing(q))
    BY <1>3 DEF Live, At
  <1>8. Hands = OthersHold(t) \cup Holding(op[t])
    BY <1>4 DEF Hands, InHand, InHandOf
  <1>9. Hands' = OthersHold(t) \cup Holding(q)
    BY <1>5 DEF Hands, InHand, InHandOf
  <1> QED
    BY <1>6, <1>7, <1>8, <1>9

\* The parts of ListSafe' that speak of the calls, whatever becomes of the list.
LEMMA CallsAfter ==
  ASSUME op \in [Thread -> Op], OneDeletes, EachItsOwn, FreesAllocated,
         NEW t \in Thread, NEW q, op' = [op EXCEPT ![t] = q],
         DeletingOf(q) => Deleting(t) \/ \A u \in Thread : u # t => ~ Deleting(u),
         InHandOf(q) => \/ InHand(t) /\ q.item = op[t].item
                        \/ \A u \in Thread : InHand(u) => op[u].item # q.item,
         q.pc = "free" => q.curr \in allocated',
         \/ allocated \subseteq allocated'
         \/ At(t, "free") /\ allocated' = allocated \ {op[t].curr}
  PROVE  OneDeletes' /\ EachItsOwn' /\ FreesAllocated'
  <1>1. \A u \in Thread : op'[u] = IF u = t THEN q ELSE op[u]
    OBVIOUS
  <1>2. OneDeletes'
    BY <1>1 DEF OneDeletes, Deleting, DeletingOf
  <1>3. EachItsOwn'
    BY <1>1 DEF EachItsOwn, InHand, InHandOf
  <1>4. FreesAllocated'
    BY <1>1 DEF FreesAllocated, OneDeletes, Deleting, At
  <1> QED
    BY <1>2, <1>3, <1>4

\* Calls that leave the list alone, and hold what they held.
LEMMA QuietStep ==
  ASSUME op \in [Thread -> Op], OneDeletes, EachItsOwn, FreesAllocated,
         Shape(Live, head, next), Apart(Live, Hands, head, next), DeleterKnows,
         NEW t \in Thread, NEW q, op' = [op EXCEPT ![t] = q],
         UNCHANGED <<head, next, allocated>>,
         ~ At(t, "free"), q.pc # "free",
         DeletingOf(q) => Deleting(t) \/ \A u \in Thread : u # t => ~ Deleting(u),
         InHandOf(q) <=> InHand(t), InHand(t) => q.item = op[t].item,
         Knows(q, Live, Hands, head, next)
  PROVE  /\ OneDeletes' /\ EachItsOwn' /\ FreesAllocated'
         /\ Shape(Live, head, next)' /\ Apart(Live, Hands, head, next)' /\ DeleterKnows'
  <1>1. OneDeletes' /\ EachItsOwn' /\ FreesAllocated'
    BY CallsAfter
  <1>2. Live' = Live
    <2>1. /\ Live = allocated \ (OthersFree(t) \cup Freeing(op[t]))
          /\ Live' = allocated' \ (OthersFree(t) \cup Freeing(q))
      BY SetsAfter
    <2>2. Freeing(op[t]) = {} /\ Freeing(q) = {}
      BY DEF Freeing, At
    <2> QED
      BY <2>1, <2>2
  <1>3. Hands' = Hands
    <2>1. Hands = OthersHold(t) \cup Holding(op[t]) /\ Hands' = OthersHold(t) \cup Holding(q)
      BY SetsAfter
    <2>2. Holding(op[t]) = Holding(q)
      BY DEF Holding, InHand, InHandOf
    <2> QED
      BY <2>1, <2>2
  <1>4. \A u \in Thread : op'[u] = IF u = t THEN q ELSE op[u]
    OBVIOUS
  <1>5. DeleterKnows'
    BY <1>2, <1>3, <1>4 DEF DeleterKnows
  <1> QED
    BY <1>1, <1>2, <1>3, <1>5

\* A thread that is in none of the steps Knows speaks of.
LEMMA NothingToKnow ==
  ASSUME NEW q, q.pc \notin {"seek", "unlink"}, NEW K, NEW H, NEW h, NEW n
  PROVE  Knows(q, K, H, h, n)
  BY DEF Knows

LEMMA CallSafe ==
  ASSUME ListTyped, ListSafe, NEW t \in Thread, Call(t)
  PROVE  ListSafe'
  <1> SUFFICES ASSUME ~ clash'
               PROVE  /\ OneDeletes' /\ EachItsOwn' /\ FreesAllocated'
                      /\ Shape(Live, head, next)' /\ Apart(Live, Hands, head, next)' /\ DeleterKnows'
    BY DEF ListSafe
  <1> DEFINE o == op[t]
  <1>1. ~ clash
    BY DEF Call, Walk, AddBegin, AddCount, AddTest, AddFirst, AddStart, AddWalk, AddNext, AddLink,
           DeleteBegin, DeleteCheck, DeleteEnter, DeleteSeek, DeleteUnlink, DeleteFree, DeleteCount, PrintBegin, PrintStep,
           Histories
  <1>2. /\ OneDeletes /\ EachItsOwn /\ FreesAllocated
        /\ Shape(Live, head, next) /\ Apart(Live, Hands, head, next) /\ DeleterKnows
    BY <1>1 DEF ListSafe
  <1>3. /\ op \in [Thread -> Op] /\ next \in [Item -> Pointer] /\ allocated \subseteq Item
        /\ Live \subseteq allocated /\ Live \in SUBSET Item /\ Null \notin Live
        /\ o \in Op /\ HasItem(o)
    BY ListConstants DEF ListTyped, ListTypeOK, Pointers, Live
  <1>4. Knows(o, Live, Hands, head, next)
    BY <1>2 DEF DeleterKnows
  <1>5. InHandOf(o) => o.item \in Hands /\ o.item \in Live
    BY <1>2 DEF Hands, InHand, InHandOf, Apart
  <1>6. \A u \in Thread : InHand(u) => op[u].item \in Hands
    BY DEF Hands
  <1> HIDE DEF o
  <1>7. CASE AddBegin(t)
    <2>1. PICK i \in Item \ allocated :
            /\ Begins(t, [Idle EXCEPT !.pc = "count", !.item = i, !.count = number_of_items], {i})
            /\ allocated' = allocated \cup {i}
            /\ next' = [next EXCEPT ![i] = Null]
            /\ UNCHANGED head
      BY <1>7 DEF AddBegin
    <2> DEFINE q == [Idle EXCEPT !.pc = "count", !.item = i, !.count = number_of_items]
    <2>2. q.pc = "count" /\ q.item = i /\ o.pc = "idle" /\ op' = [op EXCEPT ![t] = q]
      BY <2>1, IdleTyped DEF Begins, Busy, Op, o
    <2> HIDE DEF q
    <2>3. i \notin Live /\ \A u \in Thread : InHand(u) => op[u].item # i
      BY <1>2, <1>3, <1>6, <2>1 DEF Apart
    <2>4. OneDeletes' /\ EachItsOwn' /\ FreesAllocated'
      BY <1>2, <1>3, <2>1, <2>2, <2>3, CallsAfter DEF DeletingOf
    <2>5. Live' = Live \cup {i}
      <3>1. \A u \in Thread : At(u, "free") => op[u].curr # i
        BY <1>2, <2>1 DEF FreesAllocated
      <3>2. i \notin OthersFree(t)
        BY <3>1 DEF OthersFree
      <3>3. Freeing(o) = {} /\ Freeing(q) = {}
        BY <2>2 DEF Freeing
      <3>4. /\ Live = allocated \ (OthersFree(t) \cup Freeing(o))
            /\ Live' = allocated' \ (OthersFree(t) \cup Freeing(q))
        BY <1>3, <2>2, SetsAfter DEF o
      <3> QED
        BY <2>1, <3>2, <3>3, <3>4
    <2>6. Hands' = Hands \cup {i}
      <3>1. Holding(o) = {} /\ Holding(q) = {i}
        BY <2>2 DEF Holding, InHandOf
      <3>2. Hands = OthersHold(t) \cup Holding(o) /\ Hands' = OthersHold(t) \cup Holding(q)
        BY <1>3, <2>2, SetsAfter DEF o
      <3> QED
        BY <3>1, <3>2
    <2>7. /\ Shape(Live, head, next)' /\ Apart(Live, Hands, head, next)'
          /\ \A p : Knows(p, Live, Hands, head, next) => Knows(p, Live', Hands', head', next')
      BY <1>2, <1>3, <2>1, <2>3, <2>5, <2>6, NewItemApart
    <2>8. \A u \in Thread : op'[u] = IF u = t THEN q ELSE op[u]
      BY <1>3, <2>2
    <2>9. DeleterKnows'
      BY <1>2, <2>2, <2>7, <2>8, NothingToKnow DEF DeleterKnows
    <2> QED
      BY <2>4, <2>7, <2>9
  <1>8. CASE AddCount(t)
    <2> DEFINE q == [o EXCEPT !.pc = "empty"]
    <2>1. /\ q.pc = "empty" /\ q.item = o.item /\ o.pc = "count" /\ op' = [op EXCEPT ![t] = q]
          /\ UNCHANGED <<head, next, allocated>>
      BY <1>3, <1>8 DEF AddCount, At, Goto, Step, Op, o
    <2> HIDE DEF q
    <2>2. Knows(q, Live, Hands, head, next)
      BY <2>1, NothingToKnow
    <2> QED
      BY <1>2, <1>3, <2>1, <2>2, QuietStep DEF At, InHand, InHandOf, DeletingOf, o
  <1>9. CASE AddTest(t)
    <2> DEFINE q == [o EXCEPT !.pc = IF head = Null THEN "first" ELSE "start"]
    <2>1. /\ q.pc \in {"first", "start"} /\ q.item = o.item /\ o.pc = "empty"
          /\ op' = [op EXCEPT ![t] = q] /\ UNCHANGED <<head, next, allocated>>
      BY <1>3, <1>9 DEF AddTest, At, Goto, Step, Op, o
    <2> HIDE DEF q
    <2>2. Knows(q, Live, Hands, head, next)
      BY <2>1, NothingToKnow
    <2> QED
      BY <1>2, <1>3, <2>1, <2>2, QuietStep DEF At, InHand, InHandOf, DeletingOf, o
  <1>10. CASE AddFirst(t)
    <2>1. o.pc = "first" /\ op' = [op EXCEPT ![t] = Idle] /\ UNCHANGED <<next, allocated>>
          /\ head' = o.item /\ InHandOf(o)
      BY <1>10 DEF AddFirst, At, Step, InHandOf, o
    <2>2. OneDeletes' /\ EachItsOwn' /\ FreesAllocated'
      BY <1>2, <1>3, <2>1, IdleTyped, CallsAfter DEF DeletingOf, InHandOf
    <2>3. Live' = Live /\ Hands' = Hands \ {o.item}
      <3>1. /\ Freeing(o) = {} /\ Freeing(Idle) = {}
            /\ Holding(o) = {o.item} /\ Holding(Idle) = {}
        BY <2>1, IdleTyped DEF Freeing, Holding, InHandOf
      <3>2. o.item \notin OthersHold(t)
        BY <1>2, <2>1 DEF EachItsOwn, OthersHold, InHand, InHandOf, o
      <3>3. /\ Live = allocated \ (OthersFree(t) \cup Freeing(o))
            /\ Live' = allocated' \ (OthersFree(t) \cup Freeing(Idle))
            /\ Hands = OthersHold(t) \cup Holding(o)
            /\ Hands' = OthersHold(t) \cup Holding(Idle)
        BY <1>3, <2>1, SetsAfter DEF o
      <3> QED
        BY <2>1, <3>1, <3>2, <3>3
    <2>4. /\ Shape(Live, head, next)' /\ Apart(Live, Hands, head, next)'
          /\ \A p : Knows(p, Live, Hands, head, next) => Knows(p, Live', Hands', head', next')
      BY <1>2, <1>3, <1>5, <2>1, <2>3, FirstItem
    <2>5. \A u \in Thread : op'[u] = IF u = t THEN Idle ELSE op[u]
      BY <1>3, <2>1
    <2>6. DeleterKnows'
      BY <1>2, <2>4, <2>5, IdleTyped, NothingToKnow DEF DeleterKnows
    <2> QED
      BY <2>2, <2>4, <2>6
  <1>21. CASE AddStart(t)
    <2> DEFINE q == [o EXCEPT !.pc = "walk", !.curr = head]
    <2>1. /\ q.pc \in {"walk"} /\ q.item = o.item /\ o.pc = "start"
          /\ op' = [op EXCEPT ![t] = q] /\ UNCHANGED <<head, next, allocated>>
      BY <1>3, <1>21 DEF AddStart, At, Goto, Step, Op, o
    <2> HIDE DEF q
    <2>2. Knows(q, Live, Hands, head, next)
      BY <2>1, NothingToKnow
    <2> QED
      BY <1>2, <1>3, <2>1, <2>2, QuietStep DEF At, InHand, InHandOf, DeletingOf, o
  <1>11. CASE AddWalk(t)
    <2> DEFINE q == [o EXCEPT !.pc = IF o.curr = Null THEN "fault"
                                     ELSE IF next[o.curr] = Null THEN "link" ELSE "step"]
    <2>1. /\ q.pc \in {"fault", "link", "step"} /\ q.item = o.item /\ o.pc = "walk"
          /\ op' = [op EXCEPT ![t] = q] /\ UNCHANGED <<head, next, allocated>>
      BY <1>3, <1>11 DEF AddWalk, At, Goto, Step, Op, o
    <2> HIDE DEF q
    <2>2. Knows(q, Live, Hands, head, next)
      BY <2>1, NothingToKnow
    <2> QED
      BY <1>2, <1>3, <2>1, <2>2, QuietStep DEF At, InHand, InHandOf, DeletingOf, o
  <1>22. CASE AddNext(t)
    <2> DEFINE q == [o EXCEPT !.pc = "walk", !.curr = next[o.curr]]
    <2>1. /\ q.pc \in {"walk"} /\ q.item = o.item /\ o.pc = "step"
          /\ op' = [op EXCEPT ![t] = q] /\ UNCHANGED <<head, next, allocated>>
      BY <1>3, <1>22 DEF AddNext, At, Goto, Step, Op, o
    <2> HIDE DEF q
    <2>2. Knows(q, Live, Hands, head, next)
      BY <2>1, NothingToKnow
    <2> QED
      BY <1>2, <1>3, <2>1, <2>2, QuietStep DEF At, InHand, InHandOf, DeletingOf, o
  <1>12. CASE AddLink(t)
    <2>1. /\ o.pc = "link" /\ op' = [op EXCEPT ![t] = Idle] /\ UNCHANGED <<head, allocated>>
          /\ next' = [next EXCEPT ![o.curr] = o.item] /\ InHandOf(o) /\ o.curr \in Item
      BY <1>3, <1>12 DEF AddLink, At, Step, InHandOf, HasItem, o
    <2>2. OneDeletes' /\ EachItsOwn' /\ FreesAllocated'
      BY <1>2, <1>3, <2>1, IdleTyped, CallsAfter DEF DeletingOf, InHandOf
    <2>3. Live' = Live /\ Hands' = Hands \ {o.item}
      <3>1. /\ Freeing(o) = {} /\ Freeing(Idle) = {}
            /\ Holding(o) = {o.item} /\ Holding(Idle) = {}
        BY <2>1, IdleTyped DEF Freeing, Holding, InHandOf
      <3>2. o.item \notin OthersHold(t)
        BY <1>2, <2>1 DEF EachItsOwn, OthersHold, InHand, InHandOf, o
      <3>3. /\ Live = allocated \ (OthersFree(t) \cup Freeing(o))
            /\ Live' = allocated' \ (OthersFree(t) \cup Freeing(Idle))
            /\ Hands = OthersHold(t) \cup Holding(o)
            /\ Hands' = OthersHold(t) \cup Holding(Idle)
        BY <1>3, <2>1, SetsAfter DEF o
      <3> QED
        BY <2>1, <3>1, <3>2, <3>3
    <2>4. /\ Shape(Live, head, next)' /\ Apart(Live, Hands, head, next)'
          /\ \A p : Knows(p, Live, Hands, head, next) => Knows(p, Live', Hands', head', next')
      BY <1>2, <1>3, <1>5, <2>1, <2>3, LinkedItem
    <2>5. \A u \in Thread : op'[u] = IF u = t THEN Idle ELSE op[u]
      BY <1>3, <2>1
    <2>6. DeleterKnows'
      BY <1>2, <2>4, <2>5, IdleTyped, NothingToKnow DEF DeleterKnows
    <2> QED
      BY <2>2, <2>4, <2>6
  <1>13. CASE DeleteBegin(t)
    <2>1. PICK n \in 0 .. Cardinality(Item) : Begins(t, [Idle EXCEPT !.pc = "check", !.n = n], {})
      BY <1>13 DEF DeleteBegin
    <2> DEFINE q == [Idle EXCEPT !.pc = "check", !.n = n]
    <2>2. q.pc = "check" /\ o.pc = "idle" /\ op' = [op EXCEPT ![t] = q]
      BY <2>1, IdleTyped DEF Begins, Busy, Op, o
    <2> HIDE DEF q
    <2>3. \A u \in Thread : u # t => ~ Deleting(u)
      BY <1>13 DEF DeleteBegin, Others, Deleting, Busy
    <2>4. UNCHANGED <<head, next, allocated>>
      BY <1>13 DEF DeleteBegin
    <2>5. Knows(q, Live, Hands, head, next)
      BY <2>2, NothingToKnow
    <2> QED
      BY <1>2, <1>3, <2>2, <2>3, <2>4, <2>5, QuietStep DEF At, InHand, InHandOf, o
  <1>14. CASE DeleteCheck(t)
    <2> DEFINE q == IF o.n > number_of_items THEN Idle ELSE [o EXCEPT !.pc = "enter"]
    <2>1. /\ op' = [op EXCEPT ![t] = q] /\ UNCHANGED <<head, next, allocated>> /\ o.pc = "check"
      BY <1>14 DEF DeleteCheck, At, Goto, Step, o
    <2>2. q.pc \in {"idle", "enter"}
      BY <1>3, IdleTyped DEF Op
    <2> HIDE DEF q
    <2>3. Knows(q, Live, Hands, head, next)
      BY <2>2, NothingToKnow
    <2> QED
      BY <1>2, <1>3, <2>1, <2>2, <2>3, QuietStep DEF At, InHand, InHandOf, Deleting, o
  <1>23. CASE DeleteEnter(t)
    <2> DEFINE q == [o EXCEPT !.pc = "seek", !.curr = head]
    <2>1. /\ op' = [op EXCEPT ![t] = q] /\ UNCHANGED <<head, next, allocated>> /\ o.pc = "enter"
          /\ q.pc = "seek" /\ q.curr = head /\ q.prev = Null
      BY <1>3, <1>23 DEF DeleteEnter, At, Step, HasItem, Op, o
    <2> HIDE DEF q
    <2>3. Knows(q, Live, Hands, head, next)
      BY <1>2, <1>3, <2>1 DEF Shape, Apart, Knows
    <2> QED
      BY <1>2, <1>3, <2>1, <2>3, QuietStep DEF At, InHand, InHandOf, Deleting, o
  <1>15. CASE DeleteSeek(t)
    <2>1. PICK q : /\ op' = [op EXCEPT ![t] = q]
                   /\ \/ q = Idle
                      \/ o.curr # Null /\ q = [o EXCEPT !.pc = "unlink", !.item = next[o.curr]]
                      \/ /\ o.curr # Null
                         /\ q = [o EXCEPT !.prev = o.curr, !.curr = next[o.curr], !.i = @ + 1]
      BY <1>15 DEF DeleteSeek, Step, o
    <2>2. o.pc = "seek" /\ UNCHANGED <<head, next, allocated>>
      BY <1>15 DEF DeleteSeek, At, o
    <2>3. \/ q.pc = "idle"
          \/ /\ o.curr # Null /\ q.pc = "unlink" /\ q.item = next[o.curr] /\ q.curr = o.curr
             /\ q.prev = o.prev
          \/ o.curr # Null /\ q.pc = "seek" /\ q.prev = o.curr /\ q.curr = next[o.curr]
      BY <1>3, <2>1, <2>2, IdleTyped DEF Op
    <2>4. o.curr # Null => o.curr \in Live \ Hands /\ next[o.curr] # o.curr
      BY <1>4, <2>2 DEF Knows
    <2>5. Knows(q, Live, Hands, head, next)
      BY <1>2, <1>3, <1>4, <2>2, <2>3, <2>4 DEF Shape, Apart, Knows
    <2> QED
      BY <1>2, <1>3, <2>1, <2>2, <2>3, <2>5, QuietStep DEF At, InHand, InHandOf, Deleting, o
  <1>16. CASE DeleteUnlink(t)
    <2> DEFINE q == [o EXCEPT !.pc = "free"]
    <2>1. /\ q.pc = "free" /\ q.curr = o.curr /\ o.pc = "unlink" /\ op' = [op EXCEPT ![t] = q]
          /\ UNCHANGED allocated
          /\ \/ o.prev = Null /\ head' = o.item /\ next' = next
             \/ o.prev # Null /\ head' = head /\ next' = [next EXCEPT ![o.prev] = o.item]
      BY <1>3, <1>16 DEF DeleteUnlink, At, Goto, Step, Op, o
    <2> HIDE DEF q
    <2>2. o.curr \in allocated
      BY <1>3, <1>4, <2>1 DEF Knows
    <2>3. OneDeletes' /\ EachItsOwn' /\ FreesAllocated'
      BY <1>2, <1>3, <2>1, <2>2, CallsAfter DEF DeletingOf, InHandOf, Deleting, o
    <2>4. Live' = Live \ {o.curr} /\ Hands' = Hands
      <3>1. /\ Freeing(o) = {} /\ Freeing(q) = {o.curr}
            /\ Holding(o) = {} /\ Holding(q) = {}
        BY <2>1 DEF Freeing, Holding, InHandOf
      <3>2. /\ Live = allocated \ (OthersFree(t) \cup Freeing(o))
            /\ Live' = allocated' \ (OthersFree(t) \cup Freeing(q))
            /\ Hands = OthersHold(t) \cup Holding(o)
            /\ Hands' = OthersHold(t) \cup Holding(q)
        BY <1>3, <2>1, SetsAfter DEF o
      <3> QED
        BY <2>1, <3>1, <3>2
    <2>5. Shape(Live, head, next)' /\ Apart(Live, Hands, head, next)'
      BY <1>2, <1>3, <1>4, <2>1, <2>4, UnlinkedItem
    <2>6. \A u \in Thread : u # t => op'[u] = op[u] /\ op[u].pc \notin {"seek", "unlink"}
      BY <1>2, <1>3, <2>1 DEF OneDeletes, Deleting, o
    <2>7. op'[t] = q
      BY <1>3, <2>1
    <2>8. DeleterKnows'
      BY <2>1, <2>6, <2>7, NothingToKnow DEF DeleterKnows
    <2> QED
      BY <2>3, <2>5, <2>8
  <1>17. CASE DeleteFree(t)
    <2> DEFINE q == [o EXCEPT !.pc = "uncount", !.count = number_of_items]
    <2>1. /\ q.pc = "uncount" /\ o.pc = "free" /\ op' = [op EXCEPT ![t] = q]
          /\ allocated' = allocated \ {o.curr} /\ UNCHANGED <<head, next>>
      BY <1>3, <1>17 DEF DeleteFree, At, Step, Op, o
    <2> HIDE DEF q
    <2>2. OneDeletes' /\ EachItsOwn' /\ FreesAllocated'
      BY <1>2, <1>3, <2>1, CallsAfter DEF DeletingOf, InHandOf, Deleting, At, o
    <2>3. Live' = Live /\ Hands' = Hands
      <3>1. /\ Freeing(o) = {o.curr} /\ Freeing(q) = {}
            /\ Holding(o) = {} /\ Holding(q) = {}
        BY <2>1 DEF Freeing, Holding, InHandOf
      <3>2. /\ Live = allocated \ (OthersFree(t) \cup Freeing(o))
            /\ Live' = allocated' \ (OthersFree(t) \cup Freeing(q))
            /\ Hands = OthersHold(t) \cup Holding(o)
            /\ Hands' = OthersHold(t) \cup Holding(q)
        BY <1>3, <2>1, SetsAfter DEF o
      <3> QED
        BY <2>1, <3>1, <3>2
    <2>4. \A u \in Thread : op'[u] = IF u = t THEN q ELSE op[u]
      BY <1>3, <2>1
    <2>5. DeleterKnows'
      BY <1>2, <2>1, <2>3, <2>4, NothingToKnow DEF DeleterKnows
    <2> QED
      BY <1>2, <2>1, <2>2, <2>3, <2>5
  <1>18. CASE DeleteCount(t)
    <2>1. op' = [op EXCEPT ![t] = Idle] /\ UNCHANGED <<head, next, allocated>> /\ o.pc = "uncount"
      BY <1>18 DEF DeleteCount, At, Step, o
    <2>2. Knows(Idle, Live, Hands, head, next)
      BY IdleTyped, NothingToKnow
    <2> QED
      BY <1>2, <1>3, <2>1, <2>2, IdleTyped, QuietStep DEF At, InHand, InHandOf, DeletingOf, o
  <1>19. CASE PrintBegin(t)
    <2> DEFINE d == ToSet(Chain)
               q == [Idle EXCEPT !.pc = "print", !.curr = head, !.due = d]
    <2>1. /\ q.pc = "print" /\ o.pc = "idle" /\ op' = [op EXCEPT ![t] = q]
          /\ UNCHANGED <<head, next, allocated>>
      BY <1>19, IdleTyped DEF PrintBegin, Step, Busy, Op, o
    <2> HIDE DEF q
    <2>2. Knows(q, Live, Hands, head, next)
      BY <2>1, NothingToKnow
    <2> QED
      BY <1>2, <1>3, <2>1, <2>2, QuietStep DEF At, InHand, InHandOf, DeletingOf, o
  <1>20. CASE PrintStep(t)
    <2>1. PICK q : op' = [op EXCEPT ![t] = q] /\ q.pc \in {"idle", "print"}
      <3>1. \/ op' = [op EXCEPT ![t] = Idle]
            \/ op' = [op EXCEPT ![t] = [o EXCEPT !.curr = next[o.curr], !.due = @ \ {o.curr}]]
        BY <1>20 DEF PrintStep, Step, o
      <3>2. [o EXCEPT !.curr = next[o.curr], !.due = @ \ {o.curr}].pc = "print"
        BY <1>3, <1>20 DEF PrintStep, At, Op, o
      <3> QED
        BY <3>1, <3>2, IdleTyped
    <2>2. UNCHANGED <<head, next, allocated>> /\ o.pc = "print"
      BY <1>20 DEF PrintStep, At, o
    <2>3. Knows(q, Live, Hands, head, next)
      BY <2>1, NothingToKnow
    <2> QED
      BY <1>2, <1>3, <2>1, <2>2, <2>3, QuietStep DEF At, InHand, InHandOf, DeletingOf, o
  <1> QED
    BY <1>7, <1>8, <1>9, <1>10, <1>11, <1>12, <1>13, <1>14, <1>15, <1>16, <1>17, <1>18, <1>19, <1>20,
       <1>21, <1>22, <1>23
    DEF Call, Walk

LEMMA InitSafe ==
  ASSUME InitList
  PROVE  ListSafe
  <1>1. PICK s \in Seq(Item) :
          /\ Len(s) \in 0 .. 2
          /\ \A j, k \in 1 .. Len(s) : s[j] = s[k] => j = k
          /\ head = IF Len(s) = 0 THEN Null ELSE s[1]
          /\ \A i \in Item : next[i] = IF Len(s) = 2 /\ i = s[1] THEN s[2] ELSE Null
          /\ allocated = { s[k] : k \in 1 .. Len(s) }
          /\ op = [t \in Thread |-> Idle]
    BY InitShape
  <1>2. \A t \in Thread : op[t].pc = "idle"
    BY <1>1, IdleTyped
  <1>3. Live = allocated /\ Hands = {}
    BY <1>2 DEF Live, Hands, At, InHand
  <1>4. OneDeletes /\ EachItsOwn /\ FreesAllocated /\ DeleterKnows
    BY <1>2, NothingToKnow DEF OneDeletes, EachItsOwn, FreesAllocated, DeleterKnows, Deleting,
                               InHand, At
  <1>5. \/ allocated = {} /\ head = Null
        \/ \E x \in Item : allocated = {x} /\ head = x /\ next[x] = Null
        \/ \E x, y \in Item : /\ x # y /\ allocated = {x, y}
                              /\ head = x /\ next[x] = y /\ next[y] = Null
    <2>1. CASE Len(s) = 0
      BY <1>1, <2>1
    <2>2. CASE Len(s) = 1
      <3>1. s[1] \in Item /\ allocated = {s[1]}
        BY <1>1, <2>2
      <3> QED
        BY <1>1, <2>2, <3>1
    <2>3. CASE Len(s) = 2
      <3>1. s[1] \in Item /\ s[2] \in Item /\ s[1] # s[2]
        BY <1>1, <2>3
      <3>2. 1 .. Len(s) = {1, 2}
        BY <2>3
      <3>3. allocated = {s[1], s[2]}
        BY <1>1, <3>2
      <3> QED
        BY <1>1, <2>3, <3>1, <3>3
    <2> QED
      BY <1>1, <2>1, <2>2, <2>3
  <1>6. Shape(allocated, head, next)
    BY <1>5, ListConstants DEF Shape
  <1>7. Apart(allocated, {}, head, next)
    BY DEF Apart
  <1> QED
    BY <1>3, <1>4, <1>6, <1>7 DEF ListSafe

LEMMA NextSafe == ListTyped /\ ListSafe /\ [ListNext]_listVars => ListSafe'
  <1> SUFFICES ASSUME ListTyped, ListSafe, [ListNext]_listVars PROVE ListSafe'
    OBVIOUS
  <1>1. CASE ListNext
    BY <1>1, CallSafe DEF ListNext
  <1>2. CASE UNCHANGED listVars
    BY <1>2 DEF ListSafe, OneDeletes, EachItsOwn, FreesAllocated, DeleterKnows, Live, Hands,
                Deleting, InHand, At, listVars
  <1> QED
    BY <1>1, <1>2

(***************************************************************************)
(* Any number of threads may add, delete and print at the same time, one   *)
(* load and one store after the other: as long as no two LL_deletes        *)
(* overlap, what LL_delete has freed (functions.h:492) is no longer in the *)
(* list that begins at the head.                                           *)
(***************************************************************************)
THEOREM FreedNeverReached == ListSpec => []FreedUnreachable
  <1>1. ListTyped /\ ListSafe => FreedUnreachable
    <2> SUFFICES ASSUME ListTyped, ListSafe, ~ clash PROVE ToSet(Chain) \subseteq allocated
      BY DEF FreedUnreachable
    <2>1. Live \in SUBSET Item /\ Live \subseteq allocated
      BY DEF ListTyped, ListTypeOK, Live
    <2>2. head \in Live \cup {Null} /\ \A i \in Live : next[i] \in Live \cup {Null}
      BY DEF ListSafe, Shape
    <2>3. ToSet(ChainFrom(head)) \subseteq Live
      BY <2>1, <2>2, WalkStays
    <2> QED
      BY <2>1, <2>3 DEF Chain
  <1> QED
    BY <1>1, InitTyped, NextTyped, InitSafe, NextSafe, PTL DEF ListSpec

(***************************************************************************)
(* While no LL_add and LL_delete have met, an LL_add in progress has seen  *)
(* what is still so: what it stands on is in memory that is given out, and *)
(* a pointer it has found not null is not.                                 *)
(***************************************************************************)
AddsUnmet == \A t, u \in Thread : ~ (Deleting(t) /\ InHand(u))

Sees(o, h, n, A) ==
  /\ o.pc = "start" => h # Null
  /\ o.pc \in {"walk", "step", "link"} => o.curr \in A
  /\ o.pc = "step" => n[o.curr] # Null
  /\ o.pc # "fault"

AddsSee == \A t \in Thread : Sees(op[t], head, next, allocated)

NullSafe == ~ clash /\ ~ mixed => AddsUnmet /\ AddsSee

\* A thread's step that no LL_add in progress sees.
LEMMA SeesAfter ==
  ASSUME op \in [Thread -> Op], AddsUnmet, AddsSee,
         NEW t \in Thread, NEW q, op' = [op EXCEPT ![t] = q],
         InHandOf(q) => \A u \in Thread : u # t => ~ Deleting(u),
         DeletingOf(q) => \A u \in Thread : u # t => ~ InHand(u),
         Sees(q, head', next', allocated'),
         \A u \in Thread : u # t /\ InHand(u) =>
           /\ op[u].pc = "start" => head' # Null
           /\ op[u].curr \in allocated => op[u].curr \in allocated'
           /\ op[u].pc = "step" => next'[op[u].curr] # Null
  PROVE  AddsUnmet' /\ AddsSee'
  <1>1. \A u \in Thread : op'[u] = IF u = t THEN q ELSE op[u]
    OBVIOUS
  <1>2. InHandOf(q) => ~ DeletingOf(q)
    BY DEF InHandOf, DeletingOf
  <1>3. AddsUnmet'
    BY <1>1, <1>2 DEF AddsUnmet, Deleting, DeletingOf, InHand, InHandOf
  <1>4. ASSUME NEW u \in Thread, u # t PROVE Sees(op[u], head', next', allocated')
    <2>1. CASE InHand(u)
      BY <1>4, <2>1 DEF AddsSee, Sees
    <2>2. CASE ~ InHand(u)
      BY <1>4, <2>2 DEF AddsSee, Sees, InHand
    <2> QED
      BY <2>1, <2>2
  <1> QED
    BY <1>1, <1>3, <1>4 DEF AddsSee

LEMMA CallSees ==
  ASSUME ListTyped, ListSafe, NullSafe, NEW t \in Thread, Call(t)
  PROVE  NullSafe'
  <1> SUFFICES ASSUME ~ clash', ~ mixed' PROVE AddsUnmet' /\ AddsSee'
    BY DEF NullSafe
  <1> DEFINE o == op[t]
  <1>1. ~ clash /\ ~ mixed
    <2>1. clash \in BOOLEAN /\ mixed \in BOOLEAN
      BY DEF ListTyped, ListTypeOK
    <2>2. CASE AddBegin(t) \/ DeleteBegin(t)
      BY <2>1, <2>2 DEF AddBegin, DeleteBegin
    <2>3. CASE ~ (AddBegin(t) \/ DeleteBegin(t))
      <3>1. CASE \/ AddCount(t) \/ AddTest(t) \/ AddFirst(t) \/ AddStart(t) \/ AddWalk(t)
                 \/ AddNext(t) \/ AddLink(t)
        BY <3>1 DEF AddCount, AddTest, AddFirst, AddStart, AddWalk, AddNext, AddLink, Histories
      <3>2. CASE \/ DeleteCheck(t) \/ DeleteEnter(t) \/ DeleteSeek(t) \/ DeleteUnlink(t)
                 \/ DeleteFree(t) \/ DeleteCount(t)
        BY <3>2 DEF DeleteCheck, DeleteEnter, DeleteSeek, DeleteUnlink, DeleteFree, DeleteCount, Histories
      <3>3. CASE Walk(t)
        BY <3>3 DEF Walk, PrintBegin, PrintStep, Histories
      <3> QED
        BY <2>3, <3>1, <3>2, <3>3 DEF Call
    <2> QED
      BY <2>2, <2>3
  <1>2. AddsUnmet /\ AddsSee /\ Shape(Live, head, next)
    BY <1>1 DEF NullSafe, ListSafe
  <1>3. /\ op \in [Thread -> Op] /\ next \in [Item -> Pointer] /\ allocated \subseteq Item
        /\ Null \notin allocated /\ Live \subseteq allocated
        /\ o \in Op /\ HasItem(o) /\ Sees(o, head, next, allocated)
    BY <1>2, ListConstants DEF ListTyped, ListTypeOK, Pointers, Live, AddsSee
  \* what the others have seen, they see still if head, next and the memory stay
  <1>4. \A u \in Thread : InHand(u) => Sees(op[u], head, next, allocated)
    BY <1>2 DEF AddsSee
  <1>5. InHand(t) => /\ Live = allocated /\ \A u \in Thread : ~ Deleting(u)
    BY <1>2 DEF AddsUnmet, Live, At, Deleting
  <1>6. Deleting(t) => \A u \in Thread : ~ InHand(u)
    BY <1>2 DEF AddsUnmet
  <1> HIDE DEF o
  \* A step of an LL_add after its first.
  <1>7. ASSUME NEW q, op' = [op EXCEPT ![t] = q], InHand(t), ~ DeletingOf(q),
               Sees(q, head', next', allocated'), allocated' = allocated,
               head' = head \/ head' # Null,
               next' = next \/ \E c, i \in Item : next' = [next EXCEPT ![c] = i]
        PROVE  AddsUnmet' /\ AddsSee'
    <2>1. ASSUME NEW u \in Thread, InHand(u)
          PROVE  /\ op[u].pc = "start" => head' # Null
                 /\ op[u].curr \in allocated => op[u].curr \in allocated'
                 /\ op[u].pc = "step" => next'[op[u].curr] # Null
      <3>1. Sees(op[u], head, next, allocated)
        BY <1>4, <2>1
      <3>2. op[u].pc = "step" => op[u].curr \in Item /\ next[op[u].curr] # Null
        BY <1>3, <3>1 DEF Sees
      <3>3. op[u].pc = "step" => next'[op[u].curr] # Null
        BY <1>3, <1>7, <3>2, ListConstants
      <3> QED
        BY <1>7, <3>1, <3>3 DEF Sees
    <2> QED
      BY <1>2, <1>3, <1>5, <1>7, <2>1, SeesAfter
  \* A step of an LL_delete after its first, and of a walk that prints.
  <1>8. ASSUME NEW q, op' = [op EXCEPT ![t] = q], ~ InHandOf(q), q.pc # "fault",
               \/ Deleting(t)
               \/ ~ DeletingOf(q) /\ UNCHANGED <<head, next, allocated>>
        PROVE  AddsUnmet' /\ AddsSee'
    <2>1. Sees(q, head', next', allocated')
      BY <1>8 DEF Sees, InHandOf
    <2>2. ASSUME NEW u \in Thread, InHand(u)
          PROVE  /\ op[u].pc = "start" => head' # Null
                 /\ op[u].curr \in allocated => op[u].curr \in allocated'
                 /\ op[u].pc = "step" => next'[op[u].curr] # Null
      <3>1. Sees(op[u], head, next, allocated) /\ UNCHANGED <<head, next, allocated>>
        BY <1>4, <1>6, <1>8, <2>2
      <3> QED
        BY <3>1 DEF Sees
    <2>3. DeletingOf(q) => \A u \in Thread : u # t => ~ InHand(u)
      BY <1>6, <1>8
    <2> QED
      BY <1>2, <1>3, <1>8, <2>1, <2>2, <2>3, SeesAfter
  <1>9. CASE AddBegin(t)
    <2>1. PICK i \in Item \ allocated :
            /\ Begins(t, [Idle EXCEPT !.pc = "count", !.item = i, !.count = number_of_items], {i})
            /\ allocated' = allocated \cup {i}
            /\ next' = [next EXCEPT ![i] = Null]
            /\ mixed' = (mixed \/ \E u \in Others(t) : Deleting(u))
            /\ UNCHANGED head
      BY <1>9 DEF AddBegin
    <2> DEFINE q == [Idle EXCEPT !.pc = "count", !.item = i, !.count = number_of_items]
    <2>2. q.pc = "count" /\ op' = [op EXCEPT ![t] = q]
      BY <2>1, IdleTyped DEF Begins, Op
    <2> HIDE DEF q
    <2>3. \A u \in Thread : u # t => ~ Deleting(u)
      BY <2>1 DEF Others, Busy, Deleting
    <2>4. \A u \in Thread : u # t /\ InHand(u) =>
            /\ op[u].pc = "start" => head' # Null
            /\ op[u].curr \in allocated => op[u].curr \in allocated'
            /\ op[u].pc = "step" => next'[op[u].curr] # Null
      BY <1>3, <1>4, <2>1 DEF Sees
    <2>5. Sees(q, head', next', allocated') /\ ~ DeletingOf(q)
      BY <2>2 DEF Sees, DeletingOf
    <2> QED
      BY <1>2, <1>3, <2>2, <2>3, <2>4, <2>5, SeesAfter
  <1>10. CASE AddCount(t)
    <2> DEFINE q == [o EXCEPT !.pc = "empty"]
    <2>1. /\ q.pc = "empty" /\ InHand(t) /\ op' = [op EXCEPT ![t] = q]
          /\ UNCHANGED <<head, next, allocated>>
      BY <1>3, <1>10 DEF AddCount, At, Goto, Step, InHand, Op, o
    <2> HIDE DEF q
    <2>2. Sees(q, head', next', allocated') /\ ~ DeletingOf(q)
      BY <2>1 DEF Sees, DeletingOf
    <2> QED
      BY <1>7, <2>1, <2>2
  <1>11. CASE AddTest(t)
    <2> DEFINE q == [o EXCEPT !.pc = IF head = Null THEN "first" ELSE "start"]
    <2>1. /\ \/ q.pc = "first"
             \/ q.pc = "start" /\ head # Null
          /\ InHand(t) /\ op' = [op EXCEPT ![t] = q] /\ UNCHANGED <<head, next, allocated>>
      BY <1>3, <1>11 DEF AddTest, At, Goto, Step, InHand, Op, o
    <2> HIDE DEF q
    <2>2. Sees(q, head', next', allocated') /\ ~ DeletingOf(q)
      BY <2>1 DEF Sees, DeletingOf
    <2> QED
      BY <1>7, <2>1, <2>2
  <1>12. CASE AddFirst(t)
    <2>1. /\ op' = [op EXCEPT ![t] = Idle] /\ InHand(t) /\ UNCHANGED <<next, allocated>>
          /\ head' # Null
      BY <1>3, <1>12, ListConstants DEF AddFirst, At, Step, InHand, HasItem, o
    <2>2. Sees(Idle, head', next', allocated') /\ ~ DeletingOf(Idle)
      BY IdleTyped DEF Sees, DeletingOf
    <2> QED
      BY <1>7, <2>1, <2>2
  <1>13. CASE AddStart(t)
    <2> DEFINE q == [o EXCEPT !.pc = "walk", !.curr = head]
    <2>1. /\ o.pc = "start" /\ q.pc = "walk" /\ q.curr = head /\ InHand(t)
          /\ op' = [op EXCEPT ![t] = q] /\ UNCHANGED <<head, next, allocated>>
      BY <1>3, <1>13 DEF AddStart, At, Step, InHand, Op, o
    <2> HIDE DEF q
    <2>2. head \in allocated
      BY <1>2, <1>3, <2>1 DEF Sees, Shape
    <2>3. Sees(q, head', next', allocated') /\ ~ DeletingOf(q)
      BY <2>1, <2>2 DEF Sees, DeletingOf
    <2> QED
      BY <1>7, <2>1, <2>3
  <1>14. CASE AddWalk(t)
    <2> DEFINE q == [o EXCEPT !.pc = IF o.curr = Null THEN "fault"
                                     ELSE IF next[o.curr] = Null THEN "link" ELSE "step"]
    <2>1. /\ o.pc = "walk" /\ q.curr = o.curr /\ InHand(t)
          /\ \/ q.pc = "fault" /\ o.curr = Null
             \/ q.pc = "link"
             \/ q.pc = "step" /\ next[o.curr] # Null
          /\ op' = [op EXCEPT ![t] = q] /\ UNCHANGED <<head, next, allocated>>
      BY <1>3, <1>14 DEF AddWalk, At, Goto, Step, InHand, Op, o
    <2> HIDE DEF q
    <2>2. Sees(q, head', next', allocated') /\ ~ DeletingOf(q)
      BY <1>3, <2>1 DEF Sees, DeletingOf
    <2> QED
      BY <1>7, <2>1, <2>2
  <1>15. CASE AddNext(t)
    <2> DEFINE q == [o EXCEPT !.pc = "walk", !.curr = next[o.curr]]
    <2>1. /\ o.pc = "step" /\ q.pc = "walk" /\ q.curr = next[o.curr] /\ InHand(t)
          /\ op' = [op EXCEPT ![t] = q] /\ UNCHANGED <<head, next, allocated>>
      BY <1>3, <1>15 DEF AddNext, At, Step, InHand, Op, o
    <2> HIDE DEF q
    <2>2. next[o.curr] \in allocated
      <3>1. o.curr \in Live /\ next[o.curr] # Null
        BY <1>3, <1>5, <2>1 DEF Sees
      <3> QED
        BY <1>2, <1>3, <3>1 DEF Shape
    <2>3. Sees(q, head', next', allocated') /\ ~ DeletingOf(q)
      BY <2>1, <2>2 DEF Sees, DeletingOf
    <2> QED
      BY <1>7, <2>1, <2>3
  <1>16. CASE AddLink(t)
    <2>1. /\ op' = [op EXCEPT ![t] = Idle] /\ InHand(t) /\ UNCHANGED <<head, allocated>>
          /\ next' = [next EXCEPT ![o.curr] = o.item] /\ o.curr \in Item /\ o.item \in Item
      BY <1>3, <1>16 DEF AddLink, At, Step, InHand, HasItem, o
    <2>2. Sees(Idle, head', next', allocated') /\ ~ DeletingOf(Idle)
      BY IdleTyped DEF Sees, DeletingOf
    <2> QED
      BY <1>7, <2>1, <2>2
  <1>17. CASE DeleteBegin(t)
    <2>1. PICK n \in 0 .. Cardinality(Item) : Begins(t, [Idle EXCEPT !.pc = "check", !.n = n], {})
      BY <1>17 DEF DeleteBegin
    <2> DEFINE q == [Idle EXCEPT !.pc = "check", !.n = n]
    <2>2. q.pc = "check" /\ op' = [op EXCEPT ![t] = q] /\ UNCHANGED <<head, next, allocated>>
      BY <1>17, <2>1, IdleTyped DEF Begins, DeleteBegin, Op
    <2> HIDE DEF q
    <2>3. \A u \in Thread : u # t => ~ InHand(u)
      BY <1>17 DEF DeleteBegin, Others, Busy, InHand, Deleting
    <2>4. Sees(q, head', next', allocated') /\ ~ InHandOf(q)
      BY <2>2 DEF Sees, InHandOf
    <2> QED
      BY <1>2, <1>3, <2>2, <2>3, <2>4, SeesAfter
  <1>18. CASE DeleteCheck(t) \/ DeleteEnter(t) \/ DeleteSeek(t)
    <2>1. PICK q : op' = [op EXCEPT ![t] = q] /\ q.pc \in {"idle", "enter", "seek", "unlink"}
      <3>1. \/ op' = [op EXCEPT ![t] = Idle]
            \/ op' = [op EXCEPT ![t] = [o EXCEPT !.pc = "enter"]]
            \/ op' = [op EXCEPT ![t] = [o EXCEPT !.pc = "seek", !.curr = head]]
            \/ op' = [op EXCEPT ![t] = [o EXCEPT !.pc = "unlink", !.item = next[o.curr]]]
            \/ /\ o.pc = "seek"
               /\ op' = [op EXCEPT ![t] =
                           [o EXCEPT !.prev = o.curr, !.curr = next[o.curr], !.i = @ + 1]]
        BY <1>18 DEF DeleteCheck, DeleteEnter, DeleteSeek, At, Goto, Step, o
      <3>2. /\ [o EXCEPT !.pc = "enter"].pc = "enter"
            /\ [o EXCEPT !.pc = "seek", !.curr = head].pc = "seek"
            /\ [o EXCEPT !.pc = "unlink", !.item = next[o.curr]].pc = "unlink"
            /\ o.pc = "seek" =>
                 [o EXCEPT !.prev = o.curr, !.curr = next[o.curr], !.i = @ + 1].pc = "seek"
        BY <1>3 DEF Op
      <3> QED
        BY <3>1, <3>2, IdleTyped
    <2>2. Deleting(t)
      BY <1>18 DEF DeleteCheck, DeleteEnter, DeleteSeek, At, Deleting
    <2> QED
      BY <1>8, <2>1, <2>2 DEF InHandOf
  <1>19. CASE DeleteUnlink(t) \/ DeleteFree(t) \/ DeleteCount(t)
    <2>1. PICK q : op' = [op EXCEPT ![t] = q] /\ q.pc \in {"idle", "free", "uncount"}
      <3>1. \/ op' = [op EXCEPT ![t] = Idle]
            \/ op' = [op EXCEPT ![t] = [o EXCEPT !.pc = "free"]]
            \/ op' = [op EXCEPT ![t] = [o EXCEPT !.pc = "uncount", !.count = number_of_items]]
        BY <1>19 DEF DeleteUnlink, DeleteFree, DeleteCount, Goto, Step, o
      <3>2. /\ [o EXCEPT !.pc = "free"].pc = "free"
            /\ [o EXCEPT !.pc = "uncount", !.count = number_of_items].pc = "uncount"
        BY <1>3 DEF Op
      <3> QED
        BY <3>1, <3>2, IdleTyped
    <2>2. Deleting(t)
      BY <1>19 DEF DeleteUnlink, DeleteFree, DeleteCount, At, Deleting
    <2> QED
      BY <1>8, <2>1, <2>2 DEF InHandOf
  <1>20. CASE Walk(t)
    <2>1. PICK q : op' = [op EXCEPT ![t] = q] /\ q.pc \in {"idle", "print"}
      <3>1. \/ op' = [op EXCEPT ![t] = Idle]
            \/ op' = [op EXCEPT ![t] = [Idle EXCEPT !.pc = "print", !.curr = head, !.due = ToSet(Chain)]]
            \/ o.pc = "print" /\
               op' = [op EXCEPT ![t] = [o EXCEPT !.curr = next[o.curr], !.due = @ \ {o.curr}]]
        BY <1>20 DEF Walk, PrintBegin, PrintStep, At, Step, o
      <3>2. o.pc = "print" => [o EXCEPT !.curr = next[o.curr], !.due = @ \ {o.curr}].pc = "print"
        BY <1>3 DEF Op
      <3>3. [Idle EXCEPT !.pc = "print", !.curr = head, !.due = ToSet(Chain)].pc = "print"
        BY DEF Idle
      <3> QED
        BY <3>1, <3>2, <3>3, IdleTyped
    <2>2. UNCHANGED <<head, next, allocated>>
      BY <1>20 DEF Walk, PrintBegin, PrintStep
    <2> QED
      BY <1>8, <2>1, <2>2 DEF InHandOf, DeletingOf
  <1> QED
    BY <1>9, <1>10, <1>11, <1>12, <1>13, <1>14, <1>15, <1>16, <1>17, <1>18, <1>19, <1>20 DEF Call

LEMMA InitSees ==
  ASSUME InitList
  PROVE  NullSafe
  <1>1. op = [t \in Thread |-> Idle]
    BY InitShape
  <1> QED
    BY <1>1, IdleTyped DEF NullSafe, AddsUnmet, AddsSee, Sees, Deleting, InHand

LEMMA NextSees == ListTyped /\ ListSafe /\ NullSafe /\ [ListNext]_listVars => NullSafe'
  <1> SUFFICES ASSUME ListTyped, ListSafe, NullSafe, [ListNext]_listVars PROVE NullSafe'
    OBVIOUS
  <1>1. CASE ListNext
    BY <1>1, CallSees DEF ListNext
  <1>2. CASE UNCHANGED listVars
    BY <1>2 DEF NullSafe, AddsUnmet, AddsSee, Deleting, InHand, listVars
  <1> QED
    BY <1>1, <1>2

(***************************************************************************)
(* However many LL_adds and printing walks overlap, none of them follows a *)
(* null pointer as long as no LL_delete meets an LL_add or another         *)
(* LL_delete: that LL_add loads head and each curr->next twice             *)
(* (functions.h:444-453) matters only then.                                *)
(***************************************************************************)
THEOREM NullOnlyByDelete == ListSpec => []NullNeedsDelete
  <1>1. NullSafe => NullNeedsDelete
    BY DEF NullSafe, NullNeedsDelete, Faulted, At, AddsSee, Sees
  <1> QED
    BY <1>1, InitTyped, NextTyped, InitSafe, NextSafe, InitSees, NextSees, PTL DEF ListSpec

(***************************************************************************)
(* What can be reached from a pointer: what is in every set of Items that  *)
(* the pointer leads into and that no next leads out of.  It is what       *)
(* ChainFrom walks through.                                                *)
(***************************************************************************)
Closed(K, n) == \A i \in K : n[i] \in K \cup {Null}

Reach(p, n) ==
  { x \in Item : \A K \in SUBSET Item : Closed(K, n) /\ p \in K \cup {Null} => x \in K }

LEMMA ReachLeast ==
  ASSUME NEW n, NEW p, NEW K \in SUBSET Item, Closed(K, n), p \in K \cup {Null}
  PROVE  Reach(p, n) \subseteq K
  BY DEF Reach

LEMMA ReachClosed ==
  ASSUME NEW n \in [Item -> Pointer], NEW p \in Pointer
  PROVE  /\ Reach(p, n) \in SUBSET Item
         /\ Closed(Reach(p, n), n)
         /\ p \in Reach(p, n) \cup {Null}
  <1>1. p \in Reach(p, n) \cup {Null}
    BY ListConstants DEF Reach
  <1>2. ASSUME NEW i \in Reach(p, n), n[i] # Null PROVE n[i] \in Reach(p, n)
    <2>1. i \in Item /\ n[i] \in Item
      BY <1>2, ListConstants DEF Reach
    <2>2. ASSUME NEW K \in SUBSET Item, Closed(K, n), p \in K \cup {Null} PROVE n[i] \in K
      BY <1>2, <2>2 DEF Reach, Closed
    <2> QED
      BY <2>1, <2>2 DEF Reach
  <1> QED
    BY <1>1, <1>2 DEF Reach, Closed

LEMMA ReachNull == \A n : Reach(Null, n) = {}
  <1> SUFFICES ASSUME NEW n PROVE Reach(Null, n) \subseteq {}
    OBVIOUS
  <1>1. Closed({}, n)
    BY DEF Closed
  <1> QED
    BY <1>1, ReachLeast

\* From an Item: it, and what can be reached from the next.
LEMMA ReachStep ==
  ASSUME NEW n \in [Item -> Pointer], NEW p \in Item
  PROVE  Reach(p, n) = {p} \cup Reach(n[p], n)
  <1>1. p \in Pointer /\ n[p] \in Pointer /\ p # Null
    BY ListConstants
  <1>2. Reach(p, n) \subseteq {p} \cup Reach(n[p], n)
    <2>1. Closed({p} \cup Reach(n[p], n), n)
      BY <1>1, ReachClosed DEF Closed
    <2>2. {p} \cup Reach(n[p], n) \in SUBSET Item
      BY DEF Reach
    <2> QED
      BY <2>1, <2>2, ReachLeast
  <1>3. Reach(n[p], n) \subseteq Reach(p, n)
    <2>1. p \in Reach(p, n) /\ Closed(Reach(p, n), n) /\ Reach(p, n) \in SUBSET Item
      BY <1>1, ReachClosed
    <2>2. n[p] \in Reach(p, n) \cup {Null}
      BY <2>1 DEF Closed
    <2> QED
      BY <2>1, <2>2, ReachLeast
  <1>4. p \in Reach(p, n)
    BY <1>1, ReachClosed
  <1> QED
    BY <1>2, <1>3, <1>4

\* What is reached, but for the first, is reached from another.
LEMMA ReachPred ==
  ASSUME NEW n \in [Item -> Pointer], NEW p \in Pointer, NEW x \in Reach(p, n), x # p
  PROVE  \E z \in Reach(p, n) : n[z] = x
  <1> SUFFICES ASSUME ~ \E z \in Reach(p, n) : n[z] = x PROVE FALSE
    OBVIOUS
  <1> DEFINE K == Reach(p, n) \ {x}
  <1>1. Closed(K, n) /\ K \in SUBSET Item /\ p \in K \cup {Null}
    BY ReachClosed DEF Closed
  <1> HIDE DEF K
  <1>2. Reach(p, n) \subseteq K
    BY <1>1, ReachLeast
  <1> QED
    BY <1>2 DEF K

\* The next of c is turned to i.
Turns(n, c, i, m) ==
  /\ n \in [Item -> Pointer] /\ c \in Item /\ i \in Pointer
  /\ m \in [Item -> Pointer] /\ m[c] = i
  /\ \A j \in Item : j # c => m[j] = n[j]

\* Of the Items in B, the same are reached from p along n as from q along m.
Alike(B, p, n, q, m) == Reach(p, n) \cap B = Reach(q, m) \cap B

\* From everywhere, the same of them are reached along m as along n.
Everywhere(B, n, m) ==
  /\ \A p \in Pointer : Alike(B, p, n, p, m)
  /\ \A j \in Item : Alike(B, n[j], n, m[j], m)

\* c is not behind i, unless nothing of B is behind c.
NoLoop(B, n, c, i) == c \notin Reach(i, n) \/ Reach(n[c], n) \cap B = {}

\* Turning a pointer that is not passed changes nothing.
LEMMA ReachElsewhere ==
  ASSUME NEW n, NEW c, NEW x, NEW m, Turns(n, c, x, m), NEW p \in Pointer, c \notin Reach(p, n)
  PROVE  Reach(p, m) = Reach(p, n)
  <1>1. /\ m \in [Item -> Pointer] /\ \A j \in Item : j # c => m[j] = n[j]
        /\ n \in [Item -> Pointer]
    BY DEF Turns
  <1>2. /\ Reach(p, n) \in SUBSET Item /\ Closed(Reach(p, n), n) /\ p \in Reach(p, n) \cup {Null}
        /\ Reach(p, m) \in SUBSET Item /\ Closed(Reach(p, m), m) /\ p \in Reach(p, m) \cup {Null}
    BY <1>1, ReachClosed
  <1>3. Closed(Reach(p, n), m)
    BY <1>1, <1>2 DEF Closed
  <1>4. Reach(p, m) \subseteq Reach(p, n)
    BY <1>2, <1>3, ReachLeast
  <1>5. Closed(Reach(p, m), n)
    BY <1>1, <1>2, <1>4 DEF Closed
  <1>6. Reach(p, n) \subseteq Reach(p, m)
    BY <1>2, <1>5, ReachLeast
  <1> QED
    BY <1>4, <1>6

\* A pointer turned to null cuts off, and adds nothing.
LEMMA ReachCut ==
  ASSUME NEW n \in [Item -> Pointer], NEW p \in Pointer, NEW c \in Item,
         NEW m, m[c] = Null, \A j \in Item : j # c => m[j] = n[j]
  PROVE  Reach(p, m) \subseteq Reach(p, n)
  <1>1. m[c] = Null /\ \A j \in Item : j # c => m[j] = n[j]
    OBVIOUS
  <1>2. Reach(p, n) \in SUBSET Item /\ Closed(Reach(p, n), n) /\ p \in Reach(p, n) \cup {Null}
    BY ReachClosed
  <1>3. Closed(Reach(p, n), m)
    BY <1>1, <1>2 DEF Closed
  <1> QED
    BY <1>2, <1>3, ReachLeast

(***************************************************************************)
(* A pointer is turned from one Item to another.  If of the Items in B the *)
(* same are behind both, then the same are reached from everywhere as      *)
(* before: unless the pointer itself is behind where it is turned to, and  *)
(* then there must be none of them.                                        *)
(***************************************************************************)
LEMMA ReachTurned ==
  ASSUME NEW n, NEW c, NEW i, NEW m, Turns(n, c, i, m), NEW B,
         Alike(B, i, n, n[c], n), NoLoop(B, n, c, i)
  PROVE  Everywhere(B, n, m)
  <1>1. m \in [Item -> Pointer] /\ m[c] = i /\ \A j \in Item : j # c => m[j] = n[j]
    BY DEF Turns
  <1>2. /\ n \in [Item -> Pointer] /\ c \in Item /\ i \in Pointer /\ n[c] \in Pointer
        /\ Reach(i, n) \cap B = Reach(n[c], n) \cap B
        /\ c \notin Reach(i, n) \/ Reach(n[c], n) \cap B = {}
    BY DEF Turns, Alike, NoLoop
  <1>3. ASSUME NEW p \in Pointer PROVE Reach(p, m) \cap B = Reach(p, n) \cap B
    <2> DEFINE R == Reach(p, n)
               S == Reach(p, m)
               I == Reach(i, n)
               T == Reach(n[c], n)
    <2>1. /\ R \in SUBSET Item /\ Closed(R, n) /\ p \in R \cup {Null}
          /\ S \in SUBSET Item /\ Closed(S, m) /\ p \in S \cup {Null}
          /\ I \in SUBSET Item /\ Closed(I, n) /\ i \in I \cup {Null}
          /\ T \in SUBSET Item /\ Closed(T, n) /\ n[c] \in T \cup {Null}
      BY <1>1, <1>2, ReachClosed
    <2>2. CASE c \notin R
      BY <2>2, ReachElsewhere
    <2>3. CASE c \in R
      <3>1. S \subseteq R \cup I
        <4> DEFINE U == R \cup I
        <4>1. Closed(U, m) /\ U \in SUBSET Item /\ p \in U \cup {Null}
          BY <1>1, <2>1 DEF Closed
        <4> HIDE DEF U
        <4>2. S \subseteq U
          BY <4>1, ReachLeast
        <4> QED
          BY <4>2 DEF U
      <3>2. T \subseteq R
        <4>1. n[c] \in R \cup {Null}
          BY <2>1, <2>3 DEF Closed
        <4> QED
          BY <2>1, <4>1, ReachLeast
      <3>3. R \subseteq S \cup T
        <4> DEFINE U == S \cup T
        <4>1. Closed(U, n) /\ U \in SUBSET Item /\ p \in U \cup {Null}
          BY <1>1, <2>1 DEF Closed
        <4> HIDE DEF U
        <4>2. R \subseteq U
          BY <4>1, ReachLeast
        <4> QED
          BY <4>2 DEF U
      <3>4. c \in S
        <4> SUFFICES ASSUME c \notin S PROVE FALSE
          OBVIOUS
        <4>1. Closed(S, n)
          BY <1>1, <2>1 DEF Closed
        <4>2. R \subseteq S
          BY <2>1, <4>1, ReachLeast
        <4> QED
          BY <2>3, <4>2
      <3>5. c \notin I => I \subseteq S
        <4> SUFFICES ASSUME c \notin I PROVE I \subseteq S
          OBVIOUS
        <4>1. i \in S \cup {Null}
          BY <1>1, <2>1, <3>4 DEF Closed
        <4>2. Closed(I \cap S, n) /\ i \in (I \cap S) \cup {Null} /\ I \cap S \in SUBSET Item
          BY <1>1, <2>1, <4>1 DEF Closed
        <4>3. I \subseteq I \cap S
          BY <4>2, ReachLeast
        <4> QED
          BY <4>3
      <3>6. I \cap B = T \cap B /\ (c \notin I \/ T \cap B = {})
        BY <1>2
      <3> HIDE DEF R, S, I, T
      <3>7. S \cap B = R \cap B
        BY <3>1, <3>2, <3>3, <3>5, <3>6
      <3> QED
        BY <3>7 DEF R, S
    <2> QED
      BY <2>2, <2>3
  <1>4. ASSUME NEW j \in Item PROVE Reach(m[j], m) \cap B = Reach(n[j], n) \cap B
    <2>1. m[j] \in Pointer
      BY <1>1
    <2>2. Reach(m[j], m) \cap B = Reach(m[j], n) \cap B
      BY <1>3, <2>1
    <2>3. Reach(m[j], n) \cap B = Reach(n[j], n) \cap B
      <3>1. CASE j = c
        BY <1>1, <1>2, <3>1
      <3>2. CASE j # c
        BY <1>1, <3>2
      <3> QED
        BY <3>1, <3>2
    <2> QED
      BY <2>2, <2>3
  <1> QED
    BY <1>3, <1>4 DEF Everywhere, Alike

(***************************************************************************)
(* ChainFrom is the walk of as many steps as there are Items, or to where  *)
(* it ends, and sees what can be reached: a walk that has not ended by     *)
(* then has met an Item twice.                                             *)
(***************************************************************************)
Path(w, p) ==
  /\ w \in Seq(Pointer) /\ Len(w) > 0 /\ w[1] = p
  /\ \A j \in 1 .. Len(w) - 1 : w[j] \in Item /\ w[j + 1] = next[w[j]]

LEMMA PathFurther ==
  ASSUME next \in [Item -> Pointer], NEW p \in Pointer, NEW w, Path(w, p)
  PROVE  /\ Path(Further(w), p)
         /\ Last(w) # Null => Len(Further(w)) = Len(w) + 1
         /\ Last(w) = Null => Further(w) = w
  <1>1. CASE Last(w) = Null
    BY <1>1 DEF Further
  <1>2. CASE Last(w) # Null
    <2>1. w[Len(w)] \in Item /\ Last(w) = w[Len(w)]
      BY <1>2, ListConstants DEF Path, Last
    <2> DEFINE x == next[Last(w)]
               v == Append(w, x)
    <2>2. x \in Pointer /\ x = next[w[Len(w)]]
      BY <2>1
    <2> HIDE DEF x
    <2>3. v \in Seq(Pointer) /\ Len(v) = Len(w) + 1 /\ v[Len(w) + 1] = x
          /\ \A j \in 1 .. Len(w) : v[j] = w[j]
      BY <2>2, AppendProperties DEF Path
    <2>4. Further(w) = v
      BY <1>2 DEF Further, x
    <2> HIDE DEF v
    <2>5. Len(w) \in Nat /\ Len(w) > 0 /\ w[1] = p
          /\ \A j \in 1 .. Len(w) - 1 : w[j] \in Item /\ w[j + 1] = next[w[j]]
      BY DEF Path
    <2>6. ASSUME NEW j \in 1 .. Len(v) - 1 PROVE v[j] \in Item /\ v[j + 1] = next[v[j]]
      <3>1. CASE j = Len(w)
        BY <2>1, <2>2, <2>3, <2>5, <3>1
      <3>2. CASE j # Len(w)
        <4>1. j \in 1 .. Len(w) - 1 /\ j + 1 \in 1 .. Len(w) /\ j \in 1 .. Len(w)
          BY <2>3, <2>5, <3>2
        <4> QED
          BY <2>3, <2>5, <4>1
      <3> QED
        BY <3>1, <3>2
    <2>7. Path(v, p)
      BY <2>3, <2>5, <2>6 DEF Path
    <2> QED
      BY <1>2, <2>3, <2>4, <2>7
  <1> QED
    BY <1>1, <1>2

LEMMA ChainIsPath ==
  ASSUME next \in [Item -> Pointer], NEW p \in Pointer
  PROVE  \E w : /\ Path(w, p)
                /\ Last(w) = Null \/ Len(w) = Cardinality(Item) + 1
                /\ ChainFrom(p) = IF Last(w) = Null THEN Front(w) ELSE w
  <1> DEFINE walk[k \in Nat] ==
               IF k = 0 THEN <<p>>
               ELSE LET w == walk[k - 1]
                    IN  IF Last(w) = Null THEN w ELSE Append(w, next[Last(w)])
             Goes(k) == Path(walk[k], p) /\ (Last(walk[k]) = Null \/ Len(walk[k]) = k + 1)
             S == { n \in Nat : ~ Goes(n) }
  <1>1. \A k \in Nat : walk[k] = IF k = 0 THEN <<p>> ELSE Further(walk[k - 1])
    BY WalkIs
  <1>2. ChainFrom(p) = IF Last(walk[Cardinality(Item)]) = Null
                       THEN Front(walk[Cardinality(Item)]) ELSE walk[Cardinality(Item)]
    BY DEF ChainFrom
  <1> HIDE DEF walk
  <1>3. Goes(0)
    <2>1. walk[0] = <<p>>
      BY <1>1
    <2> QED
      BY <2>1 DEF Path
  <1>4. ASSUME NEW n \in Nat, n # 0, Goes(n - 1) PROVE Goes(n)
    <2>1. n - 1 \in Nat /\ walk[n] = Further(walk[n - 1])
      BY <1>1, <1>4
    <2>2. /\ Path(walk[n], p)
          /\ Last(walk[n - 1]) # Null => Len(walk[n]) = Len(walk[n - 1]) + 1
          /\ Last(walk[n - 1]) = Null => walk[n] = walk[n - 1]
      BY <1>4, <2>1, PathFurther
    <2> QED
      BY <1>4, <2>1, <2>2
  <1> HIDE DEF Goes
  <1>5. \A n \in Nat : Goes(n)
    <2> SUFFICES ASSUME S # {} PROVE FALSE
      OBVIOUS
    <2>1. PICK n \in S : \A m \in S : n <= m
      BY LeastNatural
    <2>2. n # 0
      BY <1>3
    <2>3. n - 1 \in Nat /\ ~ (n <= n - 1)
      BY <2>2
    <2>4. Goes(n - 1)
      BY <2>1, <2>3
    <2> QED
      BY <1>4, <2>2, <2>4
  <1>6. Goes(Cardinality(Item))
    BY <1>5, ListConstants
  <1> QED
    BY <1>2, <1>6 DEF Goes

LEMMA ChainIsReach ==
  ASSUME next \in [Item -> Pointer], NEW p \in Pointer
  PROVE  ToSet(ChainFrom(p)) = Reach(p, next)
  <1> DEFINE N == Cardinality(Item)
  <1>1. ToSet(ChainFrom(p)) \subseteq Reach(p, next)
    <2>1. /\ Reach(p, next) \in SUBSET Item /\ Closed(Reach(p, next), next)
          /\ p \in Reach(p, next) \cup {Null}
      BY ReachClosed
    <2> QED
      BY <2>1, WalkStays DEF Closed
  <1>2. PICK w : /\ Path(w, p)
                 /\ Last(w) = Null \/ Len(w) = N + 1
                 /\ ChainFrom(p) = IF Last(w) = Null THEN Front(w) ELSE w
    BY ChainIsPath
  <1> DEFINE Seen(k) == { w[j] : j \in 1 .. k - 1 }
  \* A walk comes to its end, or to an Item it has seen.
  <1>3. ASSUME NEW k \in 1 .. Len(w), w[k] \in Seen(k) \cup {Null}
        PROVE  Reach(p, next) \subseteq Seen(k)
    <2>1. Seen(k) \in SUBSET Item
      <3>1. \A j \in 1 .. k - 1 : j \in 1 .. Len(w) - 1
        BY <1>2, <1>3 DEF Path
      <3> QED
        BY <1>2, <3>1 DEF Path
    <2>2. Closed(Seen(k), next)
      <3>1. ASSUME NEW j \in 1 .. k - 1 PROVE next[w[j]] \in Seen(k) \cup {Null}
        <4>1. j \in 1 .. Len(w) - 1 /\ j + 1 \in 1 .. k
          BY <1>2, <1>3 DEF Path
        <4>2. next[w[j]] = w[j + 1]
          BY <1>2, <4>1 DEF Path
        <4>3. j + 1 = k \/ j + 1 \in 1 .. k - 1
          BY <4>1
        <4> QED
          BY <1>3, <4>2, <4>3
      <3> QED
        BY <3>1 DEF Closed
    <2>3. p \in Seen(k) \cup {Null}
      <3>1. w[1] = p
        BY <1>2 DEF Path
      <3>2. CASE k = 1
        BY <1>3, <3>1, <3>2
      <3>3. CASE k # 1
        <4>1. 1 \in 1 .. k - 1
          BY <1>2, <3>3 DEF Path
        <4> QED
          BY <3>1, <4>1
      <3> QED
        BY <3>2, <3>3
    <2> HIDE DEF Seen
    <2> QED
      BY <2>1, <2>2, <2>3, ReachLeast
  <1>4. Len(w) \in Nat /\ Len(w) > 0 /\ w \in Seq(Pointer)
    BY <1>2 DEF Path
  <1>5. CASE Last(w) = Null
    <2>1. w[Len(w)] = Null
      BY <1>5 DEF Last
    <2>2. Reach(p, next) \subseteq Seen(Len(w))
      BY <1>3, <1>4, <2>1
    <2>3. Len(w) - 1 \in Int /\ \A j \in 1 .. Len(w) - 1 : w[j] \in Pointer
      BY <1>4
    <2>4. /\ ChainFrom(p) = Front(w) /\ Len(Front(w)) = Len(w) - 1 /\ Front(w) \in Seq(Pointer)
          /\ \A j \in 1 .. Len(w) - 1 : Front(w)[j] = w[j]
      <3> DEFINE f == SubSeq(w, 1, Len(w) - 1)
      <3>1. f \in Seq(Pointer) /\ Len(f) = Len(w) - 1
        <4>1. ASSUME NEW l \in Int, \A j \in 1 .. l : w[j] \in Pointer
              PROVE  /\ SubSeq(w, 1, l) \in Seq(Pointer)
                     /\ Len(SubSeq(w, 1, l)) = IF 1 <= l THEN l - 1 + 1 ELSE 0
          BY <4>1, SubSeqProperties
        <4>2. f \in Seq(Pointer) /\ Len(f) = IF 1 <= Len(w) - 1 THEN Len(w) - 1 - 1 + 1 ELSE 0
          BY <2>3, <4>1
        <4>3. \A k \in Nat : k > 0 => (IF 1 <= k - 1 THEN k - 1 - 1 + 1 ELSE 0) = k - 1
          OBVIOUS
        <4> HIDE DEF f
        <4> QED
          BY <1>4, <4>2, <4>3
      <3>2. \A j \in 1 .. Len(w) - 1 : f[j] = w[j]
        BY <1>4, <2>3, SubSeqProperties
      <3>3. Front(w) = f
        BY DEF Front
      <3> HIDE DEF f
      <3> QED
        BY <1>2, <1>5, <3>1, <3>2, <3>3
    <2>5. Seen(Len(w)) \subseteq ToSet(ChainFrom(p))
      BY <2>4 DEF ToSet
    <2> QED
      BY <1>1, <2>2, <2>5
  <1>6. CASE Last(w) # Null
    <2>1. Len(w) = N + 1 /\ ChainFrom(p) = w /\ N \in Nat
      BY <1>2, <1>6, ListConstants
    <2>2. \A j \in 1 .. Len(w) : w[j] \in Item
      <3>1. w[Len(w)] \in Item
        BY <1>4, <1>6, ListConstants DEF Last
      <3>2. \A j \in 1 .. Len(w) - 1 : w[j] \in Item
        BY <1>2 DEF Path
      <3>3. \A j \in 1 .. Len(w) : j = Len(w) \/ j \in 1 .. Len(w) - 1
        BY <1>4
      <3> QED
        BY <3>1, <3>2, <3>3
    <2>3. w \in [1 .. N + 1 -> Item]
      BY <1>4, <2>1, <2>2
    <2>4. IsFiniteSet(1 .. N + 1) /\ Cardinality(1 .. N + 1) = N + 1
      BY <2>1, FS_Interval
    <2>5. PICK j, k \in 1 .. N + 1 : j # k /\ w[j] = w[k]
      BY <2>1, <2>3, <2>4, FS_PigeonHole, LinkedListAssumption
    <2>6. \E k2 \in 1 .. Len(w) : w[k2] \in Seen(k2)
      <3>1. CASE j < k
        <4>1. j \in 1 .. k - 1
          BY <2>5, <3>1
        <4> QED
          BY <2>1, <2>5, <4>1
      <3>2. CASE k < j
        <4>1. k \in 1 .. j - 1
          BY <2>5, <3>2
        <4> QED
          BY <2>1, <2>5, <4>1
      <3> QED
        BY <2>1, <2>5, <3>1, <3>2
    <2>7. PICK k2 \in 1 .. Len(w) : w[k2] \in Seen(k2)
      BY <2>6
    <2>8. Reach(p, next) \subseteq Seen(k2)
      BY <1>3, <2>7
    <2>9. 1 .. k2 - 1 \subseteq 1 .. Len(w) /\ DOMAIN w = 1 .. Len(w)
      BY <1>4
    <2>10. Seen(k2) \subseteq ToSet(ChainFrom(p))
      BY <2>1, <2>9 DEF ToSet
    <2> QED
      BY <1>1, <2>8, <2>10
  <1> QED
    BY <1>5, <1>6

(***************************************************************************)
(* What keeps the Items whose LL_add met no other call in the list.  Each  *)
(* call in progress knows of the pointer it is about to turn what is lost  *)
(* by turning it: none of these Items, but for the one LL_delete takes     *)
(* out.  An LL_add that has met no other call so far still sees the list   *)
(* as it is.                                                               *)
(***************************************************************************)
Lasting == linked \cap alone

\* The pointer LL_delete is going to turn.
From(o, h, n) == IF o.prev = Null THEN h ELSE n[o.prev]

Loses(o, A, L, h, n) ==
  /\ InHandOf(o) => o.item \notin L /\ Reach(o.item, n) \cap A = {}
  /\ o.pc = "first" => A = {}
  /\ o.pc = "link" => Reach(n[o.curr], n) \cap A = {}
  /\ o.pc = "free" => o.curr \notin L
  /\ o.pc = "seek" => Reach(o.curr, n) \cap A = Reach(From(o, h, n), n) \cap A
  /\ o.pc = "unlink" =>
       (Reach(o.item, n) \cap A) \ {o.curr} = (Reach(From(o, h, n), n) \cap A) \ {o.curr}

Solo(o, h, n) ==
  /\ o.pc = "first" => h = Null
  /\ o.pc = "start" => h # Null
  /\ o.pc \in {"walk", "step", "link"} => o.curr \in Reach(h, n)
  /\ o.pc = "step" => n[o.curr] # Null
  /\ o.pc = "link" => n[o.curr] = Null
  /\ o.pc # "fault"

NothingLost == \A t \in Thread : Loses(op[t], Lasting, linked, head, next)

SoloAdds ==
  \A t \in Thread : InHand(t) /\ op[t].item \in alone =>
    Others(t) = {} /\ Solo(op[t], head, next)

ListKept ==
  ~ clash =>
    /\ linked \subseteq allocated
    /\ Lasting \subseteq Reach(head, next)
    /\ NothingLost
    /\ SoloAdds

\* The Items that are kept but cannot be reached do not lead to those that can.
LEMMA LostStaysLost ==
  ASSUME NEW K \in SUBSET Item, NEW h, NEW n \in [Item -> Pointer], Shape(K, h, n)
  PROVE  Reach(h, n) \subseteq K /\ Closed(K \ Reach(h, n), n)
  <1>1. h \in Pointer /\ Null \notin K
    BY ListConstants DEF Shape
  <1>2. Reach(h, n) \subseteq K
    BY ReachLeast DEF Shape, Closed
  <1>3. ASSUME NEW j \in K, j \notin Reach(h, n), n[j] \in Reach(h, n) PROVE FALSE
    <2>1. n[j] # h
      BY <1>1, <1>2, <1>3 DEF Shape
    <2>2. PICK z \in Reach(h, n) : n[z] = n[j]
      BY <1>1, <1>3, <2>1, ReachPred
    <2> QED
      BY <1>1, <1>2, <1>3, <2>2 DEF Shape
  <1> QED
    BY <1>2, <1>3 DEF Shape, Closed

\* What LL_delete links the list together with does not lead back to it.
LEMMA NoWayBack ==
  ASSUME NEW K \in SUBSET Item, NEW H, NEW h, NEW n \in [Item -> Pointer], NEW o,
         Shape(K, h, n), Knows(o, K, H, h, n), o.pc = "unlink",
         o.prev # Null, o.prev \in Reach(h, n)
  PROVE  o.prev \notin Reach(o.item, n)
  <1> SUFFICES ASSUME o.prev \in Reach(o.item, n) PROVE FALSE
    OBVIOUS
  <1> DEFINE R == Reach(h, n)
             I == Reach(o.item, n)
             C == { y \in K : y = o.curr \/ (y \in I /\ o.prev \in Reach(y, n)) }
  <1>1. /\ h \in Pointer /\ Null \notin K /\ o.item \in Pointer /\ K \subseteq Pointer
        /\ \A j \in K : n[j] \in K \cup {Null}
      BY ListConstants DEF Shape, Knows
  <1>2. /\ o.curr \in K /\ o.prev \in K /\ o.item \in K \cup {Null} /\ h # o.curr
        /\ \A j \in K : n[j] = o.curr => j = o.prev
        /\ o.item # Null => h # o.item /\ \A j \in K : n[j] = o.item => j = o.curr
    BY <1>1 DEF Knows
  <1>3. I \subseteq K
    BY <1>1, <1>2, ReachLeast DEF Closed
  <1>4. o.prev \in C /\ o.curr \in C
    BY <1>1, <1>2, ReachClosed
  <1>5. ASSUME NEW j \in K, j \notin C, n[j] \in C PROVE FALSE
    <2>1. CASE n[j] = o.curr
      BY <1>2, <1>4, <1>5, <2>1
    <2>2. CASE n[j] \in I /\ o.prev \in Reach(n[j], n)
      <3>1. CASE n[j] = o.item
        BY <1>1, <1>2, <1>3, <1>4, <1>5, <2>2, <3>1
      <3>2. CASE n[j] # o.item
        <4>1. PICK z \in I : n[z] = n[j]
          BY <1>1, <2>2, <3>2, ReachPred
        <4>2. z = j
          BY <1>1, <1>3, <2>2, <4>1 DEF Shape
        <4>3. o.prev \in Reach(j, n)
          BY <2>2, ReachStep
        <4> QED
          BY <1>5, <4>1, <4>2, <4>3
      <3> QED
        BY <3>1, <3>2
    <2> QED
      BY <1>5, <2>1, <2>2
  <1>6. h \notin C
    <2> SUFFICES ASSUME h \in C PROVE FALSE
      OBVIOUS
    <2>1. h \in I /\ h # o.item /\ h # Null
      BY <1>1, <1>2, <1>3
    <2>2. PICK z \in I : n[z] = h
      BY <1>1, <2>1, ReachPred
    <2> QED
      BY <1>3, <2>1, <2>2 DEF Shape
  <1>7. Closed(K \ C, n) /\ K \ C \in SUBSET Item /\ h \in (K \ C) \cup {Null}
    <2> HIDE DEF C
    <2> QED
      BY <1>1, <1>5, <1>6 DEF Closed, Shape
  <1> HIDE DEF C
  <1>8. R \subseteq K \ C
    BY <1>7, ReachLeast
  <1> QED
    BY <1>4, <1>8

\* LL_delete turns a pointer: what else was reached is still reached.
LEMMA UnlinkReaches ==
  ASSUME NEW K \in SUBSET Item, NEW H, NEW h, NEW n \in [Item -> Pointer], NEW o,
         Shape(K, h, n), Knows(o, K, H, h, n), o.pc = "unlink", o.prev # Null,
         NEW A, NEW L, Loses(o, A, L, h, n), A \subseteq Reach(h, n),
         NEW m, Turns(n, o.prev, o.item, m)
  PROVE  Everywhere(A \ {o.curr}, n, m)
  <1> DEFINE B == A \ {o.curr}
  <1>1. o.prev \in K /\ o.prev \in Item /\ o.item \in Pointer
    BY ListConstants DEF Knows
  <1>2. Reach(o.item, n) \cap B = Reach(n[o.prev], n) \cap B
    BY DEF Loses, From
  <1>3. o.prev \notin Reach(o.item, n) \/ Reach(n[o.prev], n) \cap B = {}
    <2>1. CASE o.prev \in Reach(h, n)
      BY <2>1, NoWayBack
    <2>2. CASE o.prev \notin Reach(h, n)
      <3> DEFINE E == K \ Reach(h, n)
      <3>1. Closed(E, n) /\ E \in SUBSET Item /\ o.prev \in E
        BY <1>1, <2>2, LostStaysLost
      <3>2. n[o.prev] \in E \cup {Null}
        BY <3>1 DEF Closed
      <3>3. Reach(n[o.prev], n) \subseteq E
        BY <3>1, <3>2, ReachLeast
      <3> QED
        BY <3>3
    <2> QED
      BY <2>1, <2>2
  <1>4. Alike(B, o.item, n, n[o.prev], n) /\ NoLoop(B, n, o.prev, o.item)
    BY <1>2, <1>3 DEF Alike, NoLoop
  <1> HIDE DEF B
  <1>5. Everywhere(B, n, m)
    BY <1>4, ReachTurned
  <1> QED
    BY <1>5 DEF B

\* A call in progress loses no more when the list changes and reaches what it did.
LEMMA LosesStill ==
  ASSUME NEW n \in [Item -> Pointer], NEW m \in [Item -> Pointer], NEW h, NEW g,
         NEW A, NEW B \in SUBSET A, NEW L, NEW LL, NEW K \in SUBSET Item, NEW H,
         NEW o \in Op, HasItem(o), Loses(o, A, L, h, n), Knows(o, K, H, h, n),
         InHandOf(o) => o.item \notin LL, o.pc = "free" => o.curr \notin LL,
         \A p \in Pointer : Reach(p, m) \cap B \subseteq Reach(p, n),
         \A j \in Item : Reach(m[j], m) \cap B \subseteq Reach(n[j], n),
         \A p \in K \cup {Null} : Reach(p, m) \cap B = Reach(p, n) \cap B,
         \A j \in K : Reach(m[j], m) \cap B = Reach(n[j], n) \cap B,
         Reach(g, m) \cap B = Reach(h, n) \cap B
  PROVE  Loses(o, B, LL, g, m)
  <1>1. InHandOf(o) => Reach(o.item, m) \cap B = {}
    <2>1. o.item \in Pointer
      BY DEF Op
    <2> QED
      BY <2>1 DEF Loses
  <1>2. o.pc = "first" => B = {}
    BY DEF Loses
  <1>3. o.pc = "link" => Reach(m[o.curr], m) \cap B = {}
    BY DEF Loses, HasItem
  <1>4. o.pc \in {"seek", "unlink"} => Reach(From(o, g, m), m) \cap B = Reach(From(o, h, n), n) \cap B
    BY DEF From, Knows
  <1>5. o.pc = "seek" => Reach(o.curr, m) \cap B = Reach(From(o, g, m), m) \cap B
    <2> SUFFICES ASSUME o.pc = "seek" PROVE Reach(o.curr, m) \cap B = Reach(From(o, g, m), m) \cap B
      OBVIOUS
    <2>1. Reach(o.curr, m) \cap B = Reach(o.curr, n) \cap B
      BY DEF Knows
    <2>2. Reach(o.curr, n) \cap A = Reach(From(o, h, n), n) \cap A
      BY DEF Loses
    <2> QED
      BY <1>4, <2>1, <2>2
  <1>6. o.pc = "unlink" =>
          (Reach(o.item, m) \cap B) \ {o.curr} = (Reach(From(o, g, m), m) \cap B) \ {o.curr}
    <2> SUFFICES ASSUME o.pc = "unlink"
                 PROVE  (Reach(o.item, m) \cap B) \ {o.curr} = (Reach(From(o, g, m), m) \cap B) \ {o.curr}
      OBVIOUS
    <2>1. Reach(o.item, m) \cap B = Reach(o.item, n) \cap B
      BY DEF Knows
    <2>2. (Reach(o.item, n) \cap A) \ {o.curr} = (Reach(From(o, h, n), n) \cap A) \ {o.curr}
      BY DEF Loses
    <2> QED
      BY <1>4, <2>1, <2>2
  <1> QED
    BY <1>1, <1>2, <1>3, <1>5, <1>6 DEF Loses

\* A thread that prints, or does nothing, loses nothing.
LEMMA NothingToLose ==
  ASSUME NEW q, q.pc \in {"idle", "print", "check", "enter", "uncount"}, NEW A, NEW L, NEW h, NEW n
  PROVE  Loses(q, A, L, h, n)
  BY DEF Loses, InHandOf

LEMMA SoloAddsAfter ==
  ASSUME op \in [Thread -> Op], SoloAdds, NEW t \in Thread, NEW q, op' = [op EXCEPT ![t] = q],
         op[t].pc \notin {"idle", "print"}, alone' = alone,
         InHandOf(q) /\ q.item \in alone =>
           InHand(t) /\ q.item = op[t].item /\ Solo(q, head', next')
  PROVE  SoloAdds'
  <1>1. \A u \in Thread : op'[u] = IF u = t THEN q ELSE op[u]
    OBVIOUS
  <1>2. ASSUME NEW u \in Thread, u # t PROVE ~ (InHand(u) /\ op[u].item \in alone)
    <2>1. t \in Others(u)
      BY <1>2 DEF Others, Busy
    <2> QED
      BY <2>1 DEF SoloAdds
  <1>3. InHand(t) /\ op[t].item \in alone => Others(t)' = {}
    BY <1>1 DEF SoloAdds, Others, Busy
  <1>4. ASSUME NEW u \in Thread, InHand(u)', op'[u].item \in alone'
        PROVE  Others(u)' = {} /\ Solo(op'[u], head', next')
    BY <1>1, <1>2, <1>3, <1>4 DEF InHand, InHandOf
  <1> QED
    BY <1>4 DEF SoloAdds

\* The same when a thread begins to print, prints or has printed.
LEMMA SoloAddsPrinted ==
  ASSUME op \in [Thread -> Op], SoloAdds, NEW t \in Thread, NEW q, op' = [op EXCEPT ![t] = q],
         op[t].pc \in {"idle", "print"}, q.pc \in {"idle", "print"},
         UNCHANGED <<alone, head, next>>
  PROVE  SoloAdds'
  <1>1. \A u \in Thread : op'[u] = IF u = t THEN q ELSE op[u]
    OBVIOUS
  <1>2. \A u \in Thread : Others(u)' = Others(u)
    BY <1>1 DEF Others, Busy
  <1> QED
    BY <1>1, <1>2 DEF SoloAdds, InHand

\* When a call begins, the LL_adds in progress have met it.
LEMMA SoloAddsBegun ==
  ASSUME op \in [Thread -> Op], NEW t \in Thread, NEW q, NEW new,
         Begins(t, q, new), q.pc \in {"count", "check"},
         InHandOf(q) => new = {q.item}
  PROVE  SoloAdds'
  <1>1. \A u \in Thread : op'[u] = IF u = t THEN q ELSE op[u]
    BY DEF Begins
  <1>2. alone' = IF Others(t) = {} THEN alone \cup new
                 ELSE alone \ (new \cup { op[u].item : u \in { v \in Others(t) : ~ Deleting(v) } })
    BY DEF Begins
  <1>3. ASSUME NEW u \in Thread, u # t PROVE ~ (InHand(u) /\ op[u].item \in alone')
    <2> SUFFICES ASSUME InHand(u) PROVE op[u].item \notin alone'
      OBVIOUS
    <2>1. u \in Others(t) /\ ~ Deleting(u)
      BY <1>3 DEF Others, Busy, InHand, Deleting
    <2> QED
      BY <1>2, <2>1
  <1>4. InHandOf(q) /\ q.item \in alone' => Others(t) = {}
    BY <1>2
  <1>5. Others(t)' = Others(t)
    BY <1>1 DEF Others, Busy
  <1>6. Solo(q, head', next')
    BY DEF Solo
  <1> QED
    BY <1>1, <1>3, <1>4, <1>5, <1>6 DEF SoloAdds, InHand, InHandOf

\* Calls that leave the list alone.
LEMMA QuietKeeps ==
  ASSUME op \in [Thread -> Op], linked \subseteq allocated', Lasting \subseteq Reach(head, next),
         NothingLost, NEW t \in Thread, NEW q, op' = [op EXCEPT ![t] = q],
         UNCHANGED <<head, next, linked, alone>>, SoloAdds',
         Loses(q, Lasting, linked, head, next)
  PROVE  ListKept'
  <1>1. \A u \in Thread : op'[u] = IF u = t THEN q ELSE op[u]
    OBVIOUS
  <1>2. Lasting' = Lasting
    BY DEF Lasting
  <1>3. NothingLost'
    BY <1>1, <1>2 DEF NothingLost
  <1> QED
    BY <1>2, <1>3 DEF ListKept

\* A new Item in hand leads nowhere, and what is kept leads where it did.
LeadsNowhere(K, i, n, m) ==
  /\ Reach(i, m) = {i}
  /\ \A p \in Pointer : Reach(p, m) \subseteq Reach(p, n)
  /\ \A j \in Item : Reach(m[j], m) \subseteq Reach(n[j], n)
  /\ \A p \in K \cup {Null} : Reach(p, m) = Reach(p, n)
  /\ \A j \in K : Reach(m[j], m) = Reach(n[j], n)

LEMMA NewItemReaches ==
  ASSUME NEW K \in SUBSET Item, NEW h, NEW n \in [Item -> Pointer], Shape(K, h, n),
         NEW i \in Item, i \notin K, NEW m, Turns(n, i, Null, m)
  PROVE  LeadsNowhere(K, i, n, m)
  <1>1. m \in [Item -> Pointer] /\ m[i] = Null /\ \A j \in Item : j # i => m[j] = n[j]
    BY DEF Turns
  <1>2. K \cup {Null} \subseteq Pointer
    BY ListConstants
  <1>3. \A p \in Pointer : Reach(p, m) \subseteq Reach(p, n)
    BY ReachCut DEF Turns
  <1>4. \A p \in K \cup {Null} : Reach(p, m) = Reach(p, n)
    <2> SUFFICES ASSUME NEW p \in K \cup {Null} PROVE Reach(p, m) = Reach(p, n)
      OBVIOUS
    <2>1. Reach(p, n) \subseteq K
      BY ReachLeast DEF Shape, Closed
    <2>2. i \notin Reach(p, n)
      BY <2>1
    <2>3. p \in Pointer
      BY <1>2
    <2> QED
      BY <2>2, <2>3, ReachElsewhere
  <1>5. Reach(i, m) = {i}
    BY <1>1, ReachStep, ReachNull
  <1>6. \A j \in Item : Reach(m[j], m) \subseteq Reach(n[j], n)
    <2> SUFFICES ASSUME NEW j \in Item PROVE Reach(m[j], m) \subseteq Reach(n[j], n)
      OBVIOUS
    <2>1. CASE j = i
      BY <1>1, <2>1, ReachNull
    <2>2. CASE j # i
      BY <1>1, <1>3, <2>2
    <2> QED
      BY <2>1, <2>2
  <1>7. \A j \in K : Reach(m[j], m) = Reach(n[j], n)
    BY <1>1, <1>4 DEF Shape
  <1> QED
    BY <1>3, <1>4, <1>5, <1>6, <1>7 DEF LeadsNowhere

LEMMA CallKeeps ==
  ASSUME ListTyped, ListSafe, ListKept, NEW t \in Thread, Call(t)
  PROVE  ListKept'
  <1> SUFFICES ASSUME ~ clash' PROVE ListKept'
    BY DEF ListKept
  <1> DEFINE o == op[t]
  <1>1. ~ clash
    BY DEF Call, Walk, AddBegin, AddCount, AddTest, AddFirst, AddStart, AddWalk, AddNext, AddLink,
           DeleteBegin, DeleteCheck, DeleteEnter, DeleteSeek, DeleteUnlink, DeleteFree, DeleteCount, PrintBegin, PrintStep,
           Histories
  <1>2. /\ OneDeletes /\ EachItsOwn /\ Shape(Live, head, next) /\ Apart(Live, Hands, head, next)
        /\ DeleterKnows
        /\ linked \subseteq allocated /\ Lasting \subseteq Reach(head, next)
        /\ NothingLost /\ SoloAdds
    BY <1>1 DEF ListSafe, ListKept
  <1>3. /\ op \in [Thread -> Op] /\ next \in [Item -> Pointer] /\ allocated \subseteq Item
        /\ head \in Pointer /\ Live \subseteq allocated /\ Live \in SUBSET Item /\ Null \notin Live
        /\ o \in Op /\ HasItem(o) /\ \A u \in Thread : op[u] \in Op /\ HasItem(op[u])
    BY ListConstants DEF ListTyped, ListTypeOK, Pointers, Live
  <1>4. /\ Knows(o, Live, Hands, head, next) /\ Loses(o, Lasting, linked, head, next)
        /\ \A u \in Thread : /\ Knows(op[u], Live, Hands, head, next)
                             /\ Loses(op[u], Lasting, linked, head, next)
    BY <1>2 DEF DeleterKnows, NothingLost
  <1>5. InHandOf(o) => o.item \in Hands /\ o.item \in Live
    BY <1>2 DEF Hands, InHand, InHandOf, Apart
  <1>6. \A u \in Thread : u # t /\ InHandOf(o) /\ InHandOf(op[u]) => op[u].item # o.item
    BY <1>2 DEF EachItsOwn, InHand, InHandOf
  <1>7. \A u \in Thread : op[u].pc = "free" => op[u].curr \notin Live
    BY DEF Live, At
  <1> HIDE DEF o
  <1>8. CASE AddBegin(t)
    <2>1. PICK i \in Item \ allocated :
            /\ Begins(t, [Idle EXCEPT !.pc = "count", !.item = i, !.count = number_of_items], {i})
            /\ allocated' = allocated \cup {i}
            /\ next' = [next EXCEPT ![i] = Null]
            /\ UNCHANGED <<head, linked>>
      BY <1>8 DEF AddBegin
    <2> DEFINE q == [Idle EXCEPT !.pc = "count", !.item = i, !.count = number_of_items]
    <2>2. q.pc = "count" /\ q.item = i /\ Begins(t, q, {i})
      BY <2>1, IdleTyped DEF Op
    <2> HIDE DEF q
    <2>3. SoloAdds'
      BY <1>3, <2>2, SoloAddsBegun
    <2>4. \A u \in Thread : op'[u] = IF u = t THEN q ELSE op[u]
      BY <1>3, <2>2 DEF Begins
    <2>5. i \notin linked /\ i \notin Live
      BY <1>2, <1>3, <2>1
    <2>6. Lasting' \in SUBSET Lasting
      <3>1. alone' \subseteq alone \cup {i}
        BY <2>2 DEF Begins
      <3> QED
        BY <2>1, <2>5, <3>1 DEF Lasting
    <2>7. /\ Reach(i, next') = {i}
          /\ \A p \in Pointer : Reach(p, next') \subseteq Reach(p, next)
          /\ \A j \in Item : Reach(next'[j], next') \subseteq Reach(next[j], next)
          /\ \A p \in Live \cup {Null} : Reach(p, next') = Reach(p, next)
          /\ \A j \in Live : Reach(next'[j], next') = Reach(next[j], next)
      <3>1. Turns(next, i, Null, next')
        BY <1>3, <2>1, ListConstants DEF Turns
      <3>2. LeadsNowhere(Live, i, next, next')
        BY <1>2, <1>3, <2>5, <3>1, NewItemReaches
      <3> QED
        BY <3>2 DEF LeadsNowhere
    <2>8. next' \in [Item -> Pointer]
      BY <1>3, <2>1, ListConstants
    <2>9. Reach(head', next') = Reach(head, next)
      BY <1>2, <2>1, <2>7 DEF Shape
    <2>10. \A u \in Thread : u # t => Loses(op[u], Lasting', linked', head', next')
      <3> SUFFICES ASSUME NEW u \in Thread PROVE Loses(op[u], Lasting', linked', head', next')
        OBVIOUS
      <3>1. InHandOf(op[u]) => op[u].item \notin linked'
        BY <1>4, <2>1 DEF Loses
      <3>2. op[u].pc = "free" => op[u].curr \notin linked'
        BY <1>4, <2>1 DEF Loses
      <3> QED
        BY <1>3, <1>4, <2>6, <2>7, <2>8, <2>9, <3>1, <3>2, LosesStill
    <2>11. Loses(q, Lasting', linked', head', next')
      BY <2>1, <2>2, <2>5, <2>6, <2>7 DEF Loses, Lasting
    <2>12. NothingLost'
      BY <2>4, <2>10, <2>11 DEF NothingLost
    <2> QED
      BY <1>2, <2>1, <2>3, <2>6, <2>9, <2>12 DEF ListKept
  <1>9. CASE AddCount(t)
    <2> DEFINE q == [o EXCEPT !.pc = "empty"]
    <2>1. /\ q.pc = "empty" /\ q.item = o.item /\ o.pc = "count" /\ op' = [op EXCEPT ![t] = q]
          /\ UNCHANGED <<head, next, allocated, linked, alone>>
      BY <1>3, <1>9 DEF AddCount, At, Goto, Step, Histories, Op, o
    <2> HIDE DEF q
    <2>2. Loses(q, Lasting, linked, head, next)
      BY <1>4, <2>1 DEF Loses, InHandOf
    <2>3. SoloAdds'
      BY <1>2, <1>3, <2>1, SoloAddsAfter DEF Solo, InHand, o
    <2> QED
      BY <1>2, <1>3, <2>1, <2>2, <2>3, QuietKeeps
  <1>10. CASE AddTest(t)
    <2> DEFINE q == [o EXCEPT !.pc = IF head = Null THEN "first" ELSE "start"]
    <2>1. /\ q.item = o.item /\ o.pc = "empty" /\ op' = [op EXCEPT ![t] = q]
          /\ \/ q.pc = "first" /\ head = Null
             \/ q.pc = "start" /\ head # Null
          /\ UNCHANGED <<head, next, allocated, linked, alone>>
      BY <1>3, <1>10 DEF AddTest, At, Goto, Step, Histories, Op, o
    <2> HIDE DEF q
    <2>2. head = Null => Lasting = {}
      BY <1>2, ReachNull
    <2>3. Loses(q, Lasting, linked, head, next)
      BY <1>4, <2>1, <2>2 DEF Loses, InHandOf
    <2>5. SoloAdds'
      BY <1>2, <1>3, <2>1, SoloAddsAfter DEF Solo, InHand, o
    <2> QED
      BY <1>2, <1>3, <2>1, <2>3, <2>5, QuietKeeps
  <1>11. CASE AddFirst(t)
    <2>1. /\ o.pc = "first" /\ op' = [op EXCEPT ![t] = Idle] /\ head' = o.item
          /\ linked' = linked \cup {o.item} /\ InHandOf(o)
          /\ UNCHANGED <<next, allocated, alone>>
      BY <1>11 DEF AddFirst, At, Step, InHandOf, o
    <2>2. Lasting = {} /\ Lasting' \subseteq {o.item}
      BY <1>4, <2>1 DEF Loses, Lasting
    <2>3. o.item \in Reach(head', next')
      <3>1. o.item \in Pointer /\ o.item # Null
        BY <1>3, <2>1, ListConstants DEF HasItem, Op
      <3> QED
        BY <1>3, <2>1, <3>1, ReachClosed
    <2>4. SoloAdds'
      BY <1>2, <1>3, <2>1, IdleTyped, SoloAddsAfter DEF InHandOf, o
    <2>5. linked' \subseteq allocated'
      BY <1>2, <1>3, <1>5, <2>1
    <2>6. ASSUME NEW u \in Thread, u # t PROVE Loses(op[u], Lasting', linked', head', next')
      <3>1. CASE o.item \in alone
        <4>1. Others(t) = {}
          BY <1>2, <2>1, <3>1 DEF SoloAdds, InHand, InHandOf, o
        <4>2. op[u].pc \in {"idle", "print"}
          BY <2>6, <4>1 DEF Others, Busy
        <4> QED
          BY <4>2, NothingToLose
      <3>2. CASE o.item \notin alone
        <4>1. Lasting' = {}
          BY <2>1, <2>2, <3>2 DEF Lasting
        <4>2. InHandOf(op[u]) => op[u].item \notin linked'
          BY <1>4, <1>6, <2>1, <2>6 DEF Loses
        <4>3. op[u].pc = "free" => op[u].curr \notin linked'
          BY <1>4, <1>5, <1>7, <2>1 DEF Loses
        <4> QED
          BY <4>1, <4>2, <4>3 DEF Loses
      <3> QED
        BY <3>1, <3>2
    <2>7. \A u \in Thread : op'[u] = IF u = t THEN Idle ELSE op[u]
      BY <1>3, <2>1
    <2>8. NothingLost'
      BY <2>6, <2>7, IdleTyped, NothingToLose DEF NothingLost
    <2> QED
      BY <2>2, <2>3, <2>4, <2>5, <2>8 DEF ListKept
  <1>21. CASE AddStart(t)
    <2> DEFINE q == [o EXCEPT !.pc = "walk", !.curr = head]
    <2>1. /\ q.item = o.item /\ o.pc = "start" /\ op' = [op EXCEPT ![t] = q]
          /\ q.pc = "walk" /\ q.curr = head
          /\ UNCHANGED <<head, next, allocated, linked, alone>>
      BY <1>3, <1>21 DEF AddStart, At, Step, Histories, Op, o
    <2> HIDE DEF q
    <2>2. Loses(q, Lasting, linked, head, next)
      BY <1>4, <2>1 DEF Loses, InHandOf
    <2>3. head # Null => head \in Reach(head, next)
      BY <1>3, ReachClosed
    <2>4. Solo(o, head, next) => Solo(q, head, next)
      BY <2>1, <2>3 DEF Solo
    <2>5. SoloAdds'
      BY <1>2, <1>3, <2>1, <2>4, SoloAddsAfter DEF SoloAdds, InHand, InHandOf, o
    <2> QED
      BY <1>2, <1>3, <2>1, <2>2, <2>5, QuietKeeps
  <1>12. CASE AddWalk(t)
    <2> DEFINE q == [o EXCEPT !.pc = IF o.curr = Null THEN "fault"
                                     ELSE IF next[o.curr] = Null THEN "link" ELSE "step"]
    <2>1. /\ q.item = o.item /\ o.pc = "walk" /\ op' = [op EXCEPT ![t] = q] /\ q.curr = o.curr
          /\ \/ q.pc = "fault" /\ o.curr = Null
             \/ q.pc = "link" /\ next[o.curr] = Null
             \/ q.pc = "step" /\ next[o.curr] # Null
          /\ UNCHANGED <<head, next, allocated, linked, alone>>
      BY <1>3, <1>12 DEF AddWalk, At, Goto, Step, Histories, Op, o
    <2> HIDE DEF q
    <2>2. Loses(q, Lasting, linked, head, next)
      BY <1>4, <2>1, ReachNull DEF Loses, InHandOf
    <2>3. Null \notin Reach(head, next)
      BY ListConstants DEF Reach
    <2>4. Solo(o, head, next) => Solo(q, head, next)
      BY <2>1, <2>3 DEF Solo
    <2>5. SoloAdds'
      BY <1>2, <1>3, <2>1, <2>4, SoloAddsAfter DEF SoloAdds, InHand, InHandOf, o
    <2> QED
      BY <1>2, <1>3, <2>1, <2>2, <2>5, QuietKeeps
  <1>22. CASE AddNext(t)
    <2> DEFINE q == [o EXCEPT !.pc = "walk", !.curr = next[o.curr]]
    <2>1. /\ q.item = o.item /\ o.pc = "step" /\ op' = [op EXCEPT ![t] = q]
          /\ q.pc = "walk" /\ q.curr = next[o.curr]
          /\ UNCHANGED <<head, next, allocated, linked, alone>>
      BY <1>3, <1>22 DEF AddNext, At, Step, Histories, Op, o
    <2> HIDE DEF q
    <2>2. Loses(q, Lasting, linked, head, next)
      BY <1>4, <2>1 DEF Loses, InHandOf
    <2>3. Closed(Reach(head, next), next)
      BY <1>3, ReachClosed
    <2>4. Solo(o, head, next) => Solo(q, head, next)
      BY <2>1, <2>3 DEF Solo, Closed
    <2>5. SoloAdds'
      BY <1>2, <1>3, <2>1, <2>4, SoloAddsAfter DEF SoloAdds, InHand, InHandOf, o
    <2> QED
      BY <1>2, <1>3, <2>1, <2>2, <2>5, QuietKeeps
  <1>13. CASE AddLink(t)
    <2>1. /\ o.pc = "link" /\ op' = [op EXCEPT ![t] = Idle]
          /\ next' = [next EXCEPT ![o.curr] = o.item]
          /\ linked' = linked \cup {o.item} /\ InHandOf(o) /\ o.curr \in Item /\ o.item \in Item
          /\ UNCHANGED <<head, allocated, alone>>
      BY <1>3, <1>13 DEF AddLink, At, Step, InHandOf, HasItem, o
    <2>2. o.item \in Pointer /\ next' \in [Item -> Pointer] /\ next'[o.curr] = o.item
      BY <1>3, <2>1, ListConstants
    <2>3. /\ \A p \in Pointer : Reach(p, next') \cap Lasting = Reach(p, next) \cap Lasting
          /\ \A j \in Item : Reach(next'[j], next') \cap Lasting = Reach(next[j], next) \cap Lasting
      <3>1. Reach(o.item, next) \cap Lasting = {} /\ Reach(next[o.curr], next) \cap Lasting = {}
        BY <1>4, <2>1 DEF Loses
      <3>2. Turns(next, o.curr, o.item, next')
        BY <1>3, <2>1, <2>2 DEF Turns
      <3>3. Alike(Lasting, o.item, next, next[o.curr], next) /\ NoLoop(Lasting, next, o.curr, o.item)
        BY <3>1 DEF Alike, NoLoop
      <3>4. Everywhere(Lasting, next, next')
        BY <3>2, <3>3, ReachTurned
      <3> QED
        BY <3>4 DEF Everywhere, Alike
    <2>4. SoloAdds'
      BY <1>2, <1>3, <2>1, IdleTyped, SoloAddsAfter DEF InHandOf, o
    <2>5. linked' \subseteq allocated'
      BY <1>2, <1>3, <1>5, <2>1
    <2>6. Lasting \subseteq Reach(head', next')
      BY <1>2, <1>3, <2>1, <2>3
    <2>7. CASE o.item \in alone
      <3>1. Others(t) = {} /\ o.curr \in Reach(head, next) /\ next[o.curr] = Null
        BY <1>2, <2>1, <2>7 DEF SoloAdds, Solo, InHand, InHandOf, o
      <3>2. \A u \in Thread : u # t => op[u].pc \in {"idle", "print"}
        BY <3>1 DEF Others, Busy
      <3>3. \A u \in Thread : op'[u] = IF u = t THEN Idle ELSE op[u]
        BY <1>3, <2>1
      <3>4. NothingLost'
        BY <3>2, <3>3, IdleTyped, NothingToLose DEF NothingLost
      <3>5. o.curr \in Reach(head, next')
        <4> SUFFICES ASSUME o.curr \notin Reach(head, next') PROVE FALSE
          OBVIOUS
        <4>1. Turns(next', o.curr, Null, next)
          BY <1>3, <2>1, <2>2, <3>1, ListConstants DEF Turns
        <4>2. Reach(head, next) = Reach(head, next')
          BY <1>3, <4>1, ReachElsewhere
        <4> QED
          BY <3>1, <4>2
      <3>6. o.item \in Reach(head', next')
        <4>1. Closed(Reach(head, next'), next')
          BY <1>3, <2>2, ReachClosed
        <4> QED
          BY <2>1, <2>2, <3>5, <4>1, ListConstants DEF Closed
      <3>7. Lasting' \subseteq Lasting \cup {o.item}
        BY <2>1 DEF Lasting
      <3> QED
        BY <2>4, <2>5, <2>6, <3>4, <3>6, <3>7 DEF ListKept
    <2>8. CASE o.item \notin alone
      <3>1. Lasting' = Lasting
        BY <2>1, <2>8 DEF Lasting
      <3>2. ASSUME NEW u \in Thread, u # t PROVE Loses(op[u], Lasting, linked', head', next')
        <4>1. InHandOf(op[u]) => op[u].item \notin linked'
          BY <1>4, <1>6, <2>1, <3>2 DEF Loses
        <4>2. op[u].pc = "free" => op[u].curr \notin linked'
          BY <1>4, <1>5, <1>7, <2>1 DEF Loses
        <4>3. Live \cup {Null} \subseteq Pointer
          BY <1>3, ListConstants
        <4>4. Reach(head', next') \cap Lasting = Reach(head, next) \cap Lasting
          BY <1>3, <2>1, <2>3
        <4>5. \A p \in Pointer : Reach(p, next') \cap Lasting \subseteq Reach(p, next)
          BY <2>3
        <4>6. \A j \in Item : Reach(next'[j], next') \cap Lasting \subseteq Reach(next[j], next)
          BY <2>3
        <4>7. \A p \in Live \cup {Null} : Reach(p, next') \cap Lasting = Reach(p, next) \cap Lasting
          BY <2>3, <4>3
        <4>8. \A j \in Live : Reach(next'[j], next') \cap Lasting = Reach(next[j], next) \cap Lasting
          BY <1>3, <2>3
        <4>9. Lasting \in SUBSET Lasting
          OBVIOUS
        <4> QED
          BY <1>3, <1>4, <2>2, <4>1, <4>2, <4>4, <4>5, <4>6, <4>7, <4>8, <4>9, LosesStill
      <3>3. \A u \in Thread : op'[u] = IF u = t THEN Idle ELSE op[u]
        BY <1>3, <2>1
      <3>4. NothingLost'
        BY <3>1, <3>2, <3>3, IdleTyped, NothingToLose DEF NothingLost
      <3> QED
        BY <2>4, <2>5, <2>6, <3>1, <3>4 DEF ListKept
    <2> QED
      BY <2>7, <2>8
  <1>14. CASE DeleteBegin(t)
    <2>1. PICK n \in 0 .. Cardinality(Item) : Begins(t, [Idle EXCEPT !.pc = "check", !.n = n], {})
      BY <1>14 DEF DeleteBegin
    <2> DEFINE q == [Idle EXCEPT !.pc = "check", !.n = n]
    <2>2. q.pc = "check" /\ Begins(t, q, {})
      BY <2>1, IdleTyped DEF Op
    <2> HIDE DEF q
    <2>3. UNCHANGED <<head, next, allocated, linked>>
      BY <1>14 DEF DeleteBegin
    <2>4. SoloAdds'
      BY <1>3, <2>2, SoloAddsBegun DEF InHandOf
    <2>5. \A u \in Thread : op'[u] = IF u = t THEN q ELSE op[u]
      BY <1>3, <2>2 DEF Begins
    <2>6. Lasting' \in SUBSET Lasting
      <3>1. alone' \subseteq alone
        BY <2>2 DEF Begins
      <3> QED
        BY <2>3, <3>1 DEF Lasting
    <2>7. \A u \in Thread : Loses(op[u], Lasting', linked', head', next')
      <3> SUFFICES ASSUME NEW u \in Thread PROVE Loses(op[u], Lasting', linked', head', next')
        OBVIOUS
      <3>1. InHandOf(op[u]) => op[u].item \notin linked'
        BY <1>4, <2>3 DEF Loses
      <3>2. op[u].pc = "free" => op[u].curr \notin linked'
        BY <1>4, <2>3 DEF Loses
      <3> QED
        BY <1>3, <1>4, <2>3, <2>6, <3>1, <3>2, LosesStill
    <2>8. NothingLost'
      BY <2>2, <2>5, <2>7, NothingToLose DEF NothingLost
    <2> QED
      BY <1>2, <2>3, <2>4, <2>6, <2>8 DEF ListKept
  <1>15. CASE DeleteCheck(t)
    <2> DEFINE q == IF o.n > number_of_items THEN Idle ELSE [o EXCEPT !.pc = "enter"]
    <2>1. /\ op' = [op EXCEPT ![t] = q] /\ o.pc = "check"
          /\ UNCHANGED <<head, next, allocated, linked, alone>>
      BY <1>15 DEF DeleteCheck, At, Goto, Step, Histories, o
    <2>2. q.pc \in {"idle", "enter"}
      BY <1>3, IdleTyped DEF Op
    <2> HIDE DEF q
    <2>3. Loses(q, Lasting, linked, head, next)
      BY <2>2, NothingToLose
    <2>4. SoloAdds'
      BY <1>2, <1>3, <2>1, <2>2, SoloAddsAfter DEF InHandOf, o
    <2> QED
      BY <1>2, <1>3, <2>1, <2>3, <2>4, QuietKeeps
  <1>23. CASE DeleteEnter(t)
    <2> DEFINE q == [o EXCEPT !.pc = "seek", !.curr = head]
    <2>1. /\ op' = [op EXCEPT ![t] = q] /\ o.pc = "enter"
          /\ q.pc = "seek" /\ q.curr = head /\ q.prev = Null
          /\ UNCHANGED <<head, next, allocated, linked, alone>>
      BY <1>3, <1>23 DEF DeleteEnter, At, Step, Histories, HasItem, Op, o
    <2> HIDE DEF q
    <2>3. Loses(q, Lasting, linked, head, next)
      BY <2>1 DEF Loses, InHandOf, From
    <2>4. SoloAdds'
      BY <1>2, <1>3, <2>1, SoloAddsAfter DEF InHandOf, o
    <2> QED
      BY <1>2, <1>3, <2>1, <2>3, <2>4, QuietKeeps
  <1>16. CASE DeleteSeek(t)
    <2>1. PICK q : /\ op' = [op EXCEPT ![t] = q]
                   /\ \/ q = Idle
                      \/ o.curr # Null /\ q = [o EXCEPT !.pc = "unlink", !.item = next[o.curr]]
                      \/ /\ o.curr # Null
                         /\ q = [o EXCEPT !.prev = o.curr, !.curr = next[o.curr], !.i = @ + 1]
      BY <1>16 DEF DeleteSeek, Step, o
    <2>2. o.pc = "seek" /\ UNCHANGED <<head, next, allocated, linked, alone>>
      BY <1>16 DEF DeleteSeek, At, Histories, o
    <2>3. \/ q.pc = "idle"
          \/ /\ o.curr # Null /\ q.pc = "unlink" /\ q.item = next[o.curr] /\ q.curr = o.curr
             /\ q.prev = o.prev
          \/ o.curr # Null /\ q.pc = "seek" /\ q.prev = o.curr /\ q.curr = next[o.curr]
      BY <1>3, <2>1, <2>2, IdleTyped DEF Op
    <2>4. o.curr # Null => Reach(o.curr, next) = {o.curr} \cup Reach(next[o.curr], next)
      BY <1>3, <1>4, <2>2, ReachStep DEF Knows
    <2>5. Reach(o.curr, next) \cap Lasting = Reach(From(o, head, next), next) \cap Lasting
      BY <1>4, <2>2 DEF Loses
    <2>6. CASE q.pc = "idle"
      <3>1. Loses(q, Lasting, linked, head, next)
        BY <2>6, NothingToLose
      <3>2. SoloAdds'
        BY <1>2, <1>3, <2>1, <2>2, <2>6, SoloAddsAfter DEF InHandOf, o
      <3> QED
        BY <1>2, <1>3, <2>1, <2>2, <3>1, <3>2, QuietKeeps
    <2>7. CASE /\ o.curr # Null /\ q.pc = "unlink" /\ q.item = next[o.curr] /\ q.curr = o.curr
               /\ q.prev = o.prev
      <3>1. From(q, head, next) = From(o, head, next)
        BY <2>7 DEF From
      <3>2. (Reach(q.item, next) \cap Lasting) \ {q.curr}
              = (Reach(From(q, head, next), next) \cap Lasting) \ {q.curr}
        BY <2>4, <2>5, <2>7, <3>1
      <3>3. Loses(q, Lasting, linked, head, next)
        BY <2>7, <3>2 DEF Loses, InHandOf
      <3>4. SoloAdds'
        BY <1>2, <1>3, <2>1, <2>2, <2>7, SoloAddsAfter DEF InHandOf, o
      <3> QED
        BY <1>2, <1>3, <2>1, <2>2, <3>3, <3>4, QuietKeeps
    <2>8. CASE o.curr # Null /\ q.pc = "seek" /\ q.prev = o.curr /\ q.curr = next[o.curr]
      <3>1. From(q, head, next) = q.curr
        BY <2>8 DEF From
      <3>2. Loses(q, Lasting, linked, head, next)
        BY <2>8, <3>1 DEF Loses, InHandOf
      <3>3. SoloAdds'
        BY <1>2, <1>3, <2>1, <2>2, <2>8, SoloAddsAfter DEF InHandOf, o
      <3> QED
        BY <1>2, <1>3, <2>1, <2>2, <3>2, <3>3, QuietKeeps
    <2> QED
      BY <2>3, <2>6, <2>7, <2>8
  <1>17. CASE DeleteUnlink(t)
    <2> DEFINE q == [o EXCEPT !.pc = "free"]
    <2>1. /\ q.pc = "free" /\ q.curr = o.curr /\ o.pc = "unlink" /\ op' = [op EXCEPT ![t] = q]
          /\ linked' = linked \ {o.curr} /\ UNCHANGED <<allocated, alone>>
          /\ \/ o.prev = Null /\ head' = o.item /\ next' = next
             \/ o.prev # Null /\ head' = head /\ next' = [next EXCEPT ![o.prev] = o.item]
      BY <1>3, <1>17 DEF DeleteUnlink, At, Goto, Step, Op, o
    <2> HIDE DEF q
    <2>2. Lasting' = Lasting \ {o.curr}
      BY <2>1 DEF Lasting
    <2>3. o.item \in Pointer /\ next' \in [Item -> Pointer] /\ head' \in Pointer
      BY <1>3, <2>1 DEF Op
    <2>4. /\ \A p \in Pointer : Reach(p, next') \cap Lasting' = Reach(p, next) \cap Lasting'
          /\ \A j \in Item : Reach(next'[j], next') \cap Lasting' = Reach(next[j], next) \cap Lasting'
          /\ Reach(head', next') \cap Lasting' = Reach(head, next) \cap Lasting'
      <3>1. CASE o.prev = Null /\ head' = o.item /\ next' = next
        <4>1. (Reach(o.item, next) \cap Lasting) \ {o.curr} = (Reach(head, next) \cap Lasting) \ {o.curr}
          BY <1>4, <2>1, <3>1 DEF Loses, From
        <4> QED
          BY <2>2, <3>1, <4>1
      <3>2. CASE o.prev # Null /\ head' = head /\ next' = [next EXCEPT ![o.prev] = o.item]
        <4>1. /\ \A p \in Pointer : Reach(p, next') \cap Lasting' = Reach(p, next) \cap Lasting'
              /\ \A j \in Item : Reach(next'[j], next') \cap Lasting' = Reach(next[j], next) \cap Lasting'
          <5>1. Turns(next, o.prev, o.item, next')
            BY <1>3, <1>4, <2>1, <2>3, <3>2, ListConstants DEF Turns, Knows
          <5>2. Everywhere(Lasting \ {o.curr}, next, next')
            BY <1>2, <1>3, <1>4, <2>1, <3>2, <5>1, UnlinkReaches
          <5> QED
            BY <2>2, <5>2 DEF Everywhere, Alike
        <4> QED
          BY <1>3, <3>2, <4>1
      <3> QED
        BY <2>1, <3>1, <3>2
    <2>5. SoloAdds'
      BY <1>2, <1>3, <2>1, SoloAddsAfter DEF InHandOf, o
    <2>6. ASSUME NEW u \in Thread, u # t PROVE Loses(op[u], Lasting', linked', head', next')
      <3>1. InHandOf(op[u]) => op[u].item \notin linked'
        BY <1>4, <2>1 DEF Loses
      <3>2. op[u].pc = "free" => op[u].curr \notin linked'
        BY <1>4, <2>1 DEF Loses
      <3>3. Live \cup {Null} \subseteq Pointer
        BY <1>3, ListConstants
      <3>4. Lasting' \in SUBSET Lasting
        BY <2>2
      <3>5. \A p \in Pointer : Reach(p, next') \cap Lasting' \subseteq Reach(p, next)
        BY <2>4
      <3>6. \A j \in Item : Reach(next'[j], next') \cap Lasting' \subseteq Reach(next[j], next)
        BY <2>4
      <3>7. \A p \in Live \cup {Null} : Reach(p, next') \cap Lasting' = Reach(p, next) \cap Lasting'
        BY <2>4, <3>3
      <3>8. \A j \in Live : Reach(next'[j], next') \cap Lasting' = Reach(next[j], next) \cap Lasting'
        BY <1>3, <2>4
      <3> QED
        BY <1>3, <1>4, <2>3, <2>4, <3>1, <3>2, <3>4, <3>5, <3>6, <3>7, <3>8, LosesStill
    <2>7. Loses(q, Lasting', linked', head', next')
      BY <2>1 DEF Loses, InHandOf
    <2>8. \A u \in Thread : op'[u] = IF u = t THEN q ELSE op[u]
      BY <1>3, <2>1
    <2>9. NothingLost'
      BY <2>6, <2>7, <2>8 DEF NothingLost
    <2>10. Lasting' \subseteq Reach(head', next')
      BY <1>2, <2>2, <2>4
    <2> QED
      BY <1>2, <2>1, <2>5, <2>9, <2>10 DEF ListKept
  <1>18. CASE DeleteFree(t)
    <2> DEFINE q == [o EXCEPT !.pc = "uncount", !.count = number_of_items]
    <2>1. /\ q.pc = "uncount" /\ o.pc = "free" /\ op' = [op EXCEPT ![t] = q]
          /\ allocated' = allocated \ {o.curr} /\ linked' = linked \ {o.curr}
          /\ UNCHANGED <<head, next, alone>>
      BY <1>3, <1>18 DEF DeleteFree, At, Step, Op, o
    <2> HIDE DEF q
    <2>2. linked' = linked
      BY <1>4, <2>1 DEF Loses
    <2>3. linked \subseteq allocated'
      BY <1>2, <2>1, <2>2
    <2>4. SoloAdds'
      BY <1>2, <1>3, <2>1, SoloAddsAfter DEF InHandOf, o
    <2>5. Loses(q, Lasting, linked, head, next)
      BY <2>1, NothingToLose
    <2> QED
      BY <1>2, <1>3, <2>1, <2>2, <2>3, <2>4, <2>5, QuietKeeps
  <1>19. CASE DeleteCount(t)
    <2>1. /\ op' = [op EXCEPT ![t] = Idle] /\ o.pc = "uncount"
          /\ UNCHANGED <<head, next, allocated, linked, alone>>
      BY <1>19 DEF DeleteCount, At, Step, Histories, o
    <2>2. SoloAdds'
      BY <1>2, <1>3, <2>1, IdleTyped, SoloAddsAfter DEF InHandOf, o
    <2>3. Loses(Idle, Lasting, linked, head, next)
      BY IdleTyped, NothingToLose
    <2> QED
      BY <1>2, <1>3, <2>1, <2>2, <2>3, QuietKeeps
  <1>20. CASE Walk(t)
    <2>1. PICK q : op' = [op EXCEPT ![t] = q] /\ q.pc \in {"idle", "print"}
      <3>1. \/ op' = [op EXCEPT ![t] = Idle]
            \/ op' = [op EXCEPT ![t] = [Idle EXCEPT !.pc = "print", !.curr = head, !.due = ToSet(Chain)]]
            \/ o.pc = "print" /\
               op' = [op EXCEPT ![t] = [o EXCEPT !.curr = next[o.curr], !.due = @ \ {o.curr}]]
        BY <1>20 DEF Walk, PrintBegin, PrintStep, At, Step, o
      <3>2. o.pc = "print" => [o EXCEPT !.curr = next[o.curr], !.due = @ \ {o.curr}].pc = "print"
        BY <1>3 DEF Op
      <3>3. [Idle EXCEPT !.pc = "print", !.curr = head, !.due = ToSet(Chain)].pc = "print"
        BY DEF Idle
      <3> QED
        BY <3>1, <3>2, <3>3, IdleTyped
    <2>2. o.pc \in {"idle", "print"} /\ UNCHANGED <<head, next, allocated, linked, alone>>
      BY <1>20 DEF Walk, PrintBegin, PrintStep, Busy, At, Histories, o
    <2>3. SoloAdds'
      BY <1>2, <1>3, <2>1, <2>2, SoloAddsPrinted DEF o
    <2>4. Loses(q, Lasting, linked, head, next)
      BY <2>1, NothingToLose
    <2> QED
      BY <1>2, <1>3, <2>1, <2>2, <2>3, <2>4, QuietKeeps
  <1> QED
    BY <1>8, <1>9, <1>10, <1>11, <1>12, <1>13, <1>14, <1>15, <1>16, <1>17, <1>18, <1>19, <1>20,
       <1>21, <1>22, <1>23
    DEF Call

LEMMA InitKept ==
  ASSUME InitList
  PROVE  ListKept
  <1>1. PICK s \in Seq(Item) :
          /\ Len(s) \in 0 .. 2
          /\ \A j, k \in 1 .. Len(s) : s[j] = s[k] => j = k
          /\ head = IF Len(s) = 0 THEN Null ELSE s[1]
          /\ next \in [Item -> Pointer]
          /\ \A i \in Item : next[i] = IF Len(s) = 2 /\ i = s[1] THEN s[2] ELSE Null
          /\ allocated = { s[k] : k \in 1 .. Len(s) }
          /\ alone = allocated /\ linked = allocated
          /\ op = [t \in Thread |-> Idle]
    BY InitShape
  <1>2. NothingLost /\ SoloAdds
    BY <1>1, IdleTyped, NothingToLose DEF NothingLost, SoloAdds, InHand
  <1>3. Lasting \subseteq Reach(head, next)
    <2>1. CASE Len(s) = 0
      BY <1>1, <2>1 DEF Lasting
    <2>2. CASE Len(s) # 0
      <3>1. s[1] \in Item /\ head = s[1] /\ head \in Pointer
        BY <1>1, <2>2, ListConstants
      <3>2. head \in Reach(head, next) /\ Closed(Reach(head, next), next)
        BY <1>1, <3>1, ReachClosed, ListConstants
      <3>3. Len(s) = 2 => s[2] \in Item /\ next[s[1]] = s[2]
        <4>1. Len(s) = 2 => s[2] \in Item
          BY <1>1, SMTT(20)
        <4> QED
          BY <1>1, <3>1, <4>1
      <3>4. Len(s) = 2 => s[2] \in Reach(head, next)
        BY <3>1, <3>2, <3>3, ListConstants DEF Closed
      <3>5. \A k \in 1 .. Len(s) : s[k] \in Reach(head, next)
        BY <1>1, <2>2, <3>1, <3>2, <3>4
      <3> QED
        BY <1>1, <3>5 DEF Lasting
    <2> QED
      BY <2>1, <2>2
  <1> QED
    BY <1>1, <1>2, <1>3 DEF ListKept

LEMMA NextKept == ListTyped /\ ListSafe /\ ListKept /\ [ListNext]_listVars => ListKept'
  <1> SUFFICES ASSUME ListTyped, ListSafe, ListKept, [ListNext]_listVars PROVE ListKept'
    OBVIOUS
  <1>1. CASE ListNext
    BY <1>1, CallKeeps DEF ListNext
  <1>2. CASE UNCHANGED listVars
    BY <1>2 DEF ListKept, Lasting, NothingLost, SoloAdds, Others, Busy, InHand, listVars
  <1> QED
    BY <1>1, <1>2

(***************************************************************************)
(* As long as no two LL_deletes overlap, an Item whose LL_add met no other *)
(* call stays in the list until it is deleted, whatever calls overlap      *)
(* later and wherever they are between two loads: what is lost             *)
(* (functions.h:456) is what was added meanwhile.                          *)
(***************************************************************************)
THEOREM LastingKept == ListSpec => []KeptUnlessOverlapped
  <1>1. ListTyped /\ ListKept => KeptUnlessOverlapped
    <2> SUFFICES ASSUME ListTyped, ListKept, ~ clash PROVE linked \cap alone \subseteq ToSet(Chain)
      BY DEF KeptUnlessOverlapped
    <2>1. ToSet(ChainFrom(head)) = Reach(head, next)
      BY ChainIsReach DEF ListTyped, ListTypeOK
    <2> QED
      BY <2>1 DEF ListKept, Lasting, Chain
  <1> QED
    BY <1>1, InitTyped, NextTyped, InitSafe, NextSafe, InitKept, NextKept, PTL DEF ListSpec

(***************************************************************************)
(* A walk that prints stands on memory that has been given out, from which *)
(* nothing leads to memory that never was, and has yet to pass what it     *)
(* owes.                                                                   *)
(***************************************************************************)
Touched == allocated \cup freed

WalksOwe ==
  \A t \in Thread : At(t, "print") =>
    /\ op[t].curr \in Touched /\ op[t].due \subseteq Touched
    /\ op[t].due \cap Lasting \subseteq Reach(op[t].curr, next)

NewNotOwed ==
  \A t, u \in Thread : At(t, "print") /\ InHand(u) => op[u].item \notin op[t].due

WalksSafe ==
  ~ clash /\ ~ reused => Closed(Touched, next) /\ WalksOwe /\ NewNotOwed

\* What adds and deletes may do under a walk that prints.
LEMMA WalksAfter ==
  ASSUME op \in [Thread -> Op], NEW t \in Thread, NEW q, op' = [op EXCEPT ![t] = q],
         WalksOwe, NewNotOwed, Closed(Touched', next'), Touched \subseteq Touched',
         q.pc # "print",
         InHandOf(q) => (InHand(t) /\ q.item = op[t].item) \/ q.item \notin Touched,
         Lasting' \subseteq Lasting \cup { x \in Item : InHand(t) /\ x = op[t].item },
         \A p \in Touched : Reach(p, next) \cap Lasting \cap Lasting' \subseteq Reach(p, next')
  PROVE  WalksSafe'
  <1>1. \A u \in Thread : op'[u] = IF u = t THEN q ELSE op[u]
    OBVIOUS
  <1>2. WalksOwe'
    <2> SUFFICES ASSUME NEW u \in Thread, At(u, "print")'
                 PROVE  /\ op'[u].curr \in Touched' /\ op'[u].due \subseteq Touched'
                        /\ op'[u].due \cap Lasting' \subseteq Reach(op'[u].curr, next')
      BY DEF WalksOwe
    <2>1. u # t /\ op'[u] = op[u] /\ At(u, "print")
      BY <1>1 DEF At
    <2>2. /\ op[u].curr \in Touched /\ op[u].due \subseteq Touched
          /\ op[u].due \cap Lasting \subseteq Reach(op[u].curr, next)
      BY <2>1 DEF WalksOwe
    <2>3. InHand(t) => op[t].item \notin op[u].due
      BY <2>1 DEF NewNotOwed
    <2>4. op[u].due \cap Lasting' \subseteq Lasting
      BY <2>3
    <2>5. Reach(op[u].curr, next) \cap Lasting \cap Lasting' \subseteq Reach(op[u].curr, next')
      BY <2>2
    <2> QED
      BY <2>1, <2>2, <2>4, <2>5
  <1>3. NewNotOwed'
    <2> SUFFICES ASSUME NEW u \in Thread, NEW v \in Thread, At(u, "print")', InHand(v)'
                 PROVE  op'[v].item \notin op'[u].due
      BY DEF NewNotOwed
    <2>1. u # t /\ op'[u] = op[u] /\ At(u, "print") /\ op[u].due \subseteq Touched
      BY <1>1 DEF At, WalksOwe
    <2>2. CASE v = t
      BY <1>1, <2>1, <2>2 DEF NewNotOwed, InHand, InHandOf
    <2>3. CASE v # t
      BY <1>1, <2>1, <2>3 DEF NewNotOwed, InHand
    <2> QED
      BY <2>2, <2>3
  <1> QED
    BY <1>2, <1>3 DEF WalksSafe

LEMMA CallWalks ==
  ASSUME ListTyped, ListSafe, ListKept, WalksSafe, NEW t \in Thread, Call(t)
  PROVE  WalksSafe'
  <1> SUFFICES ASSUME ~ clash', ~ reused' PROVE WalksSafe'
    BY DEF WalksSafe
  <1> DEFINE o == op[t]
  <1>1. ~ clash /\ ~ reused
    <2>1. ~ clash
      BY DEF Call, Walk, AddBegin, AddCount, AddTest, AddFirst, AddStart, AddWalk, AddNext, AddLink,
             DeleteBegin, DeleteCheck, DeleteEnter, DeleteSeek, DeleteUnlink, DeleteFree, DeleteCount, PrintBegin, PrintStep,
             Histories
    <2>2. CASE AddBegin(t)
      <3>1. reused \in BOOLEAN
        BY DEF ListTyped, ListTypeOK
      <3>2. PICK i \in Item : reused' = (reused \/ i \in freed)
        BY <2>2 DEF AddBegin
      <3> QED
        BY <2>1, <3>1, <3>2
    <2>3. CASE ~ AddBegin(t)
      <3>1. UNCHANGED reused
        <4>1. CASE \/ AddCount(t) \/ AddTest(t) \/ AddFirst(t) \/ AddStart(t) \/ AddWalk(t)
                   \/ AddNext(t) \/ AddLink(t)
          BY <4>1 DEF AddCount, AddTest, AddFirst, AddStart, AddWalk, AddNext, AddLink, Histories
        <4>2. CASE \/ DeleteBegin(t) \/ DeleteCheck(t) \/ DeleteEnter(t) \/ DeleteSeek(t)
                   \/ DeleteUnlink(t) \/ DeleteFree(t) \/ DeleteCount(t)
          BY <4>2 DEF DeleteBegin, DeleteCheck, DeleteEnter, DeleteSeek, DeleteUnlink, DeleteFree,
                      DeleteCount, Histories
        <4>3. CASE Walk(t)
          BY <4>3 DEF Walk, PrintBegin, PrintStep, Histories
        <4> QED
          BY <2>3, <4>1, <4>2, <4>3 DEF Call
      <3> QED
        BY <2>1, <3>1
    <2> QED
      BY <2>2, <2>3
  <1>2. /\ FreesAllocated /\ Shape(Live, head, next) /\ Apart(Live, Hands, head, next)
        /\ linked \subseteq allocated /\ Lasting \subseteq Reach(head, next)
        /\ Closed(Touched, next) /\ WalksOwe /\ NewNotOwed
        /\ Knows(o, Live, Hands, head, next) /\ Loses(o, Lasting, linked, head, next)
    BY <1>1 DEF ListSafe, ListKept, WalksSafe, DeleterKnows, NothingLost
  <1>3. /\ op \in [Thread -> Op] /\ next \in [Item -> Pointer] /\ allocated \subseteq Item
        /\ head \in Pointer /\ Live \subseteq Touched /\ Live \in SUBSET Item /\ Null \notin Live
        /\ o \in Op /\ HasItem(o) /\ Touched \in SUBSET Item /\ Touched \subseteq Pointer
    BY ListConstants DEF ListTyped, ListTypeOK, Pointers, Live, Touched
  <1>4. InHandOf(o) => o.item \in Live
    BY <1>2 DEF Hands, InHand, InHandOf, Apart
  <1> HIDE DEF o
  <1>5. CASE AddBegin(t)
    <2>1. PICK i \in Item \ allocated :
            /\ Begins(t, [Idle EXCEPT !.pc = "count", !.item = i, !.count = number_of_items], {i})
            /\ allocated' = allocated \cup {i}
            /\ next' = [next EXCEPT ![i] = Null]
            /\ reused' = (reused \/ i \in freed)
            /\ UNCHANGED <<head, linked, freed>>
      BY <1>5 DEF AddBegin
    <2> DEFINE q == [Idle EXCEPT !.pc = "count", !.item = i, !.count = number_of_items]
    <2>2. q.pc = "count" /\ q.item = i /\ Begins(t, q, {i})
      BY <2>1, IdleTyped DEF Op
    <2> HIDE DEF q
    <2>3. op' = [op EXCEPT ![t] = q] /\ alone' \subseteq alone \cup {i}
      BY <2>2 DEF Begins
    <2>4. i \notin Touched /\ Touched' = Touched \cup {i} /\ i \notin linked
      BY <1>2, <2>1 DEF Touched
    <2>5. Lasting' \subseteq Lasting
      BY <2>1, <2>3, <2>4 DEF Lasting
    <2>6. Closed(Touched', next')
      <3>1. next'[i] = Null /\ \A j \in Touched : next'[j] = next[j]
        BY <1>3, <2>1, <2>4
      <3> QED
        BY <1>2, <2>4, <3>1 DEF Closed
    <2>7. \A p \in Touched : Reach(p, next') = Reach(p, next)
      <3> SUFFICES ASSUME NEW p \in Touched PROVE Reach(p, next') = Reach(p, next)
        OBVIOUS
      <3>1. Reach(p, next) \subseteq Touched
        BY <1>2, <1>3, ReachLeast
      <3>2. i \notin Reach(p, next) /\ p \in Pointer
        BY <1>3, <2>4, <3>1
      <3>3. Turns(next, i, Null, next')
        BY <1>3, <2>1, ListConstants DEF Turns
      <3> QED
        BY <3>2, <3>3, ReachElsewhere
    <2> QED
      BY <1>2, <1>3, <2>2, <2>3, <2>4, <2>5, <2>6, <2>7, WalksAfter
  <1>6. CASE AddFirst(t)
    <2>1. /\ op' = [op EXCEPT ![t] = Idle] /\ InHandOf(o) /\ linked' = linked \cup {o.item}
          /\ UNCHANGED <<next, allocated, freed, alone>>
      BY <1>6 DEF AddFirst, At, Step, InHandOf, o
    <2>2. Touched' = Touched
      BY <2>1 DEF Touched
    <2>3. Lasting' \subseteq Lasting \cup { x \in Item : InHand(t) /\ x = op[t].item }
      BY <1>3, <1>4, <2>1 DEF Lasting, InHand, InHandOf, o
    <2> QED
      BY <1>2, <1>3, <2>1, <2>2, <2>3, IdleTyped, WalksAfter DEF InHandOf
  <1>7. CASE AddLink(t)
    <2>1. /\ o.pc = "link" /\ op' = [op EXCEPT ![t] = Idle]
          /\ next' = [next EXCEPT ![o.curr] = o.item]
          /\ linked' = linked \cup {o.item} /\ InHandOf(o) /\ o.curr \in Item
          /\ UNCHANGED <<allocated, freed, alone>>
      BY <1>3, <1>7 DEF AddLink, At, Step, InHandOf, HasItem, o
    <2>2. o.item \in Pointer /\ \A j \in Item : next'[j] = IF j = o.curr THEN o.item ELSE next[j]
      BY <1>3, <1>4, <2>1, ListConstants
    <2>3. \A p \in Pointer : Reach(p, next') \cap Lasting = Reach(p, next) \cap Lasting
      <3>1. Reach(o.item, next) \cap Lasting = {} /\ Reach(next[o.curr], next) \cap Lasting = {}
        BY <1>2, <2>1 DEF Loses
      <3>2. Turns(next, o.curr, o.item, next')
        BY <1>3, <2>1, <2>2, ListConstants DEF Turns
      <3>3. Alike(Lasting, o.item, next, next[o.curr], next) /\ NoLoop(Lasting, next, o.curr, o.item)
        BY <3>1 DEF Alike, NoLoop
      <3>4. Everywhere(Lasting, next, next')
        BY <3>2, <3>3, ReachTurned
      <3> QED
        BY <3>4 DEF Everywhere, Alike
    <2>4. Touched' = Touched
      BY <2>1 DEF Touched
    <2>5. Closed(Touched', next')
      BY <1>2, <1>3, <1>4, <2>1, <2>2, <2>4 DEF Closed
    <2>6. Lasting' \subseteq Lasting \cup { x \in Item : InHand(t) /\ x = op[t].item }
      BY <1>3, <1>4, <2>1 DEF Lasting, InHand, InHandOf, o
    <2>7. \A p \in Touched : Reach(p, next) \cap Lasting \cap Lasting' \subseteq Reach(p, next')
      BY <1>3, <2>3
    <2> QED
      BY <1>2, <1>3, <2>1, <2>4, <2>5, <2>6, <2>7, IdleTyped, WalksAfter DEF InHandOf
  <1>8. CASE DeleteUnlink(t)
    <2> DEFINE q == [o EXCEPT !.pc = "free"]
    <2>1. /\ q.pc = "free" /\ o.pc = "unlink" /\ op' = [op EXCEPT ![t] = q]
          /\ linked' = linked \ {o.curr} /\ UNCHANGED <<allocated, freed, alone>>
          /\ \/ o.prev = Null /\ next' = next
             \/ o.prev # Null /\ next' = [next EXCEPT ![o.prev] = o.item]
      BY <1>3, <1>8 DEF DeleteUnlink, At, Goto, Step, Op, o
    <2> HIDE DEF q
    <2>2. Lasting' = Lasting \ {o.curr} /\ Touched' = Touched
      BY <2>1 DEF Lasting, Touched
    <2>3. \A p \in Pointer : Reach(p, next') \cap Lasting' = Reach(p, next) \cap Lasting'
      <3>1. CASE o.prev = Null /\ next' = next
        BY <3>1
      <3>2. CASE o.prev # Null /\ next' = [next EXCEPT ![o.prev] = o.item]
        <4>1. Turns(next, o.prev, o.item, next')
          BY <1>2, <1>3, <2>1, <3>2, ListConstants DEF Turns, Knows
        <4>2. Everywhere(Lasting \ {o.curr}, next, next')
          BY <1>2, <1>3, <2>1, <3>2, <4>1, UnlinkReaches
        <4> QED
          BY <2>2, <4>2 DEF Everywhere, Alike
      <3> QED
        BY <2>1, <3>1, <3>2
    <2>4. Closed(Touched', next')
      <3>1. o.item \in Live \cup {Null}
        BY <1>2, <2>1 DEF Knows
      <3>2. \A j \in Touched : next'[j] = next[j] \/ next'[j] = o.item
        BY <1>3, <2>1
      <3> QED
        BY <1>2, <1>3, <2>2, <3>1, <3>2 DEF Closed
    <2>5. \A p \in Touched : Reach(p, next) \cap Lasting \cap Lasting' \subseteq Reach(p, next')
      BY <1>3, <2>3
    <2> QED
      BY <1>2, <1>3, <2>1, <2>2, <2>4, <2>5, WalksAfter DEF InHandOf
  <1>9. CASE DeleteFree(t)
    <2> DEFINE q == [o EXCEPT !.pc = "uncount", !.count = number_of_items]
    <2>1. /\ q.pc = "uncount" /\ At(t, "free") /\ op' = [op EXCEPT ![t] = q]
          /\ allocated' = allocated \ {o.curr} /\ linked' = linked \ {o.curr}
          /\ freed' = freed \cup {o.curr} /\ UNCHANGED <<next, alone>>
      BY <1>3, <1>9 DEF DeleteFree, At, Step, Op, o
    <2> HIDE DEF q
    <2>2. Touched' = Touched
      BY <1>2, <2>1 DEF FreesAllocated, Touched, o
    <2>3. Lasting' \subseteq Lasting
      BY <2>1 DEF Lasting
    <2> QED
      BY <1>2, <1>3, <2>1, <2>2, <2>3, WalksAfter DEF InHandOf
  <1>10. CASE DeleteBegin(t)
    <2>1. PICK n \in 0 .. Cardinality(Item) : Begins(t, [Idle EXCEPT !.pc = "check", !.n = n], {})
      BY <1>10 DEF DeleteBegin
    <2> DEFINE q == [Idle EXCEPT !.pc = "check", !.n = n]
    <2>2. q.pc = "check" /\ Begins(t, q, {})
      BY <2>1, IdleTyped DEF Op
    <2> HIDE DEF q
    <2>3. op' = [op EXCEPT ![t] = q] /\ alone' \subseteq alone
      BY <2>2 DEF Begins
    <2>4. UNCHANGED <<next, allocated, freed, linked>>
      BY <1>10 DEF DeleteBegin
    <2>5. Touched' = Touched /\ Lasting' \subseteq Lasting
      BY <2>3, <2>4 DEF Touched, Lasting
    <2> QED
      BY <1>2, <1>3, <2>2, <2>3, <2>4, <2>5, WalksAfter DEF InHandOf
  <1>11. CASE \/ AddCount(t) \/ AddTest(t) \/ AddStart(t) \/ AddWalk(t) \/ AddNext(t)
              \/ DeleteCheck(t) \/ DeleteEnter(t) \/ DeleteSeek(t) \/ DeleteCount(t)
    <2>1. UNCHANGED <<next, allocated, linked, alone, freed>>
      BY <1>11 DEF AddCount, AddTest, AddStart, AddWalk, AddNext,
                     DeleteCheck, DeleteEnter, DeleteSeek, DeleteCount, Histories
    <2>2. Touched' = Touched /\ Lasting' = Lasting
      BY <2>1 DEF Touched, Lasting
    <2>3. \E q : /\ op' = [op EXCEPT ![t] = q] /\ q.pc # "print"
                 /\ InHandOf(q) => InHand(t) /\ q.item = op[t].item
      <3>1. CASE AddCount(t)
        <4> DEFINE q == [o EXCEPT !.pc = "empty"]
        <4>1. q.pc = "empty" /\ q.item = o.item /\ InHandOf(o) /\ op' = [op EXCEPT ![t] = q]
          BY <1>3, <3>1 DEF AddCount, At, Goto, Step, Op, InHandOf, o
        <4> HIDE DEF q
        <4> QED
          BY <4>1 DEF InHand, InHandOf, o
      <3>2. CASE AddTest(t)
        <4> DEFINE q == [o EXCEPT !.pc = IF head = Null THEN "first" ELSE "start"]
        <4>1. /\ q.pc \in {"first", "start"} /\ q.item = o.item /\ InHandOf(o)
              /\ op' = [op EXCEPT ![t] = q]
          BY <1>3, <3>2 DEF AddTest, At, Goto, Step, Op, InHandOf, o
        <4> HIDE DEF q
        <4> QED
          BY <4>1 DEF InHand, InHandOf, o
      <3>7. CASE AddStart(t)
        <4> DEFINE q == [o EXCEPT !.pc = "walk", !.curr = head]
        <4>1. /\ q.pc \in {"walk"} /\ q.item = o.item /\ InHandOf(o)
              /\ op' = [op EXCEPT ![t] = q]
          BY <1>3, <3>7 DEF AddStart, At, Goto, Step, Op, InHandOf, o
        <4> HIDE DEF q
        <4> QED
          BY <4>1 DEF InHand, InHandOf, o
      <3>3. CASE AddWalk(t)
        <4> DEFINE q == [o EXCEPT !.pc = IF o.curr = Null THEN "fault"
                                         ELSE IF next[o.curr] = Null THEN "link" ELSE "step"]
        <4>1. /\ q.pc \in {"fault", "link", "step"} /\ q.item = o.item /\ InHandOf(o)
              /\ op' = [op EXCEPT ![t] = q]
          BY <1>3, <3>3 DEF AddWalk, At, Goto, Step, Op, InHandOf, o
        <4> HIDE DEF q
        <4> QED
          BY <4>1 DEF InHand, InHandOf, o
      <3>8. CASE AddNext(t)
        <4> DEFINE q == [o EXCEPT !.pc = "walk", !.curr = next[o.curr]]
        <4>1. /\ q.pc \in {"walk"} /\ q.item = o.item /\ InHandOf(o)
              /\ op' = [op EXCEPT ![t] = q]
          BY <1>3, <3>8 DEF AddNext, At, Goto, Step, Op, InHandOf, o
        <4> HIDE DEF q
        <4> QED
          BY <4>1 DEF InHand, InHandOf, o
      <3>4. CASE DeleteCheck(t)
        <4> DEFINE q == IF o.n > number_of_items THEN Idle ELSE [o EXCEPT !.pc = "enter"]
        <4>1. q.pc \in {"idle", "enter"} /\ op' = [op EXCEPT ![t] = q]
          BY <1>3, <3>4, IdleTyped DEF DeleteCheck, Goto, Step, Op, o
        <4> HIDE DEF q
        <4> QED
          BY <4>1 DEF InHandOf
      <3>9. CASE DeleteEnter(t)
        <4> DEFINE q == [o EXCEPT !.pc = "seek", !.curr = head]
        <4>1. q.pc = "seek" /\ op' = [op EXCEPT ![t] = q]
          BY <1>3, <3>9 DEF DeleteEnter, Step, Op, o
        <4> HIDE DEF q
        <4> QED
          BY <4>1 DEF InHandOf
      <3>5. CASE DeleteSeek(t)
        <4>1. PICK q : /\ op' = [op EXCEPT ![t] = q]
                       /\ \/ q = Idle
                          \/ q = [o EXCEPT !.pc = "unlink", !.item = next[o.curr]]
                          \/ q = [o EXCEPT !.prev = o.curr, !.curr = next[o.curr], !.i = @ + 1]
          BY <3>5 DEF DeleteSeek, Step, o
        <4>2. q.pc \in {"idle", "unlink", "seek"}
          BY <1>3, <3>5, <4>1, IdleTyped DEF DeleteSeek, At, Op, o
        <4> QED
          BY <4>1, <4>2 DEF InHandOf
      <3>6. CASE DeleteCount(t)
        BY <3>6, IdleTyped DEF DeleteCount, Step, InHandOf
      <3> QED
        BY <1>11, <3>1, <3>2, <3>3, <3>4, <3>5, <3>6, <3>7, <3>8, <3>9
    <2>4. PICK q : /\ op' = [op EXCEPT ![t] = q] /\ q.pc # "print"
                   /\ InHandOf(q) => InHand(t) /\ q.item = op[t].item
      BY <2>3
    <2> QED
      BY <1>2, <1>3, <2>1, <2>2, <2>4, WalksAfter
  <1>12. CASE PrintBegin(t)
    <2> DEFINE d == ToSet(Chain)
               q == [Idle EXCEPT !.pc = "print", !.curr = head, !.due = d]
    <2>1. d = Reach(head, next)
      BY <1>3, ChainIsReach DEF Chain
    <2> HIDE DEF d
    <2>2. /\ op' = [op EXCEPT ![t] = q] /\ head # Null /\ q.pc = "print" /\ q.curr = head /\ q.due = d
          /\ UNCHANGED <<head, next, allocated, freed, linked, alone>>
      BY <1>12 DEF PrintBegin, Step, Idle, d
    <2> HIDE DEF q
    <2>3. d \subseteq Live \ Hands /\ head \in Live
      <3>1. Closed(Live \ Hands, next) /\ head \in (Live \ Hands) \cup {Null}
        BY <1>2 DEF Shape, Apart, Closed
      <3> QED
        BY <1>3, <2>1, <2>2, <3>1, ReachLeast
    <2>4. \A u \in Thread : op'[u] = IF u = t THEN q ELSE op[u]
      BY <1>3, <2>2
    <2>5. Touched' = Touched /\ Lasting' = Lasting
      BY <2>2 DEF Touched, Lasting
    <2>6. WalksOwe'
      BY <1>2, <1>3, <2>1, <2>2, <2>3, <2>4, <2>5 DEF WalksOwe, At
    <2>7. NewNotOwed'
      <3>1. \A u \in Thread : InHand(u) => op[u].item \in Hands
        BY DEF Hands
      <3>2. \A u \in Thread : InHand(u)' => u # t /\ InHand(u) /\ op'[u] = op[u]
        BY <2>2, <2>4 DEF InHand
      <3> QED
        BY <1>2, <2>2, <2>3, <2>4, <3>1, <3>2 DEF NewNotOwed, At
    <2> QED
      BY <1>2, <2>2, <2>5, <2>6, <2>7 DEF WalksSafe
  <1>13. CASE PrintStep(t)
    <2> DEFINE q == IF next[o.curr] = Null THEN Idle
                    ELSE [o EXCEPT !.curr = next[o.curr], !.due = @ \ {o.curr}]
    <2>1. /\ op' = [op EXCEPT ![t] = q] /\ At(t, "print") /\ o.pc = "print"
          /\ UNCHANGED <<head, next, allocated, freed, linked, alone>>
      BY <1>13 DEF PrintStep, At, Step, Histories, o
    <2>2. \/ q.pc = "idle"
          \/ /\ q.pc = "print" /\ q.curr = next[o.curr] /\ q.due = o.due \ {o.curr}
             /\ next[o.curr] # Null
      BY <1>3, <2>1, IdleTyped DEF Op
    <2> HIDE DEF q
    <2>3. /\ o.curr \in Touched /\ o.due \subseteq Touched
          /\ o.due \cap Lasting \subseteq Reach(o.curr, next)
      BY <1>2, <2>1 DEF WalksOwe, o
    <2>4. Reach(o.curr, next) = {o.curr} \cup Reach(next[o.curr], next)
      BY <1>3, <2>3, ReachStep
    <2>5. \A u \in Thread : op'[u] = IF u = t THEN q ELSE op[u]
      BY <1>3, <2>1
    <2>6. Touched' = Touched /\ Lasting' = Lasting
      BY <2>1 DEF Touched, Lasting
    <2>7. q.pc = "print" => /\ q.curr \in Touched /\ q.due \subseteq Touched
                            /\ q.due \cap Lasting \subseteq Reach(q.curr, next)
      BY <1>2, <2>2, <2>3, <2>4 DEF Closed
    <2>8. WalksOwe'
      BY <1>2, <2>1, <2>5, <2>6, <2>7 DEF WalksOwe, At
    <2>9. NewNotOwed'
      <3>1. \A u \in Thread : InHand(u)' => u # t /\ InHand(u) /\ op'[u] = op[u]
        BY <2>2, <2>5 DEF InHand
      <3>2. q.pc = "print" => q.due \subseteq op[t].due
        BY <2>2 DEF o
      <3> QED
        BY <1>2, <2>1, <2>5, <3>1, <3>2 DEF NewNotOwed, At
    <2> QED
      BY <1>2, <2>1, <2>6, <2>8, <2>9 DEF WalksSafe
  <1> QED
    BY <1>5, <1>6, <1>7, <1>8, <1>9, <1>10, <1>11, <1>12, <1>13 DEF Call, Walk

LEMMA InitWalks ==
  ASSUME InitList
  PROVE  WalksSafe
  <1>1. ListSafe /\ ListTyped
    BY InitSafe, InitTyped
  <1>2. clash = FALSE /\ op = [t \in Thread |-> Idle] /\ freed = {}
    BY DEF InitList
  <1>3. Live = allocated /\ Touched = allocated
    BY <1>2, IdleTyped DEF Live, At, Touched
  <1>4. Closed(Touched, next)
    BY <1>1, <1>2, <1>3 DEF ListSafe, Shape, Closed
  <1> QED
    BY <1>2, <1>4, IdleTyped DEF WalksSafe, WalksOwe, NewNotOwed, At

LEMMA NextWalks ==
  ListTyped /\ ListSafe /\ ListKept /\ WalksSafe /\ [ListNext]_listVars => WalksSafe'
  <1> SUFFICES ASSUME ListTyped, ListSafe, ListKept, WalksSafe, [ListNext]_listVars
               PROVE  WalksSafe'
    OBVIOUS
  <1>1. CASE ListNext
    BY <1>1, CallWalks DEF ListNext
  <1>2. CASE UNCHANGED listVars
    BY <1>2 DEF WalksSafe, WalksOwe, NewNotOwed, Touched, Lasting, At, InHand, listVars
  <1> QED
    BY <1>1, <1>2

(***************************************************************************)
(* A walk that prints the list, while any threads add and one deletes,     *)
(* passes every Item that was in it at the start and lasts, as long as     *)
(* malloc has given no freed Item out again (routing_table.h:47).          *)
(***************************************************************************)
THEOREM WalkPassesAll == ListSpec => []WalkMissesNothing
  <1>1. ListTyped /\ WalksSafe => WalkMissesNothing
    <2> SUFFICES ASSUME ListTyped, WalksSafe, ~ clash, ~ reused, NEW t \in Thread, At(t, "print")
                 PROVE  op[t].due \cap linked \cap alone \subseteq ToSet(ChainFrom(op[t].curr))
      BY DEF WalkMissesNothing
    <2>1. op[t].due \cap Lasting \subseteq Reach(op[t].curr, next)
      BY DEF WalksSafe, WalksOwe
    <2>2. next \in [Item -> Pointer] /\ op[t].curr \in Pointer
      BY DEF ListTyped, ListTypeOK, Op
    <2>3. ToSet(ChainFrom(op[t].curr)) = Reach(op[t].curr, next)
      BY <2>2, ChainIsReach
    <2> QED
      BY <2>1, <2>3 DEF Lasting
  <1> QED
    BY <1>1, InitTyped, NextTyped, InitSafe, NextSafe, InitKept, NextKept, InitWalks, NextWalks, PTL
    DEF ListSpec

(***************************************************************************)
(* Calls that do not overlap.  The list is a sequence s without a          *)
(* repetition: h points to its first Item, and n from each to the next.    *)
(***************************************************************************)
Lists(s, h, n) ==
  /\ s \in Seq(Item)
  /\ \A j, k \in 1 .. Len(s) : s[j] = s[k] => j = k
  /\ h = IF Len(s) = 0 THEN Null ELSE s[1]
  /\ \A k \in 1 .. Len(s) : n[s[k]] = IF k = Len(s) THEN Null ELSE s[k + 1]

Among(x, s) == \E k \in 1 .. Len(s) : s[k] = x

LEMMA ListsShort ==
  ASSUME NEW s, NEW h, NEW n, Lists(s, h, n)
  PROVE  Len(s) \in Nat /\ Len(s) <= Cardinality(Item)
  <1>1. s \in Seq(Item) /\ Len(s) \in Nat
    BY DEF Lists
  <1>2. s \in Injection(1 .. Len(s), Item)
    <2>1. s \in [1 .. Len(s) -> Item]
      BY <1>1
    <2>2. \A j, k \in 1 .. Len(s) : s[j] = s[k] => j = k
      BY DEF Lists
    <2> QED
      BY <2>1, <2>2 DEF Injection, IsInjective
  <1>3. Cardinality(1 .. Len(s)) <= Cardinality(Item)
    BY <1>2, FS_Injection, LinkedListAssumption
  <1>4. Cardinality(1 .. Len(s)) = IF 1 > Len(s) THEN 0 ELSE Len(s) - 1 + 1
    BY <1>1, FS_Interval
  <1> QED
    <2>1. Cardinality(1 .. Len(s)) = Len(s)
      BY <1>1, <1>4
    <2> QED
      BY <1>1, <1>3, <2>1

\* The sequence is what a walk from the head sees.
LEMMA ListsIsChain ==
  ASSUME next \in [Item -> Pointer], NEW s, Lists(s, head, next)
  PROVE  Chain = s
  <1> DEFINE M == Len(s)
  <1>1. /\ s \in Seq(Item) /\ M \in Nat /\ M <= Cardinality(Item)
        /\ \A k \in 1 .. M : s[k] \in Item
        /\ head = IF M = 0 THEN Null ELSE s[1]
        /\ \A k \in 1 .. M : next[s[k]] = IF k = M THEN Null ELSE s[k + 1]
    BY ListsShort DEF Lists
  <1>2. head \in Pointer
    BY <1>1, ListConstants
  <1>3. PICK w : /\ Path(w, head)
                 /\ Last(w) = Null \/ Len(w) = Cardinality(Item) + 1
                 /\ Chain = IF Last(w) = Null THEN Front(w) ELSE w
    BY <1>2, ChainIsPath DEF Chain
  <1>4. /\ w \in Seq(Pointer) /\ Len(w) \in Nat /\ Len(w) > 0 /\ w[1] = head
        /\ \A j \in 1 .. Len(w) - 1 : w[j] \in Item /\ w[j + 1] = next[w[j]]
    BY <1>3 DEF Path
  <1> HIDE DEF M
  <1>5. \A k \in 1 .. M : k <= Len(w) => w[k] = s[k]
    <2> DEFINE S == { k \in 1 .. M : k <= Len(w) /\ w[k] # s[k] }
    <2> SUFFICES ASSUME S # {} PROVE FALSE
      BY <1>1
    <2>1. S \in SUBSET Nat
      BY <1>1
    <2>2. PICK k \in S : \A j \in S : k <= j
      BY <2>1, LeastNatural
    <2>3. k \in 1 .. M /\ k <= Len(w) /\ w[k] # s[k]
      OBVIOUS
    <2>4. k # 1
      BY <1>1, <1>4, <2>3
    <2>5. k - 1 \in 1 .. M /\ k - 1 \in 1 .. Len(w) - 1 /\ (k - 1) + 1 = k /\ ~ (k <= k - 1)
          /\ k - 1 # M
      BY <1>1, <1>4, <2>3, <2>4
    <2>6. w[k - 1] = s[k - 1]
      BY <1>4, <2>2, <2>5
    <2>7. w[k] = next[w[k - 1]] /\ next[s[k - 1]] = s[k]
      BY <1>1, <1>4, <2>5
    <2> QED
      BY <2>3, <2>6, <2>7
  <1>6. Len(w) > M => w[M + 1] = Null
    <2>1. CASE M = 0
      BY <1>1, <1>4, <2>1
    <2>2. CASE M # 0 /\ Len(w) > M
      <3>1. M \in 1 .. M /\ M \in 1 .. Len(w) - 1
        BY <1>1, <1>4, <2>2
      <3> QED
        BY <1>1, <1>4, <1>5, <2>2, <3>1
    <2> QED
      BY <2>1, <2>2
  <1>7. ~ (Len(w) > M + 1)
    <2> SUFFICES ASSUME Len(w) > M + 1 PROVE FALSE
      OBVIOUS
    <2>1. M + 1 \in 1 .. Len(w) - 1 /\ Len(w) > M
      BY <1>1, <1>4
    <2> QED
      BY <1>4, <1>6, <2>1, ListConstants
  <1>8. Last(w) = w[Len(w)]
    BY DEF Last
  <1>9. Len(w) = M + 1
    <2>1. CASE Len(w) <= M
      <3>1. Len(w) \in 1 .. M /\ w[Len(w)] \in Item
        BY <1>1, <1>4, <1>5, <2>1
      <3>2. Last(w) # Null
        BY <1>8, <3>1, ListConstants
      <3> QED
        BY <1>1, <1>3, <2>1, <3>2, ListConstants
    <2> QED
      BY <1>1, <1>4, <1>7, <2>1
  <1>10. Last(w) = Null
    BY <1>1, <1>6, <1>8, <1>9
  <1>11. Chain = SubSeq(w, 1, M)
    BY <1>1, <1>3, <1>9, <1>10 DEF Front
  <1>12. /\ SubSeq(w, 1, M) \in Seq(Item) /\ Len(SubSeq(w, 1, M)) = M
         /\ \A i \in 1 .. M : SubSeq(w, 1, M)[i] = s[i]
    <2>1. \A i \in 1 .. M : w[i] \in Item /\ w[i] = s[i]
      BY <1>1, <1>5, <1>9
    <2>2. /\ SubSeq(w, 1, M) \in Seq(Item)
          /\ Len(SubSeq(w, 1, M)) = IF 1 <= M THEN M - 1 + 1 ELSE 0
          /\ \A i \in 1 .. M - 1 + 1 : SubSeq(w, 1, M)[i] = w[1 + i - 1]
      BY <1>1, <2>1, SubSeqProperties, SMT
    <2> QED
      BY <1>1, <2>1, <2>2
  <1>13. SubSeq(w, 1, M) = s
    BY <1>1, <1>12, SeqEqual DEF M
  <1> QED
    BY <1>11, <1>13

\* LL_add's new Item: it leads nowhere, and is linked behind the last one.
LEMMA ListsCleared ==
  ASSUME NEW s, NEW h, NEW n \in [Item -> Pointer], Lists(s, h, n),
         NEW i \in Item, ~ Among(i, s)
  PROVE  Lists(s, h, [n EXCEPT ![i] = Null])
  BY DEF Lists, Among

LEMMA ListsAppended ==
  ASSUME NEW s, NEW h, NEW n \in [Item -> Pointer], Lists(s, h, n),
         NEW i \in Item, ~ Among(i, s), n[i] = Null
  PROVE  /\ Len(s) = 0 => Lists(Append(s, i), i, n)
         /\ Len(s) # 0 => Lists(Append(s, i), h, [n EXCEPT ![s[Len(s)]] = i])
         /\ \A x : Among(x, Append(s, i)) => x = i \/ Among(x, s)
  <1> DEFINE r == Append(s, i)
  <1>1. s \in Seq(Item) /\ Len(s) \in Nat /\ \A k \in 1 .. Len(s) : s[k] \in Item
    BY DEF Lists
  <1>2. /\ r \in Seq(Item) /\ Len(r) = Len(s) + 1 /\ r[Len(s) + 1] = i
        /\ \A k \in 1 .. Len(s) : r[k] = s[k]
    BY <1>1, AppendProperties
  <1> HIDE DEF r
  <1>3. \A k \in 1 .. Len(r) : k = Len(s) + 1 \/ k \in 1 .. Len(s)
    BY <1>1, <1>2
  <1>4. \A j, k \in 1 .. Len(r) : r[j] = r[k] => j = k
    BY <1>1, <1>2, <1>3 DEF Lists, Among
  <1>5. CASE Len(s) = 0
    <2>1. \A k \in 1 .. Len(r) : n[r[k]] = IF k = Len(r) THEN Null ELSE r[k + 1]
      BY <1>1, <1>2, <1>5
    <2> QED
      BY <1>2, <1>3, <1>4, <1>5, <2>1 DEF Lists, Among, r
  <1>6. CASE Len(s) # 0
    <2> DEFINE m == [n EXCEPT ![s[Len(s)]] = i]
    <2>1. s[Len(s)] \in Item /\ Len(s) \in 1 .. Len(s)
      BY <1>1, <1>6
    <2>2. m[s[Len(s)]] = i /\ \A x \in Item : x # s[Len(s)] => m[x] = n[x]
      BY <2>1
    <2> HIDE DEF m
    <2>3. ASSUME NEW k \in 1 .. Len(r)
          PROVE  m[r[k]] = IF k = Len(r) THEN Null ELSE r[k + 1]
      <3>1. CASE k = Len(s) + 1
        <4>1. i # s[Len(s)]
          BY <2>1 DEF Among
        <4> QED
          BY <1>2, <2>2, <3>1, <4>1
      <3>2. CASE k = Len(s)
        BY <1>1, <1>2, <2>1, <2>2, <3>2
      <3>3. CASE k \in 1 .. Len(s) /\ k # Len(s)
        <4>1. k + 1 \in 1 .. Len(s) /\ k # Len(r)
          BY <1>1, <1>2, <3>3
        <4>2. s[k] # s[Len(s)] /\ s[k] \in Item
          BY <1>1, <2>1, <3>3 DEF Lists
        <4>3. m[s[k]] = s[k + 1]
          BY <2>2, <3>3, <4>2 DEF Lists
        <4> QED
          BY <1>2, <3>3, <4>1, <4>3
      <3> QED
        BY <1>3, <3>1, <3>2, <3>3
    <2>4. h = IF Len(r) = 0 THEN Null ELSE r[1]
      <3>1. 1 \in 1 .. Len(s) /\ Len(r) # 0
        BY <1>1, <1>2, <1>6
      <3> QED
        BY <1>2, <1>6, <3>1 DEF Lists
    <2>5. Lists(r, h, m)
      BY <1>2, <1>4, <2>3, <2>4 DEF Lists
    <2> QED
      BY <1>2, <1>3, <1>6, <2>5 DEF Among, r, m
  <1> QED
    BY <1>5, <1>6

LEMMA WithoutOne ==
  ASSUME NEW S, NEW s \in Seq(S), NEW i \in 1 .. Len(s)
  PROVE  /\ RemoveAt(s, i) \in Seq(S)
         /\ Len(RemoveAt(s, i)) = Len(s) - 1
         /\ \A j \in 1 .. Len(s) - 1 :
              RemoveAt(s, i)[j] = IF j < i THEN s[j] ELSE s[j + 1]
  <1> DEFINE before == SubSeq(s, 1, i - 1)
             after  == SubSeq(s, i + 1, Len(s))
  <1>1. Len(s) \in Nat /\ i \in Nat /\ 1 <= i /\ i <= Len(s)
    BY LenProperties
  <1>2. /\ before \in Seq(S)
        /\ Len(before) = i - 1
        /\ \A j \in 1 .. i - 1 : before[j] = s[j]
    BY <1>1, SubSeqProperties
  <1>3. /\ after \in Seq(S)
        /\ Len(after) = Len(s) - i
        /\ \A j \in 1 .. Len(s) - i : after[j] = s[j + i]
    BY <1>1, SubSeqProperties
  <1>4. RemoveAt(s, i) = before \o after
    BY DEF RemoveAt
  <1> HIDE DEF before, after
  <1> DEFINE both == before \o after
  <1>5. /\ both \in Seq(S)
        /\ Len(both) = Len(before) + Len(after)
        /\ \A j \in 1 .. Len(before) + Len(after) :
             both[j] = IF j <= Len(before) THEN before[j] ELSE after[j - Len(before)]
    BY <1>2, <1>3, ConcatProperties, Zenon
  <1> HIDE DEF both
  <1>6. Len(both) = Len(s) - 1
    BY <1>1, <1>2, <1>3, <1>5
  <1>7. ASSUME NEW j \in 1 .. Len(s) - 1
        PROVE  both[j] = IF j < i THEN s[j] ELSE s[j + 1]
    <2>1. both[j] = IF j <= Len(before) THEN before[j] ELSE after[j - Len(before)]
      BY <1>1, <1>2, <1>3, <1>5
    <2>2. CASE j < i
      <3>1. j \in 1 .. i - 1 /\ j <= Len(before)
        BY <1>1, <1>2, <2>2
      <3> QED
        BY <1>2, <2>1, <2>2, <3>1
    <2>3. CASE ~ (j < i)
      <3> DEFINE k == j - Len(before)
      <3>1. k \in 1 .. Len(s) - i /\ k + i = j + 1 /\ ~ (j <= Len(before))
        BY <1>1, <1>2, <2>3
      <3>2. after[k] = s[k + i]
        BY <1>3, <3>1
      <3> QED
        BY <2>1, <2>3, <3>1, <3>2
    <2> QED
      BY <2>2, <2>3
  <1> QED
    BY <1>4, <1>6, <1>7, <1>5 DEF both

\* LL_delete's Item: what pointed to it points to what it pointed to.
LEMMA ListsRemoved ==
  ASSUME NEW s, NEW h, NEW n \in [Item -> Pointer], Lists(s, h, n), NEW m \in 0 .. Len(s) - 1
  PROVE  /\ m = 0 => Lists(RemoveAt(s, m + 1), n[s[m + 1]], n)
         /\ m # 0 => Lists(RemoveAt(s, m + 1), h, [n EXCEPT ![s[m]] = n[s[m + 1]]])
         /\ ~ Among(s[m + 1], RemoveAt(s, m + 1))
         /\ \A x : Among(x, RemoveAt(s, m + 1)) => Among(x, s)
  <1> DEFINE r == RemoveAt(s, m + 1)
             M == Len(s)
  <1>1. s \in Seq(Item) /\ M \in Nat /\ \A k \in 1 .. M : s[k] \in Item
    BY DEF Lists
  <1>2. m + 1 \in 1 .. M /\ m \in Nat
    BY <1>1
  <1>3. /\ r \in Seq(Item) /\ Len(r) = M - 1
        /\ \A j \in 1 .. M - 1 : r[j] = IF j < m + 1 THEN s[j] ELSE s[j + 1]
    BY <1>1, <1>2, WithoutOne
  <1> HIDE DEF r
  <1>4. /\ \A j, k \in 1 .. M : s[j] = s[k] => j = k
        /\ \A k \in 1 .. M : n[s[k]] = IF k = M THEN Null ELSE s[k + 1]
        /\ h = IF M = 0 THEN Null ELSE s[1]
    BY DEF Lists
  <1> HIDE DEF M
  \* where the rest of s is in r
  <1> DEFINE Spot(j) == IF j < m + 1 THEN j ELSE j + 1
  <1>5. \A j \in 1 .. M - 1 : Spot(j) \in 1 .. M /\ r[j] = s[Spot(j)] /\ Spot(j) # m + 1
    BY <1>1, <1>2, <1>3
  <1>6. \A j, k \in 1 .. M - 1 : Spot(j) = Spot(k) => j = k
    BY <1>1, <1>2
  <1>7. \A j \in 1 .. M - 1 : j # m /\ j # M - 1 => Spot(j) # M /\ Spot(j) + 1 = Spot(j + 1)
    BY <1>1, <1>2
  <1>8. \A j \in 1 .. M - 1 : j # m /\ j = M - 1 => Spot(j) = M
    BY <1>1, <1>2
  <1>9. m # 0 => m \in 1 .. M - 1 /\ Spot(m) = m /\ (m = M - 1 <=> m + 1 = M)
                 /\ (m # M - 1 => Spot(m + 1) = m + 2)
    BY <1>1, <1>2
  <1>10. M # 1 => Spot(1) = IF m = 0 THEN 2 ELSE 1
    BY <1>1, <1>2
  <1> HIDE DEF Spot
  <1>11. \A j, k \in 1 .. Len(r) : r[j] = r[k] => j = k
    <2> SUFFICES ASSUME NEW j \in 1 .. M - 1, NEW k \in 1 .. M - 1, r[j] = r[k]
                 PROVE  j = k
      BY <1>3
    <2>1. Spot(j) \in 1 .. M /\ Spot(k) \in 1 .. M /\ s[Spot(j)] = s[Spot(k)]
      BY <1>5
    <2>2. Spot(j) = Spot(k)
      BY <1>4, <2>1
    <2> QED
      BY <1>6, <2>2
  <1>12. ~ Among(s[m + 1], r)
    <2> SUFFICES ASSUME NEW j \in 1 .. M - 1, r[j] = s[m + 1] PROVE FALSE
      BY <1>3 DEF Among
    <2>1. Spot(j) \in 1 .. M /\ s[Spot(j)] = s[m + 1] /\ Spot(j) # m + 1
      BY <1>5
    <2> QED
      BY <1>2, <1>4, <2>1
  <1>13. \A x : Among(x, r) => Among(x, s)
    BY <1>3, <1>5 DEF Among, M
  <1>14. ASSUME NEW k \in 1 .. M - 1, k # m
         PROVE  n[r[k]] = IF k = M - 1 THEN Null ELSE r[k + 1]
    <2>1. r[k] = s[Spot(k)] /\ Spot(k) \in 1 .. M
      BY <1>5
    <2>2. n[r[k]] = IF Spot(k) = M THEN Null ELSE s[Spot(k) + 1]
      BY <1>4, <2>1
    <2>3. CASE k = M - 1
      BY <1>8, <1>14, <2>2, <2>3
    <2>4. CASE k # M - 1
      <3>1. k + 1 \in 1 .. M - 1
        BY <1>1, <2>4
      <3> QED
        BY <1>5, <1>7, <1>14, <2>2, <2>4, <3>1
    <2> QED
      BY <2>3, <2>4
  <1>15. CASE m = 0
    <2>1. n[s[m + 1]] = IF M = 1 THEN Null ELSE s[2]
      BY <1>2, <1>4, <1>15
    <2>2. n[s[m + 1]] = IF Len(r) = 0 THEN Null ELSE r[1]
      <3>1. CASE M = 1
        BY <1>3, <2>1, <3>1
      <3>2. CASE M # 1
        <4>1. 1 \in 1 .. M - 1 /\ Len(r) # 0
          BY <1>1, <1>2, <1>3, <3>2
        <4> QED
          BY <1>5, <1>10, <1>15, <2>1, <3>2, <4>1
      <3> QED
        BY <3>1, <3>2
    <2>3. \A k \in 1 .. Len(r) : n[r[k]] = IF k = Len(r) THEN Null ELSE r[k + 1]
      <3>1. \A k \in 1 .. M - 1 : k # m
        BY <1>15
      <3> QED
        BY <1>3, <1>14, <3>1
    <2>4. Lists(r, n[s[m + 1]], n)
      BY <1>3, <1>11, <2>2, <2>3 DEF Lists
    <2> QED
      BY <1>12, <1>13, <1>15, <2>4 DEF r
  <1>16. CASE m # 0
    <2> DEFINE g == [n EXCEPT ![s[m]] = n[s[m + 1]]]
    <2>1. m \in 1 .. M - 1 /\ m \in 1 .. M /\ s[m] \in Item /\ r[m] = s[m]
      BY <1>1, <1>2, <1>5, <1>9, <1>16
    <2>2. g[s[m]] = n[s[m + 1]] /\ \A x \in Item : x # s[m] => g[x] = n[x]
      BY <2>1
    <2> HIDE DEF g
    <2>3. ASSUME NEW k \in 1 .. M - 1
          PROVE  g[r[k]] = IF k = M - 1 THEN Null ELSE r[k + 1]
      <3>1. CASE k = m
        <4>1. g[r[k]] = IF m + 1 = M THEN Null ELSE s[m + 1 + 1]
          BY <1>2, <1>4, <2>1, <2>2, <3>1
        <4>2. CASE m = M - 1
          BY <1>9, <1>16, <3>1, <4>1, <4>2
        <4>3. CASE m # M - 1
          <5>1. m + 1 \in 1 .. M - 1 /\ m + 1 + 1 = m + 2 /\ m + 1 # M
            BY <1>1, <2>1, <4>3
          <5>2. r[m + 1] = s[m + 2]
            BY <1>5, <1>9, <1>16, <4>3, <5>1
          <5> QED
            BY <3>1, <4>1, <4>3, <5>1, <5>2
        <4> QED
          BY <4>2, <4>3
      <3>2. CASE k # m
        <4>1. r[k] = s[Spot(k)] /\ Spot(k) \in 1 .. M /\ Spot(m) \in 1 .. M /\ s[Spot(m)] = s[m]
          BY <1>5, <2>1
        <4>2. Spot(k) # Spot(m)
          BY <1>6, <2>1, <3>2
        <4>3. r[k] # s[m] /\ r[k] \in Item
          BY <1>1, <1>4, <4>1, <4>2
        <4> QED
          BY <1>14, <2>2, <3>2, <4>3
      <3> QED
        BY <3>1, <3>2
    <2>4. h = IF Len(r) = 0 THEN Null ELSE r[1]
      <3>1. 1 \in 1 .. M - 1 /\ M # 1 /\ M # 0 /\ Len(r) # 0
        BY <1>1, <1>3, <2>1
      <3> QED
        BY <1>4, <1>5, <1>10, <1>16, <3>1
    <2>5. Lists(r, h, g)
      BY <1>3, <1>11, <2>3, <2>4 DEF Lists
    <2> QED
      BY <1>12, <1>13, <1>16, <2>5 DEF r, g
  <1> QED
    BY <1>15, <1>16

(***************************************************************************)
(* While no two calls have overlapped, at most one thread is in one, and   *)
(* what it holds has its place in the list.                                *)
(***************************************************************************)
ActiveOf(o) == o.pc \notin {"idle", "print"}

Place(o, s, n, A) ==
  /\ InHandOf(o) => o.item \in A /\ ~ Among(o.item, s) /\ n[o.item] = Null
  /\ o.pc = "first" => Len(s) = 0
  /\ o.pc = "start" => Len(s) # 0
  /\ o.pc \in {"walk", "step", "link"} => Among(o.curr, s)
  /\ o.pc = "step" => n[o.curr] # Null
  /\ o.pc # "fault"
  /\ o.pc = "link" => Len(s) # 0 /\ o.curr = s[Len(s)]
  /\ o.pc \in {"check", "enter"} => o.i = 0
  /\ o.pc \in {"seek", "unlink"} =>
       /\ o.i \in 0 .. Len(s)
       /\ o.curr = IF o.i = Len(s) THEN Null ELSE s[o.i + 1]
       /\ o.prev = IF o.i = 0 THEN Null ELSE s[o.i]
  /\ o.pc = "unlink" => o.i = o.n /\ o.i # Len(s) /\ o.item = n[o.curr]
  /\ o.pc = "free" => ~ Among(o.curr, s)

SerialWith(s) ==
  /\ Lists(s, head, next)
  /\ \A x : Among(x, s) => x \in allocated
  /\ \A t \in Thread : ActiveOf(op[t]) =>
       /\ Place(op[t], s, next, allocated)
       /\ \A u \in Thread : u # t => ~ ActiveOf(op[u])

ListSerial == serial => \E s : SerialWith(s)

\* What a step of a call that holds o may make of the list s.
OneChange(s, r, o) ==
  \/ r = s
  \/ o.pc \in {"first", "link"} /\ r = Append(s, o.item)
  \/ o.pc = "unlink" /\ r = RemoveAt(s, o.n + 1)

LEMMA SerialAfter ==
  ASSUME op \in [Thread -> Op], NEW t \in Thread, NEW q, op' = [op EXCEPT ![t] = q],
         \A u \in Thread : u # t => ~ ActiveOf(op[u]),
         NEW r, Lists(r, head', next'), \A x : Among(x, r) => x \in allocated',
         Place(q, r, next', allocated')
  PROVE  SerialWith(r)'
  <1>1. op'[t] = q /\ \A u \in Thread : u # t => op'[u] = op[u]
    OBVIOUS
  <1>2. ASSUME NEW v \in Thread, ActiveOf(op'[v])
        PROVE  /\ Place(op'[v], r, next', allocated')
               /\ \A u \in Thread : u # v => ~ ActiveOf(op'[u])
    <2>1. v = t
      BY <1>1, <1>2
    <2> QED
      BY <1>1, <2>1
  <1>3. \A v \in Thread : ActiveOf(op'[v]) =>
          /\ Place(op'[v], r, next', allocated')
          /\ \A u \in Thread : u # v => ~ ActiveOf(op'[u])
    BY <1>2
  <1> QED
    BY <1>3 DEF SerialWith

LEMMA SerialPrinted ==
  ASSUME op \in [Thread -> Op], NEW t \in Thread, NEW q, op' = [op EXCEPT ![t] = q],
         ~ ActiveOf(op[t]), ~ ActiveOf(q), UNCHANGED <<head, next, allocated>>,
         NEW s, SerialWith(s)
  PROVE  SerialWith(s)'
  <1>1. op'[t] = q /\ \A u \in Thread : u # t => op'[u] = op[u]
    OBVIOUS
  <1>2. ASSUME NEW v \in Thread, ActiveOf(op'[v])
        PROVE  /\ Place(op'[v], s, next', allocated')
               /\ \A u \in Thread : u # v => ~ ActiveOf(op'[u])
    <2>1. v # t /\ op'[v] = op[v]
      BY <1>1, <1>2
    <2>2. Place(op[v], s, next, allocated) /\ \A u \in Thread : u # v => ~ ActiveOf(op[u])
      BY <1>2, <2>1 DEF SerialWith
    <2> QED
      BY <1>1, <2>1, <2>2
  <1>3. \A v \in Thread : ActiveOf(op'[v]) =>
          /\ Place(op'[v], s, next', allocated')
          /\ \A u \in Thread : u # v => ~ ActiveOf(op'[u])
    BY <1>2
  <1>4. Lists(s, head', next') /\ \A x : Among(x, s) => x \in allocated'
    BY DEF SerialWith
  <1> QED
    BY <1>3, <1>4 DEF SerialWith

LEMMA NoPlace ==
  ASSUME NEW q, q.pc \in {"idle", "print", "uncount"}, NEW s, NEW n, NEW A
  PROVE  Place(q, s, n, A)
  BY DEF Place, InHandOf

LEMMA CallSerial ==
  ASSUME ListTyped, NEW t \in Thread, Call(t), serial', NEW s, SerialWith(s)
  PROVE  \E r : SerialWith(r)' /\ OneChange(s, r, op[t])
  <1> DEFINE o == op[t]
             M == Len(s)
  <1>1. /\ head \in Pointer /\ number_of_items \in Nat /\ next \in [Item -> Pointer]
        /\ op \in [Thread -> Op] /\ o \in Op /\ HasItem(o)
    BY ListConstants DEF ListTyped, ListTypeOK, Pointers
  <1>2. Lists(s, head, next) /\ \A x : Among(x, s) => x \in allocated
    BY DEF SerialWith
  <1>3. /\ s \in Seq(Item) /\ M \in Nat /\ \A k \in 1 .. M : s[k] \in Item /\ s[k] # Null
        /\ head = IF M = 0 THEN Null ELSE s[1]
        /\ \A k \in 1 .. M : next[s[k]] = IF k = M THEN Null ELSE s[k + 1]
    BY <1>2, ListConstants DEF Lists
  <1>4. ActiveOf(o) => /\ Place(o, s, next, allocated)
                       /\ \A u \in Thread : u # t => ~ ActiveOf(op[u])
    BY DEF SerialWith
  <1>5. ASSUME NEW r, SerialWith(r)', r = s \/ OneChange(s, r, o)
        PROVE  \E z : SerialWith(z)' /\ OneChange(s, z, op[t])
    <2>1. OneChange(s, r, op[t])
      BY <1>5 DEF OneChange
    <2> QED
      BY <1>5, <2>1, Zenon
  \* A step that leaves the list as it is.
  <1>6. ASSUME NEW q, op' = [op EXCEPT ![t] = q], ActiveOf(o), Place(q, s, next, allocated),
               UNCHANGED <<head, next, allocated>>
        PROVE  SerialWith(s)'
    <2>1. Lists(s, head', next') /\ \A x : Among(x, s) => x \in allocated'
      BY <1>2, <1>6
    <2>2. Place(q, s, next', allocated')
      BY <1>6
    <2>3. \A u \in Thread : u # t => ~ ActiveOf(op[u])
      BY <1>4, <1>6
    <2> QED
      BY <1>1, <1>6, <2>1, <2>2, <2>3, SerialAfter
  <1> HIDE DEF o, M
  <1>7. CASE AddBegin(t)
    <2>1. PICK i \in Item \ allocated :
            /\ Begins(t, [Idle EXCEPT !.pc = "count", !.item = i, !.count = number_of_items], {i})
            /\ allocated' = allocated \cup {i}
            /\ next' = [next EXCEPT ![i] = Null]
            /\ UNCHANGED head
      BY <1>7 DEF AddBegin
    <2> DEFINE q == [Idle EXCEPT !.pc = "count", !.item = i, !.count = number_of_items]
    <2>2. q.pc = "count" /\ q.item = i /\ Begins(t, q, {i})
      BY <2>1, IdleTyped DEF Op
    <2> HIDE DEF q
    <2>3. op' = [op EXCEPT ![t] = q] /\ Others(t) = {}
      BY <2>2 DEF Begins
    <2>4. \A u \in Thread : u # t => ~ ActiveOf(op[u])
      BY <2>3 DEF Others, Busy, ActiveOf
    <2>5. i \in Item /\ ~ Among(i, s)
      BY <1>2, <2>1
    <2>6. Lists(s, head', next')
      BY <1>1, <1>2, <2>1, <2>5, ListsCleared
    <2>7. next'[i] = Null /\ i \in allocated' /\ \A x : Among(x, s) => x \in allocated'
      BY <1>1, <1>2, <2>1, <2>5
    <2>8. Place(q, s, next', allocated')
      BY <2>2, <2>5, <2>7 DEF Place
    <2> QED
      BY <1>1, <1>5, <2>3, <2>4, <2>6, <2>7, <2>8, SerialAfter
  <1>8. CASE AddCount(t)
    <2> DEFINE q == [o EXCEPT !.pc = "empty"]
    <2>1. /\ q.pc = "empty" /\ q.item = o.item /\ op' = [op EXCEPT ![t] = q] /\ o.pc = "count"
          /\ UNCHANGED <<head, next, allocated>>
      BY <1>1, <1>8 DEF AddCount, At, Goto, Step, Op, o
    <2> HIDE DEF q
    <2>2. Place(q, s, next, allocated) /\ ActiveOf(o)
      BY <1>4, <2>1 DEF Place, InHandOf, ActiveOf
    <2> QED
      BY <1>5, <1>6, <2>1, <2>2
  <1>9. CASE AddTest(t)
    <2> DEFINE q == [o EXCEPT !.pc = IF head = Null THEN "first" ELSE "start"]
    <2>1. /\ \/ q.pc = "first" /\ head = Null
             \/ q.pc = "start" /\ head # Null
          /\ q.item = o.item /\ op' = [op EXCEPT ![t] = q] /\ o.pc = "empty"
          /\ UNCHANGED <<head, next, allocated>>
      BY <1>1, <1>9 DEF AddTest, At, Goto, Step, Op, o
    <2> HIDE DEF q
    <2>2. head = Null <=> M = 0
      <3>1. M # 0 => 1 \in 1 .. M
        BY <1>3
      <3> QED
        BY <1>3, <3>1
    <2>3. Place(q, s, next, allocated) /\ ActiveOf(o)
      BY <1>4, <2>1, <2>2 DEF Place, InHandOf, ActiveOf, M
    <2> QED
      BY <1>5, <1>6, <2>1, <2>3
  <1>21. CASE AddStart(t)
    <2> DEFINE q == [o EXCEPT !.pc = "walk", !.curr = head]
    <2>1. /\ o.pc = "start" /\ q.pc = "walk" /\ q.curr = head /\ q.item = o.item
          /\ op' = [op EXCEPT ![t] = q] /\ UNCHANGED <<head, next, allocated>>
      BY <1>1, <1>21 DEF AddStart, At, Step, Op, o
    <2> HIDE DEF q
    <2>2. /\ ActiveOf(o) /\ M # 0
          /\ o.item \in allocated /\ ~ Among(o.item, s) /\ next[o.item] = Null
      BY <1>4, <2>1 DEF Place, InHandOf, ActiveOf, M
    <2>3. Among(head, s)
      <3>1. 1 \in 1 .. M
        BY <1>3, <2>2
      <3> QED
        BY <1>3, <2>2, <3>1 DEF Among, M
    <2>4. Place(q, s, next, allocated)
      BY <2>1, <2>2, <2>3 DEF Place
    <2> QED
      BY <1>5, <1>6, <2>1, <2>2, <2>4
  <1>10. CASE AddFirst(t)
    <2>1. /\ o.pc = "first" /\ op' = [op EXCEPT ![t] = Idle] /\ head' = o.item
          /\ UNCHANGED <<next, allocated>> /\ o.item \in Item
      BY <1>1, <1>10 DEF AddFirst, At, Step, HasItem, o
    <2>2. /\ Len(s) = 0 /\ o.item \in allocated /\ ~ Among(o.item, s) /\ next[o.item] = Null
          /\ \A u \in Thread : u # t => ~ ActiveOf(op[u])
      BY <1>4, <2>1 DEF Place, InHandOf, ActiveOf
    <2> DEFINE r == Append(s, o.item)
    <2>3. Lists(r, o.item, next) /\ \A x : Among(x, r) => x = o.item \/ Among(x, s)
      BY <1>1, <1>2, <2>1, <2>2, ListsAppended
    <2>4. OneChange(s, r, o)
      BY <2>1 DEF OneChange
    <2> HIDE DEF r
    <2>5. Lists(r, head', next') /\ \A x : Among(x, r) => x \in allocated'
      BY <1>2, <2>1, <2>2, <2>3
    <2>6. Place(Idle, r, next', allocated')
      BY IdleTyped, NoPlace
    <2> QED
      BY <1>1, <1>5, <2>1, <2>2, <2>4, <2>5, <2>6, SerialAfter
  <1>11. CASE AddWalk(t)
    <2> DEFINE q == [o EXCEPT !.pc = IF o.curr = Null THEN "fault"
                                     ELSE IF next[o.curr] = Null THEN "link" ELSE "step"]
    <2>1. /\ o.pc = "walk" /\ q.item = o.item /\ q.curr = o.curr /\ op' = [op EXCEPT ![t] = q]
          /\ \/ q.pc = "fault" /\ o.curr = Null
             \/ q.pc = "link" /\ next[o.curr] = Null
             \/ q.pc = "step" /\ next[o.curr] # Null
          /\ UNCHANGED <<head, next, allocated>>
      BY <1>1, <1>11 DEF AddWalk, At, Goto, Step, Op, o
    <2> HIDE DEF q
    <2>2. /\ ActiveOf(o) /\ Among(o.curr, s)
          /\ o.item \in allocated /\ ~ Among(o.item, s) /\ next[o.item] = Null
      BY <1>4, <2>1 DEF Place, InHandOf, ActiveOf
    <2>3. PICK k \in 1 .. M : s[k] = o.curr
      BY <2>2 DEF Among, M
    <2>4. o.curr # Null /\ (q.pc = "link" => M # 0 /\ q.curr = s[M])
      <3>1. CASE k = M
        BY <1>3, <2>1, <2>3, <3>1
      <3>2. CASE k # M
        <4>1. k + 1 \in 1 .. M /\ next[o.curr] = s[k + 1]
          BY <1>3, <2>3, <3>2
        <4> QED
          BY <1>3, <2>1, <2>3, <4>1
      <3> QED
        BY <3>1, <3>2
    <2>5. Place(q, s, next, allocated)
      BY <2>1, <2>2, <2>4 DEF Place, M
    <2> QED
      BY <1>5, <1>6, <2>1, <2>2, <2>5
  <1>22. CASE AddNext(t)
    <2> DEFINE q == [o EXCEPT !.pc = "walk", !.curr = next[o.curr]]
    <2>1. /\ o.pc = "step" /\ q.pc = "walk" /\ q.curr = next[o.curr] /\ q.item = o.item
          /\ op' = [op EXCEPT ![t] = q] /\ UNCHANGED <<head, next, allocated>>
      BY <1>1, <1>22 DEF AddNext, At, Step, Op, o
    <2> HIDE DEF q
    <2>2. /\ ActiveOf(o) /\ Among(o.curr, s) /\ next[o.curr] # Null
          /\ o.item \in allocated /\ ~ Among(o.item, s) /\ next[o.item] = Null
      BY <1>4, <2>1 DEF Place, InHandOf, ActiveOf
    <2>3. PICK k \in 1 .. M : s[k] = o.curr
      BY <2>2 DEF Among, M
    <2>4. Among(q.curr, s)
      <3>1. k # M
        BY <1>3, <2>2, <2>3
      <3>2. k + 1 \in 1 .. M /\ next[o.curr] = s[k + 1]
        BY <1>3, <2>3, <3>1
      <3> QED
        BY <2>1, <3>2 DEF Among, M
    <2>5. Place(q, s, next, allocated)
      BY <2>1, <2>2, <2>4 DEF Place
    <2> QED
      BY <1>5, <1>6, <2>1, <2>2, <2>5
  <1>12. CASE AddLink(t)
    <2>1. /\ o.pc = "link" /\ op' = [op EXCEPT ![t] = Idle]
          /\ next' = [next EXCEPT ![o.curr] = o.item]
          /\ UNCHANGED <<head, allocated>> /\ o.item \in Item
      BY <1>1, <1>12 DEF AddLink, At, Step, HasItem, o
    <2>2. /\ Len(s) # 0 /\ o.curr = s[Len(s)]
          /\ o.item \in allocated /\ ~ Among(o.item, s) /\ next[o.item] = Null
          /\ \A u \in Thread : u # t => ~ ActiveOf(op[u])
      BY <1>4, <2>1 DEF Place, InHandOf, ActiveOf
    <2> DEFINE r == Append(s, o.item)
    <2>3. /\ Lists(r, head, [next EXCEPT ![s[Len(s)]] = o.item])
          /\ \A x : Among(x, r) => x = o.item \/ Among(x, s)
      BY <1>1, <1>2, <2>1, <2>2, ListsAppended
    <2>4. OneChange(s, r, o)
      BY <2>1 DEF OneChange
    <2> HIDE DEF r
    <2>5. Lists(r, head', next') /\ \A x : Among(x, r) => x \in allocated'
      BY <1>2, <2>1, <2>2, <2>3
    <2>6. Place(Idle, r, next', allocated')
      BY IdleTyped, NoPlace
    <2> QED
      BY <1>1, <1>5, <2>1, <2>2, <2>4, <2>5, <2>6, SerialAfter
  <1>13. CASE DeleteBegin(t)
    <2>1. PICK n \in 0 .. Cardinality(Item) : Begins(t, [Idle EXCEPT !.pc = "check", !.n = n], {})
      BY <1>13 DEF DeleteBegin
    <2> DEFINE q == [Idle EXCEPT !.pc = "check", !.n = n]
    <2>2. q.pc = "check" /\ q.i = 0 /\ Begins(t, q, {})
      BY <2>1 DEF Idle
    <2> HIDE DEF q
    <2>3. op' = [op EXCEPT ![t] = q] /\ Others(t) = {} /\ UNCHANGED <<head, next, allocated>>
      BY <1>13, <2>2 DEF Begins, DeleteBegin
    <2>4. \A u \in Thread : u # t => ~ ActiveOf(op[u])
      BY <2>3 DEF Others, Busy, ActiveOf
    <2>5. Place(q, s, next', allocated')
      BY <2>2 DEF Place, InHandOf
    <2>6. Lists(s, head', next') /\ \A x : Among(x, s) => x \in allocated'
      BY <1>2, <2>3
    <2> QED
      BY <1>1, <1>5, <2>3, <2>4, <2>5, <2>6, SerialAfter
  <1>14. CASE DeleteCheck(t)
    <2> DEFINE q == IF o.n > number_of_items THEN Idle ELSE [o EXCEPT !.pc = "enter"]
    <2>1. /\ o.pc = "check" /\ op' = [op EXCEPT ![t] = q]
          /\ UNCHANGED <<head, next, allocated>>
      BY <1>14 DEF DeleteCheck, At, Goto, Step, o
    <2>2. q.pc = "idle" \/ (q.pc = "enter" /\ q.i = o.i)
      BY <1>1, IdleTyped DEF Op
    <2> HIDE DEF q
    <2>3. ActiveOf(o) /\ o.i = 0
      BY <1>4, <2>1 DEF Place, ActiveOf
    <2>4. Place(q, s, next, allocated)
      BY <2>2, <2>3 DEF Place, InHandOf
    <2> QED
      BY <1>5, <1>6, <2>1, <2>3, <2>4
  <1>23. CASE DeleteEnter(t)
    <2> DEFINE q == [o EXCEPT !.pc = "seek", !.curr = head]
    <2>1. /\ o.pc = "enter" /\ op' = [op EXCEPT ![t] = q]
          /\ q.pc = "seek" /\ q.curr = head /\ q.i = o.i /\ q.prev = Null
          /\ UNCHANGED <<head, next, allocated>>
      BY <1>1, <1>23 DEF DeleteEnter, At, Step, HasItem, Op, o
    <2> HIDE DEF q
    <2>2. ActiveOf(o) /\ o.i = 0
      BY <1>4, <2>1 DEF Place, ActiveOf
    <2>3. q.i \in 0 .. Len(s) /\ q.curr = IF q.i = Len(s) THEN Null ELSE s[q.i + 1]
      BY <1>3, <2>1, <2>2 DEF M
    <2>4. Place(q, s, next, allocated)
      BY <2>1, <2>2, <2>3 DEF Place, InHandOf
    <2> QED
      BY <1>5, <1>6, <2>1, <2>2, <2>4
  <1>15. CASE DeleteSeek(t)
    <2>1. o.pc = "seek" /\ UNCHANGED <<head, next, allocated>>
      BY <1>15 DEF DeleteSeek, At, Histories, o
    <2>2. /\ ActiveOf(o) /\ o.i \in 0 .. M
          /\ o.curr = IF o.i = M THEN Null ELSE s[o.i + 1]
          /\ o.prev = IF o.i = 0 THEN Null ELSE s[o.i]
      BY <1>4, <2>1 DEF Place, ActiveOf, M
    <2>3. PICK q : /\ op' = [op EXCEPT ![t] = q]
                   /\ \/ q = Idle
                      \/ /\ o.curr # Null /\ o.i = o.n
                         /\ q = [o EXCEPT !.pc = "unlink", !.item = next[o.curr]]
                      \/ /\ o.curr # Null /\ o.i # o.n
                         /\ q = [o EXCEPT !.prev = o.curr, !.curr = next[o.curr], !.i = @ + 1]
      BY <1>15 DEF DeleteSeek, Step, o
    <2>4. o.curr # Null => o.i # M /\ o.i + 1 \in 1 .. M
      BY <1>3, <2>2
    <2>5. Place(q, s, next, allocated)
      <3>1. CASE q = Idle
        BY <3>1, IdleTyped, NoPlace
      <3>2. CASE o.curr # Null /\ o.i = o.n /\ q = [o EXCEPT !.pc = "unlink", !.item = next[o.curr]]
        <4>1. /\ q.pc = "unlink" /\ q.item = next[o.curr] /\ q.curr = o.curr
              /\ q.prev = o.prev /\ q.i = o.i /\ q.n = o.n
          BY <1>1, <3>2 DEF Op
        <4> QED
          BY <2>2, <2>4, <3>2, <4>1 DEF Place, InHandOf, M
      <3>3. CASE /\ o.curr # Null
                 /\ q = [o EXCEPT !.prev = o.curr, !.curr = next[o.curr], !.i = @ + 1]
        <4>1. q.pc = "seek" /\ q.curr = next[o.curr] /\ q.prev = o.curr /\ q.i = o.i + 1
          BY <1>1, <2>1, <3>3 DEF Op
        <4>2. next[o.curr] = IF o.i + 1 = M THEN Null ELSE s[o.i + 1 + 1]
          BY <1>3, <2>2, <2>4, <3>3
        <4>3. o.curr = s[o.i + 1] /\ o.i + 1 \in 0 .. M /\ o.i + 1 # 0
          BY <1>3, <2>2, <2>4, <3>3
        <4> QED
          BY <4>1, <4>2, <4>3 DEF Place, InHandOf, M
      <3> QED
        BY <2>3, <3>1, <3>2, <3>3
    <2> QED
      BY <1>5, <1>6, <2>1, <2>2, <2>3, <2>5
  <1>16. CASE DeleteUnlink(t)
    <2> DEFINE q == [o EXCEPT !.pc = "free"]
    <2>1. /\ q.pc = "free" /\ q.curr = o.curr /\ o.pc = "unlink" /\ op' = [op EXCEPT ![t] = q]
          /\ \/ o.prev = Null /\ head' = o.item /\ next' = next
             \/ o.prev # Null /\ next' = [next EXCEPT ![o.prev] = o.item] /\ head' = head
          /\ UNCHANGED allocated
      BY <1>1, <1>16 DEF DeleteUnlink, At, Goto, Step, Op, o
    <2> HIDE DEF q
    <2>2. /\ o.i \in 0 .. M /\ o.i # M /\ o.i = o.n /\ o.curr = s[o.i + 1]
          /\ o.prev = IF o.i = 0 THEN Null ELSE s[o.i]
          /\ o.item = next[o.curr]
          /\ \A u \in Thread : u # t => ~ ActiveOf(op[u])
      BY <1>4, <2>1 DEF Place, ActiveOf, M
    <2> DEFINE r == RemoveAt(s, o.i + 1)
    <2>3. o.i \in 0 .. Len(s) - 1 /\ (o.i # 0 => o.prev # Null)
      <3>1. o.i # 0 => o.i \in 1 .. M
        BY <1>3, <2>2
      <3> QED
        BY <1>3, <2>2, <3>1 DEF M
    <2>4. /\ o.i = 0 => Lists(r, next[s[o.i + 1]], next)
          /\ o.i # 0 => Lists(r, head, [next EXCEPT ![s[o.i]] = next[s[o.i + 1]]])
          /\ ~ Among(s[o.i + 1], r)
          /\ \A x : Among(x, r) => Among(x, s)
      BY <1>1, <1>2, <2>3, ListsRemoved
    <2>5. OneChange(s, r, o)
      BY <2>1, <2>2 DEF OneChange
    <2> HIDE DEF r
    <2>6. Lists(r, head', next')
      BY <2>1, <2>2, <2>3, <2>4
    <2>7. \A x : Among(x, r) => x \in allocated'
      BY <1>2, <2>1, <2>4
    <2>8. Place(q, r, next', allocated')
      BY <2>1, <2>2, <2>4 DEF Place, InHandOf
    <2> QED
      BY <1>1, <1>5, <2>1, <2>2, <2>5, <2>6, <2>7, <2>8, SerialAfter
  <1>17. CASE DeleteFree(t)
    <2> DEFINE q == [o EXCEPT !.pc = "uncount", !.count = number_of_items]
    <2>1. /\ q.pc = "uncount" /\ o.pc = "free" /\ op' = [op EXCEPT ![t] = q]
          /\ allocated' = allocated \ {o.curr} /\ UNCHANGED <<head, next>>
      BY <1>1, <1>17 DEF DeleteFree, At, Step, Op, o
    <2> HIDE DEF q
    <2>2. ~ Among(o.curr, s) /\ \A u \in Thread : u # t => ~ ActiveOf(op[u])
      BY <1>4, <2>1 DEF Place, ActiveOf
    <2>3. Lists(s, head', next') /\ \A x : Among(x, s) => x \in allocated'
      BY <1>2, <2>1, <2>2
    <2>4. Place(q, s, next', allocated')
      BY <2>1, NoPlace
    <2> QED
      BY <1>1, <1>5, <2>1, <2>2, <2>3, <2>4, SerialAfter
  <1>18. CASE DeleteCount(t)
    <2>1. /\ o.pc = "uncount" /\ op' = [op EXCEPT ![t] = Idle]
          /\ UNCHANGED <<head, next, allocated>>
      BY <1>18 DEF DeleteCount, At, Step, o
    <2>2. Place(Idle, s, next, allocated) /\ ActiveOf(o)
      BY <2>1, IdleTyped, NoPlace DEF ActiveOf
    <2> QED
      BY <1>5, <1>6, <2>1, <2>2
  <1>19. CASE PrintBegin(t)
    <2> DEFINE d == ToSet(Chain)
               q == [Idle EXCEPT !.pc = "print", !.curr = head, !.due = d]
    <2>1. /\ q.pc = "print" /\ o.pc = "idle" /\ op' = [op EXCEPT ![t] = q]
          /\ UNCHANGED <<head, next, allocated>>
      BY <1>19 DEF PrintBegin, Busy, Step, Idle, o
    <2> HIDE DEF q
    <2>2. ~ ActiveOf(op[t]) /\ ~ ActiveOf(q)
      BY <2>1 DEF ActiveOf, o
    <2> QED
      BY <1>1, <1>5, <2>1, <2>2, SerialPrinted
  <1>20. CASE PrintStep(t)
    <2> DEFINE q == IF next[o.curr] = Null THEN Idle
                    ELSE [o EXCEPT !.curr = next[o.curr], !.due = @ \ {o.curr}]
    <2>1. /\ o.pc = "print" /\ op' = [op EXCEPT ![t] = q]
          /\ UNCHANGED <<head, next, allocated>>
      BY <1>20 DEF PrintStep, At, Step, Histories, o
    <2>2. q.pc \in {"idle", "print"}
      BY <1>1, <2>1, IdleTyped DEF Op
    <2> HIDE DEF q
    <2>3. ~ ActiveOf(op[t]) /\ ~ ActiveOf(q)
      BY <2>1, <2>2 DEF ActiveOf, o
    <2> QED
      BY <1>1, <1>5, <2>1, <2>3, SerialPrinted
  <1> QED
    BY <1>7, <1>8, <1>9, <1>10, <1>11, <1>12, <1>13, <1>14, <1>15, <1>16, <1>17, <1>18, <1>19, <1>20,
       <1>21, <1>22, <1>23
    DEF Call, Walk

LEMMA InitSerial ==
  ASSUME InitList
  PROVE  ListSerial
  <1>1. PICK s \in Seq(Item) :
           /\ Len(s) \in 0 .. 2
           /\ \A j, k \in 1 .. Len(s) : s[j] = s[k] => j = k
           /\ head = IF Len(s) = 0 THEN Null ELSE s[1]
           /\ \A i \in Item : next[i] = IF Len(s) = 2 /\ i = s[1] THEN s[2] ELSE Null
           /\ allocated = { s[k] : k \in 1 .. Len(s) }
           /\ op = [t \in Thread |-> Idle]
    BY InitShape
  <1>2. \A k \in 1 .. Len(s) : s[k] \in Item
    BY <1>1
  <1>3. ASSUME NEW k \in 1 .. Len(s)
        PROVE  next[s[k]] = IF k = Len(s) THEN Null ELSE s[k + 1]
    <2>1. CASE k = Len(s)
      <3>1. Len(s) = 2 => s[k] # s[1]
        BY <1>1, <2>1
      <3> QED
        BY <1>1, <1>2, <2>1, <3>1
    <2>2. CASE k # Len(s)
      <3>1. k = 1 /\ Len(s) = 2 /\ k + 1 = 2
        BY <1>1, <2>2
      <3> QED
        BY <1>1, <1>2, <2>2, <3>1
    <2> QED
      BY <2>1, <2>2
  <1>4. Lists(s, head, next)
    BY <1>1, <1>3 DEF Lists
  <1>5. \A x : Among(x, s) => x \in allocated
    BY <1>1 DEF Among
  <1>6. \A t \in Thread : ~ ActiveOf(op[t])
    BY <1>1, IdleTyped DEF ActiveOf
  <1>7. SerialWith(s)
    BY <1>4, <1>5, <1>6 DEF SerialWith
  <1> QED
    BY <1>7 DEF ListSerial

\* Once two calls have overlapped, they have for good.
LEMMA SerialLasts ==
  ASSUME NEW t \in Thread, Call(t), serial'
  PROVE  serial
  BY DEF Call, Walk, AddBegin, AddCount, AddTest, AddFirst, AddStart, AddWalk, AddNext, AddLink,
         DeleteBegin, DeleteCheck, DeleteEnter, DeleteSeek, DeleteUnlink, DeleteFree, DeleteCount, PrintBegin, PrintStep,
         Begins, Histories

LEMMA NextSerial ==
  ListTyped /\ ListSerial /\ [ListNext]_listVars => ListSerial'
  <1> SUFFICES ASSUME ListTyped, ListSerial, [ListNext]_listVars, serial'
               PROVE  \E s : SerialWith(s)'
    BY DEF ListSerial
  <1>1. CASE ListNext
    <2>1. PICK t \in Thread : Call(t)
      BY <1>1 DEF ListNext
    <2>2. PICK s : SerialWith(s)
      BY <2>1, SerialLasts DEF ListSerial
    <2> QED
      BY <2>1, <2>2, CallSerial
  <1>2. CASE UNCHANGED listVars
    <2>1. PICK s : SerialWith(s)
      BY <1>2 DEF ListSerial, listVars
    <2>2. SerialWith(s)'
      BY <1>2, <2>1 DEF SerialWith, listVars
    <2> QED
      BY <2>2
  <1> QED
    BY <1>1, <1>2

ChainsListed == \A s : Lists(s, head, next) => Chain = s

LEMMA TypedChains ==
  ASSUME ListTyped
  PROVE  ChainsListed
  BY ListsIsChain DEF ChainsListed, ListTyped, ListTypeOK

LEMMA StepSerial ==
  ListTyped /\ ListSerial /\ ChainsListed /\ ChainsListed' /\ [ListNext]_listVars =>
    [ serial' => \/ Chain' = Chain
                 \/ \E t \in Thread : /\ At(t, "first") \/ At(t, "link")
                                     /\ Chain' = Append(Chain, op[t].item)
                 \/ \E t \in Thread : /\ At(t, "unlink")
                                     /\ Chain' = RemoveAt(Chain, op[t].n + 1) ]_listVars
  <1> SUFFICES ASSUME ListTyped, ListSerial, ChainsListed, ChainsListed', ListNext, serial'
               PROVE  \/ Chain' = Chain
                      \/ \E t \in Thread : /\ At(t, "first") \/ At(t, "link")
                                          /\ Chain' = Append(Chain, op[t].item)
                      \/ \E t \in Thread : /\ At(t, "unlink")
                                          /\ Chain' = RemoveAt(Chain, op[t].n + 1)
    OBVIOUS
  <1>1. PICK t \in Thread : Call(t)
    BY DEF ListNext
  <1>2. PICK s : SerialWith(s)
    BY <1>1, SerialLasts DEF ListSerial
  <1>3. PICK r : SerialWith(r)' /\ OneChange(s, r, op[t])
    BY <1>1, <1>2, CallSerial
  <1>4. Chain = s
    BY <1>2 DEF ChainsListed, SerialWith
  <1>5. Chain' = r
    BY <1>3 DEF ChainsListed, SerialWith
  <1> QED
    BY <1>3, <1>4, <1>5 DEF OneChange, At

(***************************************************************************)
(* While calls do not overlap, LL_add appends one Item (functions.h:437),  *)
(* LL_delete takes out the one it was asked for (functions.h:474), and no  *)
(* other step of any thread changes the list: RoutingTable may have either *)
(* as one step.                                                            *)
(***************************************************************************)
THEOREM SerialCallsAreOneChange == ListSpec => SerialCalls
  <1>1. ListTyped => ChainsListed
    BY TypedChains
  <1> QED
    BY <1>1, InitTyped, NextTyped, InitSerial, NextSerial, StepSerial, PTL
    DEF ListSpec, SerialCalls
=============================================================================
