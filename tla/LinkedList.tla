----------------------------- MODULE LinkedList -----------------------------
(***************************************************************************)
(* The linked list of functions.h, pointer by pointer, as several threads  *)
(* use it: LL_add, LL_delete and the walks that print a list load and      *)
(* store one field of it at a time, and nothing is locked.  The program is *)
(* built without optimisation (Makefile:3), so that a field the source     *)
(* names twice is loaded twice.  malloc with the stores to the new Item,   *)
(* and free, are taken with the load of number_of_items that follows them. *)
(* RoutingTable has LL_add and LL_delete as one step each; the properties  *)
(* here say what that stands for.                                          *)
(*                                                                         *)
(* The fields index and auto_increment are left out: nothing reads them    *)
(* but LL_print.                                                           *)
(***************************************************************************)
EXTENDS Naturals, Sequences, FiniteSets, SequencesExt

CONSTANTS
  Thread,       \* threads that add, delete and print
  Item,         \* memory for Items
  Null,         \* the null pointer
  Counts,       \* 2^32
  MaxOps        \* bound: calls in all

ASSUME LinkedListAssumption ==
  /\ IsFiniteSet(Item) /\ Null \notin Item
  /\ Counts \in Nat /\ Counts > Cardinality(Item)
  /\ MaxOps \in Nat

VARIABLES
  head, number_of_items,    \* the LL
  next,                     \* of every Item; a freed one keeps what it held
  allocated,                \* the Items malloc has given out
  op,                       \* what each thread is doing
  ops,                      \* calls so far
  alone,                    \* Items whose LL_add met no other call
  linked,                   \* Items that have been added and not deleted
  serial,                   \* no two calls have overlapped;
  clash, mixed,             \* two LL_deletes have; an LL_add and an LL_delete have
  freed, reused             \* Items freed so far; one of them was given out again
                            \* (alone, linked, serial, clash, mixed, freed, reused:
                            \* histories)

listVars == <<head, number_of_items, next, allocated, op, ops,
              alone, linked, serial, clash, mixed, freed, reused>>

Pointer == Item \cup {Null}

Idle == [pc |-> "idle", item |-> Null, curr |-> Null, prev |-> Null, n |-> 0, i |-> 0,
         count |-> 0, due |-> {}]

Op ==
  [ pc    : {"idle", "count", "empty", "first", "start", "walk", "step", "link", "fault",
             "check", "enter", "seek", "unlink", "free", "uncount", "print"},
    item  : Pointer,       \* LL_add: the new Item; LL_delete: curr->next
    curr  : Pointer, prev : Pointer,
    n     : Nat,           \* LL_delete: the position asked for ...
    i     : Nat,           \* ... and the one reached
    count : Nat,           \* number_of_items as it was loaded
    due   : SUBSET Item ]  \* the list when a walk began, but for what it has printed
                           \* (a history)

ListTypeOK ==
  /\ head \in Pointer
  /\ number_of_items \in 0 .. Counts - 1
  /\ next \in [Item -> Pointer]
  /\ allocated \subseteq Item
  /\ op \in [Thread -> Op]
  /\ ops \in 0 .. MaxOps
  /\ alone \subseteq Item /\ linked \subseteq Item
  /\ serial \in BOOLEAN /\ clash \in BOOLEAN /\ mixed \in BOOLEAN
  /\ freed \subseteq Item /\ reused \in BOOLEAN

\* What a walk from p sees; a walk that does not end sees no more than all.
ChainFrom(p) ==
  LET walk[k \in Nat] ==
        IF k = 0 THEN <<p>>
        ELSE LET w == walk[k - 1]
             IN  IF Last(w) = Null THEN w ELSE Append(w, next[Last(w)])
      seen == walk[Cardinality(Item)]
  IN  IF Last(seen) = Null THEN Front(seen) ELSE seen

Chain == ChainFrom(head)

\* A list of a few Items, added one after the other.
InitList ==
  \E s \in { t \in SeqOf(Item, 2) : IsInjective(t) } :
    /\ head = IF s = << >> THEN Null ELSE s[1]
    /\ number_of_items = Len(s)
    /\ next = [i \in Item |->
                 IF \E k \in 1 .. Len(s) - 1 : s[k] = i
                 THEN s[1 + CHOOSE k \in 1 .. Len(s) - 1 : s[k] = i] ELSE Null]
    /\ allocated = ToSet(s)
    /\ op = [t \in Thread |-> Idle]
    /\ ops = 0
    /\ alone = ToSet(s) /\ linked = ToSet(s)
    /\ serial = TRUE /\ clash = FALSE /\ mixed = FALSE
    /\ freed = {} /\ reused = FALSE

Busy(t) == op[t].pc # "idle"

Deleting(t) == op[t].pc \in {"check", "enter", "seek", "unlink", "free", "uncount"}

Others(t) == { u \in Thread \ {t} : Busy(u) /\ op[u].pc # "print" }

\* An LL_add or LL_delete begins: from now on it and those in progress overlap.
Begins(t, o, new) ==
  /\ ~ Busy(t) /\ ops < MaxOps
  /\ op' = [op EXCEPT ![t] = o] /\ ops' = ops + 1
  /\ serial' = (serial /\ Others(t) = {})
  /\ alone' = IF Others(t) = {} THEN alone \cup new
              ELSE alone \ (new \cup { op[u].item : u \in { v \in Others(t) : ~ Deleting(v) } })

At(t, pc) == op[t].pc = pc

Step(t, o) == op' = [op EXCEPT ![t] = o]

Goto(t, pc) == Step(t, [op[t] EXCEPT !.pc = pc])

Histories == UNCHANGED <<ops, alone, linked, serial, clash, mixed, freed, reused>>

(***************************************************************************)
(* LL_add.                                                                 *)
(***************************************************************************)
AddBegin(t) ==        \* malloc; number_of_items is loaded
  \E i \in Item \ allocated :
    /\ Begins(t, [Idle EXCEPT !.pc = "count", !.item = i, !.count = number_of_items], {i})
    /\ allocated' = allocated \cup {i}
    /\ next' = [next EXCEPT ![i] = Null]
    /\ reused' = (reused \/ i \in freed)
    /\ mixed' = (mixed \/ \E u \in Others(t) : Deleting(u))
    /\ UNCHANGED <<head, number_of_items, linked, clash, freed>>

AddCount(t) ==
  /\ At(t, "count")
  /\ number_of_items' = (op[t].count + 1) % Counts
  /\ Goto(t, "empty")
  /\ UNCHANGED <<head, next, allocated>> /\ Histories

\* Mutant: the list is taken for one that is not empty.
AddTestForgotten(t) ==
  /\ At(t, "empty")
  /\ Goto(t, "start")
  /\ UNCHANGED <<head, number_of_items, next, allocated>> /\ Histories

AddTest(t) ==         \* head is loaded for the test ...
  /\ At(t, "empty")
  /\ Goto(t, IF head = Null THEN "first" ELSE "start")
  /\ UNCHANGED <<head, number_of_items, next, allocated>> /\ Histories

AddFirst(t) ==
  /\ At(t, "first")
  /\ head' = op[t].item
  /\ linked' = linked \cup {op[t].item}
  /\ Step(t, Idle)
  /\ UNCHANGED <<number_of_items, next, allocated, ops,
                 alone, serial, clash, mixed, freed, reused>>

AddStart(t) ==        \* ... and once more for curr
  /\ At(t, "start")
  /\ Step(t, [op[t] EXCEPT !.pc = "walk", !.curr = head])
  /\ UNCHANGED <<head, number_of_items, next, allocated>> /\ Histories

\* Mutant: the walk stops at the last Item but one.
AddWalkShort(t) ==
  /\ At(t, "walk")
  /\ Goto(t, IF op[t].curr = Null THEN "fault"
             ELSE IF next[op[t].curr] = Null \/ next[next[op[t].curr]] = Null THEN "link"
             ELSE "step")
  /\ UNCHANGED <<head, number_of_items, next, allocated>> /\ Histories

\* curr->next is loaded for the test of the loop, of a null curr as well, ...
AddWalk(t) ==
  /\ At(t, "walk")
  /\ Goto(t, IF op[t].curr = Null THEN "fault"
             ELSE IF next[op[t].curr] = Null THEN "link" ELSE "step")
  /\ UNCHANGED <<head, number_of_items, next, allocated>> /\ Histories

AddNext(t) ==         \* ... and once more for curr
  /\ At(t, "step")
  /\ Step(t, [op[t] EXCEPT !.pc = "walk", !.curr = next[@]])
  /\ UNCHANGED <<head, number_of_items, next, allocated>> /\ Histories

AddLink(t) ==
  /\ At(t, "link")
  /\ next' = [next EXCEPT ![op[t].curr] = op[t].item]
  /\ linked' = linked \cup {op[t].item}
  /\ Step(t, Idle)
  /\ UNCHANGED <<head, number_of_items, allocated, ops,
                 alone, serial, clash, mixed, freed, reused>>

(***************************************************************************)
(* LL_delete(ll, n).                                                       *)
(***************************************************************************)
DeleteBegin(t) ==
  /\ \E n \in 0 .. Cardinality(Item) : Begins(t, [Idle EXCEPT !.pc = "check", !.n = n], {})
  /\ clash' = (clash \/ \E u \in Others(t) : Deleting(u))
  /\ mixed' = (mixed \/ \E u \in Others(t) : ~ Deleting(u))
  /\ UNCHANGED <<head, number_of_items, next, allocated, linked, freed, reused>>

DeleteCheck(t) ==
  /\ At(t, "check")
  /\ IF op[t].n > number_of_items THEN Step(t, Idle) ELSE Goto(t, "enter")
  /\ UNCHANGED <<head, number_of_items, next, allocated>> /\ Histories

DeleteEnter(t) ==
  /\ At(t, "enter")
  /\ Step(t, [op[t] EXCEPT !.pc = "seek", !.curr = head])
  /\ UNCHANGED <<head, number_of_items, next, allocated>> /\ Histories

\* Mutant: the first Item is counted 1.
DeleteSeekFrom1(t) ==
  /\ At(t, "seek")
  /\ LET curr == op[t].curr
     IN  \/ curr = Null /\ Step(t, Idle)
         \/ /\ curr # Null /\ op[t].i + 1 >= op[t].n
            /\ Step(t, [op[t] EXCEPT !.pc = "unlink", !.item = next[curr]])
         \/ /\ curr # Null /\ op[t].i + 1 < op[t].n
            /\ Step(t, [op[t] EXCEPT !.prev = curr, !.curr = next[curr], !.i = @ + 1])
  /\ UNCHANGED <<head, number_of_items, next, allocated>> /\ Histories

DeleteSeek(t) ==      \* when it is found, curr->next is loaded
  /\ At(t, "seek")
  /\ LET curr == op[t].curr
     IN  \/ curr = Null /\ Step(t, Idle)
         \/ /\ curr # Null /\ op[t].i = op[t].n
            /\ Step(t, [op[t] EXCEPT !.pc = "unlink", !.item = next[curr]])
         \/ /\ curr # Null /\ op[t].i # op[t].n
            /\ Step(t, [op[t] EXCEPT !.prev = curr, !.curr = next[curr], !.i = @ + 1])
  /\ UNCHANGED <<head, number_of_items, next, allocated>> /\ Histories

\* Mutant: an Item is only unlinked if there is one before it.
DeleteUnlinkInner(t) ==
  /\ At(t, "unlink")
  /\ UNCHANGED head
  /\ next' = IF op[t].prev = Null THEN next ELSE [next EXCEPT ![op[t].prev] = op[t].item]
  /\ linked' = linked \ {op[t].curr}
  /\ Goto(t, "free")
  /\ UNCHANGED <<number_of_items, allocated, ops,
                 alone, serial, clash, mixed, freed, reused>>

DeleteUnlink(t) ==
  /\ At(t, "unlink")
  /\ IF op[t].prev = Null
     THEN head' = op[t].item /\ UNCHANGED next
     ELSE next' = [next EXCEPT ![op[t].prev] = op[t].item] /\ UNCHANGED head
  /\ linked' = linked \ {op[t].curr}
  /\ Goto(t, "free")
  /\ UNCHANGED <<number_of_items, allocated, ops,
                 alone, serial, clash, mixed, freed, reused>>

\* Mutant: the Item is cleared before it is freed.
DeleteFreeClears(t) ==
  /\ At(t, "free")
  /\ allocated' = allocated \ {op[t].curr}
  /\ linked' = linked \ {op[t].curr} /\ freed' = freed \cup {op[t].curr}
  /\ next' = [next EXCEPT ![op[t].curr] = Null]
  /\ Step(t, [op[t] EXCEPT !.pc = "uncount", !.count = number_of_items])
  /\ UNCHANGED <<head, number_of_items, ops, alone, serial, clash, mixed, reused>>

DeleteFree(t) ==      \* number_of_items is loaded
  /\ At(t, "free")
  /\ allocated' = allocated \ {op[t].curr}
  /\ linked' = linked \ {op[t].curr} /\ freed' = freed \cup {op[t].curr}
  /\ Step(t, [op[t] EXCEPT !.pc = "uncount", !.count = number_of_items])
  /\ UNCHANGED <<head, number_of_items, next, ops, alone, serial, clash, mixed, reused>>

\* Mutant: the count wraps one too late.
DeleteCountBelow(t) ==
  /\ At(t, "uncount")
  /\ number_of_items' = IF op[t].count = 0 THEN Counts ELSE op[t].count - 1
  /\ Step(t, Idle)
  /\ UNCHANGED <<head, next, allocated>> /\ Histories

DeleteCount(t) ==
  /\ At(t, "uncount")
  /\ number_of_items' = (op[t].count + Counts - 1) % Counts
  /\ Step(t, Idle)
  /\ UNCHANGED <<head, next, allocated>> /\ Histories

(***************************************************************************)
(* print_routing_table, print_arp_cache and print_rules: the same walk.    *)
(***************************************************************************)
PrintBegin(t) ==      \* an empty list is printed at once
  /\ ~ Busy(t) /\ ops < MaxOps
  /\ head # Null
  /\ Step(t, [Idle EXCEPT !.pc = "print", !.curr = head, !.due = ToSet(Chain)])
  /\ ops' = ops + 1
  /\ UNCHANGED <<head, number_of_items, next, allocated,
                 alone, linked, serial, clash, mixed, freed, reused>>

PrintStep(t) ==       \* curr is printed, and curr->next is loaded
  /\ At(t, "print")
  /\ LET curr == op[t].curr
     IN  IF next[curr] = Null THEN Step(t, Idle)
         ELSE Step(t, [op[t] EXCEPT !.curr = next[curr], !.due = @ \ {curr}])
  /\ UNCHANGED <<head, number_of_items, next, allocated>> /\ Histories

Walk(t) == PrintBegin(t) \/ PrintStep(t)

Call(t) ==
  \/ AddBegin(t) \/ AddCount(t) \/ AddTest(t) \/ AddFirst(t)
  \/ AddStart(t) \/ AddWalk(t) \/ AddNext(t) \/ AddLink(t)
  \/ DeleteBegin(t) \/ DeleteCheck(t) \/ DeleteEnter(t) \/ DeleteSeek(t)
  \/ DeleteUnlink(t) \/ DeleteFree(t) \/ DeleteCount(t)
  \/ Walk(t)

\* Who follows a null pointer ends the process, and with it every thread.
Faulted == \E t \in Thread : At(t, "fault")

ListNext == ~ Faulted /\ \E t \in Thread : Call(t)

ListSpec == InitList /\ [][ListNext]_listVars

(***************************************************************************)
(* LL_add follows a null pointer only if an LL_delete has met it, or two   *)
(* LL_deletes each other: it loads head, and each curr->next, once for the *)
(* test and once more to go there (functions.h:444-453), and only an       *)
(* LL_delete, or malloc that gives out an Item that is still linked, makes *)
(* a pointer null that was not.  LL_adds do not do it to one another.      *)
(***************************************************************************)
NullNeedsDelete == ~ clash /\ ~ mixed => ~ Faulted

(***************************************************************************)
(* An Item that LL_delete has freed (functions.h:492) is no longer in the  *)
(* list: who begins at the head never meets it.  Who already stands on it  *)
(* does (WalkMissesNothing).  It holds as long as no two LL_deletes        *)
(* overlap; that they do is possible, with the timers, the console and the *)
(* UDP listener all deleting.                                              *)
(***************************************************************************)
FreedUnreachable == ~ clash => ToSet(Chain) \subseteq allocated

(***************************************************************************)
(* An Item stays in the list until it is deleted, if its LL_add met no     *)
(* other call: what is lost (functions.h:456) is lost by overlapping, and  *)
(* no later LL_add, wherever it has been between its two loads, cuts it    *)
(* off.                                                                    *)
(***************************************************************************)
KeptUnlessOverlapped == ~ clash => linked \cap alone \subseteq ToSet(Chain)

(***************************************************************************)
(* A walk that prints the list passes every Item that was in it at the     *)
(* start and is not deleted meanwhile, though LL_delete may free the very  *)
(* Item it stands on (routing_table.h:47): the freed memory still says     *)
(* what comes next, until malloc gives it out again.  What overlapping     *)
(* LL_adds may lose is not promised.                                       *)
(***************************************************************************)
WalkMissesNothing ==
  ~ clash /\ ~ reused =>
    \A t \in Thread : At(t, "print") =>
      op[t].due \cap linked \cap alone \subseteq ToSet(ChainFrom(op[t].curr))

(***************************************************************************)
(* While calls do not overlap they do to the list what RoutingTable says   *)
(* of them in one step: LL_add appends one Item, LL_delete(n) takes out    *)
(* the one at n, counted from 0, and no other step changes the list.       *)
(***************************************************************************)
SerialCalls ==
  [][ serial' =>
        \/ Chain' = Chain
        \/ \E t \in Thread : /\ At(t, "first") \/ At(t, "link")
                            /\ Chain' = Append(Chain, op[t].item)
        \/ \E t \in Thread : /\ At(t, "unlink")
                            /\ Chain' = RemoveAt(Chain, op[t].n + 1) ]_listVars
=============================================================================
