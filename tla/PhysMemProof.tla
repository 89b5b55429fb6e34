---------------------------- MODULE PhysMemProof ----------------------------
(***************************************************************************)
(* For any threads, page size, kernel end and amount of memory, the free   *)
(* list of kalloc.c stays intact, every page is in exactly one place, what *)
(* an owner writes stays, and the allocator implements PageAlloc.          *)
(*                                                                         *)
(* The inductive invariant says at which labels kmem.lock is held          *)
(* (LockInv), that the links spell the history variable stack (ListInv),   *)
(* what each thread's r stands for (CallInv), how far freerange has got    *)
(* (RangeInv), and that the places a page can be in are disjoint and cover *)
(* everything freerange has passed (PlaceInv).                             *)
(***************************************************************************)
EXTENDS PhysMem, SequenceTheorems, FiniteSetTheorems, TLAPS

FreeLabels == {"f_acq", "f_next", "f_head"}
LockLabels == {"f_next", "f_head", "f_rel", "a_head", "a_pop", "a_rel"}

TypeInv ==
    /\ freelist \in Nat
    /\ word \in [Pages -> Int]
    /\ pc \in [Threads -> Labels] /\ r \in [Threads -> Nat]
    /\ brk \in Nat
    /\ owned \in [Threads -> SUBSET Pages]
    /\ stack \in Seq(Pages)

(* the labels at which a thread is inside kmem.lock are its alone *)
LockInv == \A t \in Threads : pc[t] \in LockLabels <=> lock = t

CallInv ==
    \A t \in Threads :
        /\ pc[t] = "f_fill" => r[t] \in Pages \cup Strays
        /\ pc[t] \in FreeLabels => r[t] \in Pages
        /\ pc[t] = "f_head" => word[r[t]] = freelist
        /\ pc[t] = "a_pop" => r[t] = freelist
        /\ pc[t] \in {"a_rel", "a_fill"} => r[t] \in Pages \cup {Null}

(* during freerange only free_page runs, on pages it accepts *)
RangeInv ==
    /\ brk % PGSIZE = 0 /\ brk >= End
    /\ RangeLeft =>
         /\ \A t \in Threads \ {Boot} : pc[t] = "idle"
         /\ pc[Boot] \in {"idle", "f_fill", "f_acq", "f_next", "f_head", "f_rel"}
         /\ pc[Boot] = "f_fill" => r[Boot] \in Pages
         /\ \A t \in Threads : owned[t] = {}

OnList == {stack[i] : i \in DOMAIN stack}

PlaceInv ==
    /\ \A i, j \in DOMAIN stack : stack[i] = stack[j] => i = j
    /\ \A t \in Threads : OnList \cap (Held(t) \cup owned[t]) = {}
    /\ \A t, u \in Threads :
         /\ t # u => Held(t) \cap Held(u) = {} /\ owned[t] \cap owned[u] = {}
         /\ Held(t) \cap owned[u] = {}
    /\ \A p \in Pages : p < brk <=> \/ p \in OnList
                                    \/ \E t \in Threads : p \in Held(t) \cup owned[t]

IInv == TypeInv /\ LockInv /\ FreeListIntact /\ CallInv /\ RangeInv /\ PlaceInv

-----------------------------------------------------------------------------
(* What / and % of C compute, for any divisor. *)
LEMMA DivMod ==
    ASSUME NEW a \in Nat, NEW n \in Nat \ {0}
    PROVE  /\ a \div n \in Nat /\ (a % n) \in 0..(n - 1)
           /\ a = n * (a \div n) + (a % n)
  OBVIOUS

(* Two multiples of a page size are equal or a page apart. *)
LEMMA Multiples ==
    ASSUME NEW n \in Nat \ {0}, NEW a \in Nat, NEW b \in Nat,
           a % n = 0, b % n = 0, a < b
    PROVE  a + n <= b
<1>1. a = n * (a \div n) /\ b = n * (b \div n) /\ a \div n \in Nat /\ b \div n \in Nat
  BY DivMod
<1>2. a \div n < b \div n
  BY <1>1
<1>3. n * (a \div n) + n <= n * (b \div n)
  BY <1>2, <1>1
<1>. QED
  BY <1>1, <1>3

(* The next multiple of the page size. *)
LEMMA NextMultiple ==
    ASSUME NEW n \in Nat \ {0}, NEW a \in Nat, a % n = 0
    PROVE  (a + n) % n = 0
<1>. DEFINE k == a \div n
<1>1. k \in Nat /\ a = n * k
  BY DivMod
<1>. HIDE DEF k
<1>2. a + n = n * (k + 1) /\ k + 1 \in Nat
  BY <1>1
<1>3. (n * (k + 1)) % n = 0
  BY <1>1
<1>. QED
  BY <1>2, <1>3

(* PGROUNDUP yields the first page boundary at or after its argument. *)
LEMMA RoundUp ==
    /\ PGROUNDUP(End) \in Nat /\ PGROUNDUP(End) % PGSIZE = 0 /\ PGROUNDUP(End) >= End
    /\ \A p \in Pages : p >= PGROUNDUP(End)
<1>. DEFINE a == End + PGSIZE - 1
           k == a \div PGSIZE
<1>. PGSIZE \in Nat \ {0} /\ End \in Nat \ {0} /\ PHYSTOP \in Nat
  BY PhysMemAssumption
<1>1. a \in Nat /\ k \in Nat /\ (a % PGSIZE) \in 0..(PGSIZE - 1) /\ a = PGSIZE * k + (a % PGSIZE)
  <2>1. a \in Nat
    OBVIOUS
  <2>. HIDE DEF a
  <2>. QED
    BY <2>1, DivMod
<1>2. PGROUNDUP(End) = PGSIZE * k
  BY <1>1 DEF PGROUNDUP
<1>. DEFINE up == PGSIZE * k
<1>3. up \in Nat /\ up % PGSIZE = 0
  BY <1>1
<1>4. up >= End /\ up < End + PGSIZE
  BY <1>1
<1>5. ASSUME NEW p \in Pages PROVE p >= up
  <2>1. p \in Nat /\ p % PGSIZE = 0 /\ p >= End
    BY DEF Pages, Addresses
  <2>2. ASSUME p < up PROVE p + PGSIZE <= up
    <3>. HIDE DEF up
    <3>. QED
      BY <1>3, <2>1, <2>2, Multiples
  <2>. HIDE DEF up
  <2>. QED
    BY <1>3, <1>4, <2>1, <2>2
<1>. QED
  BY <1>2, <1>3, <1>4, <1>5

(* What passes free_page()'s check is a whole page of the allocator. *)
LEMMA FreeablePage == ASSUME NEW p \in Nat, Freeable(p) PROVE p \in Pages
<1>. PGSIZE \in Nat \ {0} /\ PHYSTOP \in Nat /\ PHYSTOP % PGSIZE = 0
  BY PhysMemAssumption
<1>1. p + PGSIZE <= PHYSTOP
  BY Multiples DEF Freeable
<1>. QED
  BY <1>1 DEF Freeable, Pages, Addresses

(* A page is a multiple of the page size, and no page is at address 0. *)
LEMMA PageFacts ==
    ASSUME NEW p \in Pages
    PROVE  p \in Nat /\ p % PGSIZE = 0 /\ p >= End /\ p + PGSIZE <= PHYSTOP /\ p # Null
  BY PhysMemAssumption DEF Pages, Addresses, Null

(* freerange's p is a page while there is room for one, and the only one    *)
(* before the next value of p.                                              *)
LEMMA RangePage ==
    ASSUME brk \in Nat, RangeInv, RangeLeft
    PROVE  /\ brk \in Pages /\ (brk + PGSIZE) % PGSIZE = 0
           /\ \A p \in Pages : p < brk + PGSIZE <=> p < brk \/ p = brk
<1>. PGSIZE \in Nat \ {0} /\ PHYSTOP \in Nat
  BY PhysMemAssumption
<1>1. brk \in Pages
  BY DEF RangeInv, RangeLeft, Pages, Addresses
<1>2. (brk + PGSIZE) % PGSIZE = 0
  BY NextMultiple DEF RangeInv
<1>3. ASSUME NEW p \in Pages, p > brk PROVE p >= brk + PGSIZE
  BY <1>3, PageFacts, Multiples DEF RangeInv
<1>. QED
  BY <1>1, <1>2, <1>3, PageFacts

-----------------------------------------------------------------------------
(* alloc_page() takes the head off: the list that is left. *)
LEMMA Popped ==
    ASSUME NEW s \in Seq(Pages), Len(s) > 0
    PROVE  /\ SubSeq(s, 1, Len(s) - 1) \in Seq(Pages)
           /\ Len(SubSeq(s, 1, Len(s) - 1)) = Len(s) - 1
           /\ \A i \in 1..(Len(s) - 1) : SubSeq(s, 1, Len(s) - 1)[i] = s[i]
<1>. DEFINE n == Len(s) - 1
<1>1. n \in Int /\ \A i \in 1..n : s[i] \in Pages
  OBVIOUS
<1>. HIDE DEF n
<1>2. /\ SubSeq(s, 1, n) \in Seq(Pages)
      /\ Len(SubSeq(s, 1, n)) = IF 1 <= n THEN n - 1 + 1 ELSE 0
      /\ \A i \in 1..(n - 1 + 1) : SubSeq(s, 1, n)[i] = s[1 + i - 1]
  BY <1>1, SubSeqProperties
<1>3. n >= 0
  BY DEF n
<1>4. SubSeq(s, 1, n) \in Seq(Pages) /\ Len(SubSeq(s, 1, n)) = n
  BY <1>1, <1>2, <1>3
<1>5. \A i \in 1..n : SubSeq(s, 1, n)[i] = s[i]
  BY <1>1, <1>2
<1>. QED
  BY <1>4, <1>5 DEF n

(* A page in somebody's hands is not on the list. *)
LEMMA Unlisted ==
    ASSUME PlaceInv, NEW t \in Threads, NEW p \in Held(t) \cup owned[t]
    PROVE  \A i \in DOMAIN stack : stack[i] # p
  BY DEF PlaceInv, OnList

(* During free_page() a thread has its page, as alloc_page() has before it   *)
(* returns.                                                                 *)
LEMMA HeldPage ==
    ASSUME CallInv, NEW t \in Threads
    PROVE  /\ pc[t] = "f_fill" /\ r[t] \in Pages => r[t] \in Held(t)
           /\ pc[t] \in FreeLabels => r[t] \in Pages /\ r[t] \in Held(t)
           /\ pc[t] \in {"a_rel", "a_fill"} /\ r[t] # Null => r[t] \in Pages /\ r[t] \in Held(t)
  BY StraysAssumption DEF CallInv, Held, FreeLabels

(* The head of the list, and the link in the page it points to. *)
LEMMA HeadLink ==
    ASSUME TypeInv, FreeListIntact
    PROVE  /\ Len(stack) \in Nat /\ DOMAIN stack = 1..Len(stack)
           /\ freelist = Null <=> Len(stack) = 0
           /\ Len(stack) > 0 =>
                /\ freelist \in Pages /\ freelist = stack[Len(stack)]
                /\ word[freelist] = IF Len(stack) = 1 THEN Null ELSE stack[Len(stack) - 1]
           /\ Len(stack) > 1 => stack[Len(stack) - 1] \in Pages
<1>1. Len(stack) \in Nat /\ DOMAIN stack = 1..Len(stack)
  BY DEF TypeInv
<1>2. CASE Len(stack) = 0
  <2>1. stack = <<>>
    BY <1>2, EmptySeq DEF TypeInv
  <2>. QED
    BY <1>1, <1>2, <2>1 DEF FreeListIntact
<1>3. CASE Len(stack) > 0
  <2>1. stack # <<>>
    BY <1>3
  <2>2. Len(stack) \in DOMAIN stack /\ freelist = stack[Len(stack)] /\ freelist \in Pages
    BY <1>1, <1>3, <2>1 DEF FreeListIntact, TypeInv
  <2>3. word[freelist] = IF Len(stack) = 1 THEN Null ELSE stack[Len(stack) - 1]
    BY <2>2 DEF FreeListIntact
  <2>4. Len(stack) > 1 => stack[Len(stack) - 1] \in Pages
    BY <1>1 DEF TypeInv
  <2>. QED
    BY <1>1, <1>3, <2>2, <2>3, <2>4, PageFacts
<1>. QED
  BY <1>1, <1>2, <1>3

(* Every step of the allocator keeps the types of the list, the pages and  *)
(* the locals.                                                              *)
LEMMA TypeStep == ASSUME IInv, NEW t \in Threads, ThreadStep(t) PROVE TypeInv'
<1>. USE PhysMemAssumption DEF IInv, TypeInv, Labels, Null
<1>1. ASSUME FreerangeNext(t) PROVE TypeInv'
  BY <1>1 DEF FreerangeNext, Step
<1>2. ASSUME FreeFill(t) PROVE TypeInv'
  BY <1>2, FreeablePage DEF FreeFill, Step, Ones
<1>3. ASSUME FreePanic(t) PROVE TypeInv'
  BY <1>3 DEF FreePanic, Step
<1>4. ASSUME Acquire(t, "f_acq", "f_next") PROVE TypeInv'
  BY <1>4 DEF Acquire, Step
<1>5. ASSUME FreeNext(t) PROVE TypeInv'
  BY <1>5 DEF FreeNext, Step, CallInv, FreeLabels
<1>6. ASSUME FreeHead(t) PROVE TypeInv'
  <2>1. r[t] \in Pages
    BY <1>6 DEF FreeHead, Step, CallInv, FreeLabels
  <2>2. stack' \in Seq(Pages)
    BY <1>6, <2>1 DEF FreeHead
  <2>. QED
    BY <1>6, <2>2 DEF FreeHead, Step
<1>7. ASSUME Release(t, "f_rel", "idle") PROVE TypeInv'
  BY <1>7 DEF Release, Step
<1>8. ASSUME CallAlloc(t) PROVE TypeInv'
  BY <1>8 DEF CallAlloc, Step
<1>9. ASSUME Acquire(t, "a_acq", "a_head") PROVE TypeInv'
  BY <1>9 DEF Acquire, Step
<1>10. ASSUME AllocHead(t) PROVE TypeInv'
  BY <1>10 DEF AllocHead, Step
<1>11. ASSUME AllocPop(t) PROVE TypeInv'
  <2>1. CASE r[t] # Null
    <3>1. Len(stack) > 0 /\ r[t] = freelist /\ freelist \in Pages
      BY <1>11, <2>1, HeadLink DEF AllocPop, Step, CallInv
    <3>2. stack' \in Seq(Pages)
      BY <1>11, <2>1, <3>1, Popped DEF AllocPop
    <3>3. word[freelist] \in Pages \cup {Null}
      <4>1. CASE Len(stack) = 1
        BY <4>1, HeadLink
      <4>2. CASE Len(stack) > 1
        BY <4>2, HeadLink
      <4>. QED
        <5>1. Len(stack) \in Nat /\ Len(stack) > 0
          BY <3>1, HeadLink
        <5>2. \A n \in Nat : n > 0 => n = 1 \/ n > 1
          OBVIOUS
        <5>3. Len(stack) = 1 \/ Len(stack) > 1
          BY ONLY <5>1, <5>2
        <5>. QED
          BY ONLY <5>3, <4>1, <4>2
    <3>4. freelist' \in Nat
      BY <1>11, <2>1, <3>1, <3>3, PageFacts DEF AllocPop
    <3>. QED
      BY <1>11, <3>2, <3>4 DEF AllocPop, Step
  <2>2. CASE r[t] = Null
    BY <1>11, <2>2 DEF AllocPop, Step
  <2>. QED
    BY <2>1, <2>2
<1>12. ASSUME Release(t, "a_rel", "a_fill") PROVE TypeInv'
  BY <1>12 DEF Release, Step
<1>13. ASSUME AllocFill(t) PROVE TypeInv'
  BY <1>13 DEF AllocFill, Step, CallInv, Fives
<1>14. ASSUME AllocPanic(t) PROVE TypeInv'
  BY <1>14 DEF AllocPanic, Step
<1>15. ASSUME Spin(t) PROVE TypeInv'
  BY <1>15 DEF Spin, vars
<1>16. ASSUME NEW p \in Pages, CallFree(t, p) PROVE TypeInv'
  BY <1>16, PageFacts DEF CallFree, Step
<1>17. ASSUME NEW p \in Pages, Write(t, p) PROVE TypeInv'
  BY <1>17 DEF Write, Data
<1>18. ASSUME NEW a \in Strays, CallFreeStray(t, a) PROVE TypeInv'
  BY <1>18, StraysAssumption DEF CallFreeStray, Step, Addresses
<1>. QED
  BY <1>1, <1>2, <1>3, <1>4, <1>5, <1>6, <1>7, <1>8, <1>9, <1>10, <1>11, <1>12, <1>13, <1>14, <1>15, <1>16, <1>17, <1>18 DEF ThreadStep

(* Every step keeps kmem.lock with the one thread that is between acquire   *)
(* and release.                                                             *)
LEMMA LockStep == ASSUME IInv, NEW t \in Threads, ThreadStep(t) PROVE LockInv'
<1>. USE PhysMemAssumption DEF IInv, TypeInv, Labels, LockInv, LockLabels
<1>1. ASSUME FreerangeNext(t) PROVE LockInv'
  BY <1>1 DEF FreerangeNext, Step
<1>2. ASSUME FreeFill(t) PROVE LockInv'
  BY <1>2 DEF FreeFill, Step
<1>3. ASSUME FreePanic(t) PROVE LockInv'
  BY <1>3 DEF FreePanic, Step
<1>4. ASSUME Acquire(t, "f_acq", "f_next") PROVE LockInv'
  BY <1>4 DEF Acquire, Step
<1>5. ASSUME FreeNext(t) PROVE LockInv'
  BY <1>5 DEF FreeNext, Step
<1>6. ASSUME FreeHead(t) PROVE LockInv'
  BY <1>6 DEF FreeHead, Step
<1>7. ASSUME Release(t, "f_rel", "idle") PROVE LockInv'
  BY <1>7 DEF Release, Step
<1>8. ASSUME CallAlloc(t) PROVE LockInv'
  BY <1>8 DEF CallAlloc, Step
<1>9. ASSUME Acquire(t, "a_acq", "a_head") PROVE LockInv'
  BY <1>9 DEF Acquire, Step
<1>10. ASSUME AllocHead(t) PROVE LockInv'
  BY <1>10 DEF AllocHead, Step
<1>11. ASSUME AllocPop(t) PROVE LockInv'
  BY <1>11 DEF AllocPop, Step
<1>12. ASSUME Release(t, "a_rel", "a_fill") PROVE LockInv'
  BY <1>12 DEF Release, Step
<1>13. ASSUME AllocFill(t) PROVE LockInv'
  BY <1>13 DEF AllocFill, Step
<1>14. ASSUME AllocPanic(t) PROVE LockInv'
  BY <1>14 DEF AllocPanic, Step
<1>15. ASSUME Spin(t) PROVE LockInv'
  BY <1>15 DEF Spin, vars
<1>16. ASSUME NEW p \in Pages, CallFree(t, p) PROVE LockInv'
  BY <1>16 DEF CallFree, Step
<1>17. ASSUME NEW p \in Pages, Write(t, p) PROVE LockInv'
  BY <1>17 DEF Write
<1>18. ASSUME NEW a \in Strays, CallFreeStray(t, a) PROVE LockInv'
  BY <1>18 DEF CallFreeStray, Step
<1>. QED
  BY <1>1, <1>2, <1>3, <1>4, <1>5, <1>6, <1>7, <1>8, <1>9, <1>10, <1>11, <1>12, <1>13, <1>14, <1>15, <1>16, <1>17, <1>18 DEF ThreadStep

(* Every step keeps the chain of links: nothing is written to a page on    *)
(* the list, and head and link are changed by one thread at a time.         *)
LEMMA ListStep == ASSUME IInv, NEW t \in Threads, ThreadStep(t) PROVE FreeListIntact'
<1>. USE PhysMemAssumption DEF IInv, TypeInv, FreeListIntact
<1>1. ASSUME FreerangeNext(t) PROVE FreeListIntact'
  BY <1>1 DEF FreerangeNext, Step
<1>2. ASSUME FreeFill(t) PROVE FreeListIntact'
  <2>1. r[t] \in Held(t)
    BY <1>2, FreeablePage, HeldPage DEF FreeFill, Step
  <2>. QED
    BY <1>2, <2>1, Unlisted DEF FreeFill
<1>3. ASSUME FreePanic(t) PROVE FreeListIntact'
  BY <1>3 DEF FreePanic, Step
<1>4. ASSUME Acquire(t, "f_acq", "f_next") PROVE FreeListIntact'
  BY <1>4 DEF Acquire, Step
<1>5. ASSUME FreeNext(t) PROVE FreeListIntact'
  <2>1. r[t] \in Held(t)
    BY <1>5, HeldPage DEF FreeNext, Step, FreeLabels
  <2>. QED
    BY <1>5, <2>1, Unlisted DEF FreeNext
<1>6. ASSUME FreeHead(t) PROVE FreeListIntact'
  <2>1. r[t] \in Pages /\ word[r[t]] = freelist
    BY <1>6 DEF FreeHead, Step, CallInv, FreeLabels
  <2>2. /\ Len(stack') = Len(stack) + 1 /\ stack'[Len(stack')] = r[t]
        /\ \A i \in 1..Len(stack) : stack'[i] = stack[i]
        /\ stack' # <<>> /\ stack' \in Seq(Pages)
    BY <1>6, <2>1, AppendProperties DEF FreeHead
  <2>3. freelist' = r[t] /\ word' = word
    BY <1>6 DEF FreeHead
  <2>4. ASSUME NEW i \in DOMAIN stack' 
        PROVE  word[stack'[i]] = IF i = 1 THEN Null ELSE stack'[i - 1]
    <3>1. i \in 1..(Len(stack) + 1) /\ Len(stack) \in Nat
      BY <2>2
    <3>2. CASE i = Len(stack) + 1
      <4>1. word[stack'[i]] = freelist
        BY <2>1, <2>2, <3>2
      <4>2. CASE i = 1
        BY <3>1, <3>2, <4>1, <4>2, HeadLink
      <4>3. CASE i # 1
        <5>1. Len(stack) > 0 /\ i - 1 = Len(stack) /\ Len(stack) \in 1..Len(stack)
          BY <3>1, <3>2, <4>3
        <5>2. freelist = stack[Len(stack)]
          BY <5>1, HeadLink
        <5>. QED
          BY <2>2, <4>1, <4>3, <5>1, <5>2
      <4>. QED
        BY <4>2, <4>3
    <3>3. CASE i # Len(stack) + 1
      <4>1. i \in 1..Len(stack) /\ i \in DOMAIN stack /\ (i # 1 => i - 1 \in 1..Len(stack))
        BY <3>1, <3>3
      <4>2. word[stack[i]] = IF i = 1 THEN Null ELSE stack[i - 1]
        BY <4>1
      <4>. QED
        BY <2>2, <4>1, <4>2
    <3>. QED
      BY <3>2, <3>3
  <2>. QED
    BY <2>2, <2>3, <2>4
<1>7. ASSUME Release(t, "f_rel", "idle") PROVE FreeListIntact'
  BY <1>7 DEF Release, Step
<1>8. ASSUME CallAlloc(t) PROVE FreeListIntact'
  BY <1>8 DEF CallAlloc, Step
<1>9. ASSUME Acquire(t, "a_acq", "a_head") PROVE FreeListIntact'
  BY <1>9 DEF Acquire, Step
<1>10. ASSUME AllocHead(t) PROVE FreeListIntact'
  BY <1>10 DEF AllocHead, Step
<1>11. ASSUME AllocPop(t) PROVE FreeListIntact'
  <2>1. CASE r[t] # Null
    <3>1. Len(stack) > 0 /\ r[t] = freelist /\ Len(stack) \in Nat
      BY <1>11, <2>1, HeadLink DEF AllocPop, Step, CallInv
    <3>2. /\ Len(stack') = Len(stack) - 1 /\ stack' \in Seq(Pages)
          /\ \A i \in 1..(Len(stack) - 1) : stack'[i] = stack[i]
      <4>1. stack' = SubSeq(stack, 1, Len(stack) - 1)
        BY <1>11, <2>1 DEF AllocPop
      <4>2. stack \in Seq(Pages)
        OBVIOUS
      <4>. QED
        BY ONLY <3>1, <4>1, <4>2, Popped
    <3>3. freelist' = word[freelist] /\ word' = word
      BY <1>11, <2>1, <3>1 DEF AllocPop
    <3>4. freelist' = IF stack' = <<>> THEN Null ELSE stack'[Len(stack')]
      <4>1. CASE Len(stack) = 1
        BY <3>1, <3>2, <3>3, <4>1, HeadLink, EmptySeq
      <4>2. CASE Len(stack) # 1
        <5>0. \A n \in Nat : n > 0 /\ n # 1 => n - 1 \in 1..(n - 1)
          OBVIOUS
        <5>1. Len(stack) - 1 \in 1..(Len(stack) - 1)
          BY ONLY <3>1, <4>2, <5>0
        <5>2. freelist' = stack[Len(stack) - 1]
          BY <3>1, <3>3, <4>2, HeadLink
        <5>3. stack'[Len(stack')] = stack[Len(stack) - 1] /\ stack' # <<>>
          BY <3>1, <3>2, <5>1
        <5>. QED
          BY <5>2, <5>3
      <4>. QED
        BY <4>1, <4>2
    <3>5. ASSUME NEW i \in DOMAIN stack'
          PROVE  word[stack'[i]] = IF i = 1 THEN Null ELSE stack'[i - 1]
      <4>1. /\ i \in 1..(Len(stack) - 1) /\ i \in DOMAIN stack
            /\ i # 1 => i - 1 \in 1..(Len(stack) - 1)
        <5>1. DOMAIN stack' = 1..(Len(stack) - 1) /\ DOMAIN stack = 1..Len(stack)
          BY <3>1, <3>2
        <5>. QED
          BY ONLY <3>1, <5>1, i \in DOMAIN stack'
      <4>2. word[stack[i]] = IF i = 1 THEN Null ELSE stack[i - 1]
        BY <4>1
      <4>. QED
        BY <3>2, <4>1, <4>2
    <3>. QED
      BY <3>3, <3>4, <3>5
  <2>2. CASE r[t] = Null
    BY <1>11, <2>2 DEF AllocPop
  <2>. QED
    BY <2>1, <2>2
<1>12. ASSUME Release(t, "a_rel", "a_fill") PROVE FreeListIntact'
  BY <1>12 DEF Release, Step
<1>13. ASSUME AllocFill(t) PROVE FreeListIntact'
  <2>1. r[t] \in Held(t)
    BY <1>13, HeldPage DEF AllocFill, Step
  <2>. QED
    BY <1>13, <2>1, Unlisted DEF AllocFill
<1>14. ASSUME AllocPanic(t) PROVE FreeListIntact'
  BY <1>14 DEF AllocPanic, Step
<1>15. ASSUME Spin(t) PROVE FreeListIntact'
  BY <1>15 DEF Spin, vars
<1>16. ASSUME NEW p \in Pages, CallFree(t, p) PROVE FreeListIntact'
  BY <1>16 DEF CallFree, Step
<1>17. ASSUME NEW p \in Pages, Write(t, p) PROVE FreeListIntact'
  BY <1>17, Unlisted DEF Write
<1>18. ASSUME NEW a \in Strays, CallFreeStray(t, a) PROVE FreeListIntact'
  BY <1>18 DEF CallFreeStray, Step
<1>. QED
  BY <1>1, <1>2, <1>3, <1>4, <1>5, <1>6, <1>7, <1>8, <1>9, <1>10, <1>11, <1>12, <1>13, <1>14, <1>15, <1>16, <1>17, <1>18 DEF ThreadStep

(* Every step keeps what each call in progress knows of its page. *)
LEMMA CallStep == ASSUME IInv, NEW t \in Threads, ThreadStep(t) PROVE CallInv'
<1>. USE PhysMemAssumption DEF IInv, TypeInv, Labels, CallInv, FreeLabels
<1>1. ASSUME FreerangeNext(t) PROVE CallInv'
  BY <1>1, RangePage DEF FreerangeNext, Step
<1>2. ASSUME FreeFill(t) PROVE CallInv'
  <2>1. r[t] \in Pages /\ r[t] \in Held(t)
    BY <1>2, FreeablePage, HeldPage DEF FreeFill, Step
  <2>2. \A u \in Threads : pc[u] = "f_head" => r[u] # r[t]
    BY <1>2, <2>1, HeldPage DEF FreeFill, Step, PlaceInv
  <2>. QED
    BY <1>2, <2>1, <2>2 DEF FreeFill, Step
<1>3. ASSUME FreePanic(t) PROVE CallInv'
  BY <1>3 DEF FreePanic, Step
<1>4. ASSUME Acquire(t, "f_acq", "f_next") PROVE CallInv'
  BY <1>4 DEF Acquire, Step
<1>5. ASSUME FreeNext(t) PROVE CallInv'
  <2>1. \A u \in Threads \ {t} : pc[u] # "f_head"
    BY <1>5 DEF FreeNext, Step, LockInv, LockLabels
  <2>. QED
    BY <1>5, <2>1 DEF FreeNext, Step
<1>6. ASSUME FreeHead(t) PROVE CallInv'
  <2>1. \A u \in Threads \ {t} : pc[u] \notin {"f_head", "a_pop"}
    BY <1>6 DEF FreeHead, Step, LockInv, LockLabels
  <2>. QED
    BY <1>6, <2>1 DEF FreeHead, Step
<1>7. ASSUME Release(t, "f_rel", "idle") PROVE CallInv'
  BY <1>7 DEF Release, Step
<1>8. ASSUME CallAlloc(t) PROVE CallInv'
  BY <1>8 DEF CallAlloc, Step
<1>9. ASSUME Acquire(t, "a_acq", "a_head") PROVE CallInv'
  BY <1>9 DEF Acquire, Step
<1>10. ASSUME AllocHead(t) PROVE CallInv'
  BY <1>10 DEF AllocHead, Step, LockInv, LockLabels
<1>11. ASSUME AllocPop(t) PROVE CallInv'
  <2>1. \A u \in Threads \ {t} : pc[u] \notin {"f_head", "a_pop"}
    BY <1>11 DEF AllocPop, Step, LockInv, LockLabels
  <2>2. r[t] \in Pages \cup {Null}
    BY <1>11, HeadLink DEF AllocPop, Step
  <2>. QED
    BY <1>11, <2>1, <2>2 DEF AllocPop, Step
<1>12. ASSUME Release(t, "a_rel", "a_fill") PROVE CallInv'
  BY <1>12 DEF Release, Step
<1>13. ASSUME AllocFill(t) PROVE CallInv'
  <2>1. r[t] \in Held(t)
    BY <1>13, HeldPage DEF AllocFill, Step
  <2>2. \A u \in Threads : pc[u] = "f_head" => r[u] # r[t]
    BY <1>13, <2>1, HeldPage DEF AllocFill, Step, PlaceInv
  <2>. QED
    BY <1>13, <2>1, <2>2 DEF AllocFill, Step
<1>14. ASSUME AllocPanic(t) PROVE CallInv'
  BY <1>14 DEF AllocPanic, Step
<1>15. ASSUME Spin(t) PROVE CallInv'
  BY <1>15 DEF Spin, vars
<1>16. ASSUME NEW p \in Pages, CallFree(t, p) PROVE CallInv'
  BY <1>16 DEF CallFree, Step
<1>17. ASSUME NEW p \in Pages, Write(t, p) PROVE CallInv'
  <2>1. \A u \in Threads : pc[u] = "f_head" => r[u] # p
    BY <1>17, HeldPage DEF Write, PlaceInv
  <2>. QED
    BY <1>17, <2>1 DEF Write
<1>18. ASSUME NEW a \in Strays, CallFreeStray(t, a) PROVE CallInv'
  BY <1>18 DEF CallFreeStray, Step
<1>. QED
  BY <1>1, <1>2, <1>3, <1>4, <1>5, <1>6, <1>7, <1>8, <1>9, <1>10, <1>11, <1>12, <1>13, <1>14, <1>15, <1>16, <1>17, <1>18 DEF ThreadStep

(* Every step keeps freerange on page boundaries, and nobody else starts    *)
(* before it is done.                                                       *)
LEMMA RangeStep == ASSUME IInv, NEW t \in Threads, ThreadStep(t) PROVE RangeInv'
<1>. USE PhysMemAssumption DEF IInv, TypeInv, Labels, RangeInv, RangeLeft
<1>1. ASSUME FreerangeNext(t) PROVE RangeInv'
  <2>1. brk \in Pages /\ (brk + PGSIZE) % PGSIZE = 0
    BY <1>1, RangePage DEF FreerangeNext
  <2>. QED
    BY <1>1, <2>1 DEF FreerangeNext, Step
<1>2. ASSUME FreeFill(t) PROVE RangeInv'
  BY <1>2, FreeablePage DEF FreeFill, Step
<1>3. ASSUME FreePanic(t) PROVE RangeInv'
  <2>1. ASSUME RangeLeft, t = Boot PROVE FALSE
    <3>1. r[t] \in Pages /\ ~Freeable(r[t])
      BY <1>3, <2>1 DEF FreePanic, Step
    <3>2. r[t] \in Nat /\ r[t] % PGSIZE = 0 /\ r[t] >= End /\ r[t] + PGSIZE <= PHYSTOP
      BY <3>1, PageFacts
    <3>3. r[t] < PHYSTOP
      BY <3>2
    <3>. QED
      BY <3>1, <3>2, <3>3 DEF Freeable
  <2>. QED
    BY <1>3, <2>1 DEF FreePanic, Step
<1>4. ASSUME Acquire(t, "f_acq", "f_next") PROVE RangeInv'
  BY <1>4 DEF Acquire, Step
<1>5. ASSUME FreeNext(t) PROVE RangeInv'
  BY <1>5 DEF FreeNext, Step
<1>6. ASSUME FreeHead(t) PROVE RangeInv'
  BY <1>6 DEF FreeHead, Step
<1>7. ASSUME Release(t, "f_rel", "idle") PROVE RangeInv'
  BY <1>7 DEF Release, Step
<1>8. ASSUME CallAlloc(t) PROVE RangeInv'
  BY <1>8 DEF CallAlloc, Step
<1>9. ASSUME Acquire(t, "a_acq", "a_head") PROVE RangeInv'
  BY <1>9 DEF Acquire, Step
<1>10. ASSUME AllocHead(t) PROVE RangeInv'
  BY <1>10 DEF AllocHead, Step
<1>11. ASSUME AllocPop(t) PROVE RangeInv'
  BY <1>11 DEF AllocPop, Step
<1>12. ASSUME Release(t, "a_rel", "a_fill") PROVE RangeInv'
  BY <1>12 DEF Release, Step
<1>13. ASSUME AllocFill(t) PROVE RangeInv'
  BY <1>13 DEF AllocFill, Step
<1>14. ASSUME AllocPanic(t) PROVE RangeInv'
  BY <1>14 DEF AllocPanic, Step
<1>15. ASSUME Spin(t) PROVE RangeInv'
  BY <1>15 DEF Spin, vars
<1>16. ASSUME NEW p \in Pages, CallFree(t, p) PROVE RangeInv'
  BY <1>16 DEF CallFree, Step
<1>17. ASSUME NEW p \in Pages, Write(t, p) PROVE RangeInv'
  BY <1>17 DEF Write
<1>18. ASSUME NEW a \in Strays, CallFreeStray(t, a) PROVE RangeInv'
  BY <1>18 DEF CallFreeStray, Step
<1>. QED
  BY <1>1, <1>2, <1>3, <1>4, <1>5, <1>6, <1>7, <1>8, <1>9, <1>10, <1>11, <1>12, <1>13, <1>14, <1>15, <1>16, <1>17, <1>18 DEF ThreadStep

(* Nothing moves when the list, the calls and the owners stay the same. *)
LEMMA PlaceSame ==
    ASSUME PlaceInv, UNCHANGED <<stack, brk, owned>>, \A u \in Threads : Held(u)' = Held(u)
    PROVE  PlaceInv'
  BY DEF PlaceInv, OnList

(* free_page() accepts every page of the allocator. *)
LEMMA FreePageAccepted == ASSUME NEW p \in Pages PROVE Freeable(p)
<1>1. p \in Nat /\ p % PGSIZE = 0 /\ p >= End /\ p + PGSIZE <= PHYSTOP
  BY PageFacts
<1>2. p < PHYSTOP
  BY <1>1, PhysMemAssumption
<1>. QED
  BY <1>1, <1>2 DEF Freeable

(* Every step moves at most one page from one place to another. *)
LEMMA PlaceStep == ASSUME IInv, NEW t \in Threads, ThreadStep(t) PROVE PlaceInv'
<1>. PlaceInv
  BY DEF IInv
<1>. USE PhysMemAssumption DEF IInv, TypeInv, Labels
<1>1. ASSUME FreerangeNext(t) PROVE PlaceInv'
  <2>1. brk \in Pages /\ \A p \in Pages : p < brk + PGSIZE <=> p < brk \/ p = brk
    BY <1>1, RangePage DEF FreerangeNext
  <2>2. Held(t) = {} /\ Held(t)' = {brk} /\ \A u \in Threads \ {t} : Held(u)' = Held(u)
    BY <1>1, <2>1, StraysAssumption DEF FreerangeNext, Step, Held
  <2>3. brk' = brk + PGSIZE /\ stack' = stack /\ owned' = owned
    BY <1>1 DEF FreerangeNext
  <2>4. ~(brk < brk)
    OBVIOUS
  <2>5. brk \notin OnList /\ \A u \in Threads : brk \notin Held(u) \cup owned[u]
    BY <2>1, <2>4 DEF PlaceInv
  <2>. QED
    BY ONLY <2>1, <2>2, <2>3, <2>5, PlaceInv DEF PlaceInv, OnList
<1>2. ASSUME FreeFill(t) PROVE PlaceInv'
  <2>1. \A u \in Threads : Held(u)' = Held(u)
    BY <1>2 DEF FreeFill, Step, Held
  <2>. QED
    BY <1>2, <2>1, PlaceSame DEF FreeFill
<1>3. ASSUME FreePanic(t) PROVE PlaceInv'
  <2>1. r[t] \in Strays
    BY <1>3, FreePageAccepted DEF FreePanic, Step, CallInv
  <2>2. \A u \in Threads : Held(u)' = Held(u)
    BY <1>3, <2>1 DEF FreePanic, Step, Held
  <2>. QED
    BY <1>3, <2>2, PlaceSame DEF FreePanic
<1>4. ASSUME Acquire(t, "f_acq", "f_next") PROVE PlaceInv'
  <2>1. \A u \in Threads : Held(u)' = Held(u)
    BY <1>4 DEF Acquire, Step, Held
  <2>. QED
    BY <1>4, <2>1, PlaceSame DEF Acquire
<1>5. ASSUME FreeNext(t) PROVE PlaceInv'
  <2>1. \A u \in Threads : Held(u)' = Held(u)
    BY <1>5 DEF FreeNext, Step, Held
  <2>. QED
    BY <1>5, <2>1, PlaceSame DEF FreeNext
<1>6. ASSUME FreeHead(t) PROVE PlaceInv'
  <2>1. r[t] \in Pages /\ Held(t) = {r[t]}
    BY <1>6, StraysAssumption DEF FreeHead, Step, CallInv, FreeLabels, Held
  <2>2. Held(t)' = {} /\ \A u \in Threads \ {t} : Held(u)' = Held(u)
    BY <1>6 DEF FreeHead, Step, Held
  <2>3. owned' = owned /\ brk' = brk
    BY <1>6 DEF FreeHead
  <2>4. /\ Len(stack') = Len(stack) + 1 /\ stack'[Len(stack) + 1] = r[t]
        /\ \A i \in 1..Len(stack) : stack'[i] = stack[i]
        /\ stack' \in Seq(Pages)
    BY <1>6, <2>1, AppendProperties DEF FreeHead
  <2>5. /\ DOMAIN stack = 1..Len(stack) /\ DOMAIN stack' = 1..(Len(stack) + 1)
        /\ Len(stack) \in Nat
    BY <2>4
  <2>6. OnList' = OnList \cup {r[t]}
    BY ONLY <2>4, <2>5 DEF OnList
  <2>7. \A i \in DOMAIN stack : stack[i] # r[t]
    BY <2>1, Unlisted
  <2>8. \A i, j \in DOMAIN stack' : stack'[i] = stack'[j] => i = j
    BY ONLY <2>4, <2>5, <2>7, PlaceInv DEF PlaceInv
  <2>. QED
    BY ONLY <2>1, <2>2, <2>3, <2>6, <2>8, PlaceInv DEF PlaceInv
<1>7. ASSUME Release(t, "f_rel", "idle") PROVE PlaceInv'
  <2>1. \A u \in Threads : Held(u)' = Held(u)
    BY <1>7 DEF Release, Step, Held
  <2>. QED
    BY <1>7, <2>1, PlaceSame DEF Release
<1>8. ASSUME CallAlloc(t) PROVE PlaceInv'
  <2>1. \A u \in Threads : Held(u)' = Held(u)
    BY <1>8 DEF CallAlloc, Step, Held
  <2>. QED
    BY <1>8, <2>1, PlaceSame DEF CallAlloc
<1>9. ASSUME Acquire(t, "a_acq", "a_head") PROVE PlaceInv'
  <2>1. \A u \in Threads : Held(u)' = Held(u)
    BY <1>9 DEF Acquire, Step, Held
  <2>. QED
    BY <1>9, <2>1, PlaceSame DEF Acquire
<1>10. ASSUME AllocHead(t) PROVE PlaceInv'
  <2>1. \A u \in Threads : Held(u)' = Held(u)
    BY <1>10 DEF AllocHead, Step, Held
  <2>. QED
    BY <1>10, <2>1, PlaceSame DEF AllocHead
<1>11. ASSUME AllocPop(t) PROVE PlaceInv'
  <2>1. CASE r[t] # Null
    <3>1. /\ Len(stack) > 0 /\ Len(stack) \in Nat
          /\ r[t] \in Pages /\ r[t] = stack[Len(stack)]
      BY <1>11, <2>1, HeadLink DEF AllocPop, Step, CallInv
    <3>2. stack' = SubSeq(stack, 1, Len(stack) - 1) /\ owned' = owned /\ brk' = brk
      BY <1>11, <2>1 DEF AllocPop
    <3>3. /\ Len(stack') = Len(stack) - 1 /\ stack' \in Seq(Pages)
          /\ \A i \in 1..(Len(stack) - 1) : stack'[i] = stack[i]
      <4>1. stack \in Seq(Pages)
        OBVIOUS
      <4>. QED
        BY ONLY <3>1, <3>2, <4>1, Popped
    <3>4. /\ DOMAIN stack = 1..Len(stack) /\ DOMAIN stack' = 1..(Len(stack) - 1)
      BY <3>1, <3>3
    <3>5. Held(t) = {} /\ Held(t)' = {r[t]} /\ \A u \in Threads \ {t} : Held(u)' = Held(u)
      BY <1>11, <2>1 DEF AllocPop, Step, Held
    <3>6. \A i \in DOMAIN stack : stack[i] = r[t] <=> i = Len(stack)
      BY ONLY <3>1, <3>4, PlaceInv DEF PlaceInv
    <3>7. OnList' = OnList \ {r[t]} /\ r[t] \in OnList
      BY ONLY <3>1, <3>3, <3>4, <3>6 DEF OnList
    <3>8. \A i, j \in DOMAIN stack' : stack'[i] = stack'[j] => i = j
      BY ONLY <3>1, <3>3, <3>4, PlaceInv DEF PlaceInv
    <3>. QED
      BY ONLY <3>1, <3>2, <3>5, <3>7, <3>8, PlaceInv DEF PlaceInv
  <2>2. CASE r[t] = Null
    <3>1. \A u \in Threads : Held(u)' = Held(u)
      BY <1>11, <2>2 DEF AllocPop, Step, Held
    <3>. QED
      BY <1>11, <2>2, <3>1, PlaceSame DEF AllocPop
  <2>. QED
    BY <2>1, <2>2
<1>12. ASSUME Release(t, "a_rel", "a_fill") PROVE PlaceInv'
  <2>1. \A u \in Threads : Held(u)' = Held(u)
    BY <1>12 DEF Release, Step, Held
  <2>. QED
    BY <1>12, <2>1, PlaceSame DEF Release
<1>13. ASSUME AllocFill(t) PROVE PlaceInv'
  <2>1. r[t] \in Pages /\ Held(t) = {r[t]}
    BY <1>13 DEF AllocFill, Step, CallInv, Held
  <2>2. Held(t)' = {} /\ \A u \in Threads \ {t} : Held(u)' = Held(u)
    BY <1>13 DEF AllocFill, Step, Held
  <2>3. /\ owned'[t] = owned[t] \cup {r[t]} /\ \A u \in Threads \ {t} : owned'[u] = owned[u]
        /\ brk' = brk /\ stack' = stack
    BY <1>13 DEF AllocFill
  <2>. QED
    BY ONLY <2>1, <2>2, <2>3, PlaceInv DEF PlaceInv, OnList
<1>14. ASSUME AllocPanic(t) PROVE PlaceInv'
  <2>1. \A u \in Threads : Held(u)' = Held(u)
    BY <1>14 DEF AllocPanic, Step, Held
  <2>. QED
    BY <1>14, <2>1, PlaceSame DEF AllocPanic
<1>15. ASSUME Spin(t) PROVE PlaceInv'
  <2>1. \A u \in Threads : Held(u)' = Held(u)
    BY <1>15 DEF Spin, vars, Held
  <2>. QED
    BY <1>15, <2>1, PlaceSame DEF Spin, vars
<1>16. ASSUME NEW p \in Pages, CallFree(t, p) PROVE PlaceInv'
  <2>1. Held(t) = {} /\ Held(t)' = {p} /\ \A u \in Threads \ {t} : Held(u)' = Held(u)
    BY <1>16, StraysAssumption DEF CallFree, Step, Held
  <2>2. /\ p \in owned[t] /\ owned'[t] = owned[t] \ {p}
        /\ \A u \in Threads \ {t} : owned'[u] = owned[u]
        /\ brk' = brk /\ stack' = stack
    BY <1>16 DEF CallFree
  <2>. QED
    BY ONLY <2>1, <2>2, PlaceInv, p \in Pages DEF PlaceInv, OnList
<1>17. ASSUME NEW p \in Pages, Write(t, p) PROVE PlaceInv'
  <2>1. \A u \in Threads : Held(u)' = Held(u)
    BY <1>17 DEF Write, Held
  <2>. QED
    BY <1>17, <2>1, PlaceSame DEF Write
<1>18. ASSUME NEW a \in Strays, CallFreeStray(t, a) PROVE PlaceInv'
  <2>1. \A u \in Threads : Held(u)' = Held(u)
    BY <1>18 DEF CallFreeStray, Step, Held
  <2>. QED
    BY <1>18, <2>1, PlaceSame DEF CallFreeStray
<1>. QED
  BY <1>1, <1>2, <1>3, <1>4, <1>5, <1>6, <1>7, <1>8, <1>9, <1>10, <1>11, <1>12, <1>13, <1>14, <1>15, <1>16, <1>17, <1>18 DEF ThreadStep

-----------------------------------------------------------------------------
(* pmm_init() starts from zeroed memory: the invariant holds. *)
LEMMA InitIInv == Init => IInv
<1>. SUFFICES ASSUME Init PROVE IInv
  OBVIOUS
<1>. USE PhysMemAssumption DEF Init, Null
<1>1. TypeInv
  BY RoundUp, EmptySeq DEF TypeInv, Labels
<1>2. LockInv /\ CallInv
  BY DEF LockInv, LockLabels, CallInv, FreeLabels
<1>3. FreeListIntact
  BY DEF FreeListIntact
<1>4. RangeInv
  BY RoundUp DEF RangeInv
<1>5. OnList = {} /\ \A t \in Threads : Held(t) = {} /\ owned[t] = {}
  BY DEF OnList, Held
<1>6. \A p \in Pages : ~(p < brk)
  BY RoundUp, PageFacts
<1>7. PlaceInv
  BY <1>5, <1>6 DEF PlaceInv
<1>. QED
  BY <1>1, <1>2, <1>3, <1>4, <1>7 DEF IInv

(* Every step of every thread, and every stuttering step, keeps it. *)
LEMMA NextIInv == IInv /\ [Next]_vars => IInv'
<1>. SUFFICES ASSUME IInv, [Next]_vars PROVE IInv'
  OBVIOUS
<1>1. ASSUME NEW t \in Threads, ThreadStep(t) PROVE IInv'
  BY <1>1, TypeStep, LockStep, ListStep, CallStep, RangeStep, PlaceStep DEF IInv
<1>2. ASSUME UNCHANGED vars PROVE IInv'
  BY <1>2 DEF vars, IInv, TypeInv, LockInv, FreeListIntact, CallInv, RangeInv, RangeLeft,
              PlaceInv, OnList, Held
<1>. QED
  BY <1>1, <1>2 DEF Next

(* The invariant holds in every reachable state of kalloc.c. *)
THEOREM Invariance == Spec => []IInv
  BY InitIInv, NextIInv, PTL DEF Spec

(* For any number of threads and pages, following r->next from              *)
(* kmem.freelist visits the free pages, last freed first.                   *)
THEOREM ListIntact == Spec => []FreeListIntact
<1>1. IInv => FreeListIntact
  BY DEF IInv
<1>. QED
  BY <1>1, Invariance, PTL

(* A set with at most one element, by its size. *)
LEMMA AtMostOne ==
    ASSUME NEW S, \A a, b \in S : a = b
    PROVE  /\ S = {} => Cardinality(S) = 0
           /\ S # {} => Cardinality(S) = 1
<1>1. S = {} => Cardinality(S) = 0
  BY FS_EmptySet
<1>2. ASSUME NEW a \in S PROVE Cardinality(S) = 1
  <2>1. S = {a}
    BY <1>2
  <2>. QED
    BY <2>1, FS_Singleton
<1>. QED
  BY <1>1, <1>2

(* No page is lost, handed out twice or left out by freerange, for any size *)
(* of memory and wherever `end` falls.                                      *)
THEOREM PageOnce == Spec => []EachPageOnce
<1>1. ASSUME IInv, NEW p \in Pages
      PROVE  LET onList == {i \in DOMAIN stack : stack[i] = p}
                 inHand == {t \in Threads : p \in Held(t)}
                 owners == {t \in Threads : p \in owned[t]}
             IN Cardinality(onList) + Cardinality(inHand) + Cardinality(owners)
                  = IF p < brk THEN 1 ELSE 0
  <2>. DEFINE onList == {i \in DOMAIN stack : stack[i] = p}
             inHand == {t \in Threads : p \in Held(t)}
             owners == {t \in Threads : p \in owned[t]}
  <2>. PlaceInv
    BY <1>1 DEF IInv
  <2>1. /\ \A a, b \in onList : a = b
        /\ \A a, b \in inHand : a = b
        /\ \A a, b \in owners : a = b
    BY DEF PlaceInv
  <2>2. /\ onList = {} \/ inHand = {}
        /\ onList = {} \/ owners = {}
        /\ inHand = {} \/ owners = {}
    BY DEF PlaceInv, OnList
  <2>3. p < brk <=> onList # {} \/ inHand # {} \/ owners # {}
    BY DEF PlaceInv, OnList
  <2>. HIDE DEF onList, inHand, owners
  <2>4. /\ Cardinality(onList) = IF onList = {} THEN 0 ELSE 1
        /\ Cardinality(inHand) = IF inHand = {} THEN 0 ELSE 1
        /\ Cardinality(owners) = IF owners = {} THEN 0 ELSE 1
    BY <2>1, AtMostOne
  <2>5. Cardinality(onList) + Cardinality(inHand) + Cardinality(owners)
          = IF p < brk THEN 1 ELSE 0
    BY <2>2, <2>3, <2>4
  <2>. QED
    BY <2>5 DEF onList, inHand, owners
<1>2. IInv => (RangeLeft => pc[Boot] # "f_panic")
  BY DEF IInv, RangeInv
<1>3. ASSUME IInv, ~RangeLeft, NEW p \in Pages PROVE p < brk
  BY <1>3, PageFacts, PhysMemAssumption DEF IInv, TypeInv, RangeLeft
<1>4. IInv => EachPageOnce
  BY <1>1, <1>2, <1>3 DEF EachPageOnce
<1>. QED
  BY <1>4, Invariance, PTL

(* Nobody writes to a page somebody else owns: memset and the links only    *)
(* ever go to pages in the hands of the writing call.                       *)
THEOREM OwnerData == Spec => OwnerDataIntact
<1>. DEFINE Kept == \A t \in Threads : \A p \in owned[t] \cap owned'[t] :
                        word[p] = Data => word'[p] = Data
<1>1. ASSUME IInv, NEW u \in Threads, ThreadStep(u) PROVE Kept
  <2>. TypeInv /\ CallInv /\ PlaceInv
    BY <1>1 DEF IInv
  <2>1. CASE word' = word
    BY <2>1
  <2>2. ASSUME NEW q \in Held(u), NEW v, word' = [word EXCEPT ![q] = v] PROVE Kept
    BY <2>2 DEF PlaceInv, TypeInv
  <2>3. ASSUME NEW q \in Pages, word' = [word EXCEPT ![q] = Data] PROVE Kept
    BY <2>3 DEF TypeInv
  <2>4. CASE FreeFill(u)
    <3>1. r[u] \in Held(u)
      BY <2>4, FreeablePage, HeldPage DEF FreeFill, Step, TypeInv
    <3>. QED
      BY <2>2, <2>4, <3>1 DEF FreeFill
  <2>5. CASE FreeNext(u)
    <3>1. r[u] \in Held(u)
      BY <2>5, HeldPage DEF FreeNext, Step, FreeLabels
    <3>. QED
      BY <2>2, <2>5, <3>1 DEF FreeNext
  <2>6. CASE AllocFill(u)
    <3>1. r[u] \in Held(u)
      BY <2>6, HeldPage DEF AllocFill, Step
    <3>. QED
      BY <2>2, <2>6, <3>1 DEF AllocFill
  <2>7. ASSUME NEW p \in Pages, Write(u, p) PROVE Kept
    BY <2>3, <2>7 DEF Write
  <2>8. FreeFill(u) \/ FreeNext(u) \/ AllocFill(u) \/ (\E p \in Pages : Write(u, p)) \/ word' = word
    BY <1>1 DEF ThreadStep, FreerangeNext, FreePanic, Acquire, FreeHead, Release, CallAlloc,
                AllocHead, AllocPop, AllocPanic, Spin, CallFree, CallFreeStray, vars
  <2>. HIDE DEF Kept
  <2>. QED
    BY <2>1, <2>4, <2>5, <2>6, <2>7, <2>8
<1>2. IInv /\ [Next]_vars => [Kept]_vars
  BY <1>1 DEF Next
<1>. QED
  BY <1>2, Invariance, PTL DEF OwnerDataIntact, Spec

(* The threads that alloc_page() has found nothing for. *)
Failed == {t \in Threads : pc[t] \in {"a_pop", "a_rel", "a_fill", "a_panic"} /\ r[t] = Null}

(* What PageAlloc sees of a step: the list, the calls, the owners and the   *)
(* failed threads.  A step that changes none of them is invisible.          *)
LEMMA Invisible ==
    ASSUME OnList' = OnList, \A u \in Threads : Held(u)' = Held(u), owned' = owned, Failed' = Failed
    PROVE  UNCHANGED PA!vars
<1>1. [u \in Threads |-> Held(u)]' = [u \in Threads |-> Held(u)]
  OBVIOUS
<1>. QED
  BY <1>1 DEF PA!vars, OnList, Failed

(* Every step of kalloc.c is a step of PageAlloc or invisible to it. *)
LEMMA PageAllocStep ==
    ASSUME IInv, NEW t \in Threads, ThreadStep(t)
    PROVE  PA!Next \/ UNCHANGED PA!vars
<1>. DEFINE held == [u \in Threads |-> Held(u)]
<1>. TypeInv /\ CallInv /\ PlaceInv /\ RangeInv /\ FreeListIntact
  BY DEF IInv
<1>. USE DEF TypeInv, Labels
<1>0. OnList = {stack[i] : i \in DOMAIN stack} /\ OnList' = {stack'[i] : i \in DOMAIN stack'}
  BY DEF OnList
<1>next. ASSUME NEW p \in Pages, PA!Take(t, p) \/ PA!Give(t, p) \/ PA!HandIn(t, p) \/ PA!Put(t, p)
         PROVE  PA!Next
  BY ONLY <1>next, t \in Threads DEF PA!Next
<1>1. ASSUME FreerangeNext(t) PROVE PA!Next
  <2>1. brk \in Pages
    BY <1>1, RangePage DEF FreerangeNext
  <2>2. Held(t) = {} /\ Held(t)' = {brk} /\ \A u \in Threads \ {t} : Held(u)' = Held(u)
    BY <1>1, <2>1, StraysAssumption DEF FreerangeNext, Step, Held
  <2>3. ~(brk < brk)
    OBVIOUS
  <2>4. brk \notin OnList /\ \A u \in Threads : brk \notin Held(u) \cup owned[u]
    BY <2>1, <2>3 DEF PlaceInv
  <2>5. held' = [held EXCEPT ![t] = @ \cup {brk}]
    BY <2>2
  <2>6. Failed' = Failed /\ OnList' = OnList
    BY <1>1 DEF FreerangeNext, Step, Failed, OnList
  <2>7. owned' = [owned EXCEPT ![t] = @ \ {brk}]
    BY <1>1, <2>4 DEF FreerangeNext
  <2>8. PA!HandIn(t, brk)
    BY <1>0, <2>4, <2>5, <2>6, <2>7 DEF PA!HandIn, Failed
  <2>. QED
    BY <2>1, <2>8, <1>next
<1>2. ASSUME NEW p \in Pages, CallFree(t, p) PROVE PA!Next
  <2>1. Held(t) = {} /\ Held(t)' = {p} /\ \A u \in Threads \ {t} : Held(u)' = Held(u)
    BY <1>2, StraysAssumption DEF CallFree, Step, Held
  <2>2. held' = [held EXCEPT ![t] = @ \cup {p}]
    BY <2>1
  <2>3. Failed' = Failed /\ OnList' = OnList
    BY <1>2, PageFacts DEF CallFree, Step, Failed, OnList
  <2>4. PA!HandIn(t, p)
    BY <1>0, <1>2, <2>2, <2>3 DEF PA!HandIn, Failed, CallFree
  <2>. QED
    BY <2>4, <1>next
<1>3. ASSUME FreeHead(t) PROVE PA!Next
  <2>1. r[t] \in Pages /\ Held(t) = {r[t]}
    BY <1>3, StraysAssumption DEF FreeHead, Step, CallInv, FreeLabels, Held
  <2>2. Held(t)' = {} /\ \A u \in Threads \ {t} : Held(u)' = Held(u)
    BY <1>3 DEF FreeHead, Step, Held
  <2>3. held' = [held EXCEPT ![t] = @ \ {r[t]}]
    BY <2>1, <2>2
  <2>4. OnList' = OnList \cup {r[t]}
    <3>1. /\ Len(stack') = Len(stack) + 1 /\ stack'[Len(stack) + 1] = r[t]
          /\ \A i \in 1..Len(stack) : stack'[i] = stack[i]
          /\ stack' \in Seq(Pages)
      BY <1>3, <2>1, AppendProperties DEF FreeHead
    <3>2. /\ DOMAIN stack = 1..Len(stack) /\ DOMAIN stack' = 1..(Len(stack) + 1)
          /\ Len(stack) \in Nat
      BY <3>1
    <3>. QED
      BY ONLY <3>1, <3>2 DEF OnList
  <2>5. Failed' = Failed /\ owned' = owned
    BY <1>3 DEF FreeHead, Step, Failed
  <2>6. PICK p \in Pages : p = r[t]
    BY <2>1
  <2>7. PA!Put(t, p)
    BY <1>0, <2>1, <2>3, <2>4, <2>5, <2>6 DEF PA!Put, Failed
  <2>. QED
    BY <2>7, <1>next
<1>4. ASSUME AllocHead(t) PROVE PA!Next \/ UNCHANGED PA!vars
  <2>1. OnList' = OnList /\ owned' = owned /\ \A u \in Threads : Held(u)' = Held(u)
    BY <1>4 DEF AllocHead, Step, Held, OnList
  <2>2. CASE freelist = Null
    <3>1. OnList = {}
      BY <2>2, HeadLink DEF OnList
    <3>2. Failed' = Failed \cup {t}
      BY <1>4, <2>2 DEF AllocHead, Step, Failed
    <3>3. held' = held
      BY <2>1
    <3>4. PA!Refuse(t)
      BY <1>0, <2>1, <3>1, <3>2, <3>3 DEF PA!Refuse, Failed
    <3>. QED
      BY <3>4 DEF PA!Next
  <2>3. CASE freelist # Null
    <3>1. Failed' = Failed
      BY <1>4, <2>3 DEF AllocHead, Step, Failed
    <3>. QED
      BY <2>1, <3>1, Invisible
  <2>. QED
    BY <2>2, <2>3
<1>5. ASSUME AllocPop(t) PROVE PA!Next \/ UNCHANGED PA!vars
  <2>0. Failed' = Failed /\ owned' = owned
    BY <1>5 DEF AllocPop, Step, Failed
  <2>1. CASE r[t] # Null
    <3>1. /\ Len(stack) > 0 /\ Len(stack) \in Nat
          /\ r[t] \in Pages /\ r[t] = stack[Len(stack)]
      BY <1>5, <2>1, HeadLink DEF AllocPop, Step, CallInv
    <3>2. stack' = SubSeq(stack, 1, Len(stack) - 1) /\ stack \in Seq(Pages)
      BY <1>5, <2>1 DEF AllocPop
    <3>3. /\ Len(stack') = Len(stack) - 1 /\ stack' \in Seq(Pages)
          /\ \A i \in 1..(Len(stack) - 1) : stack'[i] = stack[i]
      BY ONLY <3>1, <3>2, Popped
    <3>4. /\ DOMAIN stack = 1..Len(stack) /\ DOMAIN stack' = 1..(Len(stack) - 1)
      BY <3>1, <3>3
    <3>5. \A i \in DOMAIN stack : stack[i] = r[t] <=> i = Len(stack)
      BY ONLY <3>1, <3>4, PlaceInv DEF PlaceInv
    <3>6. OnList' = OnList \ {r[t]} /\ r[t] \in OnList
      BY ONLY <3>1, <3>3, <3>4, <3>5 DEF OnList
    <3>7. Held(t) = {} /\ Held(t)' = {r[t]} /\ \A u \in Threads \ {t} : Held(u)' = Held(u)
      BY <1>5, <2>1 DEF AllocPop, Step, Held
    <3>8. held' = [held EXCEPT ![t] = @ \cup {r[t]}]
      BY <3>7
    <3>9. PICK p \in Pages : p = r[t]
      BY <3>1
    <3>10. PA!Take(t, p)
      BY <1>0, <2>0, <3>6, <3>8, <3>9 DEF PA!Take, Failed
    <3>. QED
      BY <3>10, <1>next
  <2>2. CASE r[t] = Null
    <3>1. OnList' = OnList /\ \A u \in Threads : Held(u)' = Held(u)
      BY <1>5, <2>2 DEF AllocPop, Step, Held, OnList
    <3>. QED
      BY <2>0, <3>1, Invisible
  <2>. QED
    BY <2>1, <2>2
<1>6. ASSUME AllocFill(t) PROVE PA!Next
  <2>1. r[t] \in Pages /\ Held(t) = {r[t]}
    BY <1>6 DEF AllocFill, Step, CallInv, Held
  <2>2. Held(t)' = {} /\ \A u \in Threads \ {t} : Held(u)' = Held(u)
    BY <1>6 DEF AllocFill, Step, Held
  <2>3. held' = [held EXCEPT ![t] = @ \ {r[t]}]
    BY <2>1, <2>2
  <2>4. Failed' = Failed /\ OnList' = OnList
    BY <1>6 DEF AllocFill, Step, Failed, OnList
  <2>5. PA!Give(t, r[t])
    BY <1>0, <1>6, <2>1, <2>3, <2>4 DEF PA!Give, Failed, AllocFill
  <2>. QED
    BY <2>1, <2>5, <1>next
<1>7. ASSUME FreePanic(t) PROVE UNCHANGED PA!vars
  <2>1. r[t] \in Strays
    BY <1>7, FreePageAccepted DEF FreePanic, Step, CallInv
  <2>2. \A u \in Threads : Held(u)' = Held(u)
    BY <1>7, <2>1 DEF FreePanic, Step, Held
  <2>3. OnList' = OnList /\ owned' = owned /\ Failed' = Failed
    BY <1>7 DEF FreePanic, Step, Failed, OnList
  <2>. QED
    BY <2>2, <2>3, Invisible
<1>8. ASSUME \/ FreeFill(t) \/ FreeNext(t) \/ CallAlloc(t) \/ AllocPanic(t) \/ Spin(t)
             \/ Acquire(t, "f_acq", "f_next") \/ Release(t, "f_rel", "idle")
             \/ Acquire(t, "a_acq", "a_head") \/ Release(t, "a_rel", "a_fill")
             \/ \E p \in Pages : Write(t, p)
             \/ \E a \in Strays : CallFreeStray(t, a)
      PROVE  UNCHANGED PA!vars
  <2>1. \A u \in Threads : Held(u)' = Held(u)
    BY <1>8 DEF FreeFill, FreeNext, CallAlloc, AllocPanic, Spin, Acquire, Release, Write,
                CallFreeStray, Step, Held, vars
  <2>2. OnList' = OnList /\ owned' = owned
    BY <1>8 DEF FreeFill, FreeNext, CallAlloc, AllocPanic, Spin, Acquire, Release, Write,
                CallFreeStray, OnList, vars
  <2>3. Failed' = Failed
    BY <1>8 DEF FreeFill, FreeNext, CallAlloc, AllocPanic, Spin, Acquire, Release, Write,
                CallFreeStray, Step, Failed, vars
  <2>. QED
    BY <2>1, <2>2, <2>3, Invisible
<1>. QED
  BY <1>1, <1>2, <1>3, <1>4, <1>5, <1>6, <1>7, <1>8 DEF ThreadStep

(* kalloc.c implements PageAlloc, for any number of threads and pages. *)
THEOREM Implementation == Spec => ImplementsPageAlloc
<1>1. Init => PA!Init
  BY DEF Init, PA!Init, PA!None, Held
<1>2. IInv /\ [Next]_vars => [PA!Next]_(PA!vars)
  <2>1. ASSUME IInv, NEW t \in Threads, ThreadStep(t) PROVE [PA!Next]_(PA!vars)
    BY <2>1, PageAllocStep
  <2>2. ASSUME UNCHANGED vars PROVE UNCHANGED PA!vars
    BY <2>2 DEF vars, PA!vars, Held
  <2>. QED
    BY <2>1, <2>2 DEF Next
<1>. QED
  BY <1>1, <1>2, Invariance, PTL DEF Spec, ImplementsPageAlloc, PA!Spec
=============================================================================
