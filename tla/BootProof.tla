----------------------------- MODULE BootProof ------------------------------
(***************************************************************************)
(* The kernel's address space is sound for every size of the linked kernel *)
(* and every number of processes that fit in memory, and the first timer   *)
(* interrupt finds its handler ready.                                      *)
(*                                                                         *)
(* RegionInv says what every region is, and that no two start at the same  *)
(* page; TableInv counts the pages alloc_page() has handed out, so that    *)
(* what is left of memory stays above the kernel (MapInv).  BootInv ties   *)
(* the steps done to pc and counts the steps the timer still leaves.       *)
(*                                                                         *)
(* At the end, kvmmap() for any arguments: KInv says that what it has      *)
(* mapped is the part of the range below `a`.                              *)
(***************************************************************************)
EXTENDS MCBoot, FiniteSetTheorems, TLAPS

Text == [va |-> KERNBASE, n |-> etext - KERNBASE, pa |-> KERNBASE, perm |-> {"R", "X"}]
Data == [va |-> etext, n |-> PHYSTOP - etext, pa |-> etext, perm |-> {"R", "W"}]
Uart == [va |-> UART0, n |-> 1, pa |-> UART0, perm |-> {"R", "W"}]

Stack(r, i) == /\ r.va = KSTACK(i) /\ r.n = 1 /\ r.perm = {"R", "W"}
               /\ r.pa \in Int /\ etext <= r.pa /\ r.pa < PHYSTOP

Mapped == {"satp", "procinit", "done"}

MapType ==
    /\ etext \in Int /\ end \in Int /\ p \in 0..NPROC
    /\ KERNBASE < etext /\ etext < end
    /\ end - KERNBASE + 3 * NPROC + 70 <= 32768
    /\ at \in {"create", "text", "data", "uart"} \cup Mapped
    /\ at \notin {"procinit", "done"} => p = 0

RegionInv ==
    /\ \A r \in regions : \/ r = Text /\ at \notin {"create", "text"}
                          \/ r = Data /\ at \notin {"create", "text", "data"}
                          \/ r = Uart /\ at \in Mapped
                          \/ \E i \in 0..(p - 1) : Stack(r, i)
    /\ \A r, s \in regions : r.va = s.va => r = s
    /\ at \notin {"create", "text"} => Text \in regions
    /\ at \notin {"create", "text", "data"} => Data \in regions
    /\ at \in Mapped => Uart \in regions

(* last-level tables in a row, and the tables for KERNBASE..PHYSTOP *)
Row(lo, b) == {<<1, v>> : v \in lo..b}
KernelTables == Row(1024, 1087) \cup {<<2, 2>>}

TableInv ==
    /\ IsFiniteSet(tables)
    /\ next = PHYSTOP - 1 - (IF at = "create" THEN 0 ELSE 1) - Cardinality(tables) - p
    /\ at \notin Mapped => tables \subseteq KernelTables
    /\ at \in Mapped => Cardinality(tables) <= 67 + 2 * p

MapInv == MapType /\ RegionInv /\ TableInv

-----------------------------------------------------------------------------
LEMMA RowCount ==
    ASSUME NEW lo \in Int, NEW b \in Int, lo <= b
    PROVE  IsFiniteSet(Row(lo, b)) /\ Cardinality(Row(lo, b)) \in Nat /\ Cardinality(Row(lo, b)) <= b - lo + 1
<1>. DEFINE f == [v \in lo..b |-> <<1, v>>]
<1>1. IsFiniteSet(lo..b) /\ Cardinality(lo..b) = b - lo + 1
  BY FS_Interval
<1>2. f \in [lo..b -> Row(lo, b)] /\ \A x \in Row(lo, b) : \E v \in lo..b : f[v] = x
  BY Zenon DEF Row
<1>3. f \in Surjection(lo..b, Row(lo, b))
  BY <1>2, Zenon DEF Surjection
<1>. HIDE DEF f
<1>4. IsFiniteSet(Row(lo, b)) /\ Cardinality(Row(lo, b)) <= Cardinality(lo..b)
  BY <1>1, <1>3, FS_Surjection
<1>5. Cardinality(Row(lo, b)) \in Nat
  BY <1>4, FS_CardinalityType
<1>. QED
  BY <1>1, <1>4, <1>5

LEMMA KernelTablesCount == IsFiniteSet(KernelTables) /\ Cardinality(KernelTables) <= 65
<1>1. IsFiniteSet(Row(1024, 1087)) /\ Cardinality(Row(1024, 1087)) \in Nat /\ Cardinality(Row(1024, 1087)) <= 64
  BY RowCount
<1>. QED
  BY <1>1, FS_AddElement DEF KernelTables

(* walk_create() allocates the tables that are missing. *)
LEMMA Grow ==
    ASSUME NEW S, IsFiniteSet(S), NEW T, IsFiniteSet(T)
    PROVE  /\ IsFiniteSet(S \cup (T \ S)) /\ Cardinality(T \ S) \in Nat /\ Cardinality(S) \in Nat
           /\ Cardinality(S \cup (T \ S)) = Cardinality(S) + Cardinality(T \ S)
           /\ Cardinality(T \ S) <= Cardinality(T)
<1>. DEFINE D == T \ S
<1>1. IsFiniteSet(D) /\ Cardinality(D) <= Cardinality(T)
  BY FS_Subset
<1>2. Cardinality(D) \in Nat /\ Cardinality(S) \in Nat
  BY <1>1, FS_CardinalityType
<1>3. Cardinality(S \cap D) = 0
  <2>1. S \cap D = {}
    OBVIOUS
  <2>. QED
    BY <2>1, FS_EmptySet, Zenon
<1>. HIDE DEF D
<1>4. IsFiniteSet(S \cup D) /\ Cardinality(S \cup D) = Cardinality(S) + Cardinality(D) - Cardinality(S \cap D)
  BY <1>1, FS_Union
<1>5. Cardinality(S \cup D) = Cardinality(S) + Cardinality(D)
  BY <1>2, <1>3, <1>4
<1>. QED
  BY <1>1, <1>2, <1>4, <1>5 DEF D

(* the tables for the direct map of memory, or for part of it *)
LEMMA KernelRange ==
    ASSUME NEW vpn \in Int, NEW n \in Int, n >= 1, KERNBASE <= vpn, vpn + n <= PHYSTOP
    PROVE  TablesFor(vpn, n) \subseteq KernelTables
<1>1. /\ vpn \div 262144 = 2 /\ (vpn + n - 1) \div 262144 = 2
      /\ vpn \div 512 >= 1024 /\ (vpn + n - 1) \div 512 <= 1087
      /\ vpn \div 512 \in Int /\ (vpn + n - 1) \div 512 \in Int
  BY DEF KERNBASE, PHYSTOP
<1>2. (vpn \div 512)..((vpn + n - 1) \div 512) \subseteq 1024..1087
  BY <1>1
<1>. QED
  BY <1>1, <1>2 DEF TablesFor, KernelTables, Row

(* the tables for one page *)
LEMMA PageTables ==
    ASSUME NEW vpn \in Int
    PROVE  IsFiniteSet(TablesFor(vpn, 1)) /\ Cardinality(TablesFor(vpn, 1)) <= 2
<1>1. vpn + 1 - 1 = vpn /\ (vpn \div 512) \in Int
  OBVIOUS
<1>2. TablesFor(vpn, 1) = {<<1, vpn \div 512>>} \cup {<<2, vpn \div 262144>>}
  BY <1>1 DEF TablesFor
<1>3. /\ IsFiniteSet({<<1, vpn \div 512>>}) /\ Cardinality({<<1, vpn \div 512>>}) = 1
  BY FS_Singleton
<1>. QED
  BY <1>2, <1>3, FS_AddElement

-----------------------------------------------------------------------------
(* One lemma for each part of MapInv, one step for each action *)

MapAction == kvminit \/ kvminithart \/ procinit

(* kvmmap() adds one region and the tables it needs. *)
LEMMA KvmmapEffect ==
    ASSUME IsFiniteSet(tables), NEW vpn \in Int, NEW n \in Int, NEW ppn, NEW perm, NEW taken \in Int,
           kvmmap(vpn, ppn, n, perm, taken), IsFiniteSet(TablesFor(vpn, n))
    PROVE  /\ regions' = regions \cup {[va |-> vpn, n |-> n, pa |-> ppn, perm |-> perm]}
           /\ tables' = tables \cup TablesFor(vpn, n) /\ IsFiniteSet(tables')
           /\ \E k \in Nat : /\ Cardinality(tables') = Cardinality(tables) + k
                            /\ next' = next - taken - k
                            /\ k <= Cardinality(TablesFor(vpn, n))
<1>. DEFINE T == TablesFor(vpn, n)
<1>1. /\ regions' = regions \cup {[va |-> vpn, n |-> n, pa |-> ppn, perm |-> perm]}
      /\ tables' = tables \cup (T \ tables) /\ next' = next - taken - Cardinality(T \ tables)
  BY DEF kvmmap
<1>2. tables' = tables \cup T
  BY <1>1
<1>. HIDE DEF T
<1>3. /\ IsFiniteSet(tables \cup (T \ tables)) /\ Cardinality(T \ tables) \in Nat
      /\ Cardinality(tables \cup (T \ tables)) = Cardinality(tables) + Cardinality(T \ tables)
      /\ Cardinality(T \ tables) <= Cardinality(T)
  BY Grow DEF T
<1>. QED
  BY <1>1, <1>2, <1>3 DEF T

(* The linker places the kernel, the loops stay in range. *)
LEMMA MapTypeStep ==
    ASSUME MapInv, MapAction
    PROVE  MapType'
  BY KernelMapAssumption DEF MapInv, MapType, Mapped, MapAction, kvminit, kvminithart, procinit, CreateRoot,
     MapText, MapData, MapUart, EnablePaging, MapStack, Finish

(* What is left of memory stays above the kernel. *)
LEMMA NextAbove ==
    ASSUME MapInv
    PROVE  /\ IsFiniteSet(tables) /\ Cardinality(tables) \in Nat /\ next \in Int
           /\ next < PHYSTOP /\ (at \in Mapped => end <= next)
<1>1. IsFiniteSet(tables) /\ Cardinality(tables) \in Nat
  BY FS_CardinalityType DEF MapInv, TableInv
<1>. QED
  BY <1>1, KernelMapAssumption DEF MapInv, MapType, TableInv, KERNBASE, PHYSTOP

(* alloc_page() has handed out the root, the tables and the stacks. *)
LEMMA TableStep ==
    ASSUME MapInv, MapAction
    PROVE  TableInv'
<1>0. /\ MapType /\ TableInv /\ IsFiniteSet(tables) /\ Cardinality(tables) \in Nat /\ next \in Int
      /\ KERNBASE \in Int /\ PHYSTOP \in Int /\ UART0 \in Int /\ NPROC \in Nat
  BY NextAbove, KernelMapAssumption DEF MapInv, KERNBASE, PHYSTOP, UART0
<1>1. CASE CreateRoot
  BY <1>0, <1>1 DEF CreateRoot, TableInv, Mapped, MapType
<1>2. ASSUME NEW vpn \in Int, NEW n \in Int, n >= 1, KERNBASE <= vpn, vpn + n <= PHYSTOP,
             NEW perm, kvmmap(vpn, vpn, n, perm, 0), at \in {"text", "data"}, at' \in {"data", "uart"}, p' = p
      PROVE  TableInv'
  <2>1. TablesFor(vpn, n) \subseteq KernelTables
    BY <1>2, KernelRange
  <2>2. IsFiniteSet(TablesFor(vpn, n))
    BY <2>1, KernelTablesCount, FS_Subset
  <2>3. /\ tables' = tables \cup TablesFor(vpn, n) /\ IsFiniteSet(tables')
        /\ \E k \in Nat : Cardinality(tables') = Cardinality(tables) + k /\ next' = next - k
    <3>1. PICK k \in Nat : Cardinality(tables') = Cardinality(tables) + k /\ next' = next - 0 - k
      BY <1>0, <1>2, <2>2, KvmmapEffect
    <3>. QED
      BY <1>0, <1>2, <2>2, <3>1, KvmmapEffect
  <2>. QED
    BY <1>0, <1>2, <2>1, <2>3 DEF TableInv, MapType, Mapped
<1>3. CASE MapText
  BY <1>0, <1>2, <1>3 DEF MapText, MapType, KERNBASE, PHYSTOP
<1>4. CASE MapData
  BY <1>0, <1>2, <1>4 DEF MapData, MapType, KERNBASE, PHYSTOP
<1>5. CASE MapUart
  <2>1. IsFiniteSet(TablesFor(UART0, 1)) /\ Cardinality(TablesFor(UART0, 1)) <= 2
    BY <1>0, PageTables
  <2>2. kvmmap(UART0, UART0, 1, {"R", "W"}, 0) /\ at = "uart" /\ at' = "satp" /\ p' = p
    BY <1>5 DEF MapUart
  <2>3. IsFiniteSet(tables')
    BY <1>0, <2>1, <2>2, KvmmapEffect
  <2>4. PICK k \in Nat : /\ Cardinality(tables') = Cardinality(tables) + k /\ next' = next - 0 - k
                        /\ k <= Cardinality(TablesFor(UART0, 1))
    BY <1>0, <2>1, <2>2, KvmmapEffect
  <2>5. Cardinality(TablesFor(UART0, 1)) \in Nat /\ Cardinality(KernelTables) \in Nat
    BY <2>1, KernelTablesCount, FS_CardinalityType
  <2>6. Cardinality(tables) <= 65
    BY <1>0, <2>2, <2>5, KernelTablesCount, FS_Subset DEF TableInv, Mapped
  <2>. QED
    BY <1>0, <2>1, <2>2, <2>3, <2>4, <2>5, <2>6 DEF TableInv, MapType, Mapped
<1>6. CASE EnablePaging
  BY <1>0, <1>6 DEF EnablePaging, TableInv, Mapped, MapType
<1>7. CASE MapStack
  <2>1. KSTACK(p) \in Int
    BY <1>0 DEF MapType, KSTACK, TRAMPOLINE, MAXVA
  <2>2. IsFiniteSet(TablesFor(KSTACK(p), 1)) /\ Cardinality(TablesFor(KSTACK(p), 1)) <= 2
    BY <2>1, PageTables
  <2>3. kvmmap(KSTACK(p), next, 1, {"R", "W"}, 1) /\ at = "procinit" /\ at' = at /\ p' = p + 1
    BY <1>7 DEF MapStack
  <2>4. IsFiniteSet(tables')
    BY <1>0, <2>1, <2>2, <2>3, KvmmapEffect
  <2>5. PICK k \in Nat : /\ Cardinality(tables') = Cardinality(tables) + k /\ next' = next - 1 - k
                        /\ k <= Cardinality(TablesFor(KSTACK(p), 1))
    BY <1>0, <2>1, <2>2, <2>3, KvmmapEffect
  <2>6. Cardinality(TablesFor(KSTACK(p), 1)) \in Nat
    BY <2>2, FS_CardinalityType
  <2>. QED
    BY <1>0, <2>2, <2>3, <2>4, <2>5, <2>6 DEF TableInv, MapType, Mapped
<1>8. CASE Finish
  BY <1>0, <1>8 DEF Finish, TableInv, Mapped, MapType
<1>. QED
  BY <1>1, <1>3, <1>4, <1>5, <1>6, <1>7, <1>8 DEF MapAction, kvminit, kvminithart, procinit

(* Every region is where it belongs, and no two start at the same page. *)
LEMMA RegionStep ==
    ASSUME MapInv, MapAction
    PROVE  RegionInv'
<1>0. /\ MapType /\ RegionInv /\ IsFiniteSet(tables) /\ next \in Int /\ next < PHYSTOP
      /\ (at \in Mapped => end <= next) /\ NPROC \in Nat
      /\ KERNBASE \in Int /\ PHYSTOP \in Int /\ UART0 \in Int
  BY NextAbove, KernelMapAssumption DEF MapInv, KERNBASE, PHYSTOP, UART0
<1>1. CASE CreateRoot
  BY <1>0, <1>1 DEF CreateRoot, RegionInv, Mapped, MapType, Text, Data, Uart, Stack
<1>2. CASE MapText
  <2>1. regions' = regions \cup {Text} /\ at = "text" /\ at' = "data" /\ UNCHANGED <<etext, end, p>>
    BY <1>2 DEF MapText, kvmmap, Text
  <2>2. regions = {} /\ Text' = Text
    BY <1>0, <2>1 DEF RegionInv, MapType, Mapped, Text
  <2>. QED
    BY <2>1, <2>2 DEF RegionInv, Mapped
<1>3. CASE MapData
  <2>1. regions' = regions \cup {Data} /\ at = "data" /\ at' = "uart" /\ UNCHANGED <<etext, end, p>>
    BY <1>3 DEF MapData, kvmmap, Data
  <2>2. regions = {Text} /\ Text' = Text /\ Data' = Data
    BY <1>0, <2>1 DEF RegionInv, MapType, Mapped, Text, Data
  <2>3. Text.va # Data.va
    BY <1>0 DEF Text, Data, MapType
  <2>. QED
    BY <2>1, <2>2, <2>3 DEF RegionInv, Mapped
<1>4. CASE MapUart
  <2>1. regions' = regions \cup {Uart} /\ at = "uart" /\ at' = "satp" /\ UNCHANGED <<etext, end, p>>
    BY <1>4 DEF MapUart, kvmmap, Uart
  <2>2. regions = {Text, Data}
    <3>1. \A r \in regions : r = Text \/ r = Data
      BY <1>0, <2>1 DEF RegionInv, MapType, Mapped
    <3>. QED
      BY <1>0, <2>1, <3>1 DEF RegionInv, Mapped
  <2>3. Text' = Text /\ Data' = Data /\ Uart' = Uart
    BY <2>1 DEF Text, Data, Uart
  <2>4. Text.va # Data.va /\ Text.va # Uart.va /\ Data.va # Uart.va
    BY <1>0 DEF Text, Data, Uart, MapType, KERNBASE, UART0
  <2>. QED
    BY <2>1, <2>2, <2>3, <2>4 DEF RegionInv, Mapped
<1>5. CASE EnablePaging \/ Finish
  <2>1. UNCHANGED <<regions, etext, end, p>> /\ at \in Mapped /\ at' \in Mapped
    BY <1>5 DEF EnablePaging, Finish, Mapped
  <2>2. Text' = Text /\ Data' = Data /\ Uart' = Uart /\ \A r, i : Stack(r, i)' <=> Stack(r, i)
    BY <2>1 DEF Text, Data, Uart, Stack
  <2>. QED
    BY <1>0, <2>1, <2>2 DEF RegionInv, Mapped
<1>6. CASE MapStack
  <2>. DEFINE new == [va |-> KSTACK(p), n |-> 1, pa |-> next, perm |-> {"R", "W"}]
  <2>1. /\ regions' = regions \cup {new} /\ at = "procinit" /\ at' = at /\ p' = p + 1 /\ p < NPROC
        /\ UNCHANGED <<etext, end>>
    BY <1>6 DEF MapStack, kvmmap
  <2>2. Text' = Text /\ Data' = Data /\ Uart' = Uart /\ \A r, i : Stack(r, i)' <=> Stack(r, i)
    BY <2>1 DEF Text, Data, Uart, Stack
  <2>3. Stack(new, p)
    BY <1>0, <2>1 DEF Stack, MapType, Mapped
  <2>4. \A r \in regions : r.va # new.va
    <3>1. Text.va # new.va /\ Data.va # new.va /\ Uart.va # new.va
      BY <1>0, <2>1 DEF Text, Data, Uart, MapType, KSTACK, TRAMPOLINE, MAXVA, KERNBASE, UART0
    <3>2. \A r : \A i \in 0..(p - 1) : Stack(r, i) => r.va # new.va
      BY <1>0 DEF Stack, MapType, KSTACK, TRAMPOLINE, MAXVA
    <3>. QED
      BY <1>0, <3>1, <3>2 DEF RegionInv
  <2>5. p \in 0..(p' - 1) /\ \A i \in 0..(p - 1) : i \in 0..(p' - 1)
    BY <1>0, <2>1 DEF MapType
  <2>. HIDE DEF new
  <2>. QED
    BY <1>0, <2>1, <2>2, <2>3, <2>4, <2>5 DEF RegionInv, Mapped
<1>. QED
  BY <1>1, <1>2, <1>3, <1>4, <1>5, <1>6 DEF MapAction, kvminit, kvminithart, procinit

-----------------------------------------------------------------------------
LEMMA MapInvInit == MapInit => MapInv
<1>. SUFFICES ASSUME MapInit PROVE MapInv
  OBVIOUS
<1>1. PICK t \in TextSizes, d \in DataSizes : etext = KERNBASE + t /\ end = KERNBASE + t + d
  BY DEF MapInit
<1>2. /\ t \in Nat /\ d \in Nat /\ t # 0 /\ d # 0 /\ t + d + 3 * NPROC + 70 <= 32768 /\ NPROC \in Nat
  BY KernelMapAssumption
<1>3. MapType
  BY <1>1, <1>2 DEF MapInit, MapType, KERNBASE, Mapped
<1>4. RegionInv
  BY DEF MapInit, RegionInv, Mapped
<1>5. TableInv
  BY FS_EmptySet DEF MapInit, TableInv, Mapped, PHYSTOP, KERNBASE
<1>. QED
  BY <1>3, <1>4, <1>5 DEF MapInv

LEMMA MapInvNext == MapInv /\ [Next]_vars => MapInv'
<1>. SUFFICES ASSUME MapInv, [Next]_vars PROVE MapInv'
  OBVIOUS
<1>1. ASSUME UNCHANGED mapVars PROVE MapInv'
  BY <1>1 DEF mapVars, MapInv, MapType, RegionInv, TableInv, Text, Data, Uart, Stack
<1>2. ASSUME MapAction PROVE MapInv'
  BY <1>2, MapTypeStep, RegionStep, TableStep DEF MapInv
<1>3. ASSUME MapStep PROVE MapAction \/ UNCHANGED mapVars
  BY <1>3 DEF MapStep, MapAction
<1>. QED
  BY <1>1, <1>2, <1>3 DEF Next, ClearWord, Step, Expire, Tick, Running, vars

(* What kvminit() and procinit() have mapped so far, step by step. *)
THEOREM MapInvariance == Spec => []MapInv
  BY MapInvInit, MapInvNext, PTL DEF Spec, Init

(* where a region lies, in numbers *)
Place(r) ==
    \/ r.va = 524288 /\ r.n = etext - 524288 /\ r.pa = 524288 /\ "W" \notin r.perm
    \/ r.va = etext /\ r.n = 557056 - etext /\ r.pa = etext /\ "X" \notin r.perm
    \/ r.va = 65536 /\ r.n = 1 /\ r.pa = 65536 /\ "X" \notin r.perm
    \/ \E i \in 0..(p - 1) : /\ r.va = 67108863 - (i + 1) * 2 /\ r.n = 1 /\ "X" \notin r.perm
                             /\ r.pa \in Int /\ etext <= r.pa /\ r.pa < 557056

LEMMA Places ==
    ASSUME MapInv
    PROVE  \A r \in regions : Place(r)
<1>. SUFFICES ASSUME NEW r \in regions PROVE Place(r)
  OBVIOUS
<1>1. r \in {Text, Data, Uart} \/ \E i \in 0..(p - 1) : Stack(r, i)
  BY DEF MapInv, RegionInv
<1>2. CASE r = Text
  BY <1>2 DEF Text, Place, KERNBASE
<1>3. CASE r = Data
  BY <1>3 DEF Data, Place, PHYSTOP, KERNBASE
<1>4. CASE r = Uart
  BY <1>4 DEF Uart, Place, UART0
<1>5. CASE \E i \in 0..(p - 1) : Stack(r, i)
  BY <1>5 DEF Stack, Place, PHYSTOP, KERNBASE, KSTACK, TRAMPOLINE, MAXVA
<1>. QED
  BY <1>1, <1>2, <1>3, <1>4, <1>5

(* kvminit() and procinit() never map a page twice ("remap"), leave the    *)
(* pages around every kernel stack unmapped, and give no page out both     *)
(* writable and executable.                                                *)
THEOREM Sound == Spec => []MapSound
<1>1. ASSUME MapInv PROVE MapSound
  <2>0. /\ etext \in Int /\ p \in 0..NPROC /\ NPROC \in Nat /\ 524288 < etext
        /\ etext + 3 * NPROC < 557056
    BY <1>1, KernelMapAssumption DEF MapInv, MapType, KERNBASE
  <2>1. \A r \in regions : Place(r)
    BY <1>1, Places
  <2>2. ASSUME NEW r \in regions, NEW s \in regions, r # s PROVE ~Meets(r.va, r.n, s.va, s.n)
    <3>1. r.va # s.va
      BY <1>1, <2>2 DEF MapInv, RegionInv
    <3>2. Place(r) /\ Place(s)
      BY <2>1
    <3>. QED
      BY <2>0, <3>1, <3>2 DEF Place, Meets
  <2>3. ASSUME NEW i \in 0..(p - 1), NEW r \in regions,
               NEW v \in {KSTACK(i) - 1, KSTACK(i) + 1}
        PROVE  ~Meets(v, 1, r.va, r.n)
    <3>1. Place(r)
      BY <2>1
    <3>2. \E j \in 0..(p - 1) : v \in {67108862 - (j + 1) * 2, 67108864 - (j + 1) * 2}
      BY <2>0, <2>3 DEF KSTACK, TRAMPOLINE, MAXVA
    <3>. QED
      BY <2>0, <3>1, <3>2 DEF Place, Meets
  <2>4. ASSUME NEW r \in regions, NEW s \in regions, "W" \in r.perm, "X" \in s.perm
        PROVE  ~Meets(r.pa, r.n, s.pa, s.n)
    <3>1. Place(r) /\ Place(s)
      BY <2>1
    <3>. QED
      BY <2>0, <2>4, <3>1 DEF Place, Meets
  <2>. QED
    BY <2>2, <2>3, <2>4 DEF MapSound
<1>. QED
  BY MapInvariance, <1>1, PTL

(* The kernel runs on at the same addresses when kvminithart() turns       *)
(* paging on, and the allocator never reaches down into the kernel.        *)
THEOREM Survives == Spec => []SurvivesPaging
<1>1. ASSUME MapInv PROVE SurvivesPaging
  <2>. SUFFICES ASSUME at \in {"procinit", "done"}
                PROVE  /\ \A v \in {KERNBASE, etext - 1, etext, end - 1, end, next, PHYSTOP - 1, UART0} :
                            \E r \in regions : v \in Pages(r) /\ r.pa = r.va
                       /\ end <= next
    BY DEF SurvivesPaging
  <2>1. Text \in regions /\ Data \in regions /\ Uart \in regions
    BY <1>1 DEF MapInv, RegionInv, Mapped
  <2>2. /\ Pages(Text) = KERNBASE..(etext - 1) /\ Text.pa = Text.va
        /\ Pages(Data) = etext..(PHYSTOP - 1) /\ Data.pa = Data.va
        /\ Pages(Uart) = UART0..UART0 /\ Uart.pa = Uart.va
    BY <1>1 DEF Pages, Text, Data, Uart, MapInv, MapType, KERNBASE, PHYSTOP, UART0
  <2>3. /\ etext \in Int /\ end \in Int /\ next \in Int /\ KERNBASE < etext /\ etext < end
        /\ end <= next /\ next < PHYSTOP
    BY <1>1, NextAbove DEF MapInv, MapType, Mapped
  <2>4. /\ {KERNBASE, etext - 1} \subseteq Pages(Text) /\ UART0 \in Pages(Uart)
        /\ {etext, end - 1, end, next, PHYSTOP - 1} \subseteq Pages(Data)
    BY <2>2, <2>3 DEF KERNBASE, PHYSTOP, UART0
  <2>. QED
    BY <2>1, <2>2, <2>3, <2>4
<1>. QED
  BY MapInvariance, <1>1, PTL

-----------------------------------------------------------------------------
(* The first timer interrupt *)

Done(k) == {Program[i] : i \in 1..(k - 1)}

BootInv ==
    /\ pc \in 0..29 /\ done = Done(pc) /\ a0 \in Nat /\ left \in Nat /\ pending \in BOOLEAN
    /\ pc <= 13 => ~pending
    /\ pc \in 14..16 => ~pending /\ left >= 17 - pc
    /\ Words \subseteq zero

(* the places of the steps that matter *)
LEMMA ProgramSteps ==
    /\ Len(Program) = 28
    /\ Program[13] = "stimecmp" /\ Program[14] = "mret"
    /\ Program[5] = "mideleg" /\ Program[6] = "pmp" /\ Program[9] = "menvcfg.STCE"
    /\ Program[11] = "tickslock" /\ Program[12] = "mcounteren"
    /\ Program[15] = "uartinit" /\ Program[16] = "trapinithart"
    /\ Program[21] = "kvminit" /\ Program[22] = "kvminithart"
    /\ \A i \in 1..12 : Program[i] \notin {"stimecmp", "rearm", "mret"}
    /\ \A i \in 15..28 : Program[i] \notin {"stimecmp", "mret"}
    /\ \A i \in 1..21 : Program[i] # "kvminithart"
    /\ \A i \in 14..16 : Program[i] # "rearm"
<1>1. Len(start) = 14 /\ Len(main) = 14
  BY DEF start, main
<1>. QED
  BY <1>1 DEF Program, start, main

LEMMA DoneSteps ==
    /\ Done(0) = {} /\ Done(1) = {}
    /\ \A k \in 1..28 : Done(k + 1) = Done(k) \cup {Program[k]}
<1>1. ASSUME NEW k \in 1..28 PROVE Done(k + 1) = Done(k) \cup {Program[k]}
  <2>1. 1..((k + 1) - 1) = 1..(k - 1) \cup {k}
    OBVIOUS
  <2>. QED
    BY <2>1 DEF Done
<1>2. 1..(0 - 1) = {} /\ 1..(1 - 1) = {}
  OBVIOUS
<1>. QED
  BY <1>1, <1>2 DEF Done

(* A step taken with pc > 0 makes progress or not, and counts as one. *)
LEMMA BootInvStep ==
    ASSUME Slack >= 3, BootInv, Step
    PROVE  BootInv'
<1>0. Slack \in Nat
  BY BootAssumption
<1>1. /\ pc \in 1..28 /\ left \in Nat /\ pending \in BOOLEAN /\ done = Done(pc)
      /\ a0' = a0 /\ zero' = zero
      /\ left' = IF Sets(Program[pc]) THEN Slack ELSE IF left > 0 THEN left - 1 ELSE 0
  BY ProgramSteps DEF BootInv, Step, Finished
<1>2. (pending' <=> pending /\ ~Sets(Program[pc])) /\ pending' \in BOOLEAN
  BY Zenon DEF Step
<1>3. \/ pc' = pc + 1 /\ done' = done \cup {Program[pc]}
      \/ pc' = pc /\ done' = done /\ pc \notin 13..16
  <2>1. ~Returns => Program[pc] \in {"kvminit", "procinit"}
    BY DEF Returns
  <2>2. \A i \in 13..16 : Program[i] \notin {"kvminit", "procinit"}
    BY ProgramSteps
  <2>. QED
    BY <2>1, <2>2, <1>1 DEF Step
<1>4. pc' \in 0..29 /\ done' = Done(pc')
  <2>1. CASE pc' = pc + 1 /\ done' = done \cup {Program[pc]}
    <3>1. Done(pc + 1) = Done(pc) \cup {Program[pc]}
      BY <1>1, DoneSteps
    <3>. QED
      BY <1>1, <2>1, <3>1
  <2>2. CASE pc' = pc /\ done' = done
    BY <1>1, <2>2
  <2>. QED
    BY <1>3, <2>1, <2>2
<1>5. left' \in Nat
  BY <1>0, <1>1
<1>6. pc' <= 13 => ~pending'
  BY <1>1, <1>3, <1>2 DEF BootInv
<1>7. pc' \in 14..16 => ~pending' /\ left' >= 17 - pc'
  <2>1. CASE pc = 13
    BY <2>1, <1>0, <1>1, <1>3, <1>2, ProgramSteps DEF Sets
  <2>2. CASE pc \in 14..16
    <3>1. ~Sets(Program[pc]) /\ ~pending /\ left >= 17 - pc
      BY <2>2, ProgramSteps DEF Sets, BootInv
    <3>2. pc' = pc + 1
      BY <2>2, <1>3
    <3>3. left' = left - 1 /\ ~pending'
      BY <2>2, <3>1, <1>1, <1>2
    <3>. QED
      BY <2>2, <3>1, <3>2, <3>3, <1>1
  <2>. QED
    BY <2>1, <2>2, <1>1, <1>3
<1>. QED
  BY <1>1, <1>4, <1>5, <1>6, <1>7, <1>2 DEF BootInv

(* Whenever the timer interrupt can be taken, kernelvec is installed and   *)
(* all it uses is initialised: the steps between start()'s stimecmp and    *)
(* trapinithart() are fewer than the timer leaves, and what entry.S does   *)
(* not clear of .bss the loader has.                                       *)
THEOREM Ready ==
    ASSUME LoaderZeroes, Slack >= 3
    PROVE  Spec => []HandlerReady
<1>1. Init => BootInv
  <2>. SUFFICES ASSUME Init PROVE BootInv
    OBVIOUS
  <2>1. zero = Words
    BY Zenon DEF Init
  <2>2. done = Done(pc)
    BY DoneSteps DEF Init
  <2>3. ~pending /\ pending \in BOOLEAN
    BY Zenon DEF Init
  <2>4. pc = 0 /\ a0 = 0 /\ left = 0
    BY DEF Init
  <2>. QED
    BY <2>1, <2>2, <2>3, <2>4 DEF BootInv
<1>2. BootInv /\ [Next]_vars => BootInv'
  <2>. SUFFICES ASSUME BootInv, [Next]_vars PROVE BootInv'
    OBVIOUS
  <2>1. CASE ClearWord
    BY <2>1, DoneSteps DEF ClearWord, BootInv
  <2>2. CASE Step
    BY <2>2, BootInvStep
  <2>3. CASE Expire
    <3>1. "stimecmp" \in Done(pc) /\ left = 0
      BY <2>3 DEF Expire, Armed, BootInv
    <3>2. pc \in 17..29
      BY <3>1, ProgramSteps DEF Done, BootInv
    <3>. QED
      BY <2>3, <3>2 DEF Expire, BootInv
  <2>4. CASE Tick
    <3>1. left' \in Nat /\ pending' = FALSE /\ UNCHANGED <<pc, done, a0, zero>> /\ pending
      BY <2>4, BootAssumption DEF Tick, Deliverable
    <3>. QED
      BY <3>1 DEF BootInv
  <2>5. CASE Running \/ UNCHANGED vars
    BY <2>5 DEF Running, vars, bootVars, BootInv
  <2>. QED
    BY <2>1, <2>2, <2>3, <2>4, <2>5 DEF Next
<1>3. BootInv => HandlerReady
  <2>. SUFFICES ASSUME BootInv, Deliverable PROVE HandlerReady
    BY DEF HandlerReady
  <2>1. pc \in 17..29 /\ done = Done(pc)
    <3>1. pending /\ "mret" \in Done(pc)
      BY DEF BootInv, Deliverable, Supervisor
    <3>. QED
      BY <3>1, ProgramSteps DEF BootInv
  <2>2. \A i \in 1..16 : Program[i] \in done
    BY <2>1 DEF Done
  <2>3. "kvminithart" \in done => pc > 21
    BY <2>1, ProgramSteps DEF Done
  <2>4. pc > 21 => Program[21] \in done
    BY <2>1 DEF Done
  <2>5. "kvminithart" \in done => "kvminit" \in done
    BY <2>1, <2>3, <2>4, ProgramSteps
  <2>6. {"trapinithart", "mideleg", "pmp", "uartinit", "tickslock", "menvcfg.STCE", "mcounteren"}
          \subseteq done
    BY <2>2, ProgramSteps
  <2>. QED
    BY <2>5, <2>6 DEF HandlerReady, Paging, BootInv
<1>. QED
  BY <1>1, <1>2, <1>3, PTL DEF Spec

-----------------------------------------------------------------------------
(* Quotient and remainder, as C divides unsigned numbers.                  *)
LEMMA Division ==
    ASSUME NEW g \in Nat \ {0}, NEW z \in Int
    PROVE  z = g * (z \div g) + (z % g) /\ z \div g \in Int /\ z % g \in 0..(g - 1)
<1>1. z % g \in 0..(g - 1)
  OBVIOUS
<1>. QED
  BY <1>1

(* They are unique.                                                        *)
LEMMA Remainder ==
    ASSUME NEW g \in Nat \ {0}, NEW z \in Int, NEW k \in Int, NEW r \in 0..(g - 1), z = g * k + r
    PROVE  z % g = r
  OBVIOUS

(* PGROUNDDOWN gives a multiple of the page size.                          *)
LEMMA RoundAligned ==
    ASSUME NEW x \in Int, NEW g \in Nat \ {0}
    PROVE  (x - (x % g)) % g = 0
<1>1. x - (x % g) = g * (x \div g) + 0
  BY Division
<1>2. x - (x % g) \in Int /\ x \div g \in Int /\ 0 \in 0..(g - 1)
  BY Division
<1>. QED
  BY <1>1, <1>2, Remainder

(* Sums and differences of aligned addresses are aligned.                  *)
LEMMA SumAligned ==
    ASSUME NEW x \in Int, NEW y \in Int, NEW g \in Nat \ {0}, x % g = 0, y % g = 0
    PROVE  (x+y) % g = 0
<1>. DEFINE i == x \div g
            j == y \div g
<1>1. x = g * i /\ y = g * j /\ i \in Int /\ j \in Int
  BY Division
<1>. HIDE DEF i, j
<1>2. x + y = g * (i + j) + 0
  BY <1>1
<1>3. i + j \in Int /\ x + y \in Int /\ 0 \in 0..(g - 1)
  BY <1>1
<1>. QED
  BY <1>2, <1>3, Remainder

LEMMA DifferenceAligned ==
    ASSUME NEW x \in Int, NEW y \in Int, NEW g \in Nat \ {0}, x % g = 0, y % g = 0
    PROVE  (x - y) % g = 0
<1>. DEFINE i == x \div g
            j == y \div g
<1>1. x = g * i /\ y = g * j /\ i \in Int /\ j \in Int
  BY Division
<1>. HIDE DEF i, j
<1>2. x - y = g * (i - j) + 0
  BY <1>1
<1>3. i - j \in Int /\ x - y \in Int /\ 0 \in 0..(g - 1)
  BY <1>1
<1>. QED
  BY <1>2, <1>3, Remainder

(* Two aligned addresses are a page apart at least.                        *)
LEMMA NextAligned ==
    ASSUME NEW x \in Int, NEW y \in Int, NEW g \in Nat \ {0}, x % g = 0, y % g = 0, x < y
    PROVE  x + g <= y
<1>. DEFINE i == x \div g
            j == y \div g
<1>1. x = g * i /\ y = g * j /\ i \in Int /\ j \in Int
  BY Division
<1>. HIDE DEF i, j
<1>2. i < j
  <2>. SUFFICES ASSUME j <= i PROVE FALSE
    BY <1>1
  <2>. QED
    BY <1>1
<1>3. g * (i + 1) <= g * j
  BY <1>1, <1>2
<1>. QED
  BY <1>1, <1>3

(* Wrapping around before an addition does not matter.                     *)
LEMMA AddWrapped ==
    ASSUME NEW x \in Int, NEW y \in Int, NEW g \in Nat \ {0}
    PROVE  ((x % g) + y) % g = (x + y) % g
<1>. DEFINE i == x \div g
            s == (x % g) + y
            j == s \div g
            r == s % g
<1>1. x = g * i + (x % g) /\ i \in Int /\ x % g \in Int
  BY Division
<1>2. s \in Int
  BY <1>1
<1>3. s = g * j + r /\ j \in Int /\ r \in 0..(g - 1)
  BY <1>2, Division
<1>. HIDE DEF i, j, r
<1>4. x + y = g * (i + j) + r
  BY <1>1, <1>3
<1>5. i + j \in Int /\ x + y \in Int
  BY <1>1, <1>3
<1>6. (x + y) % g = r
  BY <1>3, <1>4, <1>5, Remainder
<1>. QED
  BY <1>6 DEF r

(* An aligned address stays aligned when it wraps around.                  *)
LEMMA WrapAligned ==
    ASSUME NEW x \in Int, NEW m \in Nat \ {0}, NEW g \in Nat \ {0}, x % g = 0, m % g = 0
    PROVE  (x % m) % g = 0
<1>. DEFINE i == x \div g
            j == m \div g
            k == x \div m
            r == x % m
<1>1. x = g * i /\ m = g * j /\ i \in Int /\ j \in Int
  BY Division
<1>2. x = m * k + r /\ k \in Int /\ r \in Int
  BY Division
<1>. HIDE DEF i, j, k, r
<1>3. r = g * (i - j * k) + 0
  BY <1>1, <1>2
<1>4. i - j * k \in Int /\ 0 \in 0..(g - 1)
  BY <1>1, <1>2
<1>5. r % g = 0
  BY <1>2, <1>3, <1>4, Remainder
<1>. QED
  BY <1>5 DEF r

(* the pages of the range below m                                          *)
Below(m) == {q \in K!Addresses : q % PGSIZE = 0 /\ q + PGSIZE > va /\ q < m}

(* the entries that map pages S at their distance from pa                  *)
Moved(S) == {<<q, K!Wrap(pa0 + (q - K!PGROUNDDOWN(va)))>> : q \in S}

(* the pages the range touches                                             *)
Touched == {q \in K!Addresses : /\ q % PGSIZE = 0 /\ sz > 0
                                /\ q + PGSIZE > va /\ q < va + sz}

KType == /\ va \in K!Addresses /\ sz \in K!Addresses /\ pa0 \in K!Addresses
         /\ kpc \in {"start", "loop", "done", "panic"}

(* in the loop: `a` and `last` are pages of the range, and what lies below *)
(* `a` is mapped                                                           *)
KLoop ==
    kpc = "loop" =>
        /\ sz > 0
        /\ a \in K!Addresses /\ a % PGSIZE = 0 /\ a + PGSIZE > va /\ a <= last
        /\ last \in K!Addresses /\ last % PGSIZE = 0 /\ last < va + sz /\ va + sz <= last + PGSIZE
        /\ pa = K!Wrap(pa0 + (a - K!PGROUNDDOWN(va)))
        /\ table = Moved(Below(a))

KEnd ==
    /\ kpc = "start" => table = {}
    /\ kpc = "done" => table = Moved(Touched)
    /\ kpc # "panic"

KInv == KType /\ (K!Proper => KLoop /\ KEnd)

(* The assumptions on the sizes, and what an address is.                   *)
LEMMA Sizes ==
    /\ U64 \in Nat \ {0} /\ SV39 \in Nat \ {0} /\ SV39 <= U64 /\ PGSIZE \in Nat \ {0}
    /\ U64 % PGSIZE = 0 /\ SV39 % PGSIZE = 0 /\ PAs \subseteq K!Addresses
    /\ \A z \in K!Addresses : z \in Int /\ 0 <= z /\ z < U64
    /\ \A z \in Int : 0 <= z /\ z < U64 => z \in K!Addresses
  BY MCBootAssumption DEF K!KvmmapConstants, K!Addresses

(* PGROUNDDOWN moves down by less than a page.                             *)
LEMMA RoundDown ==
    ASSUME NEW z \in Int, 0 <= z
    PROVE  /\ K!PGROUNDDOWN(z) \in Int /\ 0 <= K!PGROUNDDOWN(z) /\ K!PGROUNDDOWN(z) <= z
           /\ z < K!PGROUNDDOWN(z) + PGSIZE /\ K!PGROUNDDOWN(z) % PGSIZE = 0
<1>. DEFINE r == z % PGSIZE
            d == z \div PGSIZE
<1>1. z = PGSIZE * d + r /\ d \in Int /\ r \in 0..(PGSIZE - 1)
  BY Sizes, Division
<1>2. (z - (z % PGSIZE)) % PGSIZE = 0
  BY Sizes, RoundAligned
<1>. HIDE DEF d
<1>3. d >= 0
  <2>. SUFFICES ASSUME d < 0 PROVE FALSE
    BY <1>1
  <2>1. PGSIZE * d <= PGSIZE * (-1)
    BY <1>1, Sizes
  <2>. QED
    BY <1>1, <2>1, Sizes
<1>4. PGSIZE * d >= 0
  BY <1>1, <1>3, Sizes
<1>. QED
  BY <1>1, <1>2, <1>4, Sizes DEF K!PGROUNDDOWN

(* Before the call nothing is mapped.                                      *)
LEMMA KInvInit ==
    ASSUME K!Init \/ KvmmapIdle PROVE KInv
<1>1. KType
  BY Sizes DEF K!Init, KvmmapIdle, KType
<1>2. kpc # "loop" /\ table = {} /\ (kpc = "start" \/ (kpc = "done" /\ sz = 0))
  BY DEF K!Init, KvmmapIdle
<1>3. sz = 0 => Touched = {}
  BY DEF Touched
<1>4. sz = 0 => Moved(Touched) = {}
  BY <1>3 DEF Moved
<1>. QED
  BY <1>1, <1>2, <1>4 DEF KInv, KLoop, KEnd

(* Neither `last` nor `a` overflows for proper arguments, and the first    *)
(* page is the one va lies in.                                             *)
LEMMA KBegin ==
    ASSUME KInv, K!Begin PROVE KInv'
<1>1. KType'
  BY DEF KInv, KType, K!Begin, K!args
<1>. SUFFICES ASSUME K!Proper PROVE KLoop' /\ KEnd'
  BY <1>1 DEF KInv, K!Begin, K!args, K!Proper
<1>. DEFINE b == K!PGROUNDDOWN(va)
            e == va + sz - 1
            l == K!PGROUNDDOWN(e)
<1>2. /\ va \in Int /\ sz \in Int /\ pa0 \in Int /\ 0 <= va /\ 0 <= sz /\ 0 <= pa0 /\ pa0 < U64
      /\ sz # 0 /\ va + sz <= U64 /\ va < U64
  BY Sizes DEF KInv, KType, K!Begin, K!Proper
<1>3. e \in Int /\ 0 <= e /\ e < U64
  BY <1>2, Sizes
<1>4. K!Wrap(va + sz - 1) = e
  BY <1>3, Sizes DEF K!Wrap
<1>5. a' = b /\ last' = l /\ pa' = pa0 /\ kpc' = "loop" /\ table' = table /\ UNCHANGED <<va, sz, pa0>>
  BY <1>4 DEF K!Begin, K!args, K!LastPage
<1>6. b \in Int /\ 0 <= b /\ b <= va /\ va < b + PGSIZE /\ b % PGSIZE = 0
  BY <1>2, RoundDown
<1>7. l \in Int /\ 0 <= l /\ l <= e /\ e < l + PGSIZE /\ l % PGSIZE = 0
  BY <1>3, RoundDown
<1>. HIDE DEF b, l
<1>8. b <= l
  <2>. SUFFICES ASSUME l < b PROVE FALSE
    BY <1>6, <1>7
  <2>1. l + PGSIZE <= b
    BY <1>6, <1>7, Sizes, NextAligned
  <2>. QED
    BY <2>1, <1>2, <1>6, <1>7, Sizes
<1>9. b \in K!Addresses /\ l \in K!Addresses
  BY <1>2, <1>3, <1>6, <1>7, Sizes
<1>10. K!Wrap(pa0 + (b - K!PGROUNDDOWN(va))) = pa0
  <2>1. pa0 + (b - K!PGROUNDDOWN(va)) = pa0
    BY <1>2, <1>6 DEF b
  <2>2. pa0 % U64 = pa0
    BY <1>2, Sizes
  <2>. QED
    BY <2>1, <2>2 DEF K!Wrap
<1>11. Below(b) = {}
  <2>. SUFFICES ASSUME NEW q \in K!Addresses, q % PGSIZE = 0, q + PGSIZE > va, q < b PROVE FALSE
    BY DEF Below
  <2>1. q + PGSIZE <= b
    BY <1>6, Sizes, NextAligned
  <2>. QED
    BY <2>1, <1>2, <1>6, Sizes
<1>12. Moved(Below(b)) = {}
  BY <1>11 DEF Moved
<1>13. table = {}
  BY DEF KInv, KEnd, K!Begin
<1>14. Moved(Below(a))' = {}
  BY <1>5, <1>12 DEF Moved, Below
<1>. QED
  BY <1>2, <1>5, <1>6, <1>7, <1>8, <1>9, <1>10, <1>13, <1>14, Sizes DEF KLoop, KEnd

(* For sz = 0, kvmmap() maps nothing, and no page is touched.              *)
LEMMA KNothing ==
    ASSUME KInv, K!Nothing PROVE KInv'
<1>1. KType'
  BY DEF KInv, KType, K!Nothing, K!args
<1>2. /\ kpc = "start" /\ sz = 0 /\ kpc' = "done" /\ table' = table
      /\ UNCHANGED <<va, sz, pa0>>
  BY DEF K!Nothing, K!args
<1>3. Touched' = {}
  BY <1>2 DEF Touched
<1>4. Moved(Touched)' = {}
  BY <1>3 DEF Moved
<1>5. K!Proper' => K!Proper
  BY <1>2 DEF K!Proper
<1>. QED
  BY <1>1, <1>2, <1>4, <1>5 DEF KInv, KLoop, KEnd

(* map_page() has no reason to refuse: pa is aligned, and `a` has an entry *)
(* of its own below SV39 that no earlier round has used.                   *)
LEMMA Willing ==
    ASSUME KInv, K!Proper, kpc = "loop"
    PROVE  ~K!Refuses /\ K!EntryOf(a) = a
<1>. DEFINE b == K!PGROUNDDOWN(va)
<1>1. /\ a \in Int /\ 0 <= a /\ a % PGSIZE = 0 /\ a < va + sz /\ va \in Int /\ sz \in Int
      /\ 0 <= va /\ pa0 \in Int /\ pa0 % PGSIZE = 0 /\ va + sz <= SV39
      /\ last \in Int /\ pa = K!Wrap(pa0 + (a - b)) /\ table = Moved(Below(a))
  BY Sizes DEF KInv, KType, KLoop, K!Proper
<1>2. a % SV39 = a
  BY <1>1, Sizes
<1>3. K!EntryOf(a) = a
  BY <1>1, <1>2 DEF K!EntryOf, K!PGROUNDDOWN
<1>4. b \in Int /\ b % PGSIZE = 0
  BY <1>1, RoundDown
<1>. HIDE DEF b
<1>5. (a - b) % PGSIZE = 0
  BY <1>1, <1>4, Sizes, DifferenceAligned
<1>6. (pa0 + (a - b)) % PGSIZE = 0
  BY <1>1, <1>4, <1>5, Sizes, SumAligned
<1>7. pa % PGSIZE = 0
  <2>. DEFINE d == pa0 + (a - b)
  <2>1. d \in Int /\ d % PGSIZE = 0
    BY <1>1, <1>4, <1>6
  <2>. HIDE DEF d
  <2>2. (d % U64) % PGSIZE = 0
    BY <2>1, Sizes, WrapAligned
  <2>. QED
    BY <1>1, <2>2 DEF K!Wrap, d
<1>8. \A e \in table : e[1] # a
  BY <1>1, Sizes DEF Moved, Below
<1>. QED
  BY <1>3, <1>7, <1>8 DEF K!Refuses

(* A round of the loop maps the page at `a`; `a` meets `last` on the page  *)
(* that holds the last byte.                                               *)
LEMMA KMap ==
    ASSUME KInv, K!MapPage PROVE KInv'
<1>0. kpc = "loop" /\ UNCHANGED <<va, sz, pa0, last>> /\ kpc' \in {"loop", "done"}
  BY DEF K!MapPage, K!Advance, K!args
<1>1. KType'
  BY <1>0 DEF KInv, KType
<1>. SUFFICES ASSUME K!Proper PROVE KLoop' /\ KEnd'
  BY <1>0, <1>1 DEF KInv, K!Proper
<1>. DEFINE b == K!PGROUNDDOWN(va)
<1>2. /\ a \in Int /\ 0 <= a /\ a % PGSIZE = 0 /\ a + PGSIZE > va /\ a <= last
      /\ last \in Int /\ last % PGSIZE = 0 /\ last < va + sz /\ va + sz <= last + PGSIZE
      /\ va \in Int /\ sz \in Int /\ sz > 0 /\ 0 <= va /\ pa0 \in Int /\ 0 <= pa0 /\ va + sz <= SV39
      /\ last < U64 /\ last \in K!Addresses /\ a \in K!Addresses
  BY <1>0, Sizes DEF KInv, KType, KLoop, K!Proper
<1>3. b \in Int
  BY <1>2, RoundDown
<1>4. pa = K!Wrap(pa0 + (a - b)) /\ table = Moved(Below(a)) /\ table' = table \cup {<<a, pa>>}
  BY <1>0, Willing DEF KInv, KLoop, K!MapPage
<1>5. table' = Moved(Below(a) \cup {a})
  BY <1>4 DEF Moved
<1>6. CASE a = last
  <2>1. kpc' = "done" /\ UNCHANGED <<a, pa>>
    BY <1>6 DEF K!MapPage, K!Advance
  <2>2. Below(a) \cup {a} = Touched
    <3>1. ASSUME NEW q \in K!Addresses, q % PGSIZE = 0, q < va + sz PROVE q <= a
      <4>. SUFFICES ASSUME a < q PROVE FALSE
        BY <1>2, Sizes
      <4>1. a + PGSIZE <= q
        BY <1>2, <3>1, Sizes, NextAligned
      <4>. QED
        BY <4>1, <3>1, <1>2, <1>6, Sizes
    <3>2. ASSUME NEW q \in Touched PROVE q \in Below(a) \cup {a}
      <4>1. q \in K!Addresses /\ q % PGSIZE = 0 /\ q + PGSIZE > va /\ q < va + sz
        BY DEF Touched
      <4>. QED
        BY <4>1, <3>1, <1>2, Sizes DEF Below
    <3>3. ASSUME NEW q \in Below(a) PROVE q \in Touched
      <4>1. q \in K!Addresses /\ q \in Int /\ q % PGSIZE = 0 /\ q + PGSIZE > va /\ q < a
        BY Sizes DEF Below
      <4>2. q < va + sz
        BY <4>1, <1>2, Sizes
      <4>. QED
        BY <4>1, <4>2, <1>2 DEF Touched
    <3>4. a \in Touched
      BY <1>2, Sizes DEF Touched
    <3>. QED
      BY <3>2, <3>3, <3>4
  <2>3. Moved(Touched)' = Moved(Touched)
    BY <1>0 DEF Moved, Touched
  <2>. QED
    BY <2>1, <2>2, <2>3, <1>5 DEF KLoop, KEnd
<1>7. CASE a # last
  <2>1. kpc' = kpc /\ a' = K!Wrap(a + PGSIZE) /\ pa' = K!Wrap(pa + PGSIZE)
    BY <1>7 DEF K!MapPage, K!Advance
  <2>2. a + PGSIZE <= last
    <3>1. a < last
      BY <1>2, <1>7
    <3>. QED
      BY <3>1, <1>2, Sizes, NextAligned
  <2>3. a' = a + PGSIZE
    <3>1. a + PGSIZE \in 0..(U64 - 1)
      BY <2>2, <1>2, Sizes
    <3>. QED
      BY <2>1, <3>1, Sizes DEF K!Wrap
  <2>4. (a + PGSIZE) % PGSIZE = 0
    <3>1. PGSIZE % PGSIZE = 0
      BY Sizes
    <3>. QED
      BY <3>1, <1>2, Sizes, SumAligned
  <2>5. pa' = K!Wrap(pa0 + (a' - b))
    <3>1. pa' = (((pa0 + (a - b)) % U64) + PGSIZE) % U64
      BY <2>1, <1>4 DEF K!Wrap
    <3>2. pa0 + (a - b) \in Int /\ PGSIZE \in Int
      BY <1>2, <1>3, Sizes
    <3>3. pa' = (pa0 + (a - b) + PGSIZE) % U64
      BY <3>1, <3>2, Sizes, AddWrapped
    <3>4. pa0 + (a - b) + PGSIZE = pa0 + (a' - b)
      BY <2>3, <1>2, <1>3, Sizes
    <3>. QED
      BY <3>3, <3>4 DEF K!Wrap
  <2>6. Below(a) \cup {a} = Below(a + PGSIZE)
    <3>1. ASSUME NEW q \in K!Addresses, q % PGSIZE = 0, q < a + PGSIZE PROVE q <= a
      <4>. SUFFICES ASSUME a < q PROVE FALSE
        BY <1>2, Sizes
      <4>1. a + PGSIZE <= q
        BY <1>2, <3>1, Sizes, NextAligned
      <4>. QED
        BY <4>1, <3>1, <1>2, Sizes
    <3>2. ASSUME NEW q \in Below(a + PGSIZE) PROVE q \in Below(a) \cup {a}
      <4>1. q \in K!Addresses /\ q % PGSIZE = 0 /\ q + PGSIZE > va /\ q < a + PGSIZE
        BY DEF Below
      <4>. QED
        BY <4>1, <3>1, <1>2, Sizes DEF Below
    <3>3. ASSUME NEW q \in Below(a) PROVE q \in Below(a + PGSIZE)
      <4>1. q \in K!Addresses /\ q \in Int /\ q % PGSIZE = 0 /\ q + PGSIZE > va /\ q < a
        BY Sizes DEF Below
      <4>2. q < a + PGSIZE
        BY <4>1, <1>2, Sizes
      <4>. QED
        BY <4>1, <4>2, <1>2 DEF Below
    <3>4. a \in Below(a + PGSIZE)
      BY <1>2, Sizes DEF Below
    <3>. QED
      BY <3>2, <3>3, <3>4
  <2>7. Moved(Below(a))' = Moved(Below(a + PGSIZE))
    BY <1>0, <2>3 DEF Moved, Below
  <2>8. a' \in K!Addresses /\ a' + PGSIZE > va
    BY <2>2, <2>3, <1>2, Sizes
  <2>9. K!PGROUNDDOWN(va)' = b
    BY <1>0 DEF K!PGROUNDDOWN
  <2>. HIDE DEF b
  <2>10. (K!Wrap(pa0 + (a - K!PGROUNDDOWN(va))))' = K!Wrap(pa0 + (a' - b))
    BY <1>0, <2>9 DEF K!Wrap
  <2>11. a' \in K!Addresses /\ a' % PGSIZE = 0 /\ a' + PGSIZE > va' /\ a' <= last'
    BY <2>2, <2>3, <2>4, <2>8, <1>0
  <2>12. /\ sz' > 0 /\ last' \in K!Addresses /\ last' % PGSIZE = 0
         /\ last' < va' + sz' /\ va' + sz' <= last' + PGSIZE
    BY <1>0, <1>2
  <2>13. table' = Moved(Below(a))'
    BY <1>5, <2>6, <2>7
  <2>. QED
    BY <1>0, <2>1, <2>5, <2>10, <2>11, <2>12, <2>13 DEF KLoop, KEnd
<1>. QED
  BY <1>6, <1>7

(* The panic is not reached with proper arguments.                         *)
LEMMA KPanic ==
    ASSUME KInv, K!MapPanics PROVE KInv'
<1>1. KType'
  BY DEF KInv, KType, K!MapPanics, K!args
<1>2. kpc = "loop" /\ K!Refuses /\ UNCHANGED <<va, sz, pa0>>
  BY DEF K!MapPanics, K!args
<1>3. ~K!Proper
  BY <1>2, Willing
<1>4. ~K!Proper'
  BY <1>2, <1>3 DEF K!Proper
<1>. QED
  BY <1>1, <1>4 DEF KInv

(* Every step of kvmmap() keeps KInv.                                      *)
LEMMA KInvNext == KInv /\ [K!Next]_kVars => KInv'
<1>1. KInv /\ UNCHANGED kVars => KInv'
  BY DEF kVars, KInv, KType, K!Proper, KLoop, KEnd, Moved, Below, Touched
<1>. QED
  BY <1>1, KBegin, KNothing, KMap, KPanic DEF K!Next

(* For proper arguments kvmmap() does not panic and maps exactly the pages *)
(* that [va, va + sz) touches, each to the page at the same distance from  *)
(* pa: for any page size and any width of addresses, 4096 and 64 bits      *)
(* included.                                                               *)
THEOREM MapsRange == MCSpec => []MapsExactly
<1>1. MCInit => KInv
  BY KInvInit DEF MCInit
<1>2. KInv /\ [MCNext]_mcVars => KInv'
  BY KInvNext DEF MCNext, ExtIntrUnit, BootUnit, KvmmapUnit, KvmmapEnd, mcVars
<1>3. KInv => MapsExactly
  BY DEF KInv, KEnd, MapsExactly, K!MapsExactly, Touched, Moved
<1>. QED
  BY <1>1, <1>2, <1>3, PTL DEF MCSpec

=============================================================================
