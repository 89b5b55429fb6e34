--------------------------- MODULE PageTableProof ---------------------------
(***************************************************************************)
(* Page tables of any size, in any memory: every page has one use, no call *)
(* panics but for want of memory, and the hardware sees one address appear *)
(* or disappear at a time.                                                 *)
(*                                                                         *)
(* Which pages are tables is a matter of reachability, which no step keeps *)
(* by itself.  The proof gives every page a use: k, its level as a table   *)
(* (2, 1, 0), Leaf, Free or Hand; t, the table it is part of; u and x, the *)
(* page and index of the entry that points to it.  Tree says that uses and *)
(* entries agree.  These functions are no state: the invariant says that   *)
(* they exist.                                                             *)
(***************************************************************************)
EXTENDS PageTable, SequenceTheorems, FiniteSetTheorems, TLAPS

Leaf == -1
Free == -2
Hand == -3
Kinds == {2, 1, 0, Leaf, Free, Hand}

PTEs == [v : BOOLEAN, ppn : Targets \cup {Null}, perm : SUBSET {"R", "W", "X"}]
Pages == [Frames -> [Idx -> PTEs]]

TreeType(M, R, F, H, k, t, u, x) ==
    /\ M \in Pages /\ R \in [Tables -> Frames \cup {Null}]
    /\ F \subseteq Frames /\ H \subseteq Frames
    /\ k \in [Frames -> Kinds] /\ t \in [Frames -> Tables]
    /\ u \in [Frames -> Frames] /\ x \in [Frames -> Idx]

(* the free pages, the pages in hand and the roots *)
TreeUse(R, F, H, k, t) ==
    /\ \A p \in Frames : (k[p] = Free <=> p \in F) /\ (k[p] = Hand <=> p \in H)
    /\ \A p \in Frames : k[p] = 2 => R[t[p]] = p
    /\ \A n \in Tables : R[n] # Null => k[R[n]] = 2 /\ t[R[n]] = n

(* a page below a root is where its entry says *)
TreeUp(M, k, t, u, x) ==
    \A p \in Frames : k[p] \in {1, 0, Leaf} =>
        /\ k[u[p]] = k[p] + 1 /\ t[u[p]] = t[p]
        /\ M[u[p]][x[p]].v /\ M[u[p]][x[p]].ppn = p

Below1(p, i, c, k, t, u, x) ==
    c \in Frames /\ k[c] = k[p] - 1 /\ t[c] = t[p] /\ u[c] = p /\ x[c] = i

(* an entry points to a page one level down that is there for it *)
TreeDown(M, k, t, u, x) ==
    \A p \in Frames : k[p] \in {2, 1, 0} => \A i \in Idx : M[p][i].v =>
        /\ M[p][i].perm = {} <=> k[p] # 0
        /\ \/ Below1(p, i, M[p][i].ppn, k, t, u, x)
           \/ k[p] = 0 /\ M[p][i].ppn \in Foreign

Tree(M, R, F, H, k, t, u, x) ==
    /\ TreeType(M, R, F, H, k, t, u, x) /\ TreeUse(R, F, H, k, t)
    /\ TreeUp(M, k, t, u, x) /\ TreeDown(M, k, t, u, x)

(* what walk_lookup() finds from root r *)
Look(M, r, va) ==
    IF ~M[r][va[1]].v THEN Invalid
    ELSE IF ~M[M[r][va[1]].ppn][va[2]].v THEN Invalid
    ELSE M[M[M[r][va[1]].ppn][va[2]].ppn][va[3]]

(* p is the last table on the way to va in table n *)
LastOf(p, n, va, k, t, u, x) ==
    p \in Frames /\ k[p] = 0 /\ t[p] = n /\ x[u[p]] = va[1] /\ x[p] = va[2]

(* entry i of p is va's entry in table n *)
IsAt(p, i, n, va, k, t, u, x) == LastOf(p, n, va, k, t, u, x) /\ va[3] = i

(* a store of e there changes what is found at va in table n, and nothing else *)
Stores(M, N, R, p, i, e, k, t, u, x) ==
    \A n \in Tables, va \in VAs : R[n] # Null =>
        /\ IsAt(p, i, n, va, k, t, u, x) => Look(N, R[n], va) = e
        /\ ~IsAt(p, i, n, va, k, t, u, x) => Look(N, R[n], va) = Look(M, R[n], va)

(* memory N finds what M found *)
Keeps(M, N, R) ==
    \A n \in Tables, va \in VAs : R[n] # Null => Look(N, R[n], va) = Look(M, R[n], va)

(* memory N finds e at va in table n, and what M found elsewhere *)
Puts(M, N, R, n, va, e) ==
    \A m \in Tables, w \in VAs : R[m] # Null =>
        Look(N, R[m], w) = IF m = n /\ w = va THEN e ELSE Look(M, R[m], w)

(* table n is gone, the others are as they were *)
Gone(M, N, R, S, n) ==
    /\ S[n] = Null /\ (\A m \in Tables : m # n => S[m] = R[m])
    /\ \A m \in Tables, va \in VAs : R[m] # Null /\ m # n => Look(N, R[m], va) = Look(M, R[m], va)

-----------------------------------------------------------------------------
(* The walk *)

LEMMA Numbers == Leaf = -1 /\ Free = -2 /\ Hand = -3 /\ Kinds = {2, 1, 0, -1, -2, -3}
  BY DEF Leaf, Free, Hand, Kinds

LEMMA LookAt ==
    ASSUME NEW M, NEW R, NEW F, NEW H, NEW k, NEW t, NEW u, NEW x, Tree(M, R, F, H, k, t, u, x),
           NEW n \in Tables, NEW va \in VAs, NEW p, LastOf(p, n, va, k, t, u, x)
    PROVE  /\ R[n] \in Frames /\ u[p] \in Frames /\ R[n] = u[u[p]]
           /\ M[R[n]][va[1]].v /\ M[R[n]][va[1]].ppn = u[p]
           /\ M[u[p]][va[2]].v /\ M[u[p]][va[2]].ppn = p
           /\ Look(M, R[n], va) = M[p][va[3]]
<1>1. p \in Frames /\ k[p] = 0 /\ t[p] = n /\ x[u[p]] = va[1] /\ x[p] = va[2]
  BY DEF LastOf
<1>2. u[p] \in Frames /\ u[u[p]] \in Frames
  BY <1>1 DEF Tree, TreeType
<1>3. k[u[p]] = 1 /\ t[u[p]] = n /\ M[u[p]][va[2]].v /\ M[u[p]][va[2]].ppn = p
  BY <1>1 DEF Tree, TreeUp
<1>4. k[u[u[p]]] = 2 /\ t[u[u[p]]] = n /\ M[u[u[p]]][va[1]].v /\ M[u[u[p]]][va[1]].ppn = u[p]
  BY <1>1, <1>2, <1>3 DEF Tree, TreeUp
<1>5. R[n] = u[u[p]]
  BY <1>2, <1>4 DEF Tree, TreeUse
<1>. QED
  BY <1>2, <1>3, <1>4, <1>5 DEF Look

LEMMA Down ==
    ASSUME NEW M, NEW R, NEW F, NEW H, NEW k, NEW t, NEW u, NEW x, Tree(M, R, F, H, k, t, u, x),
           NEW p \in Frames, k[p] \in {2, 1}, NEW i \in Idx, M[p][i].v
    PROVE  /\ M[p][i].ppn \in Frames /\ k[M[p][i].ppn] = k[p] - 1 /\ t[M[p][i].ppn] = t[p]
           /\ u[M[p][i].ppn] = p /\ x[M[p][i].ppn] = i /\ M[p][i].perm = {}
<1>1. /\ M[p][i].perm = {} <=> k[p] # 0
      /\ \/ Below1(p, i, M[p][i].ppn, k, t, u, x)
         \/ k[p] = 0 /\ M[p][i].ppn \in Foreign
  BY DEF Tree, TreeDown
<1>2. k[p] # 0
  OBVIOUS
<1>. QED
  BY <1>1, <1>2 DEF Below1

LEMMA LookWhere ==
    ASSUME NEW M, NEW R, NEW F, NEW H, NEW k, NEW t, NEW u, NEW x, Tree(M, R, F, H, k, t, u, x),
           NEW n \in Tables, NEW va \in VAs, R[n] # Null
    PROVE  \/ Look(M, R[n], va) = Invalid
           \/ \E p \in Frames : LastOf(p, n, va, k, t, u, x) /\ Look(M, R[n], va) = M[p][va[3]]
<1>0. va[1] \in Idx /\ va[2] \in Idx /\ va[3] \in Idx /\ R[n] \in Frames /\ k[R[n]] = 2 /\ t[R[n]] = n
  BY DEF VAs, Tree, TreeUse, TreeType
<1>1. SUFFICES ASSUME M[R[n]][va[1]].v, M[M[R[n]][va[1]].ppn][va[2]].v
               PROVE  \E p \in Frames : LastOf(p, n, va, k, t, u, x) /\ Look(M, R[n], va) = M[p][va[3]]
  BY DEF Look
<1>. DEFINE q == M[R[n]][va[1]].ppn
            p == M[q][va[2]].ppn
<1>2. q \in Frames /\ k[q] = 1 /\ t[q] = n /\ x[q] = va[1]
  <2>1. /\ q \in Frames /\ k[q] = k[R[n]] - 1 /\ t[q] = t[R[n]] /\ x[q] = va[1]
    <3>1. R[n] \in Frames /\ k[R[n]] \in {2, 1} /\ va[1] \in Idx /\ M[R[n]][va[1]].v
      BY <1>0, <1>1
    <3>. QED
      BY <3>1, Down
  <2>. QED
    BY <1>0, <2>1
<1>3. p \in Frames /\ k[p] = 0 /\ t[p] = n /\ x[p] = va[2] /\ u[p] = q
  <2>1. /\ p \in Frames /\ k[p] = k[q] - 1 /\ t[p] = t[q] /\ x[p] = va[2] /\ u[p] = q
    <3>1. q \in Frames /\ k[q] \in {2, 1} /\ va[2] \in Idx /\ M[q][va[2]].v
      BY <1>0, <1>1, <1>2
    <3>. HIDE DEF q
    <3>. QED
      BY <3>1, Down
  <2>. HIDE DEF p, q
  <2>. QED
    BY <1>2, <2>1
<1>4. Look(M, R[n], va) = M[p][va[3]]
  BY <1>1 DEF Look
<1>. QED
  BY <1>2, <1>3, <1>4 DEF LastOf

-----------------------------------------------------------------------------
(* What a step does to the tree *)

LEMMA Entries ==
    /\ Invalid \in PTEs /\ ~Invalid.v /\ Invalid.ppn = Null
    /\ Clear \in [Idx -> PTEs] /\ Junk \in [Idx -> PTEs] /\ \A i \in Idx : Clear[i] = Invalid
    /\ \A p \in Targets : \A m \in SUBSET {"R", "W", "X"} :
         Entry(p, m) \in PTEs /\ Entry(p, m).v /\ Entry(p, m).ppn = p /\ Entry(p, m).perm = m
<1>1. Invalid \in PTEs /\ ~Invalid.v /\ Invalid.ppn = Null
  BY DEF Invalid, PTEs
<1>2. Entry(Null, {"W"}) \in PTEs
  BY DEF Entry, PTEs
<1>3. Clear \in [Idx -> PTEs] /\ Junk \in [Idx -> PTEs] /\ \A i \in Idx : Clear[i] = Invalid
  BY <1>1, <1>2 DEF Clear, Junk
<1>4. ASSUME NEW p \in Targets, NEW m \in SUBSET {"R", "W", "X"}
      PROVE  Entry(p, m) \in PTEs /\ Entry(p, m).v /\ Entry(p, m).ppn = p /\ Entry(p, m).perm = m
  BY DEF Entry, PTEs
<1>. QED
  BY <1>1, <1>3, <1>4

(* stores of a whole page, of a root pointer, of one entry, of all pages in G *)
Fill(M, f, c) == [M EXCEPT ![f] = c]
SetRoot(R, n, f) == [R EXCEPT ![n] = f]
Set(M, p, i, e) == [M EXCEPT ![p][i] = e]
Scrub(M, G) == [p \in Frames |-> IF p \in G THEN Junk ELSE M[p]]

(* alloc_page() takes a page f from the list, or a caller fills one it has *)
LEMMA TreeTake ==
    ASSUME NEW M, NEW R, NEW F, NEW H, NEW k, NEW t, NEW u, NEW x, Tree(M, R, F, H, k, t, u, x),
           NEW f \in F \cup H, NEW c \in [Idx -> PTEs]
    PROVE  /\ \E l : Tree(Fill(M, f, c), R, F \ {f}, H \cup {f}, l, t, u, x)
           /\ Keeps(M, Fill(M, f, c), R)
<1>. DEFINE N == Fill(M, f, c)
            l == [k EXCEPT ![f] = Hand]
<1>0. TreeType(M, R, F, H, k, t, u, x) /\ TreeUse(R, F, H, k, t) /\ TreeUp(M, k, t, u, x) /\ TreeDown(M, k, t, u, x)
  BY DEF Tree
<1>1. f \in Frames /\ k[f] \in {Free, Hand}
  BY <1>0, Numbers DEF TreeType, TreeUse
<1>2. N \in Pages /\ N[f] = c /\ (\A p \in Frames : p # f => N[p] = M[p])
  BY <1>0, <1>1 DEF TreeType, Pages, Fill
<1>3. /\ l \in [Frames -> Kinds] /\ l[f] = Hand /\ (\A p \in Frames : p # f => l[p] = k[p])
  BY <1>0, <1>1, Numbers DEF TreeType
<1>. HIDE DEF N, l
<1>4. TreeType(N, R, F \ {f}, H \cup {f}, l, t, u, x)
  BY <1>0, <1>1, <1>2, <1>3 DEF TreeType
<1>5. TreeUse(R, F \ {f}, H \cup {f}, l, t)
  <2>1. \A p \in Frames : (l[p] = Free <=> p \in F \ {f}) /\ (l[p] = Hand <=> p \in H \cup {f})
    BY <1>0, <1>1, <1>3, Numbers DEF TreeUse
  <2>2. \A p \in Frames : l[p] = 2 => R[t[p]] = p
    BY <1>0, <1>1, <1>3, Numbers DEF TreeUse
  <2>3. ASSUME NEW n \in Tables, R[n] # Null PROVE l[R[n]] = 2 /\ t[R[n]] = n
    <3>1. R[n] \in Frames /\ k[R[n]] = 2 /\ t[R[n]] = n
      BY <1>0, <2>3 DEF TreeUse, TreeType
    <3>2. R[n] # f
      BY <1>1, <3>1, Numbers
    <3>. QED
      BY <1>3, <3>1, <3>2
  <2>. QED
    BY <2>1, <2>2, <2>3 DEF TreeUse
<1>6. TreeUp(N, l, t, u, x)
  <2>. SUFFICES ASSUME NEW p \in Frames, l[p] \in {1, 0, Leaf}
                PROVE  /\ l[u[p]] = l[p] + 1 /\ t[u[p]] = t[p]
                       /\ N[u[p]][x[p]].v /\ N[u[p]][x[p]].ppn = p
    BY DEF TreeUp
  <2>1. p # f /\ l[p] = k[p]
    BY <1>3, Numbers
  <2>2. /\ k[u[p]] = k[p] + 1 /\ t[u[p]] = t[p] /\ u[p] \in Frames
        /\ M[u[p]][x[p]].v /\ M[u[p]][x[p]].ppn = p
    BY <1>0, <2>1 DEF TreeUp, TreeType
  <2>3. u[p] # f
    BY <1>1, <2>1, <2>2, Numbers
  <2>. QED
    BY <1>2, <1>3, <2>1, <2>2, <2>3
<1>7. TreeDown(N, l, t, u, x)
  <2>. SUFFICES ASSUME NEW p \in Frames, l[p] \in {2, 1, 0}, NEW i \in Idx, N[p][i].v
                PROVE  /\ N[p][i].perm = {} <=> l[p] # 0
                       /\ \/ Below1(p, i, N[p][i].ppn, l, t, u, x)
                          \/ l[p] = 0 /\ N[p][i].ppn \in Foreign
    BY DEF TreeDown
  <2>1. p # f /\ l[p] = k[p] /\ N[p] = M[p]
    BY <1>2, <1>3, Numbers
  <2>2. /\ M[p][i].perm = {} <=> k[p] # 0
        /\ \/ Below1(p, i, M[p][i].ppn, k, t, u, x)
           \/ k[p] = 0 /\ M[p][i].ppn \in Foreign
    BY <1>0, <2>1 DEF TreeDown
  <2>3. ASSUME Below1(p, i, M[p][i].ppn, k, t, u, x) PROVE Below1(p, i, M[p][i].ppn, l, t, u, x)
    <3>1. M[p][i].ppn \in Frames /\ k[M[p][i].ppn] = k[p] - 1
      BY <2>3 DEF Below1
    <3>2. M[p][i].ppn # f
      BY <1>1, <2>1, <3>1, Numbers
    <3>. QED
      BY <1>3, <2>1, <2>3, <3>1, <3>2 DEF Below1
  <2>. QED
    BY <2>1, <2>2, <2>3
<1>8. Tree(N, R, F \ {f}, H \cup {f}, l, t, u, x)
  BY <1>4, <1>5, <1>6, <1>7 DEF Tree
<1>9. ASSUME NEW n \in Tables, NEW va \in VAs, R[n] # Null
      PROVE  Look(N, R[n], va) = Look(M, R[n], va)
  <2>1. ASSUME NEW p \in Frames PROVE LastOf(p, n, va, k, t, u, x) <=> LastOf(p, n, va, l, t, u, x)
    BY <1>1, <1>3, Numbers DEF LastOf
  <2>2. ASSUME NEW p \in Frames, LastOf(p, n, va, k, t, u, x) PROVE N[p] = M[p]
    BY <1>1, <1>2, <2>2, Numbers DEF LastOf
  <2>3. CASE \E p \in Frames : LastOf(p, n, va, k, t, u, x)
    <3>1. PICK p \in Frames : LastOf(p, n, va, k, t, u, x)
      BY <2>3
    <3>2. Look(M, R[n], va) = M[p][va[3]]
      BY <3>1, LookAt
    <3>3. Look(N, R[n], va) = N[p][va[3]]
      BY <1>8, <2>1, <3>1, LookAt
    <3>. QED
      BY <2>2, <3>1, <3>2, <3>3
  <2>4. CASE ~\E p \in Frames : LastOf(p, n, va, k, t, u, x)
    <3>1. Look(M, R[n], va) = Invalid
      BY <1>9, <2>4, LookWhere
    <3>2. Look(N, R[n], va) = Invalid
      BY <1>8, <1>9, <2>1, <2>4, LookWhere
    <3>. QED
      BY <3>1, <3>2
  <2>. QED
    BY <2>3, <2>4
<1>. QED
  BY <1>8, <1>9 DEF N, Keeps

(* create_pagetable(): a cleared page f becomes the root of table n *)
LEMMA TreeRoot ==
    ASSUME NEW M, NEW R, NEW F, NEW H, NEW k, NEW t, NEW u, NEW x, Tree(M, R, F, H, k, t, u, x),
           NEW f \in H, M[f] = Clear, NEW n \in Tables, R[n] = Null
    PROVE  /\ \E l, s : Tree(M, SetRoot(R, n, f), F, H \ {f}, l, s, u, x)
           /\ SetRoot(R, n, f)[n] = f /\ (\A m \in Tables : m # n => SetRoot(R, n, f)[m] = R[m])
           /\ \A va \in VAs : Look(M, f, va) = Invalid
<1>. DEFINE S == SetRoot(R, n, f)
            l == [k EXCEPT ![f] = 2]
            s == [t EXCEPT ![f] = n]
<1>0. TreeType(M, R, F, H, k, t, u, x) /\ TreeUse(R, F, H, k, t) /\ TreeUp(M, k, t, u, x) /\ TreeDown(M, k, t, u, x)
  BY DEF Tree
<1>1. f \in Frames /\ k[f] = Hand /\ f \notin F /\ f # Null
  BY <1>0, Numbers, PageTableAssumption DEF TreeType, TreeUse, Targets
<1>2. S \in [Tables -> Frames \cup {Null}] /\ S[n] = f /\ (\A m \in Tables : m # n => S[m] = R[m])
  BY <1>0, <1>1 DEF TreeType, SetRoot
<1>3. /\ l \in [Frames -> Kinds] /\ l[f] = 2 /\ (\A p \in Frames : p # f => l[p] = k[p])
      /\ s \in [Frames -> Tables] /\ s[f] = n /\ (\A p \in Frames : p # f => s[p] = t[p])
  BY <1>0, <1>1, Numbers DEF TreeType
<1>. HIDE DEF S, l, s
<1>4. TreeType(M, S, F, H \ {f}, l, s, u, x)
  BY <1>0, <1>1, <1>2, <1>3 DEF TreeType
<1>5. TreeUse(S, F, H \ {f}, l, s)
  <2>1. \A p \in Frames : (l[p] = Free <=> p \in F) /\ (l[p] = Hand <=> p \in H \ {f})
    BY <1>0, <1>1, <1>3, Numbers DEF TreeUse
  <2>2. ASSUME NEW p \in Frames, l[p] = 2 PROVE S[s[p]] = p
    <3>1. CASE p = f
      BY <1>2, <1>3, <3>1
    <3>2. CASE p # f
      <4>1. R[t[p]] = p /\ s[p] = t[p] /\ t[p] \in Tables
        BY <1>0, <1>3, <2>2, <3>2 DEF TreeUse, TreeType
      <4>2. t[p] # n
        BY <4>1, PageTableAssumption DEF Targets
      <4>. QED
        BY <1>2, <4>1, <4>2
    <3>. QED
      BY <3>1, <3>2
  <2>3. ASSUME NEW m \in Tables, S[m] # Null PROVE l[S[m]] = 2 /\ s[S[m]] = m
    <3>1. CASE m = n
      BY <1>2, <1>3, <3>1
    <3>2. CASE m # n
      <4>1. S[m] = R[m] /\ R[m] \in Frames /\ k[R[m]] = 2 /\ t[R[m]] = m
        BY <1>0, <1>2, <2>3, <3>2 DEF TreeUse, TreeType
      <4>2. R[m] # f
        BY <1>1, <4>1, Numbers
      <4>. QED
        BY <1>3, <4>1, <4>2
    <3>. QED
      BY <3>1, <3>2
  <2>. QED
    BY <2>1, <2>2, <2>3 DEF TreeUse
<1>6. TreeUp(M, l, s, u, x)
  <2>. SUFFICES ASSUME NEW p \in Frames, l[p] \in {1, 0, Leaf}
                PROVE  /\ l[u[p]] = l[p] + 1 /\ s[u[p]] = s[p]
                       /\ M[u[p]][x[p]].v /\ M[u[p]][x[p]].ppn = p
    BY DEF TreeUp
  <2>1. p # f /\ l[p] = k[p] /\ s[p] = t[p]
    BY <1>3, Numbers
  <2>2. /\ k[u[p]] = k[p] + 1 /\ t[u[p]] = t[p] /\ u[p] \in Frames
        /\ M[u[p]][x[p]].v /\ M[u[p]][x[p]].ppn = p
    BY <1>0, <2>1 DEF TreeUp, TreeType
  <2>3. u[p] # f
    BY <1>1, <2>1, <2>2, Numbers
  <2>. QED
    BY <1>3, <2>1, <2>2, <2>3
<1>a. \A i \in Idx : ~M[f][i].v
  BY Entries
<1>7. TreeDown(M, l, s, u, x)
  <2>. SUFFICES ASSUME NEW p \in Frames, l[p] \in {2, 1, 0}, NEW i \in Idx, M[p][i].v
                PROVE  /\ M[p][i].perm = {} <=> l[p] # 0
                       /\ \/ Below1(p, i, M[p][i].ppn, l, s, u, x)
                          \/ l[p] = 0 /\ M[p][i].ppn \in Foreign
    BY DEF TreeDown
  <2>1. p # f /\ l[p] = k[p]
    BY <1>3, <1>a
  <2>2. /\ M[p][i].perm = {} <=> k[p] # 0
        /\ \/ Below1(p, i, M[p][i].ppn, k, t, u, x)
           \/ k[p] = 0 /\ M[p][i].ppn \in Foreign
    BY <1>0, <2>1 DEF TreeDown
  <2>3. ASSUME Below1(p, i, M[p][i].ppn, k, t, u, x) PROVE Below1(p, i, M[p][i].ppn, l, s, u, x)
    <3>1. M[p][i].ppn \in Frames /\ k[M[p][i].ppn] = k[p] - 1
      BY <2>3 DEF Below1
    <3>2. M[p][i].ppn # f
      BY <1>1, <2>1, <3>1, Numbers
    <3>. QED
      BY <1>3, <2>1, <2>3, <3>1, <3>2 DEF Below1
  <2>. QED
    BY <2>1, <2>2, <2>3
<1>8. Tree(M, S, F, H \ {f}, l, s, u, x)
  BY <1>4, <1>5, <1>6, <1>7 DEF Tree
<1>9. ASSUME NEW va \in VAs PROVE Look(M, f, va) = Invalid
  <2>1. va[1] \in Idx
    BY DEF VAs
  <2>. QED
    BY <1>a, <2>1 DEF Look
<1>. QED
  BY <1>2, <1>8, <1>9 DEF S

LEMMA SetPages ==
    ASSUME NEW M \in Pages, NEW p \in Frames, NEW i \in Idx, NEW e \in PTEs
    PROVE  /\ Set(M, p, i, e) \in Pages /\ Set(M, p, i, e)[p][i] = e
           /\ \A j \in Idx : j # i => Set(M, p, i, e)[p][j] = M[p][j]
           /\ \A q \in Frames : q # p => Set(M, p, i, e)[q] = M[q]
  BY DEF Set, Pages

(* map_page() with a page that is not the allocator's, and unmap_page() *)
LEMMA TreeSet ==
    ASSUME NEW M, NEW R, NEW F, NEW H, NEW k, NEW t, NEW u, NEW x, Tree(M, R, F, H, k, t, u, x),
           NEW p \in Frames, k[p] = 0, NEW i \in Idx, M[p][i].v => M[p][i].ppn \in Foreign,
           NEW e \in PTEs, e.v => e.ppn \in Foreign /\ e.perm # {}
    PROVE  /\ Tree(Set(M, p, i, e), R, F, H, k, t, u, x)
           /\ Stores(M, Set(M, p, i, e), R, p, i, e, k, t, u, x)
<1>. DEFINE N == Set(M, p, i, e)
<1>0. TreeType(M, R, F, H, k, t, u, x) /\ TreeUse(R, F, H, k, t) /\ TreeUp(M, k, t, u, x) /\ TreeDown(M, k, t, u, x)
  BY DEF Tree
<1>1. /\ N \in Pages /\ N[p][i] = e /\ (\A j \in Idx : j # i => N[p][j] = M[p][j])
      /\ \A q \in Frames : q # p => N[q] = M[q]
  BY <1>0, SetPages DEF TreeType
<1>. HIDE DEF N
<1>2. TreeType(N, R, F, H, k, t, u, x)
  BY <1>0, <1>1 DEF TreeType
<1>3. TreeUp(N, k, t, u, x)
  <2>. SUFFICES ASSUME NEW q \in Frames, k[q] \in {1, 0, Leaf}
                PROVE  /\ k[u[q]] = k[q] + 1 /\ t[u[q]] = t[q]
                       /\ N[u[q]][x[q]].v /\ N[u[q]][x[q]].ppn = q
    BY DEF TreeUp
  <2>1. /\ k[u[q]] = k[q] + 1 /\ t[u[q]] = t[q] /\ u[q] \in Frames /\ x[q] \in Idx
        /\ M[u[q]][x[q]].v /\ M[u[q]][x[q]].ppn = q
    BY <1>0 DEF TreeUp, TreeType
  <2>2. u[q] = p => x[q] # i
    BY <2>1, PageTableAssumption
  <2>3. N[u[q]][x[q]] = M[u[q]][x[q]]
    BY <1>1, <2>1, <2>2
  <2>. QED
    BY <2>1, <2>3
<1>4. TreeDown(N, k, t, u, x)
  <2>. SUFFICES ASSUME NEW q \in Frames, k[q] \in {2, 1, 0}, NEW j \in Idx, N[q][j].v
                PROVE  /\ N[q][j].perm = {} <=> k[q] # 0
                       /\ \/ Below1(q, j, N[q][j].ppn, k, t, u, x)
                          \/ k[q] = 0 /\ N[q][j].ppn \in Foreign
    BY DEF TreeDown
  <2>1. CASE q = p /\ j = i
    BY <1>1, <2>1
  <2>2. CASE ~(q = p /\ j = i)
    <3>1. N[q][j] = M[q][j]
      BY <1>1, <2>2
    <3>. QED
      BY <1>0, <3>1 DEF TreeDown
  <2>. QED
    BY <2>1, <2>2
<1>5. Tree(N, R, F, H, k, t, u, x)
  BY <1>0, <1>2, <1>3, <1>4 DEF Tree
<1>6. ASSUME NEW n \in Tables, NEW va \in VAs, R[n] # Null
      PROVE  Look(N, R[n], va) = IF LastOf(p, n, va, k, t, u, x) /\ va[3] = i THEN e ELSE Look(M, R[n], va)
  <2>0. va[3] \in Idx
    BY DEF VAs
  <2>1. CASE \E q \in Frames : LastOf(q, n, va, k, t, u, x)
    <3>1. PICK q \in Frames : LastOf(q, n, va, k, t, u, x)
      BY <2>1
    <3>2. Look(M, R[n], va) = M[q][va[3]] /\ M[M[R[n]][va[1]].ppn][va[2]].ppn = q
      BY <3>1, LookAt
    <3>3. Look(N, R[n], va) = N[q][va[3]]
      BY <1>5, <3>1, LookAt
    <3>4. LastOf(p, n, va, k, t, u, x) => p = q
      BY <3>2, LookAt
    <3>. QED
      BY <1>1, <2>0, <3>1, <3>2, <3>3, <3>4
  <2>2. CASE ~\E q \in Frames : LastOf(q, n, va, k, t, u, x)
    <3>1. Look(M, R[n], va) = Invalid
      BY <1>6, <2>2, LookWhere
    <3>2. Look(N, R[n], va) = Invalid
      BY <1>5, <1>6, <2>2, LookWhere
    <3>. QED
      BY <2>2, <3>1, <3>2
  <2>. QED
    BY <2>1, <2>2
<1>. QED
  BY <1>5, <1>6 DEF N, IsAt, Stores

(* walk_create() links a cleared table f, or map_page() maps a page f it was given *)
CanHang(M, H, k, f, p, i, perm) ==
    /\ f \in H /\ p \in Frames /\ k[p] \in {2, 1, 0} /\ i \in Idx /\ ~M[p][i].v
    /\ (k[p] # 0 => M[f] = Clear) /\ perm \in SUBSET {"R", "W", "X"} /\ (perm = {} <=> k[p] # 0)

LEMMA TreeHang ==
    ASSUME NEW M, NEW R, NEW F, NEW H, NEW k, NEW t, NEW u, NEW x, Tree(M, R, F, H, k, t, u, x),
           NEW f, NEW p, NEW i, NEW perm, CanHang(M, H, k, f, p, i, perm)
    PROVE  /\ \E l, s, w, y : Tree(Set(M, p, i, Entry(f, perm)), R, F, H \ {f}, l, s, w, y)
           /\ Stores(M, Set(M, p, i, Entry(f, perm)), R, p, i, Entry(f, perm), k, t, u, x)
<1>. DEFINE e == Entry(f, perm)
            N == Set(M, p, i, e)
            l == [k EXCEPT ![f] = k[p] - 1]
            s == [t EXCEPT ![f] = t[p]]
            w == [u EXCEPT ![f] = p]
            y == [x EXCEPT ![f] = i]
<1>. /\ f \in H /\ p \in Frames /\ k[p] \in {2, 1, 0} /\ i \in Idx /\ ~M[p][i].v
     /\ (k[p] # 0 => M[f] = Clear) /\ perm \in SUBSET {"R", "W", "X"} /\ (perm = {} <=> k[p] # 0)
  BY DEF CanHang
<1>0. TreeType(M, R, F, H, k, t, u, x) /\ TreeUse(R, F, H, k, t) /\ TreeUp(M, k, t, u, x) /\ TreeDown(M, k, t, u, x)
  BY DEF Tree
<1>1. f \in Frames /\ k[f] = Hand /\ f \notin F /\ f # p
  BY <1>0, Numbers DEF TreeType, TreeUse
<1>2. e \in PTEs /\ e.v /\ e.ppn = f /\ e.perm = perm
  BY <1>1, Entries DEF Targets
<1>. HIDE DEF e
<1>3. /\ N \in Pages /\ N[p][i] = e /\ (\A j \in Idx : j # i => N[p][j] = M[p][j])
      /\ \A q \in Frames : q # p => N[q] = M[q]
  BY <1>0, <1>2, SetPages DEF TreeType
<1>4. k[p] - 1 \in {1, 0, Leaf} /\ {1, 0, Leaf} \subseteq Kinds
  BY Numbers
<1>5. /\ l \in [Frames -> Kinds] /\ l[f] = k[p] - 1 /\ (\A q \in Frames : q # f => l[q] = k[q])
  BY <1>0, <1>1, <1>4 DEF TreeType
<1>6. /\ s \in [Frames -> Tables] /\ s[f] = t[p] /\ (\A q \in Frames : q # f => s[q] = t[q])
      /\ w \in [Frames -> Frames] /\ w[f] = p /\ (\A q \in Frames : q # f => w[q] = u[q])
      /\ y \in [Frames -> Idx] /\ y[f] = i /\ (\A q \in Frames : q # f => y[q] = x[q])
  BY <1>0, <1>1 DEF TreeType
<1>. HIDE DEF N, l, s, w, y
<1>7. TreeType(N, R, F, H \ {f}, l, s, w, y)
  BY <1>0, <1>1, <1>3, <1>5, <1>6 DEF TreeType
<1>8. TreeUse(R, F, H \ {f}, l, s)
  <2>0. l[f] # Free /\ l[f] # Hand /\ l[f] # 2
    BY <1>4, <1>5, Numbers
  <2>1. \A q \in Frames : (l[q] = Free <=> q \in F) /\ (l[q] = Hand <=> q \in H \ {f})
    BY <1>0, <1>1, <1>5, <2>0 DEF TreeUse
  <2>2. ASSUME NEW q \in Frames, l[q] = 2 PROVE R[s[q]] = q
    <3>1. q # f
      BY <2>0, <2>2
    <3>. QED
      BY <1>0, <1>5, <1>6, <2>2, <3>1 DEF TreeUse
  <2>3. ASSUME NEW n \in Tables, R[n] # Null PROVE l[R[n]] = 2 /\ s[R[n]] = n
    <3>1. R[n] \in Frames /\ k[R[n]] = 2 /\ t[R[n]] = n
      BY <1>0, <2>3 DEF TreeUse, TreeType
    <3>2. R[n] # f
      BY <1>1, <3>1, Numbers
    <3>. QED
      BY <1>5, <1>6, <3>1, <3>2
  <2>. QED
    BY <2>1, <2>2, <2>3 DEF TreeUse
<1>9. TreeUp(N, l, s, w, y)
  <2>. SUFFICES ASSUME NEW q \in Frames, l[q] \in {1, 0, Leaf}
                PROVE  /\ l[w[q]] = l[q] + 1 /\ s[w[q]] = s[q]
                       /\ N[w[q]][y[q]].v /\ N[w[q]][y[q]].ppn = q
    BY DEF TreeUp
  <2>1. CASE q = f
    <3>1. l[p] = k[p] /\ s[p] = t[p] /\ k[p] - 1 + 1 = k[p]
      BY <1>1, <1>5, <1>6
    <3>. QED
      BY <1>2, <1>3, <1>5, <1>6, <2>1, <3>1
  <2>2. CASE q # f
    <3>1. l[q] = k[q] /\ w[q] = u[q] /\ y[q] = x[q] /\ s[q] = t[q]
      BY <1>5, <1>6, <2>2
    <3>2. /\ k[u[q]] = k[q] + 1 /\ t[u[q]] = t[q] /\ u[q] \in Frames /\ x[q] \in Idx
          /\ M[u[q]][x[q]].v /\ M[u[q]][x[q]].ppn = q
      BY <1>0, <3>1 DEF TreeUp, TreeType
    <3>3. u[q] # f /\ ~(u[q] = p /\ x[q] = i)
      BY <1>1, <3>1, <3>2, Numbers
    <3>4. N[u[q]][x[q]] = M[u[q]][x[q]] /\ l[u[q]] = k[u[q]] /\ s[u[q]] = t[u[q]]
      BY <1>3, <1>5, <1>6, <3>2, <3>3
    <3>. QED
      BY <3>1, <3>2, <3>4
  <2>. QED
    BY <2>1, <2>2
<1>10. TreeDown(N, l, s, w, y)
  <2>. SUFFICES ASSUME NEW q \in Frames, l[q] \in {2, 1, 0}, NEW j \in Idx, N[q][j].v
                PROVE  /\ N[q][j].perm = {} <=> l[q] # 0
                       /\ \/ Below1(q, j, N[q][j].ppn, l, s, w, y)
                          \/ l[q] = 0 /\ N[q][j].ppn \in Foreign
    BY DEF TreeDown
  <2>1. q # f
    <3>. SUFFICES ASSUME q = f PROVE FALSE
      OBVIOUS
    <3>1. k[p] # 0
      BY <1>4, <1>5, Numbers
    <3>2. ~N[f][j].v
      BY <1>1, <1>3, <3>1, Entries
    <3>. QED
      BY <3>2
  <2>2. l[q] = k[q] /\ s[q] = t[q]
    BY <1>5, <1>6, <2>1
  <2>3. CASE q = p /\ j = i
    <3>1. N[q][j] = e
      BY <1>3, <2>3
    <3>2. Below1(q, j, f, l, s, w, y)
      BY <1>1, <1>5, <1>6, <2>2, <2>3 DEF Below1
    <3>. QED
      BY <1>2, <2>2, <2>3, <3>1, <3>2
  <2>4. CASE ~(q = p /\ j = i)
    <3>1. N[q][j] = M[q][j]
      BY <1>3, <2>4
    <3>2. /\ M[q][j].perm = {} <=> k[q] # 0
          /\ \/ Below1(q, j, M[q][j].ppn, k, t, u, x)
             \/ k[q] = 0 /\ M[q][j].ppn \in Foreign
      BY <1>0, <2>2, <3>1 DEF TreeDown
    <3>3. ASSUME Below1(q, j, M[q][j].ppn, k, t, u, x) PROVE Below1(q, j, M[q][j].ppn, l, s, w, y)
      <4>1. M[q][j].ppn \in Frames /\ k[M[q][j].ppn] = k[q] - 1
        BY <3>3 DEF Below1
      <4>2. M[q][j].ppn # f
        BY <1>1, <2>2, <4>1, Numbers
      <4>. QED
        BY <1>5, <1>6, <2>2, <3>3, <4>1, <4>2 DEF Below1
    <3>. QED
      BY <2>2, <3>1, <3>2, <3>3
  <2>. QED
    BY <2>3, <2>4
<1>11. Tree(N, R, F, H \ {f}, l, s, w, y)
  BY <1>7, <1>8, <1>9, <1>10 DEF Tree
<1>12. ASSUME NEW n \in Tables, NEW va \in VAs, R[n] # Null
       PROVE  Look(N, R[n], va) = IF LastOf(p, n, va, k, t, u, x) /\ va[3] = i THEN e ELSE Look(M, R[n], va)
  <2>0. va[1] \in Idx /\ va[2] \in Idx /\ va[3] \in Idx
    BY DEF VAs
  <2>1. ASSUME NEW q \in Frames, LastOf(q, n, va, k, t, u, x) PROVE LastOf(q, n, va, l, s, w, y) /\ q # f
    <3>1. k[q] = 0 /\ q # f /\ u[q] \in Frames /\ k[u[q]] = 1
      BY <1>0, <1>1, <2>1, Numbers DEF LastOf, TreeUp, TreeType
    <3>2. u[q] # f
      BY <1>1, <3>1, Numbers
    <3>. QED
      BY <1>5, <1>6, <2>1, <3>1, <3>2 DEF LastOf
  <2>2. ASSUME NEW q \in Frames, LastOf(q, n, va, l, s, w, y), q # f PROVE LastOf(q, n, va, k, t, u, x)
    <3>1. k[q] = 0 /\ w[q] = u[q] /\ u[q] \in Frames /\ k[u[q]] = 1
      BY <1>0, <1>5, <1>6, <2>2 DEF LastOf, TreeUp, TreeType
    <3>2. u[q] # f
      BY <1>1, <3>1, Numbers
    <3>. QED
      BY <1>5, <1>6, <2>2, <3>1, <3>2 DEF LastOf
  <2>3. CASE \E q \in Frames : LastOf(q, n, va, k, t, u, x)
    <3>1. PICK q \in Frames : LastOf(q, n, va, k, t, u, x)
      BY <2>3
    <3>2. Look(M, R[n], va) = M[q][va[3]] /\ M[M[R[n]][va[1]].ppn][va[2]].ppn = q
      BY <3>1, LookAt
    <3>3. Look(N, R[n], va) = N[q][va[3]]
      BY <1>11, <2>1, <3>1, LookAt
    <3>4. LastOf(p, n, va, k, t, u, x) => p = q
      BY <3>2, LookAt
    <3>5. k[q] = 0 /\ (q = p => LastOf(p, n, va, k, t, u, x))
      BY <3>1 DEF LastOf
    <3>. QED
      BY <1>3, <2>0, <3>1, <3>2, <3>3, <3>4, <3>5
  <2>4. CASE ~\E q \in Frames : LastOf(q, n, va, k, t, u, x)
    <3>1. Look(M, R[n], va) = Invalid
      BY <1>12, <2>4, LookWhere
    <3>2. Look(N, R[n], va) = Invalid
      <4>1. CASE \E q \in Frames : LastOf(q, n, va, l, s, w, y)
        <5>1. LastOf(f, n, va, l, s, w, y)
          BY <2>2, <2>4, <4>1
        <5>2. Look(N, R[n], va) = N[f][va[3]]
          BY <1>11, <5>1, LookAt
        <5>3. k[p] # 0
          BY <1>4, <1>5, <5>1, Numbers DEF LastOf
        <5>4. N[f][va[3]] = Invalid
          BY <1>1, <1>3, <2>0, <5>3, Entries
        <5>. QED
          BY <5>2, <5>4
      <4>2. CASE ~\E q \in Frames : LastOf(q, n, va, l, s, w, y)
        BY <1>11, <1>12, <4>2, LookWhere
      <4>. QED
        BY <4>1, <4>2
    <3>. QED
      BY <2>4, <3>1, <3>2
  <2>. QED
    BY <2>3, <2>4
<1>. QED
  BY <1>11, <1>12 DEF N, e, IsAt, Stores

(* destroy_pagetable() frees every page of table n *)
PagesOf(n, k, t) == {p \in Frames : t[p] = n /\ k[p] \in {2, 1, 0, Leaf}}

LEMMA TreeDestroy ==
    ASSUME NEW M, NEW R, NEW F, NEW H, NEW k, NEW t, NEW u, NEW x, Tree(M, R, F, H, k, t, u, x),
           NEW n \in Tables, NEW G, G = F \cup PagesOf(n, k, t)
    PROVE  /\ \E l : Tree(Scrub(M, G), SetRoot(R, n, Null), G, H, l, t, u, x)
           /\ Gone(M, Scrub(M, G), R, SetRoot(R, n, Null), n)
<1>. DEFINE N == Scrub(M, G)
            S == SetRoot(R, n, Null)
            l == [p \in Frames |-> IF p \in G THEN Free ELSE k[p]]
<1>0. TreeType(M, R, F, H, k, t, u, x) /\ TreeUse(R, F, H, k, t) /\ TreeUp(M, k, t, u, x) /\ TreeDown(M, k, t, u, x)
  BY DEF Tree
<1>1. G \subseteq Frames /\ \A p \in Frames : p \in G <=> k[p] = Free \/ (t[p] = n /\ k[p] \in {2, 1, 0, Leaf})
  BY <1>0 DEF PagesOf, TreeType, TreeUse
<1>2. N \in Pages /\ \A p \in Frames : p \notin G => N[p] = M[p]
  BY <1>0, Entries DEF TreeType, Pages, Scrub
<1>3. S \in [Tables -> Frames \cup {Null}] /\ S[n] = Null /\ \A m \in Tables : m # n => S[m] = R[m]
  BY <1>0 DEF TreeType, SetRoot
<1>4. /\ l \in [Frames -> Kinds] /\ (\A p \in Frames : p \in G => l[p] = Free)
      /\ (\A p \in Frames : p \notin G => l[p] = k[p])
  BY <1>0, Numbers DEF TreeType
<1>. HIDE DEF N, S, l
<1>5. TreeType(N, S, G, H, l, t, u, x)
  BY <1>0, <1>1, <1>2, <1>3, <1>4 DEF TreeType
<1>6. TreeUse(S, G, H, l, t)
  <2>1. ASSUME NEW p \in Frames PROVE (l[p] = Free <=> p \in G) /\ (l[p] = Hand <=> p \in H)
    <3>1. (k[p] = Free <=> p \in F) /\ (k[p] = Hand <=> p \in H)
      BY <1>0 DEF TreeUse
    <3>2. p \in G => k[p] # Hand
      BY <1>1, Numbers
    <3>3. p \notin G => k[p] # Free
      BY <1>1
    <3>. QED
      BY <1>4, <3>1, <3>2, <3>3, Numbers
  <2>2. ASSUME NEW p \in Frames, l[p] = 2 PROVE S[t[p]] = p
    <3>1. p \notin G /\ k[p] = 2
      BY <1>4, <2>2, Numbers
    <3>2. t[p] # n /\ t[p] \in Tables
      BY <1>0, <1>1, <3>1 DEF TreeType
    <3>. QED
      BY <1>0, <1>3, <3>1, <3>2 DEF TreeUse
  <2>3. ASSUME NEW m \in Tables, S[m] # Null PROVE l[S[m]] = 2 /\ t[S[m]] = m
    <3>1. m # n /\ S[m] = R[m]
      BY <1>3, <2>3
    <3>2. R[m] \in Frames /\ k[R[m]] = 2 /\ t[R[m]] = m
      BY <1>0, <2>3, <3>1 DEF TreeUse, TreeType
    <3>3. R[m] \notin G
      BY <1>1, <3>1, <3>2, Numbers
    <3>. QED
      BY <1>4, <3>1, <3>2, <3>3
  <2>. QED
    BY <2>1, <2>2, <2>3 DEF TreeUse
<1>7. TreeUp(N, l, t, u, x)
  <2>. SUFFICES ASSUME NEW p \in Frames, l[p] \in {1, 0, Leaf}
                PROVE  /\ l[u[p]] = l[p] + 1 /\ t[u[p]] = t[p]
                       /\ N[u[p]][x[p]].v /\ N[u[p]][x[p]].ppn = p
    BY DEF TreeUp
  <2>1. p \notin G /\ l[p] = k[p]
    BY <1>4, Numbers
  <2>2. /\ k[u[p]] = k[p] + 1 /\ t[u[p]] = t[p] /\ u[p] \in Frames
        /\ M[u[p]][x[p]].v /\ M[u[p]][x[p]].ppn = p
    BY <1>0, <2>1 DEF TreeUp, TreeType
  <2>3. t[p] # n
    BY <1>1, <2>1
  <2>4. k[u[p]] # Free
    BY <2>1, <2>2, Numbers
  <2>5. u[p] \notin G
    BY <1>1, <2>2, <2>3, <2>4
  <2>. QED
    BY <1>2, <1>4, <2>1, <2>2, <2>5
<1>8. TreeDown(N, l, t, u, x)
  <2>. SUFFICES ASSUME NEW p \in Frames, l[p] \in {2, 1, 0}, NEW i \in Idx, N[p][i].v
                PROVE  /\ N[p][i].perm = {} <=> l[p] # 0
                       /\ \/ Below1(p, i, N[p][i].ppn, l, t, u, x)
                          \/ l[p] = 0 /\ N[p][i].ppn \in Foreign
    BY DEF TreeDown
  <2>1. p \notin G /\ l[p] = k[p] /\ N[p] = M[p]
    BY <1>2, <1>4, Numbers
  <2>2. /\ M[p][i].perm = {} <=> k[p] # 0
        /\ \/ Below1(p, i, M[p][i].ppn, k, t, u, x)
           \/ k[p] = 0 /\ M[p][i].ppn \in Foreign
    BY <1>0, <2>1 DEF TreeDown
  <2>3. ASSUME Below1(p, i, M[p][i].ppn, k, t, u, x) PROVE Below1(p, i, M[p][i].ppn, l, t, u, x)
    <3>1. M[p][i].ppn \in Frames /\ k[M[p][i].ppn] = k[p] - 1 /\ t[M[p][i].ppn] = t[p]
      BY <2>3 DEF Below1
    <3>2. t[p] # n
      BY <1>1, <2>1
    <3>3. k[M[p][i].ppn] # Free
      BY <2>1, <3>1, Numbers
    <3>4. M[p][i].ppn \notin G
      BY <1>1, <3>1, <3>2, <3>3
    <3>. QED
      BY <1>4, <2>1, <2>3, <3>1, <3>4 DEF Below1
  <2>. QED
    BY <2>1, <2>2, <2>3
<1>9. Tree(N, S, G, H, l, t, u, x)
  BY <1>5, <1>6, <1>7, <1>8 DEF Tree
<1>10. ASSUME NEW m \in Tables, NEW va \in VAs, R[m] # Null, m # n
       PROVE  S[m] = R[m] /\ Look(N, R[m], va) = Look(M, R[m], va)
  <2>0. S[m] = R[m] /\ S[m] # Null
    BY <1>3, <1>10
  <2>1. ASSUME NEW p \in Frames, LastOf(p, m, va, k, t, u, x) PROVE LastOf(p, m, va, l, t, u, x) /\ N[p] = M[p]
    <3>1. k[p] = 0 /\ t[p] = m
      BY <2>1 DEF LastOf
    <3>2. p \notin G
      BY <1>1, <1>10, <3>1, Numbers
    <3>. QED
      BY <1>2, <1>4, <2>1, <3>2 DEF LastOf
  <2>2. ASSUME NEW p \in Frames, LastOf(p, m, va, l, t, u, x) PROVE LastOf(p, m, va, k, t, u, x)
    <3>1. p \notin G
      BY <1>4, <2>2, Numbers DEF LastOf
    <3>. QED
      BY <1>4, <2>2, <3>1 DEF LastOf
  <2>3. CASE \E p \in Frames : LastOf(p, m, va, k, t, u, x)
    <3>1. PICK p \in Frames : LastOf(p, m, va, k, t, u, x)
      BY <2>3
    <3>2. Look(M, R[m], va) = M[p][va[3]]
      BY <3>1, LookAt
    <3>3. Look(N, S[m], va) = N[p][va[3]]
      BY <1>9, <2>1, <3>1, LookAt
    <3>. QED
      BY <2>0, <2>1, <3>1, <3>2, <3>3
  <2>4. CASE ~\E p \in Frames : LastOf(p, m, va, k, t, u, x)
    <3>1. Look(M, R[m], va) = Invalid
      BY <1>10, <2>4, LookWhere
    <3>2. Look(N, S[m], va) = Invalid
      BY <1>9, <2>0, <2>2, <2>4, LookWhere
    <3>. QED
      BY <2>0, <3>1, <3>2
  <2>. QED
    BY <2>3, <2>4
<1>. QED
  BY <1>3, <1>9, <1>10 DEF N, S, Gone

-----------------------------------------------------------------------------
(* Where a walk is *)

(* p is the table of level l on the way to va from root r *)
OnPath(M, r, va, l, p) ==
    \/ l = 2 /\ p = r
    \/ l = 1 /\ M[r][va[1]].v /\ p = M[r][va[1]].ppn
    \/ l = 0 /\ M[r][va[1]].v /\ M[M[r][va[1]].ppn][va[2]].v /\ p = M[M[r][va[1]].ppn][va[2]].ppn

LEMMA Index ==
    ASSUME NEW va \in VAs
    PROVE  /\ va[1] \in Idx /\ va[2] \in Idx /\ va[3] \in Idx
           /\ VPN(va, 2) = va[1] /\ VPN(va, 1) = va[2] /\ VPN(va, 0) = va[3]
           /\ \A l \in {2, 1, 0} : VPN(va, l) \in Idx
<1>1. va[1] \in Idx /\ va[2] \in Idx /\ va[3] \in Idx
  BY DEF VAs
<1>2. VPN(va, 2) = va[1] /\ VPN(va, 1) = va[2] /\ VPN(va, 0) = va[3]
  BY DEF VPN
<1>. QED
  BY <1>1, <1>2

LEMMA SameVA ==
    ASSUME NEW va \in VAs, NEW w \in VAs, va[1] = w[1], va[2] = w[2], va[3] = w[3]
    PROVE  va = w
  BY DEF VAs

LEMMA PathPage ==
    ASSUME NEW M, NEW R, NEW F, NEW H, NEW k, NEW t, NEW u, NEW x, Tree(M, R, F, H, k, t, u, x),
           NEW n \in Tables, R[n] # Null, NEW va \in VAs, NEW l, NEW p, OnPath(M, R[n], va, l, p)
    PROVE  /\ l \in {2, 1, 0} /\ p \in Frames /\ k[p] = l /\ t[p] = n
           /\ l = 0 => LastOf(p, n, va, k, t, u, x)
<1>0. va[1] \in Idx /\ va[2] \in Idx /\ R[n] \in Frames /\ k[R[n]] = 2 /\ t[R[n]] = n
  BY Index DEF Tree, TreeUse, TreeType
<1>. DEFINE q == M[R[n]][va[1]].ppn
<1>1. ASSUME M[R[n]][va[1]].v PROVE q \in Frames /\ k[q] = 1 /\ t[q] = n /\ x[q] = va[1]
  <2>1. R[n] \in Frames /\ k[R[n]] \in {2, 1} /\ va[1] \in Idx /\ M[R[n]][va[1]].v
    BY <1>0, <1>1
  <2>2. /\ q \in Frames /\ k[q] = k[R[n]] - 1 /\ t[q] = t[R[n]] /\ x[q] = va[1]
    BY <2>1, Down
  <2>. QED
    BY <1>0, <2>2
<1>. DEFINE r == M[q][va[2]].ppn
<1>. HIDE DEF q
<1>2. ASSUME M[R[n]][va[1]].v, M[q][va[2]].v
      PROVE  r \in Frames /\ k[r] = 0 /\ t[r] = n /\ x[r] = va[2] /\ u[r] = q
  <2>1. q \in Frames /\ k[q] \in {2, 1} /\ va[2] \in Idx /\ M[q][va[2]].v
    BY <1>0, <1>1, <1>2
  <2>2. /\ r \in Frames /\ k[r] = k[q] - 1 /\ t[r] = t[q] /\ x[r] = va[2] /\ u[r] = q
    BY <2>1, Down
  <2>. HIDE DEF r
  <2>. QED
    BY <1>1, <1>2, <2>2
<1>3. CASE l = 2 /\ p = R[n]
  BY <1>0, <1>3
<1>4. CASE l = 1 /\ M[R[n]][va[1]].v /\ p = q
  BY <1>1, <1>4
<1>5. CASE l = 0 /\ M[R[n]][va[1]].v /\ M[q][va[2]].v /\ p = r
  <2>. HIDE DEF r
  <2>. QED
    BY <1>1, <1>2, <1>5 DEF LastOf
<1>. QED
  BY <1>3, <1>4, <1>5 DEF OnPath, q

(* one level down *)
LEMMA PathStep ==
    ASSUME NEW M, NEW r, NEW va \in VAs, NEW l \in {2, 1}, NEW p, OnPath(M, r, va, l, p), M[p][VPN(va, l)].v
    PROVE  OnPath(M, r, va, l - 1, M[p][VPN(va, l)].ppn)
<1>1. CASE l = 2
  <2>1. p = r /\ l - 1 = 1 /\ VPN(va, l) = va[1]
    BY <1>1, Index DEF OnPath
  <2>. QED
    BY <2>1 DEF OnPath
<1>2. CASE l = 1
  <2>1. M[r][va[1]].v /\ p = M[r][va[1]].ppn /\ l - 1 = 0 /\ VPN(va, l) = va[2]
    BY <1>2, Index DEF OnPath
  <2>. QED
    BY <2>1 DEF OnPath
<1>. QED
  BY <1>1, <1>2

(* a store that changes no valid entry of an upper table keeps the way *)
LEMMA PathKept ==
    ASSUME NEW M, NEW R, NEW F, NEW H, NEW k, NEW t, NEW u, NEW x, Tree(M, R, F, H, k, t, u, x),
           NEW n \in Tables, R[n] # Null, NEW va \in VAs, NEW l, NEW p, OnPath(M, R[n], va, l, p),
           NEW N, \A q \in Frames, i \in Idx : k[q] \in {2, 1} /\ M[q][i].v => N[q][i] = M[q][i]
    PROVE  OnPath(N, R[n], va, l, p)
<1>0. va[1] \in Idx /\ va[2] \in Idx /\ R[n] \in Frames /\ k[R[n]] = 2
  BY Index DEF Tree, TreeUse, TreeType
<1>1. M[R[n]][va[1]].v => N[R[n]][va[1]] = M[R[n]][va[1]]
  BY <1>0
<1>2. ASSUME M[R[n]][va[1]].v, M[M[R[n]][va[1]].ppn][va[2]].v
      PROVE  N[M[R[n]][va[1]].ppn][va[2]] = M[M[R[n]][va[1]].ppn][va[2]]
  <2>1. OnPath(M, R[n], va, 1, M[R[n]][va[1]].ppn)
    BY <1>2 DEF OnPath
  <2>2. M[R[n]][va[1]].ppn \in Frames /\ k[M[R[n]][va[1]].ppn] = 1
    BY <2>1, PathPage
  <2>. QED
    BY <1>0, <1>2, <2>2
<1>. QED
  BY <1>1, <1>2 DEF OnPath

-----------------------------------------------------------------------------
(* Where the kernel is among its calls *)

MapTrampoline == MapCall(TRAMPOLINE, trampoline, {"R", "X"})
MapTrapframe == MapCall(TRAPFRAME, PageOne, {"R", "W"})

(* the addresses in E, and no other, are mapped to what is not the allocator's *)
Uses(M, r, E) == \A va \in VAs : Look(M, r, va).v /\ Look(M, r, va).ppn \in Foreign <=> va \in E

Steady(M, R) == R[User] # Null => Uses(M, R[User], {TRAMPOLINE, TRAPFRAME})

Building(M, R, n, cs, o) ==
    /\ n = User /\ o = Null
    /\ \/ cs = proc_pagetable /\ R[User] = Null
       \/ /\ R[User] # Null /\ cs = <<MapTrampoline, MapTrapframe>> /\ Uses(M, R[User], {})
          /\ ~Look(M, R[User], TRAMPOLINE).v /\ ~Look(M, R[User], TRAPFRAME).v
       \/ /\ R[User] # Null /\ cs = <<MapTrapframe>> /\ Uses(M, R[User], {TRAMPOLINE})
          /\ ~Look(M, R[User], TRAPFRAME).v

Mapping(M, R, n, cs, o) ==
    \E m \in Maps(n) :
        /\ cs = <<MapCall(m[1], m[2], m[3])>> /\ R[n] # Null /\ ~Look(M, R[n], m[1]).v
        /\ Steady(M, R) /\ (m[2] # Null => o = Null)

Freeing(M, R, n, cs, o) ==
    /\ n = User /\ o = Null /\ R[User] # Null
    /\ \/ cs = proc_freepagetable /\ Uses(M, R[User], {TRAMPOLINE, TRAPFRAME})
       \/ cs = <<UnmapCall(TRAPFRAME), DestroyCall>> /\ Uses(M, R[User], {TRAPFRAME})
       \/ cs = <<DestroyCall>> /\ Uses(M, R[User], {})

Stage(M, R, n, cs, o) ==
    \/ cs = <<>> /\ o = Null /\ Steady(M, R)
    \/ cs = <<CreateCall>> /\ n = Kernel /\ o = Null /\ R[Kernel] = Null /\ R[User] = Null
    \/ Building(M, R, n, cs, o) \/ Mapping(M, R, n, cs, o) \/ Freeing(M, R, n, cs, o)

LEMMA Lists ==
    /\ \A a : <<a>> # <<>> /\ Head(<<a>>) = a /\ Tail(<<a>>) = <<>>
    /\ \A a, b : <<a, b>> # <<>> /\ Head(<<a, b>>) = a /\ Tail(<<a, b>>) = <<b>>
    /\ \A a, b, c : <<a, b, c>> # <<>> /\ Head(<<a, b, c>>) = a /\ Tail(<<a, b, c>>) = <<b, c>>
  OBVIOUS

LEMMA Calls ==
    /\ CreateCall.f = "create" /\ DestroyCall.f = "destroy"
    /\ \A va : UnmapCall(va).f = "unmap" /\ UnmapCall(va).va = va
    /\ \A va, pa, perm : /\ MapCall(va, pa, perm).f = "map" /\ MapCall(va, pa, perm).va = va
                         /\ MapCall(va, pa, perm).pa = pa /\ MapCall(va, pa, perm).perm = perm
  BY DEF CreateCall, DestroyCall, UnmapCall, MapCall

(* the mappings a caller asks for *)
LEMMA MapsOf ==
    ASSUME NEW n \in Tables, NEW m \in Maps(n)
    PROVE  m[1] \in VAs /\ m[2] \in Foreign \cup {Null} /\ m[3] \in Perms /\ (n = User => m[2] = Null)
<1>1. CASE n = Kernel
  <2>1. m \in VAs \X (Foreign \cup {Null}) \X Perms
    BY <1>1, MapsAssumption DEF Maps
  <2>. QED
    BY <1>1, <2>1, PageTableAssumption
<1>2. CASE n # Kernel
  <2>1. m \in VAs \X {Null} \X Perms
    BY <1>2, MapsAssumption DEF Maps
  <2>. QED
    BY <2>1
<1>. QED
  BY <1>1, <1>2

(* a stage depends on memory only through what walk_lookup() finds *)
LEMMA KeepStage ==
    ASSUME NEW M, NEW N, NEW R, NEW n \in Tables, NEW cs, NEW o, Stage(M, R, n, cs, o),
           Keeps(M, N, R)
    PROVE  Stage(N, R, n, cs, o)
<1>0. User \in Tables /\ TRAMPOLINE \in VAs /\ TRAPFRAME \in VAs
  BY PageTableAssumption DEF Tables
<1>1. ASSUME NEW E, R[User] # Null, Uses(M, R[User], E) PROVE Uses(N, R[User], E)
  BY <1>0, <1>1 DEF Uses, Keeps
<1>2. Steady(M, R) => Steady(N, R)
  BY <1>1 DEF Steady
<1>3. Building(M, R, n, cs, o) => Building(N, R, n, cs, o)
  BY <1>0, <1>1 DEF Building, Keeps
<1>4. Freeing(M, R, n, cs, o) => Freeing(N, R, n, cs, o)
  BY <1>1 DEF Freeing
<1>5. Mapping(M, R, n, cs, o) => Mapping(N, R, n, cs, o)
  <2>. SUFFICES ASSUME NEW m \in Maps(n), cs = <<MapCall(m[1], m[2], m[3])>>, R[n] # Null,
                       ~Look(M, R[n], m[1]).v, Steady(M, R), m[2] # Null => o = Null
                PROVE  Mapping(N, R, n, cs, o)
    BY DEF Mapping
  <2>1. ~Look(N, R[n], m[1]).v
    BY MapsOf DEF Keeps
  <2>. QED
    BY <1>2, <2>1 DEF Mapping
<1>. QED
  BY <1>2, <1>3, <1>4, <1>5 DEF Stage

(* what map_page() is called with *)
LEMMA MapHead ==
    ASSUME NEW M, NEW R, NEW n \in Tables, NEW cs, NEW o, Stage(M, R, n, cs, o), cs # <<>>, Head(cs).f = "map"
    PROVE  /\ R[n] # Null /\ Head(cs).va \in VAs /\ ~Look(M, R[n], Head(cs).va).v
           /\ Head(cs).pa \in Foreign \cup {Null} /\ Head(cs).perm \in Perms
           /\ Head(cs).pa # Null => o = Null
<1>1. CASE Mapping(M, R, n, cs, o)
  <2>1. PICK m \in Maps(n) : /\ cs = <<MapCall(m[1], m[2], m[3])>> /\ R[n] # Null /\ ~Look(M, R[n], m[1]).v
                             /\ m[2] # Null => o = Null
    BY <1>1 DEF Mapping
  <2>2. Head(cs).va = m[1] /\ Head(cs).pa = m[2] /\ Head(cs).perm = m[3]
    BY <2>1, Lists, Calls
  <2>. QED
    BY <2>1, <2>2, MapsOf
<1>2. ASSUME n = User, o = Null, R[User] # Null, NEW va \in {TRAMPOLINE, TRAPFRAME}, ~Look(M, R[User], va).v,
             NEW pa \in {trampoline, PageOne}, NEW perm \in Perms, Head(cs) = MapCall(va, pa, perm)
      PROVE  /\ R[n] # Null /\ Head(cs).va \in VAs /\ ~Look(M, R[n], Head(cs).va).v
             /\ Head(cs).pa \in Foreign \cup {Null} /\ Head(cs).perm \in Perms
             /\ Head(cs).pa # Null => o = Null
  BY <1>2, Calls, PageTableAssumption
<1>3. CASE Building(M, R, n, cs, o)
  <2>1. CASE cs = proc_pagetable
    BY <2>1, Lists, Calls DEF proc_pagetable
  <2>2. CASE cs = <<MapTrampoline, MapTrapframe>> /\ R[User] # Null /\ ~Look(M, R[User], TRAMPOLINE).v
    <3>1. Head(cs) = MapCall(TRAMPOLINE, trampoline, {"R", "X"}) /\ {"R", "X"} \in Perms
      BY <2>2, Lists DEF MapTrampoline, Perms
    <3>2. n = User /\ o = Null
      BY <1>3 DEF Building
    <3>. QED
      BY <1>2, <2>2, <3>1, <3>2
  <2>3. CASE cs = <<MapTrapframe>> /\ R[User] # Null /\ ~Look(M, R[User], TRAPFRAME).v
    <3>1. Head(cs) = MapCall(TRAPFRAME, PageOne, {"R", "W"}) /\ {"R", "W"} \in Perms
      BY <2>3, Lists DEF MapTrapframe, Perms
    <3>2. n = User /\ o = Null
      BY <1>3 DEF Building
    <3>. QED
      BY <1>2, <2>3, <3>1, <3>2
  <2>. QED
    BY <1>3, <2>1, <2>2, <2>3 DEF Building
<1>4. CASE Freeing(M, R, n, cs, o)
  BY <1>4, Lists, Calls DEF Freeing, proc_freepagetable
<1>5. CASE cs = <<CreateCall>>
  BY <1>5, Lists, Calls
<1>. QED
  BY <1>1, <1>3, <1>4, <1>5 DEF Stage

(* map_page() returns *)
LEMMA MapStage ==
    ASSUME NEW M, NEW N, NEW R, NEW n \in Tables, NEW cs, NEW o, Stage(M, R, n, cs, o), cs # <<>>, Head(cs).f = "map",
           NEW g, g = IF Head(cs).pa = Null THEN o ELSE Head(cs).pa, Head(cs).pa = Null => o \in Frames,
           Puts(M, N, R, n, Head(cs).va, Entry(g, Head(cs).perm))
    PROVE  Stage(N, R, n, Tail(cs), Null)
<1>0. User \in Tables /\ TRAMPOLINE \in VAs /\ TRAPFRAME \in VAs /\ TRAMPOLINE # TRAPFRAME /\ Frames \cap Foreign = {}
  BY PageTableAssumption DEF Tables
<1>. DEFINE e == Entry(g, Head(cs).perm)
<1>1. e.v /\ e.ppn = g
  BY DEF Entry
<1>. HIDE DEF e
<1>2. \A m \in Tables, va \in VAs : R[m] # Null =>
        Look(N, R[m], va) = IF m = n /\ va = Head(cs).va THEN e ELSE Look(M, R[m], va)
  BY DEF e, Puts
<1>3. CASE Mapping(M, R, n, cs, o)
  <2>1. PICK m \in Maps(n) : /\ cs = <<MapCall(m[1], m[2], m[3])>> /\ R[n] # Null /\ ~Look(M, R[n], m[1]).v
                             /\ Steady(M, R)
    BY <1>3 DEF Mapping
  <2>2. Head(cs).va = m[1] /\ Head(cs).pa = m[2] /\ Tail(cs) = <<>>
    BY <2>1, Lists, Calls
  <2>3. Steady(N, R)
    <3>. SUFFICES ASSUME R[User] # Null, NEW va \in VAs
                  PROVE  Look(N, R[User], va).v /\ Look(N, R[User], va).ppn \in Foreign
                           <=> va \in {TRAMPOLINE, TRAPFRAME}
      BY DEF Steady, Uses
    <3>1. Look(M, R[User], va).v /\ Look(M, R[User], va).ppn \in Foreign <=> va \in {TRAMPOLINE, TRAPFRAME}
      BY <2>1 DEF Steady, Uses
    <3>2. CASE User = n /\ va = Head(cs).va
      <4>1. g \in Frames
        BY <2>2, <3>2, MapsOf
      <4>2. Look(N, R[User], va) = e
        BY <1>0, <1>2, <3>2
      <4>3. ~Look(M, R[User], va).v
        BY <2>1, <2>2, <3>2
      <4>. QED
        BY <1>0, <1>1, <3>1, <4>1, <4>2, <4>3
    <3>3. CASE ~(User = n /\ va = Head(cs).va)
      BY <1>0, <1>2, <3>1, <3>3
    <3>. QED
      BY <3>2, <3>3
  <2>. QED
    BY <2>2, <2>3 DEF Stage
<1>4. CASE Building(M, R, n, cs, o)
  <2>0. n = User
    BY <1>4 DEF Building
  <2>1. CASE cs = proc_pagetable
    BY <2>1, Lists, Calls DEF proc_pagetable
  <2>2. CASE /\ cs = <<MapTrampoline, MapTrapframe>> /\ R[User] # Null /\ Uses(M, R[User], {})
             /\ ~Look(M, R[User], TRAPFRAME).v
    <3>1. Head(cs).va = TRAMPOLINE /\ Head(cs).pa = trampoline /\ Tail(cs) = <<MapTrapframe>>
      BY <2>2, Lists, Calls DEF MapTrampoline
    <3>2. g \in Foreign
      BY <3>1, PageTableAssumption DEF Targets
    <3>3. Look(N, R[User], TRAMPOLINE) = e
      BY <1>0, <1>2, <2>0, <2>2, <3>1
    <3>4. \A va \in VAs : va # TRAMPOLINE => Look(N, R[User], va) = Look(M, R[User], va)
      BY <1>0, <1>2, <2>2, <3>1
    <3>5. Uses(N, R[User], {TRAMPOLINE})
      BY <1>1, <2>2, <3>2, <3>3, <3>4 DEF Uses
    <3>6. ~Look(N, R[User], TRAPFRAME).v
      BY <1>0, <2>2, <3>4
    <3>. QED
      BY <2>0, <2>2, <3>1, <3>5, <3>6 DEF Stage, Building
  <2>3. CASE cs = <<MapTrapframe>> /\ R[User] # Null /\ Uses(M, R[User], {TRAMPOLINE})
    <3>1. Head(cs).va = TRAPFRAME /\ Head(cs).pa = PageOne /\ Tail(cs) = <<>>
      BY <2>3, Lists, Calls DEF MapTrapframe
    <3>2. g \in Foreign
      BY <3>1, PageTableAssumption DEF Targets
    <3>3. Look(N, R[User], TRAPFRAME) = e
      BY <1>0, <1>2, <2>0, <2>3, <3>1
    <3>4. \A va \in VAs : va # TRAPFRAME => Look(N, R[User], va) = Look(M, R[User], va)
      BY <1>0, <1>2, <2>3, <3>1
    <3>5. Uses(N, R[User], {TRAMPOLINE, TRAPFRAME})
      BY <1>1, <2>3, <3>2, <3>3, <3>4 DEF Uses
    <3>. QED
      BY <3>1, <3>5 DEF Stage, Steady
  <2>. QED
    BY <1>4, <2>1, <2>2, <2>3 DEF Building
<1>5. CASE Freeing(M, R, n, cs, o)
  BY <1>5, Lists, Calls DEF Freeing, proc_freepagetable
<1>6. CASE cs = <<CreateCall>>
  BY <1>6, Lists, Calls
<1>. QED
  BY <1>3, <1>4, <1>5, <1>6 DEF Stage

(* create_pagetable() is called and returns *)
AfterCreate(R, n, cs) ==
    /\ n = Kernel => R[User] = Null /\ cs = <<>>
    /\ n = User => cs = <<MapTrampoline, MapTrapframe>>

LEMMA CreateHead ==
    ASSUME NEW M, NEW R, NEW n \in Tables, NEW cs, NEW o, Stage(M, R, n, cs, o), cs # <<>>, Head(cs).f = "create"
    PROVE  R[n] = Null /\ o = Null /\ AfterCreate(R, n, Tail(cs))
<1>1. ~Mapping(M, R, n, cs, o)
  <2>1. ASSUME NEW m, cs = <<MapCall(m[1], m[2], m[3])>> PROVE FALSE
    BY <2>1, Lists, Calls
  <2>. QED
    BY <2>1 DEF Mapping
<1>2. ~Freeing(M, R, n, cs, o)
  BY Lists, Calls DEF Freeing, proc_freepagetable
<1>3. CASE Building(M, R, n, cs, o)
  <2>1. cs # <<MapTrampoline, MapTrapframe>> /\ cs # <<MapTrapframe>>
    BY Lists, Calls DEF MapTrampoline, MapTrapframe
  <2>2. cs = proc_pagetable /\ R[User] = Null /\ n = User /\ o = Null
    BY <1>3, <2>1 DEF Building
  <2>. QED
    BY <2>2, Lists, PageTableAssumption DEF AfterCreate, proc_pagetable, MapTrampoline, MapTrapframe
<1>. QED
  BY <1>1, <1>2, <1>3, Lists, PageTableAssumption DEF Stage, AfterCreate

LEMMA CreateStage ==
    ASSUME NEW M, NEW N, NEW R, NEW S, NEW n \in Tables, NEW cs, NEW o, Stage(M, R, n, cs, o), cs # <<>>,
           Head(cs).f = "create", S[n] # Null, \A va \in VAs : Look(N, S[n], va) = Invalid,
           \A m \in Tables : m # n => S[m] = R[m]
    PROVE  Stage(N, S, n, Tail(cs), o)
<1>0. /\ R[n] = Null /\ o = Null
      /\ n = Kernel => R[User] = Null /\ Tail(cs) = <<>>
      /\ n = User => Tail(cs) = <<MapTrampoline, MapTrapframe>>
  BY CreateHead DEF AfterCreate
<1>1. CASE n = Kernel /\ R[User] = Null /\ Tail(cs) = <<>>
  <2>1. S[User] = Null
    BY <1>1, PageTableAssumption DEF Tables
  <2>. QED
    BY <1>0, <1>1, <2>1 DEF Stage, Steady
<1>2. CASE n = User /\ Tail(cs) = <<MapTrampoline, MapTrapframe>>
  <2>1. \A va \in VAs : ~Look(N, S[User], va).v
    BY <1>2, Entries
  <2>2. Uses(N, S[User], {})
    BY <2>1 DEF Uses
  <2>. QED
    BY <1>0, <1>2, <2>1, <2>2, PageTableAssumption DEF Stage, Building
<1>. QED
  BY <1>0, <1>1, <1>2 DEF Tables

(* unmap_page() is called and returns *)
LEMMA UnmapStage ==
    ASSUME NEW M, NEW R, NEW n \in Tables, NEW cs, NEW o, Stage(M, R, n, cs, o), cs # <<>>, Head(cs).f = "unmap"
    PROVE  /\ R[n] # Null /\ Head(cs).va \in VAs
           /\ Look(M, R[n], Head(cs).va).v /\ Look(M, R[n], Head(cs).va).ppn \in Foreign
           /\ \A N : Puts(M, N, R, n, Head(cs).va, Invalid) => Stage(N, R, n, Tail(cs), o)
<1>0. User \in Tables /\ TRAMPOLINE \in VAs /\ TRAPFRAME \in VAs /\ TRAMPOLINE # TRAPFRAME
  BY PageTableAssumption DEF Tables
<1>1. ~Mapping(M, R, n, cs, o)
  <2>1. ASSUME NEW m, cs = <<MapCall(m[1], m[2], m[3])>> PROVE FALSE
    BY <2>1, Lists, Calls
  <2>. QED
    BY <2>1 DEF Mapping
<1>2. ~Building(M, R, n, cs, o)
  BY Lists, Calls DEF Building, proc_pagetable, MapTrampoline, MapTrapframe
<1>3. cs # <<CreateCall>>
  BY Lists, Calls
<1>4. Freeing(M, R, n, cs, o)
  BY <1>1, <1>2, <1>3 DEF Stage
<1>5. n = User /\ o = Null /\ R[User] # Null
  BY <1>4 DEF Freeing
<1>6. CASE cs = proc_freepagetable /\ Uses(M, R[User], {TRAMPOLINE, TRAPFRAME})
  <2>1. Head(cs).va = TRAMPOLINE /\ Tail(cs) = <<UnmapCall(TRAPFRAME), DestroyCall>>
    BY <1>6, Lists, Calls DEF proc_freepagetable
  <2>2. Look(M, R[User], TRAMPOLINE).v /\ Look(M, R[User], TRAMPOLINE).ppn \in Foreign
    BY <1>0, <1>6 DEF Uses
  <2>3. ASSUME NEW N, Puts(M, N, R, n, Head(cs).va, Invalid)
        PROVE  Stage(N, R, n, Tail(cs), o)
    <3>1. ~Look(N, R[User], TRAMPOLINE).v
      BY <1>0, <1>5, <2>1, <2>3, Entries DEF Puts
    <3>2. \A va \in VAs : va # TRAMPOLINE => Look(N, R[User], va) = Look(M, R[User], va)
      BY <1>0, <1>5, <2>1, <2>3 DEF Puts
    <3>3. Uses(N, R[User], {TRAPFRAME})
      BY <1>0, <1>6, <3>1, <3>2 DEF Uses
    <3>. QED
      BY <1>5, <2>1, <3>3 DEF Stage, Freeing
  <2>. QED
    BY <1>0, <1>5, <2>1, <2>2, <2>3
<1>7. CASE cs = <<UnmapCall(TRAPFRAME), DestroyCall>> /\ Uses(M, R[User], {TRAPFRAME})
  <2>1. Head(cs).va = TRAPFRAME /\ Tail(cs) = <<DestroyCall>>
    BY <1>7, Lists, Calls
  <2>2. Look(M, R[User], TRAPFRAME).v /\ Look(M, R[User], TRAPFRAME).ppn \in Foreign
    BY <1>0, <1>7 DEF Uses
  <2>3. ASSUME NEW N, Puts(M, N, R, n, Head(cs).va, Invalid)
        PROVE  Stage(N, R, n, Tail(cs), o)
    <3>1. ~Look(N, R[User], TRAPFRAME).v
      BY <1>0, <1>5, <2>1, <2>3, Entries DEF Puts
    <3>2. \A va \in VAs : va # TRAPFRAME => Look(N, R[User], va) = Look(M, R[User], va)
      BY <1>0, <1>5, <2>1, <2>3 DEF Puts
    <3>3. Uses(N, R[User], {})
      BY <1>0, <1>7, <3>1, <3>2 DEF Uses
    <3>. QED
      BY <1>5, <2>1, <3>3 DEF Stage, Freeing
  <2>. QED
    BY <1>0, <1>5, <2>1, <2>2, <2>3
<1>8. CASE cs = <<DestroyCall>>
  BY <1>8, Lists, Calls
<1>. QED
  BY <1>4, <1>6, <1>7, <1>8 DEF Freeing

(* destroy_pagetable() is called *)
LEMMA DestroyHead ==
    ASSUME NEW M, NEW R, NEW n \in Tables, NEW cs, NEW o, Stage(M, R, n, cs, o), cs # <<>>, Head(cs).f = "destroy"
    PROVE  n = User /\ R[User] # Null /\ Uses(M, R[User], {}) /\ Tail(cs) = <<>> /\ o = Null
<1>1. ~Mapping(M, R, n, cs, o)
  <2>1. ASSUME NEW m, cs = <<MapCall(m[1], m[2], m[3])>> PROVE FALSE
    BY <2>1, Lists, Calls
  <2>. QED
    BY <2>1 DEF Mapping
<1>2. ~Building(M, R, n, cs, o)
  BY Lists, Calls DEF Building, proc_pagetable, MapTrampoline, MapTrapframe
<1>3. cs # <<CreateCall>>
  BY Lists, Calls
<1>4. Freeing(M, R, n, cs, o)
  BY <1>1, <1>2, <1>3 DEF Stage
<1>5. cs # proc_freepagetable /\ cs # <<UnmapCall(TRAPFRAME), DestroyCall>>
  BY Lists, Calls DEF proc_freepagetable
<1>. QED
  BY <1>4, <1>5, Lists DEF Freeing

-----------------------------------------------------------------------------
(* The inductive invariant *)

InHand == {new, own} \ {Null}

Shape == \E k, t, u, x : Tree(mem, root, free, InHand, k, t, u, x)

Locals ==
    /\ tab \in Tables /\ pc \in {"call", "walk", "clear", "link", "panic"}
    /\ new # Null => pc \in {"clear", "link"} /\ new # own
    /\ pc \in {"walk", "clear", "link"} =>
         /\ calls # <<>> /\ Head(calls).f = "map" /\ (Head(calls).pa = Null => own # Null)
         /\ OnPath(mem, root[tab], Head(calls).va, level, pt)
    /\ pc \in {"clear", "link"} => new # Null /\ level # 0 /\ ~mem[pt][pteIdx].v
    /\ pc = "link" => mem[new] = Clear

Inv == Shape /\ Stage(mem, root, tab, calls, own) /\ Locals

(* what the hardware sees of table n at va, by walk_lookup() *)
View(M, R, n, va) ==
    IF R[n] = Null THEN Null
    ELSE IF Look(M, R[n], va).v THEN <<Look(M, R[n], va).ppn, Look(M, R[n], va).perm>> ELSE Null

Same == \A n \in Tables, va \in VAs : View(mem', root', n, va) = View(mem, root, n, va)

LEMMA Lookups ==
    ASSUME NEW n \in Tables, NEW va \in VAs
    PROVE  Lookup(n, va) = Look(mem, root[n], va)
  BY Index DEF Lookup, Look

LEMMA Hands ==
    ASSUME Inv
    PROVE  /\ new # Null => new \in InHand /\ new \in Frames
           /\ own # Null => own \in InHand /\ own \in Frames
           /\ InHand \subseteq Frames /\ root \in [Tables -> Frames \cup {Null}] /\ mem \in Pages
           /\ Null \notin Frames
  BY PageTableAssumption DEF Inv, Shape, Tree, TreeType, InHand, Targets

LEMMA InitInv == Init => Inv
<1>. SUFFICES ASSUME Init PROVE Inv
  OBVIOUS
<1>1. /\ free = Frames /\ mem = [p \in Frames |-> Junk] /\ root = [n \in Tables |-> Null]
      /\ tab = Kernel /\ calls = <<CreateCall>> /\ pc = "call" /\ new = Null /\ own = Null
  BY DEF Init
<1>. DEFINE k == [p \in Frames |-> Free]
            t == [p \in Frames |-> Kernel]
            u == [p \in Frames |-> p]
            x == [p \in Frames |-> TRAMPOLINE[1]]
<1>2. Tree(mem, root, free, InHand, k, t, u, x)
  <2>1. InHand = {} /\ Kernel \in Tables /\ User \in Tables /\ TRAMPOLINE[1] \in Idx
    BY <1>1, Index, PageTableAssumption DEF InHand, Tables
  <2>2. TreeType(mem, root, free, InHand, k, t, u, x)
    BY <1>1, <2>1, Entries, Numbers DEF TreeType, Pages
  <2>3. \A p \in Frames : k[p] = Free
    OBVIOUS
  <2>. HIDE DEF k
  <2>4. \A n \in Tables : root[n] = Null
    BY <1>1
  <2>5. TreeUse(root, free, InHand, k, t)
    BY <1>1, <2>1, <2>3, <2>4, Numbers DEF TreeUse
  <2>6. TreeUp(mem, k, t, u, x) /\ TreeDown(mem, k, t, u, x)
    BY <2>3, Numbers DEF TreeUp, TreeDown
  <2>. QED
    BY <2>2, <2>5, <2>6 DEF Tree
<1>3. Shape
  BY <1>2 DEF Shape
<1>4. Stage(mem, root, tab, calls, own)
  BY <1>1, PageTableAssumption DEF Stage, Tables
<1>5. Locals
  BY <1>1 DEF Locals, Tables
<1>. QED
  BY <1>3, <1>4, <1>5 DEF Inv

(* steps that store nothing *)
LEMMA QuietShape ==
    ASSUME Shape, UNCHANGED <<free, mem, root, new, own>>
    PROVE  Shape' /\ Same
<1>1. Shape'
  <2>1. PICK k, t, u, x : Tree(mem, root, free, InHand, k, t, u, x)
    BY DEF Shape
  <2>2. mem' = mem /\ root' = root /\ free' = free /\ InHand' = InHand
    BY DEF InHand
  <2>3. Tree(mem', root', free', InHand', k, t, u, x)
    BY <2>1, <2>2
  <2>. QED
    BY <2>3 DEF Shape
<1>2. Same
  BY DEF Same
<1>. QED
  BY <1>1, <1>2

LEMMA FailStep ==
    ASSUME Inv, AllocFails, new = Null
    PROVE  Inv' /\ Same
<1>1. /\ free' = free /\ mem' = mem /\ root' = root /\ tab' = tab /\ calls' = calls /\ new' = new
      /\ own' = own /\ pc' = "panic"
  BY DEF AllocFails, walkVars
<1>2. Shape' /\ Same
  BY <1>1, QuietShape DEF Inv
<1>3. Stage(mem', root', tab', calls', own')
  BY <1>1 DEF Inv
<1>4. Locals'
  BY <1>1 DEF Inv, Locals
<1>. QED
  BY <1>2, <1>3, <1>4 DEF Inv

(* a caller begins a script *)
LEMMA BeginStep ==
    ASSUME Inv, NEW n \in Tables, NEW cs, Begin(n, cs), Stage(mem, root, n, cs, own)
    PROVE  Inv' /\ Same
<1>1. /\ free' = free /\ mem' = mem /\ root' = root /\ tab' = n /\ calls' = cs /\ new' = new
      /\ own' = own /\ pc' = pc /\ pc = "call"
  BY DEF Begin, Idle, walkVars
<1>2. Shape' /\ Same
  BY <1>1, QuietShape DEF Inv
<1>3. Stage(mem', root', tab', calls', own')
  BY <1>1 DEF Inv
<1>4. Locals'
  BY <1>1 DEF Inv, Locals
<1>. QED
  BY <1>2, <1>3, <1>4 DEF Inv

LEMMA IdleStage ==
    ASSUME Inv, Idle
    PROVE  own = Null /\ Steady(mem, root)
<1>1. calls = <<>> /\ Stage(mem, root, tab, calls, own)
  BY DEF Inv, Idle
<1>2. ~Building(mem, root, tab, calls, own) /\ ~Freeing(mem, root, tab, calls, own)
  BY <1>1, Lists DEF Building, Freeing, proc_pagetable, proc_freepagetable
<1>3. ~Mapping(mem, root, tab, calls, own)
  BY <1>1, Lists DEF Mapping
<1>. QED
  BY <1>1, <1>2, <1>3, Lists DEF Stage

LEMMA CallerStep ==
    ASSUME Inv, NewProcess \/ ReapProcess \/ \E n \in Tables : \E m \in Maps(n) : MapMore(n, m)
    PROVE  Inv' /\ Same
<1>0. User \in Tables
  BY DEF Tables
<1>1. CASE NewProcess
  <2>1. Begin(User, proc_pagetable) /\ root[User] = Null /\ Idle
    BY <1>1 DEF NewProcess, Begin
  <2>2. Stage(mem, root, User, proc_pagetable, own)
    BY <2>1, IdleStage DEF Stage, Building
  <2>. QED
    BY <1>0, <2>1, <2>2, BeginStep
<1>2. CASE ReapProcess
  <2>1. Begin(User, proc_freepagetable) /\ root[User] # Null /\ Idle
    BY <1>2 DEF ReapProcess, Begin
  <2>2. Stage(mem, root, User, proc_freepagetable, own)
    BY <2>1, IdleStage DEF Stage, Freeing, Steady
  <2>. QED
    BY <1>0, <2>1, <2>2, BeginStep
<1>3. ASSUME NEW n \in Tables, NEW m \in Maps(n), MapMore(n, m) PROVE Inv' /\ Same
  <2>1. Begin(n, <<MapCall(m[1], m[2], m[3])>>) /\ root[n] # Null /\ ~Lookup(n, m[1]).v /\ Idle
    BY <1>3 DEF MapMore, Begin
  <2>2. ~Look(mem, root[n], m[1]).v
    BY <2>1, MapsOf, Lookups
  <2>3. Stage(mem, root, n, <<MapCall(m[1], m[2], m[3])>>, own)
    BY <2>1, <2>2, IdleStage DEF Stage, Mapping
  <2>. QED
    BY <2>1, <2>3, BeginStep
<1>. QED
  BY <1>1, <1>2, <1>3

-----------------------------------------------------------------------------
(* walk_create() *)

(* the call in progress and the table the walk is at *)
LEMMA Walking ==
    ASSUME Inv, pc \in {"walk", "clear", "link"}, NEW k, NEW t, NEW u, NEW x,
           Tree(mem, root, free, InHand, k, t, u, x)
    PROVE  /\ tab \in Tables /\ root[tab] # Null /\ Head(calls).va \in VAs
           /\ OnPath(mem, root[tab], Head(calls).va, level, pt) /\ level \in {2, 1, 0}
           /\ pt \in Frames /\ k[pt] = level /\ t[pt] = tab /\ pteIdx \in Idx
           /\ level = 0 => LastOf(pt, tab, Head(calls).va, k, t, u, x)
<1>1. /\ tab \in Tables /\ calls # <<>> /\ Head(calls).f = "map" /\ Stage(mem, root, tab, calls, own)
      /\ OnPath(mem, root[tab], Head(calls).va, level, pt)
  BY DEF Inv, Locals
<1>2. root[tab] # Null /\ Head(calls).va \in VAs
  BY <1>1, MapHead
<1>3. /\ level \in {2, 1, 0} /\ pt \in Frames /\ k[pt] = level /\ t[pt] = tab
      /\ level = 0 => LastOf(pt, tab, Head(calls).va, k, t, u, x)
  <2>. DEFINE va == Head(calls).va
  <2>1. tab \in Tables /\ root[tab] # Null /\ va \in VAs /\ OnPath(mem, root[tab], va, level, pt)
    BY <1>1, <1>2
  <2>. HIDE DEF va
  <2>2. /\ level \in {2, 1, 0} /\ pt \in Frames /\ k[pt] = level /\ t[pt] = tab
        /\ level = 0 => LastOf(pt, tab, va, k, t, u, x)
    BY <2>1, PathPage
  <2>. QED
    BY <2>2 DEF va
<1>4. pteIdx \in Idx
  BY <1>2, <1>3, Index DEF pteIdx
<1>. QED
  BY <1>1, <1>2, <1>3, <1>4

(* views agree when lookups do *)
LEMMA SameLooks ==
    ASSUME root' = root, Keeps(mem, mem', root)
    PROVE  Same
<1>. SUFFICES ASSUME NEW n \in Tables, NEW va \in VAs PROVE View(mem', root', n, va) = View(mem, root, n, va)
  BY DEF Same
<1>1. CASE root[n] = Null
  BY <1>1 DEF View
<1>2. CASE root[n] # Null
  <2>1. Look(mem', root[n], va) = Look(mem, root[n], va)
    BY <1>2 DEF Keeps
  <2>. QED
    BY <1>2, <2>1 DEF View
<1>. QED
  BY <1>1, <1>2

LEMMA WalkStartStep ==
    ASSUME Inv, WalkStart
    PROVE  Inv' /\ Same
<1>1. /\ free' = free /\ mem' = mem /\ root' = root /\ tab' = tab /\ calls' = calls /\ new' = new
      /\ own' = own /\ pc = "call" /\ pc' = "walk" /\ pt' = root[tab] /\ level' = 2
      /\ calls # <<>> /\ Head(calls).f = "map" /\ (Head(calls).pa = Null => own # Null)
  BY DEF WalkStart, Doing
<1>2. Shape' /\ Same
  BY <1>1, QuietShape DEF Inv
<1>3. Stage(mem', root', tab', calls', own')
  BY <1>1 DEF Inv
<1>4. OnPath(mem', root'[tab'], Head(calls').va, level', pt')
  BY <1>1 DEF OnPath
<1>5. Locals'
  BY <1>1, <1>4 DEF Inv, Locals
<1>. QED
  BY <1>2, <1>3, <1>5 DEF Inv

LEMMA WalkDownStep ==
    ASSUME Inv, WalkDown
    PROVE  Inv' /\ Same
<1>1. /\ free' = free /\ mem' = mem /\ root' = root /\ tab' = tab /\ calls' = calls /\ new' = new
      /\ own' = own /\ pc = "walk" /\ pc' = "walk" /\ pt' = mem[pt][pteIdx].ppn /\ level' = level - 1
      /\ level > 0 /\ mem[pt][pteIdx].v
  BY DEF WalkDown
<1>2. Shape' /\ Same
  BY <1>1, QuietShape DEF Inv
<1>3. Stage(mem', root', tab', calls', own')
  BY <1>1 DEF Inv
<1>4. OnPath(mem', root'[tab'], Head(calls').va, level', pt')
  <2>1. PICK k, t, u, x : Tree(mem, root, free, InHand, k, t, u, x)
    BY DEF Inv, Shape
  <2>2. Head(calls).va \in VAs /\ OnPath(mem, root[tab], Head(calls).va, level, pt) /\ level \in {2, 1, 0}
    BY <1>1, <2>1, Walking
  <2>3. level \in {2, 1} /\ mem[pt][VPN(Head(calls).va, level)].v
    BY <1>1, <2>2 DEF pteIdx
  <2>4. OnPath(mem, root[tab], Head(calls).va, level - 1, mem[pt][VPN(Head(calls).va, level)].ppn)
    BY <2>2, <2>3, PathStep
  <2>. QED
    BY <1>1, <2>4 DEF pteIdx
<1>5. Locals'
  BY <1>1, <1>4 DEF Inv, Locals
<1>. QED
  BY <1>2, <1>3, <1>5 DEF Inv

(* alloc_page() *)
LEMMA Allocated ==
    ASSUME Inv, new = Null, NEW c \in [Idx -> PTEs], Alloc(c), root' = root
    PROVE  /\ Fresh \in Frames /\ Fresh # Null /\ Fresh # own /\ Fresh \in free /\ mem'[Fresh] = c
           /\ Keeps(mem, mem', root)
           /\ \A k, t, u, x : Tree(mem, root, free, InHand, k, t, u, x) =>
                /\ \E l : Tree(mem', root', free', InHand \cup {Fresh}, l, t, u, x)
                /\ \A p \in Frames : k[p] \in {2, 1, 0} => p # Fresh /\ mem'[p] = mem[p]
<1>1. Fresh \in free /\ free' = free \ {Fresh} /\ mem' = Fill(mem, Fresh, c)
  BY DEF Alloc, Fresh, Fill
<1>2. ASSUME NEW k, NEW t, NEW u, NEW x, Tree(mem, root, free, InHand, k, t, u, x)
      PROVE  /\ Fresh \in Frames /\ Fresh # Null /\ Fresh # own /\ mem'[Fresh] = c
             /\ Keeps(mem, mem', root)
             /\ \E l : Tree(mem', root', free', InHand \cup {Fresh}, l, t, u, x)
             /\ \A p \in Frames : k[p] \in {2, 1, 0} => p # Fresh /\ mem'[p] = mem[p]
  <2>1. Fresh \in free \cup InHand
    BY <1>1
  <2>2. /\ \E l : Tree(Fill(mem, Fresh, c), root, free \ {Fresh}, InHand \cup {Fresh}, l, t, u, x)
        /\ Keeps(mem, Fill(mem, Fresh, c), root)
    BY <1>2, <2>1, TreeTake
  <2>3. Fresh \in Frames /\ k[Fresh] = Free /\ mem \in Pages
    BY <1>1, <1>2 DEF Tree, TreeType, TreeUse
  <2>4. Fresh # Null
    BY <2>3, Hands
  <2>5. Fresh # own
    <3>1. own # Null => k[own] = Hand
      BY <1>2, Hands DEF Tree, TreeUse
    <3>. QED
      BY <2>3, <2>4, <3>1, Numbers
  <2>6. mem'[Fresh] = c /\ \A p \in Frames : p # Fresh => mem'[p] = mem[p]
    BY <1>1, <2>3 DEF Pages, Fill
  <2>7. \A p \in Frames : k[p] \in {2, 1, 0} => p # Fresh
    BY <2>3, Numbers
  <2>. QED
    BY <1>1, <2>2, <2>3, <2>4, <2>5, <2>6, <2>7
<1>3. PICK k, t, u, x : Tree(mem, root, free, InHand, k, t, u, x)
  BY DEF Inv, Shape
<1>. QED
  BY <1>1, <1>2, <1>3

LEMMA WalkAllocStep ==
    ASSUME Inv, WalkAlloc
    PROVE  Inv' /\ Same
<1>1. /\ root' = root /\ tab' = tab /\ calls' = calls /\ new' = Fresh /\ own' = own
      /\ pc = "walk" /\ pc' = "clear" /\ pt' = pt /\ level' = level
      /\ level > 0 /\ ~mem[pt][pteIdx].v /\ Alloc(Junk)
  BY DEF WalkAlloc
<1>2. new = Null
  BY <1>1 DEF Inv, Locals
<1>3. Junk \in [Idx -> PTEs]
  BY Entries
<1>4. /\ Fresh \in Frames /\ Fresh # Null /\ Fresh # own
      /\ Keeps(mem, mem', root)
      /\ \A k, t, u, x : Tree(mem, root, free, InHand, k, t, u, x) =>
           /\ \E l : Tree(mem', root', free', InHand \cup {Fresh}, l, t, u, x)
           /\ \A p \in Frames : k[p] \in {2, 1, 0} => p # Fresh /\ mem'[p] = mem[p]
  BY <1>1, <1>2, <1>3, Allocated
<1>5. PICK k, t, u, x : Tree(mem, root, free, InHand, k, t, u, x)
  BY DEF Inv, Shape
<1>6. InHand' = InHand \cup {Fresh}
  BY <1>1, <1>2, <1>4 DEF InHand
<1>7. Shape'
  BY <1>4, <1>5, <1>6 DEF Shape
<1>8. Stage(mem', root', tab', calls', own')
  BY <1>1, <1>4, KeepStage DEF Inv, Locals
<1>9. /\ tab \in Tables /\ root[tab] # Null /\ Head(calls).va \in VAs
      /\ OnPath(mem, root[tab], Head(calls).va, level, pt) /\ level \in {2, 1, 0}
      /\ pt \in Frames /\ k[pt] = level
  BY <1>1, <1>5, Walking
<1>10. \A q \in Frames, i \in Idx : k[q] \in {2, 1} /\ mem[q][i].v => mem'[q][i] = mem[q][i]
  BY <1>4, <1>5
<1>11. OnPath(mem', root[tab], Head(calls).va, level, pt)
  BY <1>5, <1>9, <1>10, PathKept
<1>12. ~mem'[pt][pteIdx].v /\ level # 0
  BY <1>1, <1>4, <1>5, <1>9
<1>13. pteIdx' = pteIdx
  BY <1>1 DEF pteIdx
<1>14. Locals'
  BY <1>1, <1>4, <1>11, <1>12, <1>13 DEF Inv, Locals
<1>15. Same
  BY <1>1, <1>4, SameLooks
<1>. QED
  BY <1>7, <1>8, <1>14, <1>15 DEF Inv

LEMMA WalkClearStep ==
    ASSUME Inv, WalkClear
    PROVE  Inv' /\ Same
<1>1. /\ free' = free /\ root' = root /\ tab' = tab /\ calls' = calls /\ new' = new /\ own' = own
      /\ pc = "clear" /\ pc' = "link" /\ pt' = pt /\ level' = level /\ mem' = Fill(mem, new, Clear)
  BY DEF WalkClear, walkVars, Fill
<1>2. new # Null /\ new # own /\ level # 0 /\ ~mem[pt][pteIdx].v
  BY <1>1 DEF Inv, Locals
<1>3. new \in InHand /\ new \in Frames /\ mem \in Pages
  BY <1>2, Hands
<1>4. Clear \in [Idx -> PTEs] /\ mem'[new] = Clear /\ \A q \in Frames : q # new => mem'[q] = mem[q]
  BY <1>1, <1>3, Entries DEF Pages, Fill
<1>5. PICK k, t, u, x : Tree(mem, root, free, InHand, k, t, u, x)
  BY DEF Inv, Shape
<1>6. k[new] = Hand /\ new \notin free
  BY <1>3, <1>5, Numbers DEF Tree, TreeUse
<1>7. /\ \E l : Tree(mem', root, free \ {new}, InHand \cup {new}, l, t, u, x)
      /\ Keeps(mem, mem', root)
  <2>1. new \in free \cup InHand
    BY <1>3
  <2>2. /\ \E l : Tree(Fill(mem, new, Clear), root, free \ {new}, InHand \cup {new}, l, t, u, x)
        /\ Keeps(mem, Fill(mem, new, Clear), root)
    BY <1>4, <1>5, <2>1, TreeTake
  <2>. QED
    BY <1>1, <2>2
<1>8. free \ {new} = free' /\ InHand \cup {new} = InHand'
  BY <1>1, <1>3, <1>6 DEF InHand
<1>9. Shape'
  BY <1>1, <1>7, <1>8 DEF Shape
<1>10. Stage(mem', root', tab', calls', own')
  BY <1>1, <1>7, KeepStage DEF Inv, Locals
<1>11. /\ tab \in Tables /\ root[tab] # Null /\ Head(calls).va \in VAs
       /\ OnPath(mem, root[tab], Head(calls).va, level, pt) /\ level \in {2, 1, 0}
       /\ pt \in Frames /\ k[pt] = level
  BY <1>1, <1>5, Walking
<1>12. \A q \in Frames : k[q] \in {2, 1, 0} => q # new /\ mem'[q] = mem[q]
  BY <1>4, <1>6, Numbers
<1>13. OnPath(mem', root[tab], Head(calls).va, level, pt)
  <2>1. \A q \in Frames, i \in Idx : k[q] \in {2, 1} /\ mem[q][i].v => mem'[q][i] = mem[q][i]
    BY <1>12
  <2>. QED
    BY <1>5, <1>11, <2>1, PathKept
<1>14. ~mem'[pt][pteIdx].v /\ pteIdx' = pteIdx
  BY <1>1, <1>2, <1>11, <1>12 DEF pteIdx
<1>15. Locals'
  BY <1>1, <1>2, <1>4, <1>13, <1>14 DEF Inv, Locals
<1>16. Same
  BY <1>1, <1>7, SameLooks
<1>. QED
  BY <1>9, <1>10, <1>15, <1>16 DEF Inv

LEMMA WalkLinkStep ==
    ASSUME Inv, WalkLink
    PROVE  Inv' /\ Same
<1>1. /\ free' = free /\ root' = root /\ tab' = tab /\ calls' = calls /\ new' = Null /\ own' = own
      /\ pc = "link" /\ pc' = "walk" /\ pt' = pt /\ level' = level
      /\ mem' = Set(mem, pt, pteIdx, Entry(new, {}))
  BY DEF WalkLink, Set
<1>2. new # Null /\ new # own /\ level # 0 /\ ~mem[pt][pteIdx].v /\ mem[new] = Clear
  BY <1>1 DEF Inv, Locals
<1>3. new \in InHand /\ new \in Frames /\ mem \in Pages
  BY <1>2, Hands
<1>4. PICK k, t, u, x : Tree(mem, root, free, InHand, k, t, u, x)
  BY DEF Inv, Shape
<1>5. /\ tab \in Tables /\ root[tab] # Null /\ Head(calls).va \in VAs
      /\ OnPath(mem, root[tab], Head(calls).va, level, pt) /\ level \in {2, 1, 0}
      /\ pt \in Frames /\ k[pt] = level /\ pteIdx \in Idx
  BY <1>1, <1>4, Walking
<1>. DEFINE i == pteIdx
            m == {}
<1>. HIDE DEF i, m
<1>6. /\ \E l, s, w, y : Tree(Set(mem, pt, i, Entry(new, m)), root, free, InHand \ {new}, l, s, w, y)
      /\ Stores(mem, Set(mem, pt, i, Entry(new, m)), root, pt, i, Entry(new, m), k, t, u, x)
  <2>1. CanHang(mem, InHand, k, new, pt, i, m)
    BY <1>2, <1>3, <1>5 DEF CanHang, i, m
  <2>. QED
    BY <1>4, <2>1, TreeHang
<1>7. Keeps(mem, mem', root)
  BY <1>1, <1>2, <1>5, <1>6 DEF Stores, IsAt, LastOf, i, m, Keeps
<1>8. InHand \ {new} = InHand'
  BY <1>1, <1>2 DEF InHand
<1>9. Shape'
  BY <1>1, <1>6, <1>8 DEF Shape, i, m
<1>10. Stage(mem', root', tab', calls', own')
  BY <1>1, <1>5, <1>7, KeepStage DEF Inv
<1>11. OnPath(mem', root[tab], Head(calls).va, level, pt)
  <2>1. Entry(new, {}) \in PTEs
    BY <1>3, Entries DEF Targets
  <2>2. /\ (\A j \in Idx : j # pteIdx => mem'[pt][j] = mem[pt][j])
        /\ \A q \in Frames : q # pt => mem'[q] = mem[q]
    BY <1>1, <1>3, <1>5, <2>1, SetPages
  <2>3. \A q \in Frames, j \in Idx : k[q] \in {2, 1} /\ mem[q][j].v => mem'[q][j] = mem[q][j]
    BY <1>2, <2>2
  <2>. QED
    BY <1>4, <1>5, <2>3, PathKept
<1>12. Locals'
  BY <1>1, <1>11 DEF Inv, Locals
<1>13. Same
  BY <1>1, <1>7, SameLooks
<1>. QED
  BY <1>9, <1>10, <1>12, <1>13 DEF Inv

-----------------------------------------------------------------------------
(* create_pagetable(), map_page(), unmap_page() *)

LEMMA CreateStep ==
    ASSUME Inv, Create
    PROVE  Inv' /\ Same
<1>1. /\ root' = SetRoot(root, tab, Fresh) /\ tab' = tab /\ calls' = Tail(calls) /\ new' = new /\ own' = own
      /\ pc = "call" /\ pc' = "call" /\ Alloc(Clear) /\ calls # <<>> /\ Head(calls).f = "create"
  BY DEF Create, Doing, walkVars, SetRoot
<1>2. new = Null /\ tab \in Tables /\ Stage(mem, root, tab, calls, own)
  BY <1>1 DEF Inv, Locals
<1>3. root[tab] = Null /\ own = Null
  BY <1>1, <1>2, CreateHead
<1>4. InHand = {} /\ InHand' = {}
  BY <1>1, <1>2, <1>3 DEF InHand
<1>5. PICK k, t, u, x : Tree(mem, root, free, InHand, k, t, u, x)
  BY DEF Inv, Shape
<1>6. Fresh \in free /\ free' = free \ {Fresh} /\ mem' = Fill(mem, Fresh, Clear)
  BY <1>1 DEF Alloc, Fresh, Fill
<1>7. Fresh \in Frames /\ mem \in Pages /\ Clear \in [Idx -> PTEs] /\ Fresh # Null
  BY <1>5, <1>6, Entries, Hands DEF Tree, TreeType
<1>8. /\ \E l : Tree(Fill(mem, Fresh, Clear), root, free \ {Fresh}, InHand \cup {Fresh}, l, t, u, x)
      /\ Keeps(mem, Fill(mem, Fresh, Clear), root)
  <2>1. Fresh \in free \cup InHand
    BY <1>6
  <2>. QED
    BY <1>5, <1>7, <2>1, TreeTake
<1>. DEFINE N == Fill(mem, Fresh, Clear)
            H == InHand \cup {Fresh}
            F == free \ {Fresh}
<1>9. PICK l : Tree(N, root, F, H, l, t, u, x)
  BY <1>8
<1>10. N[Fresh] = Clear /\ Fresh \in H
  BY <1>7 DEF Pages, Fill
<1>. HIDE DEF N, H, F
<1>11. /\ \E j, s : Tree(N, SetRoot(root, tab, Fresh), F, H \ {Fresh}, j, s, u, x)
       /\ SetRoot(root, tab, Fresh)[tab] = Fresh
       /\ (\A m \in Tables : m # tab => SetRoot(root, tab, Fresh)[m] = root[m])
       /\ \A va \in VAs : Look(N, Fresh, va) = Invalid
  BY <1>2, <1>3, <1>9, <1>10, TreeRoot
<1>12. H \ {Fresh} = InHand' /\ F = free' /\ N = mem'
  BY <1>4, <1>6 DEF H, F, N
<1>13. Shape'
  BY <1>1, <1>11, <1>12 DEF Shape
<1>14. /\ root'[tab] = Fresh /\ (\A m \in Tables : m # tab => root'[m] = root[m])
       /\ \A va \in VAs : Look(mem', root'[tab], va) = Invalid
  BY <1>1, <1>11, <1>12
<1>15. Stage(mem', root', tab, Tail(calls), own)
  BY <1>1, <1>2, <1>7, <1>14, CreateStage
<1>16. Locals'
  BY <1>1, <1>2 DEF Locals
<1>17. Same
  <2>. SUFFICES ASSUME NEW n \in Tables, NEW va \in VAs PROVE View(mem', root', n, va) = View(mem, root, n, va)
    BY DEF Same
  <2>1. CASE n = tab
    BY <1>3, <1>14, <2>1, Entries DEF View
  <2>2. CASE n # tab
    <3>1. root'[n] = root[n]
      BY <1>14, <2>2
    <3>2. root[n] # Null => Look(mem', root[n], va) = Look(mem, root[n], va)
      BY <1>6, <1>8 DEF Keeps
    <3>. QED
      BY <3>1, <3>2 DEF View
  <2>. QED
    BY <2>1, <2>2
<1>. QED
  BY <1>1, <1>13, <1>15, <1>16, <1>17 DEF Inv

LEMMA MapOwnStep ==
    ASSUME Inv, MapOwn
    PROVE  Inv' /\ Same
<1>1. /\ root' = root /\ tab' = tab /\ calls' = calls /\ new' = new /\ own' = Fresh
      /\ pc = "call" /\ pc' = "call" /\ Alloc(Junk) /\ calls # <<>> /\ Head(calls).f = "map"
      /\ Head(calls).pa = Null /\ own = Null
  BY DEF MapOwn, Doing, walkVars
<1>2. new = Null /\ tab \in Tables /\ Stage(mem, root, tab, calls, own)
  BY <1>1 DEF Inv, Locals
<1>3. Junk \in [Idx -> PTEs]
  BY Entries
<1>4. /\ Fresh \in Frames /\ Fresh # Null /\ Keeps(mem, mem', root)
      /\ \A k, t, u, x : Tree(mem, root, free, InHand, k, t, u, x) =>
           \E l : Tree(mem', root', free', InHand \cup {Fresh}, l, t, u, x)
  BY <1>1, <1>2, <1>3, Allocated
<1>5. PICK k, t, u, x : Tree(mem, root, free, InHand, k, t, u, x)
  BY DEF Inv, Shape
<1>6. InHand' = InHand \cup {Fresh}
  BY <1>1, <1>2, <1>4 DEF InHand
<1>7. Shape'
  BY <1>4, <1>5, <1>6 DEF Shape
<1>8. Stage(mem', root, tab, calls, own)
  BY <1>2, <1>4, KeepStage
<1>9. Mapping(mem', root, tab, calls, own)
  <2>1. ~Freeing(mem', root, tab, calls, own) /\ calls # <<CreateCall>>
    BY <1>1, Lists, Calls DEF Freeing, proc_freepagetable
  <2>2. ~Building(mem', root, tab, calls, own)
    BY <1>1, Lists, Calls, PageTableAssumption
       DEF Building, proc_pagetable, MapTrampoline, MapTrapframe, Targets
  <2>. QED
    BY <1>1, <1>8, <2>1, <2>2 DEF Stage
<1>10. Mapping(mem', root, tab, calls, Fresh)
  <2>1. PICK m \in Maps(tab) : /\ calls = <<MapCall(m[1], m[2], m[3])>> /\ root[tab] # Null
                               /\ ~Look(mem', root[tab], m[1]).v /\ Steady(mem', root)
    BY <1>9 DEF Mapping
  <2>2. m[2] = Null
    BY <1>1, <2>1, Lists, Calls
  <2>. QED
    BY <2>1, <2>2 DEF Mapping
<1>11. Stage(mem', root', tab', calls', own')
  BY <1>1, <1>10 DEF Stage
<1>12. Locals'
  BY <1>1, <1>2 DEF Locals
<1>13. Same
  BY <1>1, <1>4, SameLooks
<1>. QED
  BY <1>7, <1>11, <1>12, <1>13 DEF Inv

(* the entry of va in the table a walk ended at *)
LEMMA StoresPuts ==
    ASSUME NEW M, NEW N, NEW R, NEW p, NEW e, NEW k, NEW t, NEW u, NEW x, NEW n \in Tables, NEW va \in VAs,
           LastOf(p, n, va, k, t, u, x), Stores(M, N, R, p, va[3], e, k, t, u, x)
    PROVE  Puts(M, N, R, n, va, e)
<1>. SUFFICES ASSUME NEW m \in Tables, NEW w \in VAs, R[m] # Null
              PROVE  Look(N, R[m], w) = IF m = n /\ w = va THEN e ELSE Look(M, R[m], w)
  BY DEF Puts
<1>1. /\ IsAt(p, va[3], m, w, k, t, u, x) => Look(N, R[m], w) = e
      /\ ~IsAt(p, va[3], m, w, k, t, u, x) => Look(N, R[m], w) = Look(M, R[m], w)
  BY DEF Stores
<1>2. CASE m = n /\ w = va
  <2>1. IsAt(p, va[3], m, w, k, t, u, x)
    BY <1>2 DEF IsAt
  <2>. QED
    BY <1>1, <1>2, <2>1
<1>3. CASE ~(m = n /\ w = va)
  <2>1. ~IsAt(p, va[3], m, w, k, t, u, x)
    <3>. SUFFICES ASSUME IsAt(p, va[3], m, w, k, t, u, x) PROVE FALSE
      OBVIOUS
    <3>1. m = n /\ w[1] = va[1] /\ w[2] = va[2] /\ w[3] = va[3]
      BY DEF IsAt, LastOf
    <3>2. w = va
      BY <3>1, SameVA
    <3>. QED
      BY <1>3, <3>1, <3>2
  <2>. QED
    BY <1>1, <1>3, <2>1
<1>. QED
  BY <1>2, <1>3

(* the hardware sees v at va in table n, and no other change *)
Changes(n, va, v) ==
    \A m \in Tables, w \in VAs : View(mem', root', m, w) = IF m = n /\ w = va THEN v ELSE View(mem, root, m, w)

LEMMA PutsChanges ==
    ASSUME NEW n \in Tables, NEW va \in VAs, NEW e, root' = root, root[n] # Null, Puts(mem, mem', root, n, va, e)
    PROVE  Changes(n, va, IF e.v THEN <<e.ppn, e.perm>> ELSE Null)
<1>. SUFFICES ASSUME NEW m \in Tables, NEW w \in VAs
              PROVE  View(mem', root', m, w) = IF m = n /\ w = va THEN (IF e.v THEN <<e.ppn, e.perm>> ELSE Null)
                                               ELSE View(mem, root, m, w)
  BY DEF Changes
<1>1. CASE root[m] = Null
  BY <1>1 DEF View
<1>2. CASE root[m] # Null
  <2>1. Look(mem', root[m], w) = IF m = n /\ w = va THEN e ELSE Look(mem, root[m], w)
    BY <1>2 DEF Puts
  <2>. QED
    BY <1>2, <2>1 DEF View
<1>. QED
  BY <1>1, <1>2

LEMMA MapLeafStep ==
    ASSUME Inv, MapLeaf
    PROVE  /\ Inv'
           /\ \E n \in Tables, va \in VAs, v \in Targets \X Perms : View(mem, root, n, va) = Null /\ Changes(n, va, v)
<1>. DEFINE c == Head(calls)
            g == IF c.pa = Null THEN own ELSE c.pa
            e == Entry(g, c.perm)
<1>1. /\ free' = free /\ root' = root /\ tab' = tab /\ calls' = Tail(calls) /\ new' = new /\ own' = Null
      /\ pc = "walk" /\ pc' = "call" /\ level = 0 /\ ~mem[pt][pteIdx].v
      /\ mem' = Set(mem, pt, pteIdx, e)
  BY DEF MapLeaf, Set
<1>2. /\ new = Null /\ tab \in Tables /\ Stage(mem, root, tab, calls, own) /\ calls # <<>> /\ c.f = "map"
      /\ (c.pa = Null => own # Null)
  BY <1>1 DEF Inv, Locals
<1>3. /\ root[tab] # Null /\ c.va \in VAs /\ ~Look(mem, root[tab], c.va).v
      /\ c.pa \in Foreign \cup {Null} /\ c.perm \in Perms /\ (c.pa # Null => own = Null)
  BY <1>2, MapHead
<1>4. c.perm \in SUBSET {"R", "W", "X"} /\ c.perm # {}
  BY <1>3 DEF Perms
<1>5. PICK k, t, u, x : Tree(mem, root, free, InHand, k, t, u, x)
  BY DEF Inv, Shape
<1>6. pt \in Frames /\ k[pt] = 0 /\ pteIdx = c.va[3] /\ c.va[3] \in Idx /\ LastOf(pt, tab, c.va, k, t, u, x)
  BY <1>1, <1>3, <1>5, Walking, Index DEF pteIdx
<1>7. g \in Targets /\ (c.pa = Null => g \in InHand /\ own \in Frames /\ g = own) /\ (c.pa # Null => g \in Foreign)
  BY <1>2, <1>3, Hands DEF Targets
<1>8. e \in PTEs /\ e.v /\ e.ppn = g /\ e.perm = c.perm
  BY <1>4, <1>7, Entries
<1>9. mem' = Set(mem, pt, c.va[3], e) /\ ~mem[pt][c.va[3]].v
  BY <1>1, <1>6
<1>10. Shape' /\ Stores(mem, mem', root, pt, c.va[3], e, k, t, u, x)
  <2>1. CASE c.pa = Null
    <3>1. CanHang(mem, InHand, k, g, pt, c.va[3], c.perm)
      BY <1>4, <1>6, <1>7, <1>9, <2>1 DEF CanHang
    <3>. HIDE DEF c, g
    <3>2. /\ \E l, s, w, y : Tree(Set(mem, pt, c.va[3], Entry(g, c.perm)), root, free, InHand \ {g}, l, s, w, y)
          /\ Stores(mem, Set(mem, pt, c.va[3], Entry(g, c.perm)), root, pt, c.va[3], Entry(g, c.perm), k, t, u, x)
      BY <1>5, <3>1, TreeHang
    <3>3. InHand \ {g} = InHand'
      BY <1>1, <1>2, <1>7, <2>1 DEF InHand
    <3>4. Shape'
      BY <1>1, <1>9, <3>2, <3>3 DEF Shape
    <3>. QED
      BY <1>9, <3>2, <3>4
  <2>2. CASE c.pa # Null
    <3>1. /\ (mem[pt][c.va[3]].v => mem[pt][c.va[3]].ppn \in Foreign)
          /\ (e.v => e.ppn \in Foreign /\ e.perm # {})
      BY <1>4, <1>7, <1>8, <1>9, <2>2
    <3>. HIDE DEF e, c
    <3>2. /\ Tree(Set(mem, pt, c.va[3], e), root, free, InHand, k, t, u, x)
          /\ Stores(mem, Set(mem, pt, c.va[3], e), root, pt, c.va[3], e, k, t, u, x)
      BY <1>5, <1>6, <1>8, <3>1, TreeSet
    <3>3. InHand = InHand'
      BY <1>1, <1>2, <1>3, <2>2 DEF InHand
    <3>4. Shape'
      BY <1>1, <1>9, <3>2, <3>3 DEF Shape
    <3>. QED
      BY <1>9, <3>2, <3>4
  <2>. QED
    BY <2>1, <2>2
<1>11. Puts(mem, mem', root, tab, c.va, e)
  <2>. HIDE DEF e, c
  <2>. QED
    BY <1>2, <1>3, <1>6, <1>10, StoresPuts
<1>12. Stage(mem', root, tab, Tail(calls), Null)
  <2>. HIDE DEF g
  <2>1. g = IF Head(calls).pa = Null THEN own ELSE Head(calls).pa
    BY DEF g
  <2>. QED
    BY <1>2, <1>7, <1>11, <2>1, MapStage
<1>13. Locals'
  BY <1>1, <1>2 DEF Locals
<1>14. Inv'
  BY <1>1, <1>10, <1>12, <1>13 DEF Inv
<1>15. View(mem, root, tab, c.va) = Null
  BY <1>3 DEF View
<1>16. Changes(tab, c.va, <<g, c.perm>>)
  <2>. HIDE DEF e, c, g
  <2>1. Changes(tab, c.va, IF e.v THEN <<e.ppn, e.perm>> ELSE Null)
    BY <1>1, <1>2, <1>3, <1>11, PutsChanges
  <2>. QED
    BY <1>8, <2>1
<1>17. <<g, c.perm>> \in Targets \X Perms
  BY <1>3, <1>7
<1>. QED
  BY <1>2, <1>3, <1>14, <1>15, <1>16, <1>17

LEMMA UnmapStep ==
    ASSUME Inv, Unmap
    PROVE  Inv' /\ \E n \in Tables, va \in VAs : Changes(n, va, Null)
<1>. DEFINE va == Head(calls).va
<1>1. /\ free' = free /\ root' = root /\ tab' = tab /\ calls' = Tail(calls) /\ new' = new /\ own' = own
      /\ pc = "call" /\ pc' = "call" /\ calls # <<>> /\ Head(calls).f = "unmap"
      /\ mem' = Set(mem, LastTable(tab, va), VPN(va, 0), Invalid)
  BY DEF Unmap, Doing, walkVars, Set
<1>2. new = Null /\ tab \in Tables /\ Stage(mem, root, tab, calls, own)
  BY <1>1 DEF Inv, Locals
<1>3. /\ root[tab] # Null /\ va \in VAs /\ Look(mem, root[tab], va).v /\ Look(mem, root[tab], va).ppn \in Foreign
      /\ \A N : Puts(mem, N, root, tab, va, Invalid) => Stage(N, root, tab, Tail(calls), own)
  BY <1>1, <1>2, UnmapStage
<1>4. va[3] \in Idx /\ VPN(va, 2) = va[1] /\ VPN(va, 1) = va[2] /\ VPN(va, 0) = va[3]
  BY <1>3, Index
<1>. HIDE DEF va
<1>5. PICK k, t, u, x : Tree(mem, root, free, InHand, k, t, u, x)
  BY DEF Inv, Shape
<1>6. Look(mem, root[tab], va) # Invalid
  BY <1>3, Entries
<1>7. PICK p \in Frames : LastOf(p, tab, va, k, t, u, x) /\ Look(mem, root[tab], va) = mem[p][va[3]]
  BY <1>2, <1>3, <1>5, <1>6, LookWhere
<1>8. LastTable(tab, va) = p
  <2>1. mem[root[tab]][va[1]].ppn = u[p] /\ mem[u[p]][va[2]].ppn = p
    BY <1>2, <1>3, <1>5, <1>7, LookAt
  <2>. QED
    BY <1>4, <2>1 DEF LastTable
<1>9. mem' = Set(mem, p, va[3], Invalid)
  BY <1>1, <1>4, <1>8
<1>10. /\ Tree(Set(mem, p, va[3], Invalid), root, free, InHand, k, t, u, x)
       /\ Stores(mem, Set(mem, p, va[3], Invalid), root, p, va[3], Invalid, k, t, u, x)
  <2>1. /\ k[p] = 0 /\ (mem[p][va[3]].v => mem[p][va[3]].ppn \in Foreign)
        /\ Invalid \in PTEs /\ (Invalid.v => Invalid.ppn \in Foreign /\ Invalid.perm # {})
    BY <1>3, <1>7, Entries DEF LastOf
  <2>. QED
    BY <1>4, <1>5, <2>1, TreeSet
<1>11. InHand' = InHand
  BY <1>1 DEF InHand
<1>12. Shape'
  BY <1>1, <1>9, <1>10, <1>11 DEF Shape
<1>13. Puts(mem, mem', root, tab, va, Invalid)
  BY <1>2, <1>3, <1>7, <1>9, <1>10, StoresPuts
<1>14. Stage(mem', root', tab', calls', own')
  BY <1>1, <1>3, <1>13
<1>15. Locals'
  BY <1>1, <1>2 DEF Locals
<1>16. Changes(tab, va, Null)
  <2>1. Changes(tab, va, IF Invalid.v THEN <<Invalid.ppn, Invalid.perm>> ELSE Null)
    BY <1>1, <1>2, <1>3, <1>13, PutsChanges
  <2>. QED
    BY <2>1, Entries
<1>. QED
  BY <1>2, <1>3, <1>12, <1>14, <1>15, <1>16 DEF Inv

-----------------------------------------------------------------------------
(* destroy_pagetable() *)

LEMMA Up ==
    ASSUME NEW M, NEW R, NEW F, NEW H, NEW k, NEW t, NEW u, NEW x, Tree(M, R, F, H, k, t, u, x),
           NEW p \in Frames, k[p] \in {1, 0, Leaf}
    PROVE  /\ u[p] \in Frames /\ x[p] \in Idx /\ k[u[p]] = k[p] + 1 /\ t[u[p]] = t[p]
           /\ M[u[p]][x[p]].v /\ M[u[p]][x[p]].ppn = p
           /\ M[u[p]][x[p]].perm = {} <=> k[u[p]] # 0
<1>1. u[p] \in Frames /\ x[p] \in Idx
  BY DEF Tree, TreeType
<1>2. /\ k[u[p]] = k[p] + 1 /\ t[u[p]] = t[p] /\ M[u[p]][x[p]].v /\ M[u[p]][x[p]].ppn = p
  BY DEF Tree, TreeUp
<1>3. k[u[p]] \in {2, 1, 0}
  BY <1>2, Numbers
<1>4. M[u[p]][x[p]].perm = {} <=> k[u[p]] # 0
  BY <1>1, <1>2, <1>3 DEF Tree, TreeDown
<1>. QED
  BY <1>1, <1>2, <1>4

LevelOf(n, j, k, t) == {p \in Frames : t[p] = n /\ k[p] = j}

LEMMA BelowSet ==
    ASSUME NEW F, NEW H, NEW k, NEW t, NEW u, NEW x, Tree(mem, root, F, H, k, t, u, x),
           NEW p \in Frames, k[p] \in {2, 1}
    PROVE  Below(p) = {q \in Frames : k[q] = k[p] - 1 /\ u[q] = p} /\ Leaves(p) = {}
<1>1. ASSUME NEW i \in Idx, mem[p][i].v
      PROVE  mem[p][i].ppn \in Frames /\ k[mem[p][i].ppn] = k[p] - 1 /\ u[mem[p][i].ppn] = p /\ mem[p][i].perm = {}
  BY <1>1, Down
<1>2. ASSUME NEW q \in Frames, k[q] = k[p] - 1, u[q] = p PROVE \E i \in Idx : IsTable(mem[p][i]) /\ mem[p][i].ppn = q
  <2>1. k[q] \in {1, 0, Leaf} /\ k[p] # 0
    BY <1>2
  <2>2. x[q] \in Idx /\ mem[u[q]][x[q]].v /\ mem[u[q]][x[q]].ppn = q /\ (mem[u[q]][x[q]].perm = {} <=> k[u[q]] # 0)
    BY <2>1, Up
  <2>. QED
    BY <1>2, <2>1, <2>2 DEF IsTable
<1>3. Leaves(p) = {}
  BY <1>1 DEF Leaves, IsLeaf
<1>4. ASSUME NEW q \in Below(p) PROVE q \in Frames /\ k[q] = k[p] - 1 /\ u[q] = p
  <2>1. PICK i \in Idx : IsTable(mem[p][i]) /\ q = mem[p][i].ppn
    BY DEF Below
  <2>. QED
    BY <1>1, <2>1 DEF IsTable
<1>5. ASSUME NEW q \in Frames, k[q] = k[p] - 1, u[q] = p PROVE q \in Below(p)
  BY <1>2, <1>5 DEF Below
<1>. QED
  BY <1>3, <1>4, <1>5

(* the pages destroy_pagetable() visits are the tables of n *)
LEMMA TableSet ==
    ASSUME NEW F, NEW H, NEW k, NEW t, NEW u, NEW x, Tree(mem, root, F, H, k, t, u, x), NEW n \in Tables
    PROVE  TablePages(n) = {p \in Frames : t[p] = n /\ k[p] \in {2, 1, 0}}
<1>0. /\ \A p \in Frames : k[p] = 2 => root[t[p]] = p
      /\ root[n] # Null => root[n] \in Frames /\ k[root[n]] = 2 /\ t[root[n]] = n
  BY DEF Tree, TreeUse, TreeType
<1>1. \A p \in Frames : k[p] = 1 => u[p] \in Frames /\ k[u[p]] = 2 /\ t[u[p]] = t[p]
  BY Up
<1>2. \A p \in Frames : k[p] = 0 => u[p] \in Frames /\ k[u[p]] = 1 /\ t[u[p]] = t[p]
  BY Up
<1>3. CASE root[n] = Null
  <2>0. Null \notin Frames
    BY PageTableAssumption DEF Targets
  <2>1. \A p \in Frames : t[p] = n => k[p] # 2
    BY <1>0, <1>3, <2>0
  <2>2. \A p \in Frames : t[p] = n => k[p] # 1
    BY <1>1, <2>1
  <2>3. \A p \in Frames : t[p] = n => k[p] # 0
    BY <1>2, <2>2
  <2>. QED
    BY <1>3, <2>1, <2>2, <2>3 DEF TablePages
<1>4. CASE root[n] # Null
  <2>0. root[n] \in Frames /\ k[root[n]] = 2 /\ t[root[n]] = n
    BY <1>0, <1>4
  <2>1. Below(root[n]) = LevelOf(n, 1, k, t)
    <3>1. Below(root[n]) = {q \in Frames : k[q] = k[root[n]] - 1 /\ u[q] = root[n]}
      BY <2>0, BelowSet
    <3>2. \A q \in Frames : k[q] = 1 => (u[q] = root[n] <=> t[q] = n)
      BY <1>0, <1>1, <2>0
    <3>. QED
      BY <2>0, <3>1, <3>2 DEF LevelOf
  <2>2. UNION {Below(p) : p \in LevelOf(n, 1, k, t)} = LevelOf(n, 0, k, t)
    <3>1. ASSUME NEW p \in LevelOf(n, 1, k, t) PROVE Below(p) = {q \in Frames : k[q] = 0 /\ u[q] = p}
      <4>1. p \in Frames /\ k[p] = 1 /\ k[p] \in {2, 1} /\ 1 - 1 = 0
        BY DEF LevelOf
      <4>2. Below(p) = {q \in Frames : k[q] = k[p] - 1 /\ u[q] = p}
        BY <4>1, BelowSet
      <4>. QED
        BY <4>1, <4>2
    <3>2. ASSUME NEW q \in LevelOf(n, 0, k, t) PROVE u[q] \in LevelOf(n, 1, k, t) /\ q \in Below(u[q])
      <4>1. u[q] \in LevelOf(n, 1, k, t) /\ q \in Frames /\ k[q] = 0
        BY <1>2 DEF LevelOf
      <4>. QED
        BY <3>1, <4>1
    <3>3. ASSUME NEW p \in LevelOf(n, 1, k, t), NEW q \in Below(p) PROVE q \in LevelOf(n, 0, k, t)
      <4>1. q \in Frames /\ k[q] = 0 /\ u[q] = p
        BY <3>1, <3>3
      <4>. QED
        BY <1>2, <4>1 DEF LevelOf
    <3>. QED
      BY <3>2, <3>3
  <2>3. LevelOf(n, 2, k, t) = {root[n]}
    BY <1>0, <2>0 DEF LevelOf
  <2>4. TablePages(n) = {root[n]} \cup LevelOf(n, 1, k, t) \cup LevelOf(n, 0, k, t)
    BY <1>4, <2>1, <2>2 DEF TablePages
  <2>. QED
    BY <2>3, <2>4 DEF LevelOf
<1>. QED
  BY <1>3, <1>4

(* the pages its leaf entries map *)
LEMMA MappedSet ==
    ASSUME NEW F, NEW H, NEW k, NEW t, NEW u, NEW x, Tree(mem, root, F, H, k, t, u, x), NEW n \in Tables
    PROVE  /\ \A p \in Frames : p \in MappedPages(n) <=> t[p] = n /\ k[p] = Leaf
           /\ \A p \in MappedPages(n) : p \notin Frames =>
                \E va \in VAs : Look(mem, root[n], va).v /\ Look(mem, root[n], va).ppn \in Foreign
<1>0. TablePages(n) = {p \in Frames : t[p] = n /\ k[p] \in {2, 1, 0}}
  BY TableSet
<1>1. ASSUME NEW q \in TablePages(n), NEW p \in Leaves(q)
      PROVE  \E i \in Idx : mem[q][i].v /\ mem[q][i].ppn = p /\ q \in Frames /\ k[q] = 0 /\ t[q] = n
  <2>1. q \in Frames /\ t[q] = n /\ k[q] \in {2, 1, 0}
    BY <1>0
  <2>2. k[q] \notin {2, 1}
    BY <1>1, <2>1, BelowSet
  <2>3. PICK i \in Idx : IsLeaf(mem[q][i]) /\ p = mem[q][i].ppn
    BY <1>1 DEF Leaves
  <2>. QED
    BY <2>1, <2>2, <2>3 DEF IsLeaf
<1>2. ASSUME NEW p \in Frames, t[p] = n, k[p] = Leaf PROVE p \in MappedPages(n)
  <2>1. k[p] \in {1, 0, Leaf}
    BY <1>2
  <2>2. /\ u[p] \in Frames /\ x[p] \in Idx /\ k[u[p]] = k[p] + 1 /\ t[u[p]] = t[p]
        /\ mem[u[p]][x[p]].v /\ mem[u[p]][x[p]].ppn = p
        /\ mem[u[p]][x[p]].perm = {} <=> k[u[p]] # 0
    BY <2>1, Up
  <2>3. k[u[p]] = 0
    BY <1>2, <2>2, Numbers
  <2>4. u[p] \in TablePages(n)
    BY <1>0, <1>2, <2>2, <2>3
  <2>5. p \in Leaves(u[p])
    BY <2>2, <2>3 DEF Leaves, IsLeaf
  <2>. QED
    BY <2>4, <2>5 DEF MappedPages
<1>3. ASSUME NEW p \in MappedPages(n)
      PROVE  /\ p \in Frames => t[p] = n /\ k[p] = Leaf
             /\ p \notin Frames => \E va \in VAs : Look(mem, root[n], va).v /\ Look(mem, root[n], va).ppn \in Foreign
  <2>1. PICK q \in TablePages(n) : p \in Leaves(q)
    BY DEF MappedPages
  <2>2. PICK i \in Idx : mem[q][i].v /\ mem[q][i].ppn = p /\ q \in Frames /\ k[q] = 0 /\ t[q] = n
    BY <1>1, <2>1
  <2>3. Below1(q, i, mem[q][i].ppn, k, t, u, x) \/ mem[q][i].ppn \in Foreign
    BY <2>2 DEF Tree, TreeDown
  <2>4. p \in Frames => t[p] = n /\ k[p] = Leaf
    BY <2>2, <2>3, Numbers, PageTableAssumption DEF Below1
  <2>5. ASSUME p \notin Frames
        PROVE  \E va \in VAs : Look(mem, root[n], va).v /\ Look(mem, root[n], va).ppn \in Foreign
    <3>1. p \in Foreign
      BY <2>2, <2>3, <2>5 DEF Below1
    <3>2. u[q] \in Frames /\ x[u[q]] \in Idx /\ x[q] \in Idx
      BY <2>2 DEF Tree, TreeType
    <3>. DEFINE va == <<x[u[q]], x[q], i>>
    <3>3. va \in VAs /\ va[1] = x[u[q]] /\ va[2] = x[q] /\ va[3] = i
      BY <2>2, <3>2 DEF VAs
    <3>. HIDE DEF va
    <3>4. LastOf(q, n, va, k, t, u, x)
      BY <2>2, <3>3 DEF LastOf
    <3>5. Look(mem, root[n], va) = mem[q][va[3]]
      BY <3>3, <3>4, LookAt
    <3>. QED
      BY <2>2, <3>1, <3>3, <3>5
  <2>. QED
    BY <2>4, <2>5
<1>. QED
  BY <1>2, <1>3

(* what destroy_pagetable() frees *)
LEMMA Destroying ==
    ASSUME Inv, Doing("destroy")
    PROVE  /\ tab \in Tables /\ tab = User /\ root[tab] # Null /\ Tail(calls) = <<>> /\ own = Null /\ new = Null
           /\ MappedPages(tab) \subseteq Frames
           /\ \A k, t, u, x : Tree(mem, root, free, InHand, k, t, u, x) =>
                TablePages(tab) \cup MappedPages(tab) = PagesOf(tab, k, t)
<1>1. calls # <<>> /\ pc = "call" /\ Head(calls).f = "destroy"
  BY DEF Doing
<1>2. new = Null /\ tab \in Tables /\ Stage(mem, root, tab, calls, own)
  BY <1>1 DEF Inv, Locals
<1>3. tab = User /\ root[User] # Null /\ Uses(mem, root[User], {}) /\ Tail(calls) = <<>> /\ own = Null
  BY <1>1, <1>2, DestroyHead
<1>4. ASSUME NEW k, NEW t, NEW u, NEW x, Tree(mem, root, free, InHand, k, t, u, x)
      PROVE  /\ MappedPages(tab) \subseteq Frames
             /\ TablePages(tab) \cup MappedPages(tab) = PagesOf(tab, k, t)
  <2>1. TablePages(tab) = {p \in Frames : t[p] = tab /\ k[p] \in {2, 1, 0}}
    BY <1>2, <1>4, TableSet
  <2>2. /\ \A p \in Frames : p \in MappedPages(tab) <=> t[p] = tab /\ k[p] = Leaf
        /\ \A p \in MappedPages(tab) : p \notin Frames =>
             \E va \in VAs : Look(mem, root[tab], va).v /\ Look(mem, root[tab], va).ppn \in Foreign
    BY <1>2, <1>4, MappedSet
  <2>3. MappedPages(tab) \subseteq Frames
    BY <1>3, <2>2 DEF Uses
  <2>. QED
    BY <2>1, <2>2, <2>3 DEF PagesOf
<1>5. PICK k, t, u, x : Tree(mem, root, free, InHand, k, t, u, x)
  BY DEF Inv, Shape
<1>. QED
  BY <1>2, <1>3, <1>4, <1>5

LEMMA DestroyStep ==
    ASSUME Inv, Destroy
    PROVE  /\ Inv'
           /\ \E n \in Tables : \A m \in Tables, va \in VAs :
                View(mem', root', m, va) = IF m = n THEN Null ELSE View(mem, root, m, va)
<1>1. /\ free' = free \cup TablePages(tab) \cup MappedPages(tab) /\ root' = SetRoot(root, tab, Null)
      /\ mem' = Scrub(mem, free') /\ calls' = Tail(calls) /\ tab' = tab /\ pc' = pc /\ new' = new /\ own' = own
      /\ Doing("destroy")
  BY DEF Destroy, walkVars, SetRoot, Scrub
<1>2. PICK k, t, u, x : Tree(mem, root, free, InHand, k, t, u, x)
  BY DEF Inv, Shape
<1>3. /\ tab \in Tables /\ tab = User /\ root[tab] # Null /\ Tail(calls) = <<>> /\ own = Null /\ new = Null
      /\ TablePages(tab) \cup MappedPages(tab) = PagesOf(tab, k, t)
  BY <1>1, <1>2, Destroying
<1>4. free' = free \cup PagesOf(tab, k, t)
  BY <1>1, <1>3
<1>5. /\ \E l : Tree(mem', root', free', InHand, l, t, u, x)
      /\ Gone(mem, mem', root, root', tab)
  <2>. DEFINE G == free'
  <2>1. G = free \cup PagesOf(tab, k, t)
    BY <1>4
  <2>2. mem' = Scrub(mem, G) /\ root' = SetRoot(root, tab, Null)
    BY <1>1
  <2>. HIDE DEF G
  <2>3. /\ \E l : Tree(Scrub(mem, G), SetRoot(root, tab, Null), G, InHand, l, t, u, x)
        /\ Gone(mem, Scrub(mem, G), root, SetRoot(root, tab, Null), tab)
    BY <1>2, <1>3, <2>1, TreeDestroy
  <2>. QED
    BY <2>2, <2>3 DEF G
<1>6. InHand' = InHand
  BY <1>1 DEF InHand
<1>7. Shape'
  BY <1>5, <1>6 DEF Shape
<1>8. Stage(mem', root', tab', calls', own')
  BY <1>1, <1>3, <1>5 DEF Stage, Steady, Gone
<1>9. Locals'
  BY <1>1, <1>3 DEF Locals, Doing
<1>10. \A m \in Tables, va \in VAs : View(mem', root', m, va) = IF m = tab THEN Null ELSE View(mem, root, m, va)
  BY <1>5 DEF View, Gone
<1>. QED
  BY <1>3, <1>7, <1>8, <1>9, <1>10 DEF Inv

-----------------------------------------------------------------------------
(* The theorems *)

(* one step, and what the hardware sees of it *)
Visible ==
    \/ Same
    \/ \E n \in Tables, va \in VAs, v \in Targets \X Perms : View(mem, root, n, va) = Null /\ Changes(n, va, v)
    \/ \E n \in Tables, va \in VAs : Changes(n, va, Null)
    \/ \E n \in Tables : \A m \in Tables, va \in VAs :
         View(mem', root', m, va) = IF m = n THEN Null ELSE View(mem, root, m, va)

LEMMA Step == Inv /\ [Next]_vars => Inv' /\ Visible
<1>. SUFFICES ASSUME Inv, [Next]_vars PROVE Inv' /\ Visible
  OBVIOUS
<1>1. CASE NewProcess \/ ReapProcess \/ \E n \in Tables : \E m \in Maps(n) : MapMore(n, m)
  BY <1>1, CallerStep DEF Visible
<1>2. CASE Create
  BY <1>2, CreateStep DEF Visible
<1>3. CASE CreateFails \/ MapOwnFails \/ WalkFails
  <2>1. AllocFails /\ pc \in {"call", "walk"}
    BY <1>3 DEF CreateFails, MapOwnFails, WalkFails, Doing
  <2>2. new = Null
    BY <2>1 DEF Inv, Locals
  <2>. QED
    BY <2>1, <2>2, FailStep DEF Visible
<1>4. CASE MapOwn
  BY <1>4, MapOwnStep DEF Visible
<1>5. CASE WalkAlloc
  BY <1>5, WalkAllocStep DEF Visible
<1>6. CASE WalkStart
  BY <1>6, WalkStartStep DEF Visible
<1>7. CASE WalkDown
  BY <1>7, WalkDownStep DEF Visible
<1>8. CASE WalkClear
  BY <1>8, WalkClearStep DEF Visible
<1>9. CASE WalkLink
  BY <1>9, WalkLinkStep DEF Visible
<1>10. CASE MapLeaf
  BY <1>10, MapLeafStep DEF Visible
<1>11. CASE Unmap
  BY <1>11, UnmapStep DEF Visible
<1>12. CASE Destroy
  BY <1>12, DestroyStep DEF Visible
<1>13. CASE UNCHANGED vars
  <2>1. /\ free' = free /\ mem' = mem /\ root' = root /\ tab' = tab /\ calls' = calls /\ pc' = pc
        /\ pt' = pt /\ level' = level /\ new' = new /\ own' = own
    BY <1>13 DEF vars
  <2>2. Shape' /\ Same
    BY <2>1, QuietShape DEF Inv
  <2>3. Stage(mem', root', tab', calls', own')
    BY <2>1 DEF Inv
  <2>4. Locals'
    BY <2>1 DEF Inv, Locals, pteIdx
  <2>. QED
    BY <2>2, <2>3, <2>4 DEF Inv, Visible
<1>. QED
  BY <1>1, <1>2, <1>3, <1>4, <1>5, <1>6, <1>7, <1>8, <1>9, <1>10, <1>11, <1>12, <1>13 DEF Next, Spin

LEMMA Invariant == Spec => []Inv
  BY InitInv, Step, PTL DEF Spec

(* No call of kernel/mm/vm.c panics but for want of memory.  At the leaf of *)
(* a walk the invariant knows the entry by walk_lookup(), which found it    *)
(* empty when the caller began; what proc_freepagetable() unmaps is what    *)
(* proc_pagetable() mapped, and nothing else foreign is left to free.       *)
THEOREM NeverPanics == Spec => []NoPanic
<1>1. Inv => NoPanic
  <2>. SUFFICES ASSUME Inv PROVE NoPanic
    OBVIOUS
  <2>1. ASSUME pc = "walk", level = 0 PROVE ~mem[pt][pteIdx].v
    <3>1. PICK k, t, u, x : Tree(mem, root, free, InHand, k, t, u, x)
      BY DEF Inv, Shape
    <3>2. tab \in Tables /\ Head(calls).va \in VAs /\ LastOf(pt, tab, Head(calls).va, k, t, u, x)
      BY <2>1, <3>1, Walking
    <3>3. Look(mem, root[tab], Head(calls).va) = mem[pt][Head(calls).va[3]]
      BY <3>1, <3>2, LookAt
    <3>4. pteIdx = Head(calls).va[3]
      BY <2>1, <3>2, Index DEF pteIdx
    <3>5. calls # <<>> /\ Head(calls).f = "map" /\ Stage(mem, root, tab, calls, own)
      BY <2>1 DEF Inv, Locals
    <3>6. ~Look(mem, root[tab], Head(calls).va).v
      BY <3>2, <3>5, MapHead
    <3>. QED
      BY <3>3, <3>4, <3>6
  <2>2. ASSUME Doing("unmap") PROVE Lookup(tab, Head(calls).va).v
    <3>1. tab \in Tables /\ calls # <<>> /\ Head(calls).f = "unmap" /\ Stage(mem, root, tab, calls, own)
      BY <2>2 DEF Inv, Locals, Doing
    <3>2. Head(calls).va \in VAs /\ Look(mem, root[tab], Head(calls).va).v
      BY <3>1, UnmapStage
    <3>. QED
      BY <3>1, <3>2, Lookups
  <2>3. ASSUME Doing("destroy") PROVE MappedPages(tab) \subseteq Frames
    BY <2>3, Destroying
  <2>. QED
    BY <2>1, <2>2, <2>3 DEF NoPanic
<1>. QED
  BY <1>1, Invariant, PTL

(* Every page of the allocator has one use: on the free list, in a caller's *)
(* hand, the root of one table, or the page of one entry of one table.      *)
(* destroy_pagetable() frees exactly the pages of its table.                *)
THEOREM OneUse == Spec => []EachFrameOneUse
<1>1. Inv => EachFrameOneUse
  <2>. SUFFICES ASSUME Inv PROVE EachFrameOneUse
    OBVIOUS
  <2>. DEFINE roots == {n \in Tables : root[n] # Null}
              live == UNION {TablePages(n) : n \in Tables}
              refs(p) == {e \in live \X Idx : mem[e[1]][e[2]].v /\ mem[e[1]][e[2]].ppn = p}
              rootOf(p) == {n \in roots : root[n] = p}
  <2>. SUFFICES ASSUME NEW p \in Frames
                PROVE  (IF p \in free THEN 1 ELSE 0) + (IF p \in {new, own} THEN 1 ELSE 0)
                         + Cardinality(rootOf(p)) + Cardinality(refs(p)) = 1
    BY DEF EachFrameOneUse
  <2>1. PICK k, t, u, x : Tree(mem, root, free, InHand, k, t, u, x)
    BY DEF Inv, Shape
  <2>2. live = {q \in Frames : k[q] \in {2, 1, 0}}
    <3>1. \A n \in Tables : TablePages(n) = {q \in Frames : t[q] = n /\ k[q] \in {2, 1, 0}}
      BY <2>1, TableSet
    <3>2. \A q \in Frames : t[q] \in Tables
      BY <2>1 DEF Tree, TreeType
    <3>3. ASSUME NEW q \in live PROVE q \in Frames /\ k[q] \in {2, 1, 0}
      <4>1. PICK n \in Tables : q \in TablePages(n)
        OBVIOUS
      <4>. QED
        BY <3>1, <4>1
    <3>4. ASSUME NEW q \in Frames, k[q] \in {2, 1, 0} PROVE q \in live
      <4>1. t[q] \in Tables /\ q \in TablePages(t[q])
        BY <3>1, <3>2, <3>4
      <4>. QED
        BY <4>1
    <3>. HIDE DEF live
    <3>. QED
      BY <3>3, <3>4
  <2>3. ASSUME NEW q \in live, NEW i \in Idx, mem[q][i].v, mem[q][i].ppn = p
        PROVE  k[p] \in {1, 0, Leaf} /\ u[p] = q /\ x[p] = i
    <3>1. q \in Frames /\ k[q] \in {2, 1, 0}
      BY <2>2
    <3>2. Below1(q, i, p, k, t, u, x) \/ p \in Foreign
      BY <2>1, <2>3, <3>1 DEF Tree, TreeDown
    <3>3. p \notin Foreign
      BY PageTableAssumption
    <3>. QED
      BY <3>1, <3>2, <3>3, Numbers DEF Below1
  <2>4. ASSUME k[p] \in {1, 0, Leaf}
        PROVE  u[p] \in live /\ x[p] \in Idx /\ mem[u[p]][x[p]].v /\ mem[u[p]][x[p]].ppn = p
    <3>1. /\ u[p] \in Frames /\ x[p] \in Idx /\ k[u[p]] = k[p] + 1
          /\ mem[u[p]][x[p]].v /\ mem[u[p]][x[p]].ppn = p
      BY <2>1, <2>4, Up
    <3>2. k[u[p]] \in {2, 1, 0}
      BY <2>4, <3>1, Numbers
    <3>. QED
      BY <2>2, <3>1, <3>2
  <2>. HIDE DEF live
  <2>5. k[p] \in {1, 0, Leaf} => refs(p) = {<<u[p], x[p]>>}
    BY <2>3, <2>4
  <2>6. k[p] \notin {1, 0, Leaf} => refs(p) = {}
    BY <2>3
  <2>7. k[p] = 2 => rootOf(p) = {t[p]}
    <3>1. ASSUME k[p] = 2 PROVE t[p] \in Tables /\ root[t[p]] = p /\ p # Null
      BY <2>1, <3>1, PageTableAssumption DEF Tree, TreeType, TreeUse, Targets
    <3>2. ASSUME NEW n \in Tables, root[n] = p, p # Null PROVE n = t[p]
      BY <2>1, <3>2 DEF Tree, TreeUse
    <3>. QED
      BY <3>1, <3>2
  <2>8. k[p] # 2 => rootOf(p) = {}
    <3>1. ASSUME NEW n \in roots, root[n] = p PROVE k[p] = 2
      BY <2>1, <3>1 DEF Tree, TreeUse
    <3>. QED
      BY <3>1
  <2>. HIDE DEF refs, rootOf
  <2>9. /\ k[p] \in {1, 0, Leaf} => Cardinality(refs(p)) = 1
        /\ k[p] \notin {1, 0, Leaf} => Cardinality(refs(p)) = 0
        /\ k[p] = 2 => Cardinality(rootOf(p)) = 1
        /\ k[p] # 2 => Cardinality(rootOf(p)) = 0
    BY <2>5, <2>6, <2>7, <2>8, FS_Singleton, FS_EmptySet
  <2>10. (k[p] = Free <=> p \in free) /\ (k[p] = Hand <=> p \in {new, own}) /\ k[p] \in Kinds
    <3>1. (k[p] = Free <=> p \in free) /\ (k[p] = Hand <=> p \in InHand) /\ k[p] \in Kinds
      BY <2>1 DEF Tree, TreeType, TreeUse
    <3>2. p # Null
      BY PageTableAssumption DEF Targets
    <3>. QED
      BY <3>1, <3>2 DEF InHand
  <2>. QED
    BY <2>9, <2>10, Numbers
<1>. QED
  BY <1>1, Invariant, PTL

(* the hardware's walk and walk_lookup() agree: no upper entry is a leaf *)
Trans(M, R, n, va) ==
    LET l2 == M[R[n]][va[1]]
        l1 == M[l2.ppn][va[2]]
        l0 == M[l1.ppn][va[3]]
        At(e) == <<e.ppn, e.perm>>
    IN IF R[n] = Null \/ ~l2.v THEN Null
       ELSE IF l2.perm # {} THEN At(l2)
       ELSE IF ~l1.v THEN Null
       ELSE IF l1.perm # {} THEN At(l1)
       ELSE IF ~l0.v THEN Null ELSE At(l0)

LEMMA TransView ==
    ASSUME NEW M, NEW R, NEW F, NEW H, NEW k, NEW t, NEW u, NEW x, Tree(M, R, F, H, k, t, u, x),
           NEW n \in Tables, NEW va \in VAs
    PROVE  Trans(M, R, n, va) = View(M, R, n, va)
<1>1. CASE R[n] = Null
  BY <1>1 DEF Trans, View
<1>2. CASE R[n] # Null /\ ~M[R[n]][va[1]].v
  BY <1>2, Entries DEF Trans, View, Look
<1>3. CASE R[n] # Null /\ M[R[n]][va[1]].v
  <2>. DEFINE q == M[R[n]][va[1]].ppn
  <2>1. R[n] \in Frames /\ k[R[n]] = 2 /\ va[1] \in Idx /\ va[2] \in Idx
    BY <1>3, Index DEF Tree, TreeUse, TreeType
  <2>2. q \in Frames /\ k[q] = k[R[n]] - 1 /\ M[R[n]][va[1]].perm = {}
    BY <1>3, <2>1, Down
  <2>3. k[q] = 1
    <3>. HIDE DEF q
    <3>. QED
      BY <2>1, <2>2
  <2>4. M[q][va[2]].v => M[q][va[2]].perm = {}
    <3>. HIDE DEF q
    <3>. QED
      BY <2>1, <2>2, <2>3, Down
  <2>5. CASE ~M[q][va[2]].v
    BY <1>3, <2>2, <2>5, Entries DEF Trans, View, Look
  <2>6. CASE M[q][va[2]].v
    BY <1>3, <2>2, <2>4, <2>6 DEF Trans, View, Look
  <2>. QED
    BY <2>5, <2>6
<1>. QED
  BY <1>1, <1>2, <1>3

LEMMA Translates ==
    /\ Inv => \A n \in Tables, va \in VAs : Translate(n, va) = View(mem, root, n, va)
    /\ Inv' => \A n \in Tables, va \in VAs : Translate(n, va)' = View(mem', root', n, va)
<1>1. ASSUME NEW n \in Tables, NEW va \in VAs
      PROVE  Translate(n, va) = Trans(mem, root, n, va) /\ Translate(n, va)' = Trans(mem', root', n, va)
  BY Index DEF Translate, Trans
<1>2. ASSUME Inv, NEW n \in Tables, NEW va \in VAs PROVE Trans(mem, root, n, va) = View(mem, root, n, va)
  BY <1>2, TransView DEF Inv, Shape
<1>3. ASSUME Inv', NEW n \in Tables, NEW va \in VAs PROVE Trans(mem', root', n, va) = View(mem', root', n, va)
  BY <1>3, TransView DEF Inv, Shape
<1>. QED
  BY <1>1, <1>2, <1>3

(* The page tables implement AddressSpace: at every step of walk_create(),  *)
(* unmap_page() and destroy_pagetable() the hardware sees either no change, *)
(* one address appear or disappear, or one table empty.                     *)
THEOREM Implementation == Spec => ImplementsAddressSpace
<1>1. Init => Space!Init
  <2>. SUFFICES ASSUME Init PROVE Space!Init
    OBVIOUS
  <2>1. \A n \in Tables, va \in VAs : Translate(n, va) = Null
    BY DEF Init, Translate
  <2>. QED
    BY <2>1 DEF Space!Init, Space!Empty, Translation
<1>2. Inv /\ [Next]_vars => [Space!Next]_Translation
  <2>. SUFFICES ASSUME Inv, [Next]_vars PROVE [Space!Next]_Translation
    OBVIOUS
  <2>. DEFINE V(n, va) == View(mem, root, n, va)
              W(n, va) == View(mem', root', n, va)
  <2>1. Inv' /\ Visible
    BY Step
  <2>2. /\ Translation = [n \in Tables |-> [va \in VAs |-> V(n, va)]]
        /\ Translation' = [n \in Tables |-> [va \in VAs |-> W(n, va)]]
    <3>1. /\ \A n \in Tables, va \in VAs : Translate(n, va) = V(n, va)
          /\ \A n \in Tables, va \in VAs : Translate(n, va)' = W(n, va)
      BY <2>1, Translates
    <3>. HIDE DEF V, W
    <3>. QED
      BY <3>1 DEF Translation
  <2>3. CASE Same
    <3>1. \A n \in Tables, va \in VAs : W(n, va) = V(n, va)
      BY <2>3 DEF Same
    <3>. HIDE DEF V, W
    <3>. QED
      BY <2>2, <3>1
  <2>4. ASSUME NEW n \in Tables, NEW va \in VAs, NEW v, Changes(n, va, v)
        PROVE  Translation' = [Translation EXCEPT ![n][va] = v]
    <3>1. \A m \in Tables, w \in VAs : W(m, w) = IF m = n /\ w = va THEN v ELSE V(m, w)
      BY <2>4 DEF Changes
    <3>. HIDE DEF V, W
    <3>. QED
      BY <2>2, <3>1
  <2>5. ASSUME NEW n \in Tables, NEW va \in VAs, NEW v \in Targets \X Perms, V(n, va) = Null, Changes(n, va, v)
        PROVE  Space!Next
    <3>1. Translation' = [Translation EXCEPT ![n][va] = v]
      BY <2>4, <2>5
    <3>2. Translation[n][va] = Null
      <4>. HIDE DEF V, W
      <4>. QED
        BY <2>2, <2>5
    <3>. QED
      BY <3>1, <3>2 DEF Space!Next, Space!Map
  <2>6. ASSUME NEW n \in Tables, NEW va \in VAs, Changes(n, va, Null) PROVE Space!Next
    <3>1. Translation' = [Translation EXCEPT ![n][va] = Null]
      BY <2>4, <2>6
    <3>. QED
      BY <3>1 DEF Space!Next, Space!Unmap
  <2>7. ASSUME NEW n \in Tables, \A m \in Tables, va \in VAs : W(m, va) = IF m = n THEN Null ELSE V(m, va)
        PROVE  Space!Next
    <3>. HIDE DEF V, W
    <3>1. Translation' = [Translation EXCEPT ![n] = [va \in VAs |-> Null]]
      BY <2>2, <2>7
    <3>. QED
      BY <3>1 DEF Space!Next, Space!Destroy, Space!Empty
  <2>. QED
    BY <2>1, <2>3, <2>5, <2>6, <2>7 DEF Visible
<1>. QED
  BY <1>1, <1>2, Invariant, PTL DEF Spec, ImplementsAddressSpace, Space!Spec
=============================================================================
