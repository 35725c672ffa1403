------------------------------- MODULE MmProofs -------------------------------
(***************************************************************************)
(* Theorems of Mm and MmSpaces, for any number of tasks, pages and entries *)
(* of a table: each page keeps its one user, each task its own address     *)
(* space, and the lists of a task stay within what ind allows.             *)
(***************************************************************************)
EXTENDS MmSpaces, FiniteSetTheorems, TLAPS

-----------------------------------------------------------------------------
(* The inductive invariant.                                                *)

\* The lists that make a page a table, or a page of a user.
InTables(p) == \E t \in Slot : \E k \in 1 .. Len(kernel_pages[t]) : kernel_pages[t][k] = p
InUser(p)   == \E t \in Slot : \E k \in 1 .. Len(user_pages[t]) : user_pages[t][k].phys = p

\* The way to va in the address space of a slot, and the slot whose address
\* space a call works on.
Way(t, va) == Walk(pgd[t], va)
Target(t, c) == IF c.op = "fork" THEN nr_tasks ELSE t

Blank(t) == pgd[t] = 0 /\ kernel_pages[t] = <<>> /\ user_pages[t] = <<>>

Mapping == {"load", "fork", "fault"}

\* A task's place and its call fit: a call has a page in hand from the moment
\* it gets it to the moment it is mapped, however often it comes back for
\* tables meanwhile.
Shape(place, c) ==
    /\ \/ place \in {"boot", "loop", "thread", "user", "hung"} /\ c = NoCall
       \/ /\ place \in {"find", "claim"} /\ c.want = STRUCT /\ c.page = 0
          /\ c.op \in {"kthread", "fork"} /\ c.copied = 0
       \/ /\ place \in {"find", "claim"} /\ c.want = USER /\ c.page = 0
          /\ c.op \in Mapping
       \/ /\ place \in {"find", "claim"} /\ c.want \in Level /\ c.page # 0
          /\ c.op \in Mapping
       \/ /\ place = "map" /\ c.want \in {USER} \cup Level /\ c.page # 0
          /\ c.op \in Mapping
       \/ place = "next" /\ c.page = 0 /\ c.op \in {"kthread", "fork"}
       \/ place \in {"seen", "count", "check"} /\ c.page = 0 /\ c.op = "fault"
    /\ place = "claim" => c.found # 0
    /\ c.op = "kthread" => c.want = STRUCT
    /\ c.op = "load" => c.va = 0

CallShape(t) == Shape(at[t], call[t])

\* From sys_fork, or kernel_main, to the return of copy_process.
Copying(t)  == call[t].op \in {"kthread", "fork"}
Filling(t)  == Copying(t) /\ ~(call[t].want = STRUCT /\ at[t] # "next")
Process(t)  == at[t] = "user" \/ call[t].op \in {"fork", "fault"}

TaskInv ==
    /\ current < nr_tasks
    /\ \A t \in Task : CallShape(t)
    /\ \A t \in Task : t >= nr_tasks => at[t] = "thread" /\ ~held[t]
    /\ \A t \in Task : Copying(t) => t = current /\ held[t]

\* The slots no task has yet are empty, except for what copy_process has put
\* into the next one.
SlotInv ==
    /\ \A t \in Slot : t >= nr_tasks =>
          /\ struct[t] = 0 \/ (t = nr_tasks /\ Filling(current))
          /\ Blank(t) \/ (t = nr_tasks /\ Filling(current) /\ call[current].op = "fork")
    /\ \A t \in Task : t < nr_tasks /\ at[t] = "thread" => Blank(t)
    /\ \A t \in Task : call[t].op = "load" => user_pages[t] = <<>>
    /\ \A t \in Task : Process(t) => user_pages[t] # <<>> \/ mem_map = Page
    /\ Process(current) => ttbr0 = pgd[current]

\* The tables are a forest: an entry leads from a table to a table or a page
\* of a user, no two lead to one page, and none leads to a PGD.
TreeInv ==
    /\ \A p \in Page, i \in Index : table[p][i] # 0 =>
          /\ InTables(p)
          /\ InTables(table[p][i]) \/ InUser(table[p][i])
    /\ \A p, q \in Page, i, j \in Index :
          table[p][i] # 0 /\ table[p][i] = table[q][j] => p = q /\ i = j
    /\ \A t \in Slot : pgd[t] # 0 =>
          /\ InTables(pgd[t])
          /\ \A p \in Page, i \in Index : table[p][i] # pgd[t]
          /\ \A u \in Slot : pgd[u] = pgd[t] => u = t

\* user_pages lists what the tables lead to, and nothing else.
ListInv ==
    /\ \A t \in Slot, va \in Va : Way(t, va)[5] # 0 =>
          \E k \in 1 .. Len(user_pages[t]) :
              user_pages[t][k] = [phys |-> Way(t, va)[5], virt |-> va]
    /\ \A t \in Slot : \A k \in 1 .. Len(user_pages[t]) :
          Way(t, user_pages[t][k].virt)[5] = user_pages[t][k].phys

\* The way to va ends at a level.
Gap(t, va, k) == /\ Way(t, va)[k] = 0
                 /\ k # 1 => Way(t, va)[k - 1] # 0

\* What a call in progress has found out stays so: the entry it is about to
\* set is empty, and the page in its hands is blank.
Working(t, place, c) ==
    /\ place \in {"find", "claim"} /\ c.want \in Level => Gap(Target(t, c), c.va, c.want)
    /\ place \in {"find", "claim", "map"} /\ c.op \in Mapping /\ c.want # STRUCT =>
          Way(Target(t, c), c.va)[5] = 0
    /\ c.page # 0 => word[c.page] = ZERO

WorkInv == \A t \in Task : Working(t, at[t], call[t])

\* The child has the pages its parent had when it began to fork, as far as
\* they are copied.
Forking(place, c) ==
    LET list == user_pages[current]
    IN  c.op = "fork" =>
          /\ c.copied <= Len(list)
          /\ place # "next" /\ c.want # STRUCT =>
                c.copied < Len(list) /\ list[c.copied + 1].virt = c.va
          /\ \A va \in Va : Way(nr_tasks, va)[5] # 0 =>
                /\ \E k \in 1 .. c.copied : list[k].virt = va
                /\ word[Way(nr_tasks, va)[5]] = word[Way(current, va)[5]]
          /\ \/ mem_map = Page
             \/ \A k \in 1 .. c.copied : Way(nr_tasks, list[k].virt)[5] # 0

ForkInv == Forking(at[current], call[current])

\* Every page that is taken has its one user, and no other has any.
Accounted ==
    \A p \in Page :
        /\ p \in mem_map => \E u \in Users(p) : \A v \in Users(p) : v = u
        /\ p \notin mem_map => Users(p) = {}

MmInv == TypeOK /\ (wild \/ /\ Accounted /\ TaskInv /\ SlotInv /\ TreeInv
                            /\ ListInv /\ WorkInv /\ ForkInv)

-----------------------------------------------------------------------------
(* Numbers.                                                                *)

LEMMA Sizes ==
    /\ NR_TASKS \in Nat /\ NR_TASKS > 0
    /\ PAGING_PAGES \in Nat
    /\ FS_NPAGES \in Nat /\ FS_NPAGES <= PAGING_PAGES
    /\ PTRS_PER_TABLE \in Nat /\ PTRS_PER_TABLE > 0
    /\ INIT_TASK \in Task /\ 0 \notin Page /\ Address = Page \cup {0}
    /\ Task \subseteq Slot
    /\ Touched \subseteq Va /\ Va \subseteq Nat
    /\ ZERO \in Word /\ PROGRAM \in Word /\ WRITTEN \in Word
BY MemoryAssumption DEF Task, Slot, Page, Address, INIT_TASK, Va, Word

\* A quotient is the one number that leaves a small enough rest.
LEMMA Quotient ==
    ASSUME NEW a \in Nat, NEW b \in Nat, b > 0
    PROVE  /\ a \div b \in Nat
           /\ (a \div b) * b <= a
           /\ a < ((a \div b) * b) + b
           /\ a % b \in 0 .. b - 1
           /\ a = ((a \div b) * b) + (a % b)
OBVIOUS

LEMMA Product ==
    ASSUME NEW a \in Nat, NEW b \in Nat, NEW c \in Nat, a <= b
    PROVE  a * c <= b * c
OBVIOUS

LEMMA QuotientUnique ==
    ASSUME NEW a \in Nat, NEW b \in Nat, b > 0, NEW q \in Nat,
           q * b <= a, a < q * b + b
    PROVE  a \div b = q
<1> DEFINE r == a \div b
<1>1. r \in Nat /\ r * b <= a /\ a < r * b + b
  BY Quotient
<1> HIDE DEF r
<1>2. ~(r + 1 <= q)
  <2> SUFFICES ASSUME r + 1 <= q PROVE FALSE
    OBVIOUS
  <2>1. (r + 1) * b <= q * b
    BY <1>1, Product
  <2>2. (r + 1) * b = r * b + b
    BY <1>1
  <2> QED
    BY <1>1, <2>1, <2>2
<1>3. ~(q + 1 <= r)
  <2> SUFFICES ASSUME q + 1 <= r PROVE FALSE
    OBVIOUS
  <2>1. (q + 1) * b <= r * b
    BY <1>1, Product
  <2>2. (q + 1) * b = q * b + b
    OBVIOUS
  <2> QED
    BY <1>1, <2>1, <2>2
<1>4. r = q
  BY <1>1, <1>2, <1>3
<1> QED
  BY <1>4 DEF r

\* Dividing twice is dividing by the product.
LEMMA QuotientTwice ==
    ASSUME NEW a \in Nat, NEW b \in Nat, b > 0, NEW c \in Nat, c > 0
    PROVE  (a \div b) \div c = a \div (b * c)
<1> DEFINE q == a \div b
           r == q \div c
<1>1. q \in Nat /\ q * b <= a /\ a < q * b + b
  BY Quotient
<1> HIDE DEF q
<1>2. r \in Nat /\ r * c <= q /\ q < r * c + c
  BY <1>1, Quotient
<1> HIDE DEF r
<1>3. (r * c) * b <= q * b
  BY <1>1, <1>2, Product
<1>4. (q + 1) * b <= (r * c + c) * b
  BY <1>1, <1>2, Product
<1>5. /\ b * c \in Nat /\ b * c > 0
      /\ r * (b * c) = (r * c) * b
      /\ (r * c + c) * b = r * (b * c) + b * c
      /\ (q + 1) * b = q * b + b
  BY <1>1, <1>2
<1>6. r * (b * c) <= a /\ a < r * (b * c) + b * c
  BY <1>1, <1>2, <1>3, <1>4, <1>5
<1>7. a \div (b * c) = r
  BY <1>2, <1>5, <1>6, QuotientUnique
<1> QED
  BY <1>7 DEF q, r

LEMMA SpanIs ==
    LET P == PTRS_PER_TABLE
    IN  /\ Span[1] = P * P * P /\ Span[2] = P * P /\ Span[3] = P /\ Span[4] = 1
        /\ \A k \in Level : Span[k] \in Nat /\ Span[k] > 0
<1>1. PTRS_PER_TABLE \in Nat /\ PTRS_PER_TABLE > 0
  BY Sizes
<1>2. /\ PTRS_PER_TABLE * PTRS_PER_TABLE > 0
      /\ PTRS_PER_TABLE * PTRS_PER_TABLE \in Nat
  BY <1>1
<1>3. /\ PTRS_PER_TABLE * PTRS_PER_TABLE * PTRS_PER_TABLE > 0
      /\ PTRS_PER_TABLE * PTRS_PER_TABLE * PTRS_PER_TABLE \in Nat
  BY <1>1, <1>2
<1> QED
  BY <1>1, <1>2, <1>3 DEF Span, Level

LEMMA IndexType ==
    ASSUME NEW va \in Va, NEW k \in Level
    PROVE  IndexOf(va, k) \in Index
<1>1. va \in Nat /\ Span[k] \in Nat /\ Span[k] > 0
  BY SpanIs, Sizes
<1>2. va \div Span[k] \in Nat
  BY <1>1, Quotient
<1>3. (va \div Span[k]) % PTRS_PER_TABLE \in 0 .. PTRS_PER_TABLE - 1
  BY <1>2, Sizes, Quotient
<1> QED
  BY <1>3 DEF IndexOf, Index

\* The four indices of a virtual page are its digits: no two pages have the
\* same way.
LEMMA IndicesTell ==
    ASSUME NEW va \in Va, NEW wa \in Va,
           \A k \in Level : IndexOf(va, k) = IndexOf(wa, k)
    PROVE  va = wa
<1> DEFINE P == PTRS_PER_TABLE
<1>1. P \in Nat /\ P > 0 /\ va \in Nat /\ wa \in Nat
  BY Sizes
<1>2. /\ va \div 1 = va /\ wa \div 1 = wa
  BY <1>1
<1>3. /\ va % P = wa % P
      /\ (va \div P) % P = (wa \div P) % P
      /\ (va \div (P * P)) % P = (wa \div (P * P)) % P
      /\ (va \div (P * P * P)) % P = (wa \div (P * P * P)) % P
  BY <1>2, SpanIs DEF IndexOf, Level
<1> DEFINE T(x) == x \div (P * P * P)
<1>4. ASSUME NEW x \in Va
      PROVE  /\ x \div P \in Nat /\ x \div (P * P) \in Nat /\ T(x) \in Nat
             /\ x = ((x \div P) * P) + (x % P)
             /\ x \div P = ((x \div (P * P)) * P) + ((x \div P) % P)
             /\ x \div (P * P) = (T(x) * P) + ((x \div (P * P)) % P)
             /\ T(x) = T(x) % P
  <2>1. x \in Nat /\ x < P * (P * P * P)
    BY SpanIs, Sizes DEF Va
  <2>2. x \div P \in Nat /\ x = ((x \div P) * P) + (x % P)
    BY <2>1, <1>1, Quotient
  <2>3. P * P \in Nat /\ P * P > 0
    BY <1>1
  <2>4. x \div (P * P) \in Nat /\ (x \div P) \div P = x \div (P * P)
    BY <2>1, <2>3, <1>1, Quotient, QuotientTwice
  <2>5. x \div P = (((x \div P) \div P) * P) + ((x \div P) % P)
    BY <2>2, <1>1, Quotient
  <2>6. P * P * P \in Nat /\ P * P * P > 0
    BY <2>3, <1>1
  <2>7. T(x) \in Nat /\ (x \div (P * P)) \div P = T(x)
    BY <2>1, <2>3, <2>6, <1>1, Quotient, QuotientTwice
  <2>8. x \div (P * P) = (((x \div (P * P)) \div P) * P) + ((x \div (P * P)) % P)
    BY <2>4, <1>1, Quotient
  <2>9. T(x) < P
    <3> DEFINE c == P * P * P
               t == x \div c
    <3>1. t \in Nat /\ t * c <= x
      BY <2>1, <2>6, Quotient
    <3> HIDE DEF t
    <3>2. c \in Nat /\ x < P * c
      BY <2>1, <2>6
    <3> HIDE DEF c
    <3>3. ~(P <= t)
      <4> SUFFICES ASSUME P <= t PROVE FALSE
        OBVIOUS
      <4>1. P * c <= t * c
        BY <3>1, <3>2, <1>1, Product
      <4> QED
        BY <4>1, <3>1, <3>2, <2>1, <1>1
    <3> QED
      BY <3>3, <3>1, <1>1 DEF t, c
  <2>10. T(x) % P = T(x)
    <3> HIDE DEF T
    <3> QED
      BY <2>7, <2>9, <1>1
  <2> QED
    BY <2>2, <2>4, <2>5, <2>7, <2>8, <2>10
<1> HIDE DEF T
<1>5. T(va) = T(wa)
  BY <1>3, <1>4 DEF T
<1>6. va \div (P * P) = wa \div (P * P)
  BY <1>3, <1>4, <1>5
<1>7. va \div P = wa \div P
  BY <1>3, <1>4, <1>6
<1> QED
  BY <1>3, <1>4, <1>7

-----------------------------------------------------------------------------
(* The users of a page.                                                    *)

LEMMA UsersAre ==
    ASSUME NEW p \in Page
    PROVE  /\ p <= FS_NPAGES => <<"inode", 0, 0>> \in Users(p)
           /\ \A t \in Slot : struct[t] = p => <<"struct", t, 0>> \in Users(p)
           /\ \A t \in Task : call[t].page = p => <<"call", t, 0>> \in Users(p)
           /\ \A t \in Slot : \A k \in 1 .. Len(kernel_pages[t]) :
                 kernel_pages[t][k] = p => <<"table", t, k>> \in Users(p)
           /\ \A t \in Slot : \A k \in 1 .. Len(user_pages[t]) :
                 user_pages[t][k].phys = p => <<"user", t, k>> \in Users(p)
<1>1. p <= FS_NPAGES => <<"inode", 0, 0>> \in Inodes(p)
  BY Sizes DEF Inodes, Page
<1>2. ASSUME NEW t \in Slot, struct[t] = p PROVE <<"struct", t, 0>> \in Structs(p)
  BY <1>2 DEF Structs
<1>3. ASSUME NEW t \in Task, call[t].page = p PROVE <<"call", t, 0>> \in Calls(p)
  BY <1>3 DEF Calls
<1>4. ASSUME NEW t \in Slot, NEW k \in 1 .. Len(kernel_pages[t]), kernel_pages[t][k] = p
      PROVE  <<"table", t, k>> \in Tables(p)
  BY <1>4 DEF Tables
<1>5. ASSUME NEW t \in Slot, NEW k \in 1 .. Len(user_pages[t]), user_pages[t][k].phys = p
      PROVE  <<"user", t, k>> \in UserPages(p)
  BY <1>5 DEF UserPages
<1> QED
  BY <1>1, <1>2, <1>3, <1>4, <1>5 DEF Users

\* What it means that every page has one user.
LEMMA OneUserEach ==
    ASSUME Accounted, NEW p \in Page
    PROVE  /\ p \notin mem_map =>
                 /\ \A t \in Slot : struct[t] # p
                 /\ \A t \in Task : call[t].page # p
                 /\ ~InTables(p) /\ ~InUser(p)
           /\ \A t \in Task : call[t].page = p =>
                 /\ p \in mem_map /\ ~InTables(p) /\ ~InUser(p)
                 /\ \A u \in Task : call[u].page = p => u = t
           /\ InTables(p) => p \in mem_map /\ ~InUser(p)
           /\ InUser(p) => p \in mem_map
           /\ \A t, u \in Slot : \A k \in 1 .. Len(user_pages[t]) :
              \A l \in 1 .. Len(user_pages[u]) :
                 user_pages[t][k].phys = p /\ user_pages[u][l].phys = p => t = u /\ k = l
<1>1. p \notin mem_map => Users(p) = {}
  BY DEF Accounted
<1>2. ASSUME NEW u \in Users(p), NEW v \in Users(p) PROVE u = v
  BY <1>1 DEF Accounted
<1>3. ASSUME NEW u \in Users(p) PROVE p \in mem_map
  BY <1>1
<1>4. ASSUME NEW t \in Slot, struct[t] = p PROVE p \in mem_map
  BY <1>3, <1>4, UsersAre
<1>5. ASSUME NEW t \in Task, call[t].page = p
      PROVE  /\ p \in mem_map
             /\ <<"call", t, 0>> \in Users(p)
  BY <1>3, <1>5, UsersAre
<1>6. ASSUME InTables(p)
      PROVE  p \in mem_map /\ \E t, k : <<"table", t, k>> \in Users(p)
  BY <1>3, <1>6, UsersAre DEF InTables
<1>7. ASSUME InUser(p)
      PROVE  p \in mem_map /\ \E t, k : <<"user", t, k>> \in Users(p)
  BY <1>3, <1>7, UsersAre DEF InUser
<1>8. InTables(p) => ~InUser(p)
  BY <1>2, <1>6, <1>7
<1>9. ASSUME NEW t \in Task, call[t].page = p PROVE ~InTables(p) /\ ~InUser(p)
  BY <1>2, <1>5, <1>6, <1>7, <1>9
<1>10. ASSUME NEW t \in Task, NEW u \in Task, call[t].page = p, call[u].page = p
       PROVE  u = t
  BY <1>2, <1>5, <1>10
<1>11. ASSUME NEW t \in Slot, NEW u \in Slot,
              NEW k \in 1 .. Len(user_pages[t]), NEW l \in 1 .. Len(user_pages[u]),
              user_pages[t][k].phys = p, user_pages[u][l].phys = p
       PROVE  t = u /\ k = l
  <2>1. <<"user", t, k>> \in Users(p) /\ <<"user", u, l>> \in Users(p)
    BY <1>11, UsersAre
  <2> QED
    BY <1>2, <2>1
<1> QED
  BY <1>4, <1>5, <1>6, <1>7, <1>8, <1>9, <1>10, <1>11

LEMMA UserPageType ==
    ASSUME TypeOK, NEW t \in Slot, NEW k \in 1 .. Len(user_pages[t])
    PROVE  user_pages[t][k] \in [phys : Page, virt : Va]
<1> DEFINE S == [phys : Page, virt : Va]
<1>1. user_pages[t] \in Seq(S)
  BY DEF TypeOK
<1> HIDE DEF S
<1>2. user_pages[t][k] \in S
  BY <1>1
<1> QED
  BY <1>2 DEF S

\* The users a step adds, of each kind.
LEMMA StructAdded ==
    ASSUME TypeOK, NEW s \in Slot, NEW p \in Page, struct[s] = 0,
           struct' = [struct EXCEPT ![s] = p], NEW q \in Page
    PROVE  Structs(q)' = Structs(q) \cup (IF q = p THEN {<<"struct", s, 0>>} ELSE {})
<1>1. \A t \in Slot : struct'[t] = (IF t = s THEN p ELSE struct[t])
  BY DEF TypeOK
<1>2. struct[s] # q
  BY Sizes
<1> QED
  BY <1>1, <1>2 DEF Structs

LEMMA CallsKept ==
    ASSUME \A t \in Task : call'[t].page = call[t].page, NEW q
    PROVE  Calls(q)' = Calls(q)
BY DEF Calls

LEMMA CallAdded ==
    ASSUME NEW s \in Task, NEW p \in Page, call[s].page = 0, call'[s].page = p,
           \A t \in Task \ {s} : call'[t].page = call[t].page, NEW q \in Page
    PROVE  Calls(q)' = Calls(q) \cup (IF q = p THEN {<<"call", s, 0>>} ELSE {})
<1>1. call[s].page # q
  BY Sizes
<1> QED
  BY <1>1 DEF Calls

LEMMA CallEnded ==
    ASSUME NEW s \in Task, NEW p \in Page, call[s].page = p, call'[s].page = 0,
           \A t \in Task \ {s} : call'[t].page = call[t].page, NEW q \in Page
    PROVE  Calls(q)' = Calls(q) \ (IF q = p THEN {<<"call", s, 0>>} ELSE {})
<1>1. call'[s].page # q
  BY Sizes
<1> QED
  BY <1>1 DEF Calls

LEMMA TableAdded ==
    ASSUME TypeOK, NEW s \in Slot, NEW p \in Page, NEW q \in Page,
           kernel_pages' = [kernel_pages EXCEPT ![s] = Append(@, p)]
    PROVE  Tables(q)' = Tables(q) \cup
              (IF q = p THEN {<<"table", s, Len(kernel_pages[s]) + 1>>} ELSE {})
<1>1. ASSUME NEW t \in Slot
      PROVE  /\ kernel_pages[t] \in Seq(Page)
             /\ t # s => kernel_pages'[t] = kernel_pages[t]
             /\ t = s => /\ Len(kernel_pages'[t]) = Len(kernel_pages[t]) + 1
                         /\ kernel_pages'[t][Len(kernel_pages[t]) + 1] = p
                         /\ \A k \in 1 .. Len(kernel_pages[t]) :
                               kernel_pages'[t][k] = kernel_pages[t][k]
  BY DEF TypeOK
<1>2. \A t \in Slot : Len(kernel_pages[t]) \in Nat
  BY <1>1
<1> DEFINE K(t) == {k \in 1 .. Len(kernel_pages[t]) : kernel_pages[t][k] = q}
           L(t) == {k \in 1 .. Len(kernel_pages'[t]) : kernel_pages'[t][k] = q}
<1>3. \A t \in Slot : t # s => L(t) = K(t)
  BY <1>1
<1>4. L(s) = K(s) \cup (IF q = p THEN {Len(kernel_pages[s]) + 1} ELSE {})
  BY <1>1, <1>2
<1>5. /\ Tables(q) = UNION {{<<"table", t, k>> : k \in K(t)} : t \in Slot}
      /\ Tables(q)' = UNION {{<<"table", t, k>> : k \in L(t)} : t \in Slot}
  BY DEF Tables
<1> HIDE DEF K, L
<1> QED
  BY <1>3, <1>4, <1>5

LEMMA UserPageAdded ==
    ASSUME TypeOK, NEW s \in Slot, NEW e \in [phys : Page, virt : Va], NEW q \in Page,
           user_pages' = [user_pages EXCEPT ![s] = Append(@, e)]
    PROVE  UserPages(q)' = UserPages(q) \cup
              (IF q = e.phys THEN {<<"user", s, Len(user_pages[s]) + 1>>} ELSE {})
<1> DEFINE p == e.phys
<1>1. ASSUME NEW t \in Slot
      PROVE  /\ user_pages[t] \in Seq([phys : Page, virt : Va])
             /\ t # s => user_pages'[t] = user_pages[t]
             /\ t = s => /\ Len(user_pages'[t]) = Len(user_pages[t]) + 1
                         /\ user_pages'[t][Len(user_pages[t]) + 1].phys = p
                         /\ \A k \in 1 .. Len(user_pages[t]) :
                               user_pages'[t][k] = user_pages[t][k]
  <2>1. /\ user_pages[t] \in Seq([phys : Page, virt : Va])
        /\ t # s => user_pages'[t] = user_pages[t]
        /\ t = s => user_pages'[t] = Append(user_pages[t], e)
    BY DEF TypeOK
  <2> QED
    BY <2>1
<1>2. \A t \in Slot : Len(user_pages[t]) \in Nat
  BY <1>1
<1> DEFINE K(t) == {k \in 1 .. Len(user_pages[t]) : user_pages[t][k].phys = q}
           L(t) == {k \in 1 .. Len(user_pages'[t]) : user_pages'[t][k].phys = q}
<1>3. \A t \in Slot : t # s => L(t) = K(t)
  BY <1>1
<1>4. L(s) = K(s) \cup (IF q = p THEN {Len(user_pages[s]) + 1} ELSE {})
  BY <1>1, <1>2
<1>5. /\ UserPages(q) = UNION {{<<"user", t, k>> : k \in K(t)} : t \in Slot}
      /\ UserPages(q)' = UNION {{<<"user", t, k>> : k \in L(t)} : t \in Slot}
  BY DEF UserPages
<1> HIDE DEF K, L
<1> QED
  BY <1>3, <1>4, <1>5

\* How the accounts stay right: no user changes, a page that was free gets one,
\* or a page is handed from one user to another.
LEMMA AccountsSame ==
    ASSUME Accounted, mem_map' = mem_map, \A q \in Page : Users(q)' = Users(q)
    PROVE  Accounted'
BY DEF Accounted

LEMMA AccountsClaim ==
    ASSUME Accounted, NEW p \in Page, p \notin mem_map, mem_map' = mem_map \cup {p},
           NEW u, \A q \in Page : Users(q)' = Users(q) \cup (IF q = p THEN {u} ELSE {})
    PROVE  Accounted'
<1>1. \A q \in Page : q # p => Users(q)' = Users(q)
  OBVIOUS
<1>2. Users(p)' = {u}
  BY DEF Accounted
<1> QED
  BY <1>1, <1>2 DEF Accounted

LEMMA AccountsHanded ==
    ASSUME Accounted, NEW p \in Page, mem_map' = mem_map, NEW u, NEW v,
           u \in Users(p),
           \A q \in Page : q # p => Users(q)' = Users(q),
           Users(p)' = (Users(p) \ {u}) \cup {v}
    PROVE  Accounted'
<1>1. Users(p) = {u} /\ p \in mem_map
  BY DEF Accounted
<1>2. Users(p)' = {v}
  BY <1>1
<1> QED
  BY <1>1, <1>2 DEF Accounted

-----------------------------------------------------------------------------
(* The way to a page.                                                      *)

LEMMA WayIs ==
    ASSUME NEW t \in Slot, NEW va \in Va
    PROVE  /\ Way(t, va)[1] = pgd[t]
           /\ \A k \in Level : Way(t, va)[k + 1] = Entry(Way(t, va)[k], va, k)
           /\ Translate(pgd[t], va) = Way(t, va)[5]
BY DEF Way, Walk, Translate, Level

LEMMA EntryType ==
    ASSUME TypeOK, NEW p \in Address, NEW va \in Va, NEW k \in Level
    PROVE  Entry(p, va, k) \in Address
BY IndexType, Sizes DEF Entry, TypeOK

LEMMA WayType ==
    ASSUME TypeOK, NEW t \in Slot, NEW va \in Va, NEW k \in 1 .. 5
    PROVE  Way(t, va)[k] \in Address
<1>1. Way(t, va)[1] \in Address
  BY WayIs DEF TypeOK
<1>2. ASSUME NEW j \in Level, Way(t, va)[j] \in Address
      PROVE  Way(t, va)[j + 1] \in Address
  BY <1>2, WayIs, EntryType
<1> QED
  BY <1>1, <1>2 DEF Level

\* Where the way goes on, it has not ended before.
LEMMA WayBefore ==
    ASSUME TypeOK, NEW t \in Slot, NEW va \in Va, NEW k \in Level,
           Way(t, va)[k + 1] # 0
    PROVE  /\ Way(t, va)[k] \in Page
           /\ Way(t, va)[k + 1] = table[Way(t, va)[k]][IndexOf(va, k)]
<1>1. Way(t, va)[k] \in Address
  BY WayType DEF Level
<1>2. Way(t, va)[k + 1] = Entry(Way(t, va)[k], va, k)
  BY WayIs
<1> QED
  BY <1>1, <1>2, Sizes DEF Entry

LEMMA WayDown ==
    ASSUME TypeOK, NEW t \in Slot, NEW va \in Va, NEW k \in 1 .. 5,
           Way(t, va)[k] # 0
    PROVE  \A j \in 1 .. k : Way(t, va)[j] # 0
<1>1. ASSUME NEW j \in Level, Way(t, va)[j + 1] # 0 PROVE Way(t, va)[j] # 0
  BY <1>1, WayBefore, Sizes
<1> QED
  BY <1>1 DEF Level

\* No two tables, or pages, of two ways are one: the ways have met before and
\* have the same indices down to it.
LEMMA SameBefore ==
    ASSUME TypeOK, TreeInv,
           NEW t \in Slot, NEW va \in Va, NEW k \in Level,
           NEW u \in Slot, NEW wa \in Va, NEW l \in Level,
           Way(t, va)[k + 1] # 0, Way(t, va)[k + 1] = Way(u, wa)[l + 1]
    PROVE  /\ Way(t, va)[k] # 0 /\ Way(t, va)[k] = Way(u, wa)[l]
           /\ IndexOf(va, k) = IndexOf(wa, l)
<1>1. /\ Way(t, va)[k] \in Page /\ Way(u, wa)[l] \in Page
      /\ table[Way(t, va)[k]][IndexOf(va, k)] # 0
      /\ table[Way(t, va)[k]][IndexOf(va, k)] = table[Way(u, wa)[l]][IndexOf(wa, l)]
  BY WayBefore
<1>2. IndexOf(va, k) \in Index /\ IndexOf(wa, l) \in Index
  BY IndexType
<1> QED
  BY <1>1, <1>2, Sizes DEF TreeInv

LEMMA SameStart ==
    ASSUME TypeOK, TreeInv, NEW t \in Slot, NEW va \in Va,
           NEW u \in Slot, NEW wa \in Va, NEW l \in 1 .. 5,
           pgd[t] # 0, pgd[t] = Way(u, wa)[l]
    PROVE  u = t /\ l = 1
<1>1. CASE l = 1
  BY <1>1, WayIs DEF TreeInv
<1>2. CASE l # 1
  <2>1. PICK k \in Level : l = k + 1
    BY <1>2 DEF Level
  <2>2. /\ Way(u, wa)[k] \in Page
        /\ pgd[t] = table[Way(u, wa)[k]][IndexOf(wa, k)]
    BY <2>1, WayBefore
  <2>3. IndexOf(wa, k) \in Index
    BY IndexType
  <2> QED
    BY <2>2, <2>3 DEF TreeInv
<1> QED
  BY <1>1, <1>2

LEMMA SameWay ==
    ASSUME TypeOK, TreeInv,
           NEW t \in Slot, NEW va \in Va, NEW u \in Slot, NEW wa \in Va,
           NEW k \in 1 .. 5, NEW l \in 1 .. 5,
           Way(t, va)[k] # 0, Way(t, va)[k] = Way(u, wa)[l]
    PROVE  /\ t = u /\ k = l
           /\ \A j \in Level : j < k => IndexOf(va, j) = IndexOf(wa, j)
<1> DEFINE P(n) == \A m \in 1 .. 5 :
              Way(t, va)[n] # 0 /\ Way(t, va)[n] = Way(u, wa)[m] =>
                 /\ t = u /\ n = m
                 /\ \A j \in Level : j < n => IndexOf(va, j) = IndexOf(wa, j)
<1>1. P(1)
  BY WayIs, SameStart DEF Level
<1>2. ASSUME NEW n \in Level, P(n) PROVE P(n + 1)
  <2> SUFFICES ASSUME NEW m \in 1 .. 5,
                      Way(t, va)[n + 1] # 0, Way(t, va)[n + 1] = Way(u, wa)[m]
               PROVE  /\ t = u /\ n + 1 = m
                      /\ \A j \in Level : j < n + 1 => IndexOf(va, j) = IndexOf(wa, j)
    OBVIOUS
  <2>1. m # 1
    <3> SUFFICES ASSUME m = 1 PROVE FALSE
      OBVIOUS
    <3>1. pgd[u] # 0 /\ pgd[u] = Way(t, va)[n + 1]
      BY WayIs
    <3>2. n + 1 \in 1 .. 5
      BY DEF Level
    <3>3. n + 1 = 1
      BY <3>1, <3>2, SameStart
    <3> QED
      BY <3>3 DEF Level
  <2>2. PICK i \in Level : m = i + 1
    BY <2>1 DEF Level
  <2>3. /\ Way(t, va)[n] # 0 /\ Way(t, va)[n] = Way(u, wa)[i]
        /\ IndexOf(va, n) = IndexOf(wa, i)
    BY <2>2, SameBefore
  <2>4. i \in 1 .. 5
    BY DEF Level
  <2>5. /\ t = u /\ n = i
        /\ \A j \in Level : j < n => IndexOf(va, j) = IndexOf(wa, j)
    BY <1>2, <2>3, <2>4
  <2> QED
    BY <2>2, <2>3, <2>5 DEF Level
<1> HIDE DEF P
<1>3. P(1) /\ P(2) /\ P(3) /\ P(4) /\ P(5)
  BY <1>1, <1>2 DEF Level
<1>4. P(k)
  BY <1>3
<1> QED
  BY <1>4 DEF P

\* A page of a user is at one virtual page of one task.
LEMMA SamePage ==
    ASSUME TypeOK, TreeInv,
           NEW t \in Slot, NEW va \in Va, NEW u \in Slot, NEW wa \in Va,
           Way(t, va)[5] # 0, Way(t, va)[5] = Way(u, wa)[5]
    PROVE  t = u /\ va = wa
BY SameWay, IndicesTell DEF Level

\* What a way leads to is listed: a table, or in the end a page of a user.
LEMMA WayListed ==
    ASSUME TypeOK, TreeInv, ListInv, NEW t \in Slot, NEW va \in Va
    PROVE  /\ \A k \in Level : Way(t, va)[k] # 0 => Way(t, va)[k] \in Page /\ InTables(Way(t, va)[k])
           /\ Way(t, va)[5] # 0 => Way(t, va)[5] \in Page /\ InUser(Way(t, va)[5])
<1>1. ASSUME NEW k \in Level, Way(t, va)[k] # 0
      PROVE  Way(t, va)[k] \in Page /\ InTables(Way(t, va)[k])
  <2>1. Way(t, va)[k] \in Page
    BY <1>1, WayType, Sizes DEF Level
  <2>2. CASE k = 1
    BY <1>1, <2>1, <2>2, WayIs DEF TreeInv
  <2>3. CASE k = 2 \/ k = 3 \/ k = 4
    <3>1. PICK j \in Level : k = j + 1
      BY <2>3 DEF Level
    <3>2. /\ Way(t, va)[j] \in Page /\ IndexOf(va, j) \in Index
          /\ Way(t, va)[k] = table[Way(t, va)[j]][IndexOf(va, j)]
      BY <1>1, <3>1, WayBefore, IndexType
    <3>3. InTables(Way(t, va)[k]) \/ InUser(Way(t, va)[k])
      BY <1>1, <3>2 DEF TreeInv
    <3>4. ASSUME InUser(Way(t, va)[k]) PROVE FALSE
      <4>0. PICK u \in Slot :
               \E i \in 1 .. Len(user_pages[u]) : user_pages[u][i].phys = Way(t, va)[k]
        BY <3>4 DEF InUser
      <4>1. PICK i \in 1 .. Len(user_pages[u]) : user_pages[u][i].phys = Way(t, va)[k]
        BY <4>0
      <4>2. user_pages[u][i].virt \in Va
        BY UserPageType
      <4>3. Way(u, user_pages[u][i].virt)[5] = Way(t, va)[k]
        BY <4>1 DEF ListInv
      <4>4. k = 5
        BY <1>1, <4>2, <4>3, SameWay DEF Level
      <4> QED
        BY <4>4 DEF Level
    <3> QED
      BY <2>1, <3>3, <3>4
  <2> QED
    BY <2>1, <2>2, <2>3 DEF Level
<1>2. ASSUME Way(t, va)[5] # 0
      PROVE  Way(t, va)[5] \in Page /\ InUser(Way(t, va)[5])
  <2>1. Way(t, va)[5] \in Page
    BY <1>2, WayType, Sizes
  <2>2. PICK k \in 1 .. Len(user_pages[t]) :
           user_pages[t][k] = [phys |-> Way(t, va)[5], virt |-> va]
    BY <1>2 DEF ListInv
  <2> QED
    BY <2>1, <2>2 DEF InUser
<1> QED
  BY <1>1, <1>2

\* A page that no list has is a table of nothing.
LEMMA Unlisted ==
    ASSUME TypeOK, TreeInv, ListInv, NEW p \in Page, ~InTables(p), ~InUser(p)
    PROVE  /\ \A i \in Index : table[p][i] = 0
           /\ \A q \in Page, i \in Index : table[q][i] # p
           /\ \A t \in Slot : pgd[t] # p
           /\ ClearedTable(p) = table
<1>1. \A i \in Index : table[p][i] = 0
  BY DEF TreeInv
<1>2. \A q \in Page, i \in Index : table[q][i] # p
  BY Sizes DEF TreeInv
<1>3. \A t \in Slot : pgd[t] # p
  BY Sizes DEF TreeInv
<1>4. /\ table \in [Page -> [Index -> Address]]
      /\ table[p] \in [Index -> Address]
  BY DEF TypeOK
<1>5. [i \in Index |-> 0] = table[p]
  BY <1>1, <1>4
<1>6. ClearedTable(p) = table
  BY <1>4, <1>5 DEF ClearedTable
<1> QED
  BY <1>1, <1>2, <1>3, <1>6

-----------------------------------------------------------------------------
(* What a step does to the ways.                                           *)

LEMMA WaysKept ==
    ASSUME UNCHANGED <<table, pgd>>, NEW t, NEW va
    PROVE  Way(t, va)' = Way(t, va)
BY DEF Way, Walk, Entry

LEMMA NextWayIs ==
    ASSUME NEW t \in Slot, NEW va \in Va
    PROVE  /\ Way(t, va)'[1] = pgd'[t]
           /\ \A k \in Level : Way(t, va)'[k + 1] =
                 (IF Way(t, va)'[k] = 0 THEN 0 ELSE table'[Way(t, va)'[k]][IndexOf(va, k)])
<1>1. /\ Way(t, va)'[1] = pgd'[t]
      /\ \A k \in Level : Way(t, va)'[k + 1] = Entry(Way(t, va)[k], va, k)'
  BY DEF Way, Walk, Level
<1>2. \A k \in Level : Entry(Way(t, va)[k], va, k)' =
          (IF Way(t, va)'[k] = 0 THEN 0 ELSE table'[Way(t, va)'[k]][IndexOf(va, k)])
  BY DEF Entry
<1> QED
  BY <1>1, <1>2

Roots(t, v) == table' = table /\ pgd' = [pgd EXCEPT ![t] = v]

\* A PGD for a task that had none.
LEMMA PgdSet ==
    ASSUME TypeOK, NEW t \in Slot, NEW v \in Page, pgd[t] = 0,
           \A i \in Index : table[v][i] = 0,
           Roots(t, v),
           NEW u \in Slot, NEW wa \in Va
    PROVE  /\ u # t => \A j \in 1 .. 5 : Way(u, wa)'[j] = Way(u, wa)[j]
           /\ \A j \in 2 .. 5 : Way(u, wa)'[j] = Way(u, wa)[j]
           /\ Way(t, wa)'[1] = v
<1>0. table' = table /\ pgd' = [x \in Slot |-> IF x = t THEN v ELSE pgd[x]]
  BY DEF TypeOK, Roots
<1>1. \A x \in Slot : pgd'[x] = (IF x = t THEN v ELSE pgd[x])
  BY <1>0
<1>2. ASSUME u # t PROVE Way(u, wa)' = Way(u, wa)
  BY <1>0, <1>1, <1>2 DEF Way, Walk, Entry
<1>3. Way(t, wa)'[1] = v
  BY <1>1, NextWayIs
<1>4. \A j \in 2 .. 5 : Way(t, wa)'[j] = 0 /\ Way(t, wa)[j] = 0
  <2>1. \A k \in Level : IndexOf(wa, k) \in Index
    BY IndexType
  <2>2. Way(t, wa)'[2] = 0 /\ Way(t, wa)[2] = 0
    BY <1>0, <1>3, <2>1, WayIs, NextWayIs, Sizes DEF Level, Entry
  <2>3. Way(t, wa)'[3] = 0 /\ Way(t, wa)[3] = 0
    BY <2>2, WayIs, NextWayIs DEF Level, Entry
  <2>4. Way(t, wa)'[4] = 0 /\ Way(t, wa)[4] = 0
    BY <2>3, WayIs, NextWayIs DEF Level, Entry
  <2>5. Way(t, wa)'[5] = 0 /\ Way(t, wa)[5] = 0
    BY <2>4, WayIs, NextWayIs DEF Level, Entry
  <2> QED
    BY <2>2, <2>3, <2>4, <2>5
<1> QED
  BY <1>2, <1>3, <1>4

\* The entry at the end of a way is set.
Leads(t, va, k, v) ==
    /\ table' = [table EXCEPT ![Way(t, va)[k]][IndexOf(va, k)] = v]
    /\ pgd' = pgd

\* An entry where there was none, for a page that is in no table: only the
\* ways through it get longer, by one page.
LEMMA EntrySet ==
    ASSUME TypeOK, TreeInv, NEW t \in Slot, NEW va \in Va, NEW k \in Level,
           NEW v \in Page, ~InTables(v),
           Way(t, va)[k] # 0, Way(t, va)[k + 1] = 0,
           Leads(t, va, k, v), InTables(Way(t, va)[k]),
           NEW u \in Slot, NEW wa \in Va
    PROVE  \A j \in 1 .. 5 :
              \/ Way(u, wa)'[j] = Way(u, wa)[j]
              \/ /\ u = t /\ j = k + 1
                 /\ Way(u, wa)'[j] = v /\ Way(u, wa)[j] = 0
                 /\ Way(u, wa)[k] = Way(t, va)[k]
                 /\ IndexOf(wa, k) = IndexOf(va, k)
<1> DEFINE q == Way(t, va)[k]
           n == IndexOf(va, k)
<1>1. q \in Page /\ n \in Index /\ table[q][n] = 0
  <2>1. q \in Page
    BY WayType, Sizes DEF Level
  <2>2. Way(t, va)[k + 1] = Entry(q, va, k)
    BY WayIs
  <2> QED
    BY <2>1, <2>2, IndexType, Sizes DEF Entry
<1>2. q # v
  OBVIOUS
<1>3. \A p \in Page, i \in Index :
          table'[p][i] = (IF p = q /\ i = n THEN v ELSE table[p][i])
  <2>1. /\ table \in [Page -> [Index -> Address]]
        /\ table' = [table EXCEPT ![q][n] = v]
    BY DEF TypeOK, Leads
  <2> HIDE DEF q, n
  <2> QED
    BY <1>1, <2>1
<1>4. \A i \in Index : table[v][i] = 0
  BY DEF TreeInv
<1> DEFINE R(j) == \/ Way(u, wa)'[j] = Way(u, wa)[j]
                   \/ /\ u = t /\ j = k + 1
                      /\ Way(u, wa)'[j] = v /\ Way(u, wa)[j] = 0
                      /\ Way(u, wa)[k] = q /\ IndexOf(wa, k) = n
<1>5. R(1)
  BY WayIs, NextWayIs DEF Leads
<1>6. ASSUME NEW j \in Level, R(j) PROVE R(j + 1)
  <2>1. /\ Way(u, wa)[j + 1] = Entry(Way(u, wa)[j], wa, j)
        /\ Way(u, wa)'[j + 1] =
              (IF Way(u, wa)'[j] = 0 THEN 0 ELSE table'[Way(u, wa)'[j]][IndexOf(wa, j)])
        /\ Way(u, wa)[j] \in Address
        /\ IndexOf(wa, j) \in Index
    BY WayIs, NextWayIs, WayType, IndexType DEF Level
  <2>2. CASE Way(u, wa)'[j] = Way(u, wa)[j] /\ Way(u, wa)[j] = 0
    BY <2>1, <2>2 DEF Entry
  <2>3. CASE /\ Way(u, wa)'[j] = Way(u, wa)[j] /\ Way(u, wa)[j] # 0
             /\ ~(Way(u, wa)[j] = q /\ IndexOf(wa, j) = n)
    <3>1. Way(u, wa)[j] \in Page
      BY <2>1, <2>3, Sizes
    <3>2. table'[Way(u, wa)[j]][IndexOf(wa, j)] = table[Way(u, wa)[j]][IndexOf(wa, j)]
      BY <1>3, <2>1, <2>3, <3>1
    <3> QED
      BY <2>1, <2>3, <3>2 DEF Entry
  <2>4. CASE /\ Way(u, wa)'[j] = Way(u, wa)[j] /\ Way(u, wa)[j] # 0
             /\ Way(u, wa)[j] = q /\ IndexOf(wa, j) = n
    <3>1. j \in 1 .. 5 /\ k \in 1 .. 5
      BY DEF Level
    <3>2. u = t /\ j = k
      BY <2>4, <3>1, SameWay
    <3>3. Way(u, wa)'[j + 1] = v /\ Way(u, wa)[j + 1] = 0
      BY <1>1, <1>3, <2>1, <2>4 DEF Entry
    <3> QED
      BY <2>4, <3>2, <3>3
  <2>5. CASE Way(u, wa)'[j] # Way(u, wa)[j]
    <3>1. Way(u, wa)'[j] = v /\ Way(u, wa)[j] = 0
      BY <1>6, <2>5
    <3>2. table'[v][IndexOf(wa, j)] = 0
      BY <1>2, <1>3, <1>4, <2>1
    <3> QED
      BY <2>1, <3>1, <3>2 DEF Entry
  <2> QED
    BY <2>2, <2>3, <2>4, <2>5
<1>7. R(1) /\ R(2) /\ R(3) /\ R(4) /\ R(5)
  <2> HIDE DEF R
  <2> QED
    BY <1>5, <1>6 DEF Level
<1>8. \A j \in 1 .. 5 : R(j)
  <2> HIDE DEF R
  <2> QED
    BY <1>7
<1> QED
  BY <1>8

LEMMA EntryReached ==
    ASSUME TypeOK, TreeInv, NEW t \in Slot, NEW va \in Va, NEW k \in Level,
           NEW v \in Page, ~InTables(v),
           Way(t, va)[k] # 0, Way(t, va)[k + 1] = 0,
           Leads(t, va, k, v), InTables(Way(t, va)[k])
    PROVE  Way(t, va)'[k + 1] = v
<1>0. \A j \in 1 .. 5 : j # k + 1 => Way(t, va)'[j] = Way(t, va)[j]
  BY EntrySet
<1> DEFINE q == Way(t, va)[k]
           n == IndexOf(va, k)
<1>1. q \in Page /\ n \in Index
  BY WayType, IndexType, Sizes DEF Level
<1>2. Way(t, va)'[k] = q
  <2>1. k \in 1 .. 5 /\ k # k + 1
    BY DEF Level
  <2> QED
    BY <1>0, <2>1
<1>3. table'[q][n] = v
  <2>1. /\ table \in [Page -> [Index -> Address]]
        /\ table' = [table EXCEPT ![q][n] = v]
    BY DEF TypeOK, Leads
  <2> HIDE DEF q, n
  <2> QED
    BY <1>1, <2>1
<1> QED
  BY <1>1, <1>2, <1>3, NextWayIs, Sizes

-----------------------------------------------------------------------------
(* The task that has the CPU.                                              *)

LEMMA CallType ==
    ASSUME TypeOK, NEW t \in Task
    PROVE  /\ call[t] \in Call
           /\ call[t].want \in Want /\ call[t].found \in Address
           /\ call[t].page \in Address /\ call[t].va \in Va
           /\ call[t].copied \in Nat /\ call[t].seen \in Nat
           /\ call[t].op \in {"none", "kthread", "fork", "load", "fault"}
BY DEF TypeOK, Call

LEMMA Current ==
    ASSUME MmInv, ~wild
    PROVE  /\ current \in Task /\ current \in Slot /\ nr_tasks \in Slot
           /\ current \in Nat /\ nr_tasks \in Nat /\ nr_tasks <= NR_TASKS
           /\ current < nr_tasks /\ CallShape(current)
           /\ dst = Target(current, me) /\ dst \in Slot
BY Sizes DEF MmInv, TypeOK, TaskInv, dst, me, Target, Task, Slot

\* What a call has at hand when it marks a page.
LEMMA Claiming ==
    ASSUME MmInv, At("claim")
    PROVE  /\ me.found \in Page /\ me.want \in Want /\ me.va \in Va
           /\ me.want = STRUCT => me.op \in {"kthread", "fork"} /\ me.page = 0
           /\ me.want = USER => me.op \in Mapping /\ me.page = 0
           /\ me.want \in Level =>
                 /\ me.op \in Mapping /\ me.page \in Page
                 /\ Gap(dst, me.va, me.want)
<1>1. /\ ~wild /\ at[current] = "claim" /\ me = call[current]
      /\ CallShape(current) /\ current \in Task /\ dst = Target(current, me)
  BY Current DEF At, me
<1>2. /\ me.found \in Address /\ me.want \in Want /\ me.va \in Va /\ me.page \in Address
  BY <1>1, CallType DEF MmInv
<1>3. /\ me.found # 0
      /\ me.want = STRUCT => me.op \in {"kthread", "fork"} /\ me.page = 0
      /\ me.want = USER => me.op \in Mapping /\ me.page = 0
      /\ me.want \in Level => me.op \in Mapping /\ me.page # 0
  BY <1>1 DEF CallShape, Shape, STRUCT, USER, Level
<1>4. me.want \in Level => Gap(dst, me.va, me.want)
  BY <1>1 DEF MmInv, WorkInv, Working
<1>5. me.found \in Page
  BY <1>2, <1>3, Sizes
<1>6. me.want \in Level => me.page \in Page
  BY <1>2, <1>3, Sizes
<1> QED
  BY <1>2, <1>3, <1>4, <1>5, <1>6

\* And when it maps one.
LEMMA AtMap ==
    ASSUME MmInv, At("map")
    PROVE  /\ me.page \in Page /\ me.va \in Va /\ me.op \in Mapping
           /\ Way(dst, me.va)[5] = 0
           /\ word[me.page] = ZERO
<1>1. /\ ~wild /\ at[current] = "map" /\ me = call[current]
      /\ CallShape(current) /\ current \in Task /\ dst = Target(current, me)
  BY Current DEF At, me
<1>2. me.va \in Va /\ me.page \in Address
  BY <1>1, CallType DEF MmInv
<1>3. me.op \in Mapping /\ me.page # 0 /\ me.want # STRUCT
  BY <1>1 DEF CallShape, Shape, STRUCT, USER, Level
<1>4. Way(dst, me.va)[5] = 0 /\ word[me.page] = ZERO
  BY <1>1, <1>3 DEF MmInv, WorkInv, Working
<1> QED
  BY <1>2, <1>3, <1>4, Sizes

LEMMA Mapping4 ==
    ASSUME MmInv, NEW op, map_page_entry(op)
    PROVE  /\ At("map") /\ me.op = op
           /\ Way(dst, me.va)[4] \in Page /\ InTables(Way(dst, me.va)[4])
           /\ Leads(dst, me.va, 4, me.page)
<1>1. /\ At("map") /\ ~wild /\ me.op = op /\ dst \in Slot /\ me.va \in Va
  BY AtMap, Current DEF map_page_entry, At
<1>2. Way(dst, me.va)[4] # 0
  BY DEF map_page_entry, Absent, Way, Level
<1>3. Way(dst, me.va)[4] \in Page /\ InTables(Way(dst, me.va)[4])
  BY <1>1, <1>2, WayListed DEF MmInv, Level
<1>4. Leads(dst, me.va, 4, me.page)
  BY DEF map_page_entry, Leads, Way
<1> QED
  BY <1>1, <1>3, <1>4

\* copy_virt_memory reads the page where the parent has it.
LEMMA AtCopy ==
    ASSUME MmInv, map_page_copy
    PROVE  /\ dst = nr_tasks /\ current < nr_tasks
           /\ me.copied \in Nat /\ me.copied < Len(user_pages[current])
           /\ user_pages[current][me.copied + 1].virt = me.va
           /\ Translate(ttbr0, me.va) = Way(current, me.va)[5]
           /\ Way(current, me.va)[5] \in Page
<1>1. /\ ~wild /\ at[current] = "map" /\ me = call[current] /\ me.op = "fork"
      /\ CallShape(current) /\ current \in Task /\ current \in Slot
      /\ dst = nr_tasks /\ current < nr_tasks /\ me.va \in Va
  BY Current, AtMap DEF At, me, map_page_copy, map_page_entry, dst
<1>2. me.copied \in Nat /\ user_pages[current] \in Seq([phys : Page, virt : Va])
  BY <1>1, CallType DEF MmInv, TypeOK
<1>3. me.want # STRUCT
  BY <1>1 DEF CallShape, Shape, STRUCT, USER, Level
<1>4. me.copied < Len(user_pages[current]) /\ user_pages[current][me.copied + 1].virt = me.va
  BY <1>1, <1>3 DEF MmInv, ForkInv, Forking
<1>5. me.copied + 1 \in 1 .. Len(user_pages[current])
  BY <1>2, <1>4
<1>6. Way(current, me.va)[5] \in Page
  <2>1. Way(current, me.va)[5] = user_pages[current][me.copied + 1].phys
    BY <1>1, <1>4, <1>5 DEF MmInv, ListInv
  <2> QED
    BY <1>1, <1>5, <2>1, UserPageType DEF MmInv
<1>7. Translate(ttbr0, me.va) = Way(current, me.va)[5]
  BY <1>1, WayIs DEF MmInv, SlotInv, Process
<1> QED
  BY <1>1, <1>2, <1>4, <1>6, <1>7

-----------------------------------------------------------------------------
(* Every variable stays in its type.                                       *)

LEMMA PlacesType ==
    ASSUME TypeOK,
           NEW place \in {"boot", "loop", "thread", "user", "find", "claim", "map",
                          "next", "seen", "count", "check", "hung"},
           Goto(place)
    PROVE  at' \in [Task -> {"boot", "loop", "thread", "user", "find", "claim",
                             "map", "next", "seen", "count", "check", "hung"}]
BY DEF TypeOK, Goto

LEMMA CallsType ==
    ASSUME TypeOK, NEW c \in Call, Set(c)
    PROVE  call' \in [Task -> Call]
BY DEF TypeOK, Set

LEMMA NoCallType == NoCall \in Call
BY MemoryAssumption, Sizes, SpanIs DEF NoCall, Call, Want, USER, Va

\* A step of a call leaves the memory in its type, and a call.
LEMMA QuietTypes ==
    ASSUME TypeOK, UNCHANGED <<memory, mm, nr_tasks, struct>>, current' \in Task,
           ttbr0' \in Address, ind' \in Nat, wild' \in BOOLEAN,
           at' \in [Task -> {"boot", "loop", "thread", "user", "find", "claim",
                             "map", "next", "seen", "count", "check", "hung"}],
           call' \in [Task -> Call], held' \in [Task -> BOOLEAN]
    PROVE  TypeOK'
BY DEF TypeOK, memory, mm

LEMMA TypeStep ==
    ASSUME MmInv, [Next]_vars
    PROVE  TypeOK'
<1> DEFINE Places == {"boot", "loop", "thread", "user", "find", "claim",
                      "map", "next", "seen", "count", "check", "hung"}
<1>0. /\ TypeOK /\ call \in [Task -> Call] /\ held \in [Task -> BOOLEAN]
      /\ at \in [Task -> Places] /\ ind \in Nat /\ wild \in BOOLEAN
      /\ ttbr0 \in Address /\ current \in Task
  BY DEF MmInv, TypeOK
<1>m. me \in Call
  BY <1>0 DEF me
<1>q. ASSUME UNCHANGED <<memory, mm, nr_tasks, struct, current, ttbr0, ind, held>>,
             wild' \in BOOLEAN, at' \in [Task -> Places], call' \in [Task -> Call]
      PROVE  TypeOK'
  BY <1>0, <1>q, QuietTypes
<1>c. ASSUME NEW op \in {"kthread", "fork"}, copy_process(op) PROVE TypeOK'
  <2>1. held' \in [Task -> BOOLEAN]
    BY <1>0, <1>c DEF copy_process
  <2>2. [NoCall EXCEPT !.op = op, !.want = STRUCT] \in Call
    BY NoCallType DEF NoCall, Call, STRUCT, Want
  <2>3. call' \in [Task -> Call]
    BY <1>0, <1>c, <2>2, CallsType DEF copy_process
  <2>4. at' \in [Task -> Places]
    BY <1>0, <1>c, PlacesType DEF copy_process
  <2> QED
    BY <1>0, <1>c, <2>1, <2>3, <2>4, QuietTypes DEF copy_process
<1>1. ASSUME kernel_main PROVE TypeOK'
  BY <1>1, <1>c DEF kernel_main
<1>2. ASSUME sys_fork PROVE TypeOK'
  BY <1>2, <1>c DEF sys_fork
<1>3. ASSUME copy_virt_memory PROVE TypeOK'
  <2> DEFINE c == [me EXCEPT !.want = USER,
                             !.va = user_pages[current][me.copied + 1].virt]
  <2>1. user_pages[current][me.copied + 1].virt \in Va
    <3>1. me.copied \in Nat /\ me.copied < Len(user_pages[current])
      BY <1>0, <1>3, CallType DEF copy_virt_memory, me
    <3>2. user_pages[current] \in Seq([phys : Page, virt : Va]) /\ current \in Slot
      BY <1>0, Sizes DEF TypeOK
    <3>3. me.copied + 1 \in 1 .. Len(user_pages[current])
      BY <3>1, <3>2
    <3> QED
      BY <1>0, <3>2, <3>3, UserPageType
  <2>2. c \in Call
    BY <1>m, <2>1 DEF Call, USER, Want
  <2> HIDE DEF c
  <2>3. Set(c) /\ Goto("find")
    BY <1>3 DEF copy_virt_memory, c
  <2>4. call' \in [Task -> Call] /\ at' \in [Task -> Places]
    BY <1>0, <2>2, <2>3, CallsType, PlacesType
  <2> QED
    BY <1>0, <1>3, <1>q, <2>4 DEF copy_virt_memory
<1>4. ASSUME copy_process_end PROVE TypeOK'
  <2>1. CASE nr_tasks = NR_TASKS
    BY <1>0, <1>4, <1>q, <2>1 DEF copy_process_end, GoWild
  <2>2. CASE nr_tasks # NR_TASKS
    <3>1. nr_tasks' = nr_tasks + 1 /\ nr_tasks' \in 1 .. NR_TASKS
      BY <1>0, <1>4, <2>2, Sizes DEF copy_process_end, TypeOK
    <3>2. call' \in [Task -> Call]
      BY <1>0, <1>4, <2>2, NoCallType, CallsType DEF copy_process_end
    <3>3. at' \in [Task -> Places]
      BY <1>0, <1>4, <2>2 DEF copy_process_end
    <3>4. held' \in [Task -> BOOLEAN]
      BY <1>0, <1>4, <2>2 DEF copy_process_end
    <3>5. UNCHANGED <<memory, mm, current, struct, ttbr0, ind, wild>>
      BY <1>4, <2>2 DEF copy_process_end, mm, memory
    <3> QED
      BY <1>0, <3>1, <3>2, <3>3, <3>4, <3>5 DEF TypeOK, memory, mm
  <2> QED
    BY <2>1, <2>2
<1>5. ASSUME move_to_user_mode PROVE TypeOK'
  <2>1. [NoCall EXCEPT !.op = "load"] \in Call
    BY NoCallType DEF NoCall, Call
  <2>2. call' \in [Task -> Call] /\ at' \in [Task -> Places]
    BY <1>0, <1>5, <2>1, CallsType, PlacesType DEF move_to_user_mode
  <2> QED
    BY <1>0, <1>5, <1>q, <2>2 DEF move_to_user_mode
<1>6. ASSUME NEW va \in Touched, do_mem_abort(va) PROVE TypeOK'
  <2>1. va \in Va
    BY Sizes
  <2>2. [NoCall EXCEPT !.op = "fault", !.va = va] \in Call
    BY <2>1, NoCallType DEF NoCall, Call
  <2>3. call' \in [Task -> Call] /\ at' \in [Task -> Places]
    BY <1>0, <1>6, <2>2, CallsType, PlacesType DEF do_mem_abort
  <2> QED
    BY <1>0, <1>6, <1>q, <2>3 DEF do_mem_abort
<1>7. ASSUME NEW va \in Touched, store(va) PROVE TypeOK'
  <2>1. word' \in [Page -> Word]
    BY <1>0, <1>7, Sizes DEF store, TypeOK
  <2> QED
    BY <1>0, <1>7, <2>1 DEF store, TypeOK, mm
<1>r. ASSUME NEW place \in Places, Return(place)
      PROVE  at' \in [Task -> Places] /\ call' \in [Task -> Call]
  BY <1>0, <1>r, NoCallType, CallsType, PlacesType DEF Return
<1>8. ASSUME do_mem_abort_other \/ do_mem_abort_none \/ do_mem_abort_end PROVE TypeOK'
  <2>1. at' \in [Task -> Places] /\ call' \in [Task -> Call]
    BY <1>8, <1>r DEF do_mem_abort_other, do_mem_abort_none, do_mem_abort_end
  <2>2. UNCHANGED <<memory, mm, nr_tasks, current, struct, ttbr0, ind, held, wild>>
    BY <1>8 DEF do_mem_abort_other, do_mem_abort_none, do_mem_abort_end
  <2> QED
    BY <1>0, <1>q, <2>1, <2>2
<1>9. ASSUME do_mem_abort_load PROVE TypeOK'
  <2>1. [me EXCEPT !.seen = ind] \in Call
    BY <1>0, <1>m DEF Call
  <2>2. call' \in [Task -> Call] /\ at' \in [Task -> Places]
    BY <1>0, <1>9, <2>1, CallsType, PlacesType DEF do_mem_abort_load
  <2> QED
    BY <1>0, <1>9, <1>q, <2>2 DEF do_mem_abort_load
<1>10. ASSUME do_mem_abort_store PROVE TypeOK'
  <2>1. ind' \in Nat
    BY <1>0, <1>10, CallType DEF do_mem_abort_store, me
  <2>2. at' \in [Task -> Places]
    BY <1>0, <1>10, PlacesType DEF do_mem_abort_store
  <2> QED
    BY <1>0, <1>10, <2>1, <2>2, QuietTypes DEF do_mem_abort_store
<1>11. ASSUME get_free_page_find PROVE TypeOK'
  <2>1. PICK p \in Page : Set([me EXCEPT !.found = p])
    BY <1>11 DEF get_free_page_find
  <2>2. [me EXCEPT !.found = p] \in Call
    BY <1>m, Sizes DEF Call
  <2>3. call' \in [Task -> Call] /\ at' \in [Task -> Places]
    BY <1>0, <1>11, <2>1, <2>2, CallsType, PlacesType DEF get_free_page_find
  <2> QED
    BY <1>0, <1>11, <1>q, <2>3 DEF get_free_page_find
<1>12. ASSUME get_free_page_none PROVE TypeOK'
  <2>1. UNCHANGED <<memory, mm, nr_tasks, current, struct, ttbr0, ind, held>>
    BY <1>12 DEF get_free_page_none
  <2>2. ASSUME Return("user"), UNCHANGED wild PROVE TypeOK'
    BY <1>0, <1>q, <1>r, <2>1, <2>2
  <2>3. ASSUME Goto("next"), Set([me EXCEPT !.copied = Len(user_pages[current])]),
               UNCHANGED wild
        PROVE  TypeOK'
    <3>1. Len(user_pages[current]) \in Nat
      BY <1>0, Sizes DEF TypeOK
    <3>2. [me EXCEPT !.copied = Len(user_pages[current])] \in Call
      BY <1>m, <3>1 DEF Call
    <3>3. call' \in [Task -> Call] /\ at' \in [Task -> Places]
      BY <1>0, <2>3, <3>2, CallsType, PlacesType
    <3> QED
      BY <1>0, <1>q, <2>1, <2>3, <3>3
  <2>4. ASSUME GoWild PROVE TypeOK'
    BY <1>0, <1>q, <2>1, <2>4 DEF GoWild
  <2> QED
    BY <1>12, <2>2, <2>3, <2>4 DEF get_free_page_none
<1>13. ASSUME get_free_page_claim PROVE TypeOK'
  <2>1. /\ me.found \in Page /\ me.want \in Want /\ me.page \in Address
        /\ dst \in Slot /\ nr_tasks \in Slot /\ me.va \in Va
    BY <1>0, <1>13, Claiming, Current, CallType DEF get_free_page_claim, At, me
  <2>2. mem_map' \subseteq Page /\ word' \in [Page -> Word] /\ wild' \in BOOLEAN
    BY <1>0, <1>13, <2>1, Sizes DEF get_free_page_claim, TypeOK
  <2>3. ClearedTable(me.found) \in [Page -> [Index -> Address]]
    BY <1>0, Sizes DEF ClearedTable, TypeOK
  <2>c. [me EXCEPT !.found = 0] \in Call /\ [me EXCEPT !.found = 0, !.page = me.found] \in Call
    BY <1>m, <2>1, Sizes DEF Call
  <2>4. ASSUME take_struct(me.found) PROVE TypeOK'
    <3>1. struct' \in [Slot -> Address] /\ table' \in [Page -> [Index -> Address]]
      BY <1>0, <2>1, <2>3, <2>4, Sizes DEF take_struct, TypeOK
    <3>2. call' \in [Task -> Call] /\ at' \in [Task -> Places]
      BY <1>0, <2>4, <2>c, CallsType, PlacesType DEF take_struct
    <3> QED
      BY <1>0, <1>13, <2>2, <2>4, <3>1, <3>2 DEF get_free_page_claim, take_struct, mm, TypeOK
  <2>5. ASSUME take_user(me.found) PROVE TypeOK'
    <3>1. table' \in [Page -> [Index -> Address]]
      BY <2>3, <2>5 DEF take_user
    <3>2. call' \in [Task -> Call] /\ at' \in [Task -> Places]
      BY <1>0, <2>5, <2>c, CallsType, PlacesType DEF take_user
    <3> QED
      BY <1>0, <1>13, <2>2, <2>5, <3>1, <3>2 DEF get_free_page_claim, take_user, mm, TypeOK
  <2>6. ASSUME take_table(me.found) PROVE TypeOK'
    <3>1. call' \in [Task -> Call] /\ at' \in [Task -> Places]
      BY <1>0, <2>6, <2>c, CallsType, PlacesType DEF take_table
    <3>2. kernel_pages' \in [Slot -> Seq(Page)]
      BY <1>0, <2>1, <2>6 DEF take_table, TypeOK
    <3>3. pgd' \in [Slot -> Address] /\ table' \in [Page -> [Index -> Address]]
      <4>1. CASE me.want = 1
        BY <1>0, <2>1, <2>3, <2>6, <4>1, Sizes DEF take_table, TypeOK
      <4>2. CASE me.want # 1
        <5> DEFINE parent == Walk(pgd[dst], me.va)[me.want - 1]
                   i == IndexOf(me.va, me.want - 1)
        <5>1. me.want - 1 \in Level
          BY <2>6, <4>2 DEF take_table, Level
        <5>2. i \in Index
          BY <2>1, <5>1, IndexType
        <5> HIDE DEF i, parent
        <5>3. /\ table' = [ClearedTable(me.found) EXCEPT ![parent][i] = me.found]
              /\ pgd' = pgd
          BY <2>6, <4>2 DEF take_table, i, parent
        <5> HIDE DEF me
        <5> QED
          BY <1>0, <2>1, <2>3, <5>2, <5>3, Sizes DEF TypeOK
      <4> QED
        BY <4>1, <4>2
    <3> QED
      BY <1>0, <1>13, <2>2, <2>6, <3>1, <3>2, <3>3 DEF get_free_page_claim, take_table, TypeOK
  <2> QED
    BY <1>13, <2>4, <2>5, <2>6 DEF get_free_page_claim
<1>14. ASSUME map_page_table PROVE TypeOK'
  <2>1. PICK k \in Level : Set([me EXCEPT !.want = k])
    BY <1>14 DEF map_page_table, Absent
  <2>2. [me EXCEPT !.want = k] \in Call
    BY <1>m DEF Call, Want
  <2>3. call' \in [Task -> Call] /\ at' \in [Task -> Places]
    BY <1>0, <1>14, <2>1, <2>2, CallsType, PlacesType DEF map_page_table
  <2> QED
    BY <1>0, <1>14, <1>q, <2>3 DEF map_page_table
<1>e. ASSUME NEW op, map_page_entry(op)
      PROVE  /\ table' \in [Page -> [Index -> Address]]
             /\ user_pages' \in [Slot -> Seq([phys : Page, virt : Va])]
             /\ UNCHANGED <<mem_map, pgd, kernel_pages, nr_tasks, current, struct, ind,
                            held, wild>>
  <2>1. /\ me.page \in Page /\ me.va \in Va /\ dst \in Slot
        /\ Leads(dst, me.va, 4, me.page) /\ Way(dst, me.va)[4] \in Page
    BY <1>e, AtMap, Mapping4, Current DEF At
  <2>2. IndexOf(me.va, 4) \in Index
    BY <2>1, IndexType DEF Level
  <2>3. table' \in [Page -> [Index -> Address]]
    <3> DEFINE parent == Way(dst, me.va)[4]
               i == IndexOf(me.va, 4)
    <3> HIDE DEF parent, i
    <3>1. table' = [table EXCEPT ![parent][i] = me.page]
      BY <2>1 DEF Leads, parent, i
    <3> QED
      BY <1>0, <2>1, <2>2, <3>1, Sizes DEF TypeOK, parent, i
  <2>4. user_pages' \in [Slot -> Seq([phys : Page, virt : Va])]
    <3> DEFINE S == [phys : Page, virt : Va]
               e == [phys |-> me.page, virt |-> me.va]
    <3>1. e \in S
      BY <2>1
    <3>2. user_pages' = [user_pages EXCEPT ![dst] = Append(@, e)] /\ user_pages \in [Slot -> Seq(S)]
      BY <1>0, <1>e DEF map_page_entry, TypeOK
    <3> HIDE DEF S, e
    <3>3. user_pages' \in [Slot -> Seq(S)]
      BY <2>1, <3>1, <3>2
    <3> QED
      BY <3>3 DEF S
  <2> QED
    BY <1>e, <2>3, <2>4 DEF map_page_entry
<1>w. ASSUME NEW op, map_page_entry(op),
             word' \in [Page -> Word], ttbr0' \in Address,
             call' \in [Task -> Call], at' \in [Task -> Places]
      PROVE  TypeOK'
  BY <1>0, <1>w, <1>e DEF TypeOK
<1>15. ASSUME map_page_load PROVE TypeOK'
  <2>1. at' \in [Task -> Places] /\ call' \in [Task -> Call]
    BY <1>15, <1>r DEF map_page_load
  <2>2. word' \in [Page -> Word] /\ ttbr0' \in Address
    BY <1>0, <1>15, Sizes DEF map_page_load, TypeOK
  <2> QED
    BY <1>15, <1>w, <2>1, <2>2 DEF map_page_load
<1>16. ASSUME map_page_copy PROVE TypeOK'
  <2>0. me.copied + 1 \in Nat
    BY <1>16, AtCopy
  <2>1. [me EXCEPT !.copied = @ + 1, !.page = 0] \in Call
    BY <1>m, <2>0, Sizes DEF Call
  <2>2. at' \in [Task -> Places] /\ call' \in [Task -> Call]
    BY <1>0, <1>16, <2>1, CallsType, PlacesType DEF map_page_copy
  <2>3. word' \in [Page -> Word]
    <3>1. word[Translate(ttbr0, me.va)] \in Word
      BY <1>0, <1>16, AtCopy DEF TypeOK
    <3>2. word' = [word EXCEPT ![me.page] = word[Translate(ttbr0, me.va)]]
      BY <1>16 DEF map_page_copy
    <3> QED
      BY <1>0, <3>1, <3>2 DEF TypeOK
  <2> QED
    BY <1>0, <1>16, <1>w, <2>2, <2>3 DEF map_page_copy
<1>17. ASSUME map_page_fault PROVE TypeOK'
  <2>1. [me EXCEPT !.page = 0] \in Call
    BY <1>m, Sizes DEF Call
  <2>2. at' \in [Task -> Places] /\ call' \in [Task -> Call]
    BY <1>0, <1>17, <2>1, CallsType, PlacesType DEF map_page_fault
  <2>3. word' \in [Page -> Word]
    BY <1>0, <1>17 DEF map_page_fault, TypeOK
  <2> QED
    BY <1>0, <1>17, <1>w, <2>2, <2>3 DEF map_page_fault
<1>18. ASSUME NEW t \in Task, switch_to(t) PROVE TypeOK'
  <2>1. current' \in Task /\ ttbr0' \in Address
    BY <1>0, <1>18, Sizes DEF switch_to, TypeOK
  <2> QED
    BY <1>0, <1>18, <2>1, QuietTypes DEF switch_to
<1>19. ASSUME err_hang \/ UNCHANGED vars PROVE TypeOK'
  BY <1>0, <1>19 DEF TypeOK, err_hang, vars, memory, mm
<1> QED
  BY <1>1, <1>2, <1>3, <1>4, <1>5, <1>6, <1>7, <1>8, <1>9, <1>10, <1>11, <1>12, <1>13,
     <1>14, <1>15, <1>16, <1>17, <1>18, <1>19 DEF Next

-----------------------------------------------------------------------------
(* The steps, by what they do to the memory.                               *)

\* Most steps leave it and the lists alone, and each call the page it has.
Quiet == /\ UNCHANGED <<memory, mm, struct>>
         /\ \A t \in Task : call'[t].page = call[t].page

LEMMA SetKeepsPages ==
    ASSUME TypeOK, NEW c, Set(c), c.page = me.page
    PROVE  \A t \in Task : call'[t].page = call[t].page
BY DEF TypeOK, Set, me

LEMMA Kinds ==
    ASSUME MmInv, [Next]_vars, ~wild, ~wild'
    PROVE  \/ Quiet
           \/ \E va \in Touched : store(va)
           \/ get_free_page_claim
           \/ map_page_load \/ map_page_copy \/ map_page_fault
<1>0. TypeOK /\ CallShape(current) /\ current \in Task
  BY Current DEF MmInv
<1>n. NoCall.page = 0
  BY DEF NoCall
<1>s. ASSUME NEW c, Set(c), c.page = me.page, UNCHANGED <<memory, mm, struct>>
      PROVE  Quiet
  BY <1>0, <1>s, SetKeepsPages DEF Quiet
<1>p. at[current] \in {"boot", "thread", "user", "next", "check"} => me.page = 0
  BY <1>0, <1>n DEF CallShape, Shape, me
<1>u. at[current] = "find" /\ me.want \in {STRUCT, USER} => me.page = 0
  BY <1>0 DEF CallShape, Shape, me, STRUCT, USER, Level
<1>c. ASSUME NEW op, copy_process(op), me.page = 0 PROVE Quiet
  <2>1. [NoCall EXCEPT !.op = op, !.want = STRUCT].page = 0
    BY DEF NoCall
  <2> QED
    BY <1>c, <1>s, <2>1 DEF copy_process
<1>1. ASSUME kernel_main \/ sys_fork PROVE Quiet
  BY <1>1, <1>c, <1>p DEF kernel_main, sys_fork, At
<1>m. me \in Call
  BY <1>0, CallType DEF me
<1>3. ASSUME copy_virt_memory PROVE Quiet
  <2>1. [me EXCEPT !.want = USER,
                   !.va = user_pages[current][me.copied + 1].virt].page = me.page
    BY <1>m DEF Call
  <2> QED
    BY <1>3, <1>s, <2>1 DEF copy_virt_memory
<1>4. ASSUME copy_process_end PROVE Quiet
  <2>1. Set(NoCall) /\ UNCHANGED <<memory, mm, struct>> /\ me.page = 0
    BY <1>4, <1>p DEF copy_process_end, GoWild, At
  <2> QED
    BY <1>n, <1>s, <2>1
<1>5. ASSUME move_to_user_mode PROVE Quiet
  <2>1. [NoCall EXCEPT !.op = "load"].page = 0
    BY DEF NoCall
  <2> QED
    BY <1>5, <1>p, <1>s, <2>1 DEF move_to_user_mode, At
<1>6. ASSUME NEW va \in Touched, do_mem_abort(va) PROVE Quiet
  <2>1. [NoCall EXCEPT !.op = "fault", !.va = va].page = 0
    BY DEF NoCall
  <2> QED
    BY <1>6, <1>p, <1>s, <2>1 DEF do_mem_abort, At
<1>8. ASSUME do_mem_abort_other \/ do_mem_abort_none \/ do_mem_abort_end PROVE Quiet
  <2>1. me.page = 0
    BY <1>8, <1>p, <1>u DEF do_mem_abort_other, do_mem_abort_none, do_mem_abort_end, At
  <2>2. Set(NoCall) /\ UNCHANGED <<memory, mm, struct>>
    BY <1>8 DEF do_mem_abort_other, do_mem_abort_none, do_mem_abort_end, Return
  <2> QED
    BY <1>n, <1>s, <2>1, <2>2
<1>9. ASSUME do_mem_abort_load PROVE Quiet
  <2>1. [me EXCEPT !.seen = ind].page = me.page
    BY <1>m DEF Call
  <2> QED
    BY <1>9, <1>s, <2>1 DEF do_mem_abort_load
<1>10. ASSUME do_mem_abort_store PROVE Quiet
  BY <1>10 DEF do_mem_abort_store, Quiet
<1>11. ASSUME get_free_page_find PROVE Quiet
  <2>1. PICK p \in Page : Set([me EXCEPT !.found = p])
    BY <1>11 DEF get_free_page_find
  <2>2. [me EXCEPT !.found = p].page = me.page
    BY <1>m DEF Call
  <2> QED
    BY <1>11, <1>s, <2>1, <2>2 DEF get_free_page_find
<1>12. ASSUME get_free_page_none PROVE Quiet
  <2>1. UNCHANGED <<memory, mm, struct>>
    BY <1>12 DEF get_free_page_none
  <2>2. ASSUME Return("user"), me.want = STRUCT PROVE Quiet
    BY <1>12, <1>n, <1>s, <1>u, <2>1, <2>2 DEF Return, get_free_page_none, At
  <2>3. ASSUME Set([me EXCEPT !.copied = Len(user_pages[current])]) PROVE Quiet
    <3>1. [me EXCEPT !.copied = Len(user_pages[current])].page = me.page
      BY <1>m DEF Call
    <3> QED
      BY <1>s, <2>1, <2>3, <3>1
  <2> QED
    BY <1>12, <2>2, <2>3 DEF get_free_page_none, GoWild
<1>14. ASSUME map_page_table PROVE Quiet
  <2>1. PICK k \in Level : Set([me EXCEPT !.want = k])
    BY <1>14 DEF map_page_table, Absent
  <2>2. [me EXCEPT !.want = k].page = me.page
    BY <1>m DEF Call
  <2> QED
    BY <1>14, <1>s, <2>1, <2>2 DEF map_page_table
<1>18. ASSUME NEW t \in Task, switch_to(t) PROVE Quiet
  BY <1>18 DEF switch_to, Quiet
<1>19. ASSUME err_hang \/ UNCHANGED vars PROVE Quiet
  BY <1>19 DEF err_hang, vars, Quiet, memory, mm
<1> QED
  BY <1>1, <1>3, <1>4, <1>5, <1>6, <1>8, <1>9, <1>10, <1>11, <1>12, <1>14, <1>18, <1>19
  DEF Next

\* A page get_free_page has found, unless another task has taken it since, is
\* blank and nobody's.
LEMMA Fresh ==
    ASSUME MmInv, get_free_page_claim, ~wild'
    PROVE  /\ me.found \in Page /\ me.found \notin mem_map
           /\ ~InTables(me.found) /\ ~InUser(me.found)
           /\ ClearedTable(me.found) = table
           /\ word' = [word EXCEPT ![me.found] = ZERO]
           /\ \A t \in Slot, va \in Va : Way(t, va)[5] # me.found
<1>1. At("claim") /\ ~wild
  BY DEF get_free_page_claim, At
<1>2. me.found \in Page /\ me.found \notin mem_map /\ word' = [word EXCEPT ![me.found] = ZERO]
  BY <1>1, Claiming DEF get_free_page_claim
<1>3. ~InTables(me.found) /\ ~InUser(me.found)
  BY <1>1, <1>2, OneUserEach DEF MmInv
<1>4. ClearedTable(me.found) = table
  BY <1>1, <1>2, <1>3, Unlisted DEF MmInv
<1>5. \A t \in Slot, va \in Va : Way(t, va)[5] # me.found
  BY <1>1, <1>2, <1>3, Sizes, WayListed DEF MmInv
<1> QED
  BY <1>2, <1>3, <1>4, <1>5

\* A table lengthens ways of its task, to no page yet.
LEMMA TableWays ==
    ASSUME MmInv, get_free_page_claim, ~wild', take_table(me.found),
           NEW u \in Slot, NEW wa \in Va
    PROVE  /\ u # dst => \A j \in 1 .. 5 : Way(u, wa)'[j] = Way(u, wa)[j]
           /\ Way(u, wa)'[5] = Way(u, wa)[5]
           /\ \A j \in 1 .. 5 : Way(u, wa)[j] # 0 => Way(u, wa)'[j] = Way(u, wa)[j]
<1>1. /\ At("claim") /\ ~wild /\ TypeOK /\ TreeInv /\ ListInv
      /\ dst \in Slot /\ me.va \in Va
  BY Current, Claiming DEF get_free_page_claim, At, MmInv
<1>2. PICK k \in Level : k = me.want
  BY DEF take_table
<1>3. Gap(dst, me.va, k)
  BY <1>1, <1>2, Claiming
<1>4. /\ me.found \in Page /\ ~InTables(me.found) /\ ~InUser(me.found)
      /\ ClearedTable(me.found) = table
      /\ \A i \in Index : table[me.found][i] = 0
  BY <1>1, Fresh, Unlisted
<1>5. CASE k = 1
  <2>1. table' = table /\ pgd' = [pgd EXCEPT ![dst] = me.found]
    BY <1>2, <1>4, <1>5 DEF take_table
  <2>2. pgd[dst] = 0
    BY <1>1, <1>3, <1>5, WayIs DEF Gap
  <2>3. PICK d \in Slot, p \in Page : d = dst /\ p = me.found
    BY <1>1, <1>4
  <2>5. /\ u # d => \A j \in 1 .. 5 : Way(u, wa)'[j] = Way(u, wa)[j]
        /\ \A j \in 2 .. 5 : Way(u, wa)'[j] = Way(u, wa)[j]
    <3>1. Roots(d, p) /\ pgd[d] = 0
      BY <2>1, <2>2, <2>3 DEF Roots
    <3>2. \A i \in Index : table[p][i] = 0
      BY <1>4, <2>3
    <3> QED
      BY <1>1, <3>1, <3>2, PgdSet
  <2>4. u = dst => Way(u, wa)[1] = 0
    BY <2>2, WayIs
  <2> QED
    BY <2>3, <2>4, <2>5
<1>6. CASE k # 1
  <2>1. PICK l \in Level : k = l + 1 /\ l = me.want - 1
    BY <1>2, <1>6 DEF Level
  <2>2. Leads(dst, me.va, l, me.found)
    BY <1>2, <1>4, <1>6, <2>1 DEF take_table, Leads, Way
  <2>3. Way(dst, me.va)[l] # 0 /\ Way(dst, me.va)[l + 1] = 0
    BY <1>3, <1>6, <2>1 DEF Gap, Level
  <2>4. InTables(Way(dst, me.va)[l])
    BY <1>1, <2>3, WayListed
  <2>5. \A j \in 1 .. 5 :
           \/ Way(u, wa)'[j] = Way(u, wa)[j]
           \/ u = dst /\ j = l + 1 /\ Way(u, wa)[j] = 0
    BY <1>1, <1>4, <2>2, <2>3, <2>4, EntrySet
  <2>6. l + 1 # 5
    BY <2>1 DEF Level
  <2> QED
    BY <2>5, <2>6
<1> QED
  BY <1>5, <1>6

\* Any page taken leaves what the tasks find in their memory.
LEMMA ClaimWays ==
    ASSUME MmInv, get_free_page_claim, ~wild', NEW u \in Slot, NEW wa \in Va
    PROVE  /\ u # dst => \A j \in 1 .. 5 : Way(u, wa)'[j] = Way(u, wa)[j]
           /\ Way(u, wa)'[5] = Way(u, wa)[5]
           /\ \A j \in 1 .. 5 : Way(u, wa)[j] # 0 => Way(u, wa)'[j] = Way(u, wa)[j]
<1>1. CASE take_table(me.found)
  BY <1>1, TableWays
<1>2. CASE take_struct(me.found) \/ take_user(me.found)
  <2>1. UNCHANGED <<table, pgd>>
    BY <1>2, Fresh DEF take_struct, take_user, mm
  <2>2. Way(u, wa)' = Way(u, wa)
    BY <2>1, WaysKept
  <2> QED
    BY <2>2
<1> QED
  BY <1>1, <1>2 DEF get_free_page_claim

\* A page mapped is at its virtual page, and nowhere else.
LEMMA EntryWays ==
    ASSUME MmInv, NEW op, map_page_entry(op), NEW u \in Slot, NEW wa \in Va
    PROVE  /\ Way(u, wa)'[5] = (IF u = dst /\ wa = me.va THEN me.page ELSE Way(u, wa)[5])
           /\ \A j \in Level : Way(u, wa)'[j] = Way(u, wa)[j]
<1>1. /\ At("map") /\ ~wild /\ TypeOK /\ TreeInv /\ ListInv
      /\ dst \in Slot /\ me.va \in Va /\ me.page \in Page
      /\ Way(dst, me.va)[4] \in Page /\ InTables(Way(dst, me.va)[4])
      /\ Leads(dst, me.va, 4, me.page)
      /\ Way(dst, me.va)[5] = 0
  BY Mapping4, AtMap, Current DEF At, MmInv
<1>2. ~InTables(me.page)
  BY <1>1, Current, OneUserEach DEF MmInv, me
<1>3. 4 \in Level /\ Way(dst, me.va)[4 + 1] = 0 /\ Way(dst, me.va)[4] # 0
  BY <1>1, Sizes DEF Level
<1>4. \A j \in 1 .. 5 :
         \/ Way(u, wa)'[j] = Way(u, wa)[j]
         \/ /\ u = dst /\ j = 4 + 1
            /\ Way(u, wa)'[j] = me.page
            /\ Way(u, wa)[4] = Way(dst, me.va)[4]
            /\ IndexOf(wa, 4) = IndexOf(me.va, 4)
  BY <1>1, <1>2, <1>3, EntrySet
<1>5. ASSUME u = dst, wa = me.va PROVE Way(u, wa)'[5] = me.page
  <2>1. PICK p \in Page : p = me.page
    BY <1>1
  <2>2. /\ Leads(u, wa, 4, p) /\ ~InTables(p) /\ InTables(Way(u, wa)[4])
        /\ Way(u, wa)[4] # 0 /\ Way(u, wa)[4 + 1] = 0
    BY <1>1, <1>2, <1>3, <1>5, <2>1
  <2>3. Way(u, wa)'[4 + 1] = p
    BY <1>1, <1>3, <2>2, EntryReached
  <2> QED
    BY <2>1, <2>3
<1>6. ASSUME Way(u, wa)[4] = Way(dst, me.va)[4], IndexOf(wa, 4) = IndexOf(me.va, 4)
      PROVE  wa = me.va
  <2>1. \A j \in Level : j < 4 => IndexOf(wa, j) = IndexOf(me.va, j)
    BY <1>1, <1>3, <1>6, SameWay
  <2>2. \A j \in Level : IndexOf(wa, j) = IndexOf(me.va, j)
    BY <1>6, <2>1 DEF Level
  <2> QED
    BY <1>1, <2>2, IndicesTell
<1>7. \A j \in Level : Way(u, wa)'[j] = Way(u, wa)[j]
  BY <1>4 DEF Level
<1>8. CASE u = dst /\ wa = me.va
  BY <1>5, <1>7, <1>8
<1>9. CASE ~(u = dst /\ wa = me.va)
  BY <1>4, <1>6, <1>7, <1>9
<1> QED
  BY <1>8, <1>9

-----------------------------------------------------------------------------
(* Every page keeps one user.                                              *)

LEMMA UsersKept ==
    ASSUME UNCHANGED <<struct, kernel_pages, user_pages>>, NEW q
    PROVE  /\ Users(q) = Inodes(q) \cup Structs(q) \cup Calls(q) \cup Tables(q) \cup UserPages(q)
           /\ Users(q)' = Inodes(q) \cup Structs(q) \cup Calls(q)' \cup Tables(q) \cup UserPages(q)
BY DEF Users, Inodes, Structs, Tables, UserPages

\* What the steps that take or map a page do to the calls.
LEMMA MyPage ==
    ASSUME TypeOK, NEW c, Set(c)
    PROVE  /\ call'[current] = c
           /\ \A t \in Task \ {current} : call'[t] = call[t]
BY DEF TypeOK, Set

LEMMA AccountedStep ==
    ASSUME MmInv, [Next]_vars, ~wild, ~wild'
    PROVE  Accounted'
<1>0. TypeOK /\ Accounted /\ current \in Task /\ me \in Call /\ call[current] = me
  BY CallType, Current DEF MmInv, me
<1>1. CASE Quiet
  <2>1. \A q \in Page : Users(q)' = Users(q)
    BY <1>1, CallsKept, UsersKept DEF Quiet, mm
  <2> QED
    BY <1>0, <1>1, <2>1, AccountsSame DEF Quiet, memory
<1>2. ASSUME NEW va \in Touched, store(va) PROVE Accounted'
  <2>1. /\ UNCHANGED <<struct, kernel_pages, user_pages>> /\ mem_map' = mem_map
        /\ \A t \in Task : call'[t].page = call[t].page
    BY <1>2 DEF store, mm
  <2>2. \A q \in Page : Users(q)' = Users(q)
    BY <2>1, CallsKept, UsersKept
  <2> QED
    BY <1>0, <2>1, <2>2, AccountsSame
<1>3. ASSUME get_free_page_claim PROVE Accounted'
  <2>0. PICK p \in Page : p = me.found /\ p \notin mem_map
    BY <1>3, Fresh
  <2>1. At("claim") /\ mem_map' = mem_map \cup {p} /\ nr_tasks \in Slot
    BY <1>0, <1>3, <2>0, Sizes, Current DEF get_free_page_claim
  <2>2. CASE take_struct(p)
    <3>1. me.want = STRUCT /\ me.page = 0 /\ me.op \in {"kthread", "fork"}
      BY <2>1, <2>2, Claiming DEF take_struct
    <3>2. PICK s \in Slot : s = nr_tasks
      BY <2>1
    <3>3. struct[s] = 0
      BY <1>0, <2>1, <3>1, <3>2, Current, Sizes DEF MmInv, SlotInv, Filling, At, me
    <3>4. struct' = [struct EXCEPT ![s] = p]
      BY <2>2, <3>2 DEF take_struct
    <3>5. \A t \in Task : call'[t].page = call[t].page
      <4>1. Set([me EXCEPT !.found = 0]) /\ [me EXCEPT !.found = 0].page = me.page
        BY <1>0, <2>2 DEF take_struct, Call
      <4> QED
        BY <1>0, <4>1, SetKeepsPages
    <3>6. \A q \in Page : Users(q)' = Users(q) \cup (IF q = p THEN {<<"struct", s, 0>>} ELSE {})
      <4> SUFFICES ASSUME NEW q \in Page
                   PROVE  Users(q)' = Users(q) \cup (IF q = p THEN {<<"struct", s, 0>>} ELSE {})
        OBVIOUS
      <4>1. Structs(q)' = Structs(q) \cup (IF q = p THEN {<<"struct", s, 0>>} ELSE {})
        BY <1>0, <3>3, <3>4, StructAdded
      <4>2. Calls(q)' = Calls(q)
        BY <3>5, CallsKept
      <4>3. Inodes(q)' = Inodes(q) /\ Tables(q)' = Tables(q) /\ UserPages(q)' = UserPages(q)
        BY <2>2 DEF take_struct, mm, Inodes, Tables, UserPages
      <4> QED
        BY <4>1, <4>2, <4>3 DEF Users
    <3> QED
      BY <1>0, <2>0, <2>1, <3>6, AccountsClaim
  <2>3. CASE take_user(p)
    <3>1. me.page = 0 /\ UNCHANGED <<struct, kernel_pages, user_pages>>
      BY <2>1, <2>3, Claiming DEF take_user, mm
    <3>2. PICK s \in Task : s = current
      BY <1>0
    <3>3. Set([me EXCEPT !.found = 0, !.page = p]) /\ [me EXCEPT !.found = 0, !.page = p].page = p
      BY <1>0, <2>3 DEF take_user, Call
    <3>4. /\ call[s].page = 0 /\ call'[s].page = p
          /\ \A t \in Task \ {s} : call'[t].page = call[t].page
      BY <1>0, <3>1, <3>2, <3>3, MyPage DEF me
    <3>5. \A q \in Page : Users(q)' = Users(q) \cup (IF q = p THEN {<<"call", s, 0>>} ELSE {})
      <4> SUFFICES ASSUME NEW q \in Page
                   PROVE  Users(q)' = Users(q) \cup (IF q = p THEN {<<"call", s, 0>>} ELSE {})
        OBVIOUS
      <4>1. Calls(q)' = Calls(q) \cup (IF q = p THEN {<<"call", s, 0>>} ELSE {})
        BY <3>4, CallAdded
      <4> QED
        BY <3>1, <4>1, UsersKept
    <3> QED
      BY <1>0, <2>0, <2>1, <3>5, AccountsClaim
  <2>4. CASE take_table(p)
    <3>1. PICK s \in Slot : s = dst
      BY <1>0, Current
    <3>2. kernel_pages' = [kernel_pages EXCEPT ![s] = Append(@, p)]
      BY <2>4, <3>1 DEF take_table
    <3>3. \A t \in Task : call'[t].page = call[t].page
      <4>1. Set([me EXCEPT !.found = 0]) /\ [me EXCEPT !.found = 0].page = me.page
        BY <1>0, <2>4 DEF take_table, Call
      <4> QED
        BY <1>0, <4>1, SetKeepsPages
    <3> DEFINE u == <<"table", s, Len(kernel_pages[s]) + 1>>
    <3>4. \A q \in Page : Users(q)' = Users(q) \cup (IF q = p THEN {u} ELSE {})
      <4> SUFFICES ASSUME NEW q \in Page
                   PROVE  Users(q)' = Users(q) \cup (IF q = p THEN {u} ELSE {})
        OBVIOUS
      <4>1. Tables(q)' = Tables(q) \cup (IF q = p THEN {u} ELSE {})
        BY <1>0, <3>2, TableAdded
      <4>2. Calls(q)' = Calls(q)
        BY <3>3, CallsKept
      <4>3. Inodes(q)' = Inodes(q) /\ Structs(q)' = Structs(q) /\ UserPages(q)' = UserPages(q)
        BY <2>4 DEF take_table, Inodes, Structs, UserPages
      <4> QED
        BY <4>1, <4>2, <4>3 DEF Users
    <3>5. PICK v : v = u
      OBVIOUS
    <3> HIDE DEF u
    <3>6. \A q \in Page : Users(q)' = Users(q) \cup (IF q = p THEN {v} ELSE {})
      BY <3>4, <3>5
    <3> QED
      BY <1>0, <2>0, <2>1, <3>6, AccountsClaim
  <2> QED
    BY <1>3, <2>0, <2>2, <2>3, <2>4 DEF get_free_page_claim
<1>4. ASSUME NEW op, map_page_entry(op), NEW c, Set(c), c.page = 0 PROVE Accounted'
  <2>1. /\ me.page \in Page /\ me.va \in Va /\ dst \in Slot
    BY <1>0, <1>4, Current, AtMap, Mapping4
  <2>2. PICK s \in Task, d \in Slot, p \in Page, va \in Va :
           s = current /\ d = dst /\ p = me.page /\ va = me.va
    BY <1>0, <2>1
  <2>3. PICK e \in [phys : Page, virt : Va] :
           e.phys = p /\ user_pages' = [user_pages EXCEPT ![d] = Append(@, e)]
    <3>1. /\ [phys |-> p, virt |-> va] \in [phys : Page, virt : Va]
          /\ [phys |-> p, virt |-> va].phys = p
      OBVIOUS
    <3>2. user_pages' = [user_pages EXCEPT ![d] = Append(@, [phys |-> p, virt |-> va])]
      BY <1>4, <2>2 DEF map_page_entry
    <3> QED
      BY <3>1, <3>2
  <2>4. UNCHANGED <<mem_map, struct, kernel_pages>>
    BY <1>4 DEF map_page_entry
  <2>5. /\ call[s].page = p /\ call'[s].page = 0
        /\ \A t \in Task \ {s} : call'[t].page = call[t].page
    BY <1>0, <1>4, <2>2, MyPage
  <2> DEFINE u == <<"call", s, 0>>
             v == <<"user", d, Len(user_pages[d]) + 1>>
  <2>6. ASSUME NEW q \in Page
        PROVE  /\ UserPages(q)' = UserPages(q) \cup (IF q = p THEN {v} ELSE {})
               /\ Calls(q)' = Calls(q) \ (IF q = p THEN {u} ELSE {})
               /\ Inodes(q)' = Inodes(q) /\ Structs(q)' = Structs(q) /\ Tables(q)' = Tables(q)
    <3>1. UserPages(q)' = UserPages(q) \cup (IF q = p THEN {v} ELSE {})
      BY <1>0, <2>3, UserPageAdded
    <3>2. Calls(q)' = Calls(q) \ (IF q = p THEN {u} ELSE {})
      BY <2>5, CallEnded
    <3>3. Inodes(q)' = Inodes(q) /\ Structs(q)' = Structs(q) /\ Tables(q)' = Tables(q)
      BY <2>4 DEF Inodes, Structs, Tables
    <3> QED
      BY <3>1, <3>2, <3>3
  <2>7. u \in Calls(p)
    BY <2>5 DEF Calls
  <2>8. /\ u \notin Inodes(p) /\ u \notin Structs(p) /\ u \notin Tables(p)
        /\ u \notin UserPages(p)
    BY DEF Inodes, Structs, Tables, UserPages
  <2>9. PICK x : x = v
    OBVIOUS
  <2> HIDE DEF v, u
  <2>10. \A q \in Page : q # p => Users(q)' = Users(q)
    BY <2>6 DEF Users
  <2>11. u \in Users(p) /\ Users(p)' = (Users(p) \ {u}) \cup {x}
    BY <2>6, <2>7, <2>8, <2>9 DEF Users
  <2>12. PICK y : y = u
    OBVIOUS
  <2> QED
    BY <1>0, <2>4, <2>10, <2>11, <2>12, AccountsHanded
<1>5. CASE map_page_load
  <2>1. Set(NoCall) /\ NoCall.page = 0
    BY <1>5 DEF map_page_load, Return, NoCall
  <2> QED
    BY <1>4, <1>5, <2>1 DEF map_page_load
<1>6. CASE map_page_copy
  <2>1. [me EXCEPT !.copied = @ + 1, !.page = 0].page = 0
    BY <1>0 DEF Call
  <2> QED
    BY <1>4, <1>6, <2>1 DEF map_page_copy
<1>7. CASE map_page_fault
  <2>1. [me EXCEPT !.page = 0].page = 0
    BY <1>0 DEF Call
  <2> QED
    BY <1>4, <1>7, <2>1 DEF map_page_fault
<1> QED
  BY <1>1, <1>2, <1>3, <1>5, <1>6, <1>7, Kinds

-----------------------------------------------------------------------------
(* The tables stay a forest, and user_pages the list of its leaves.        *)

LEMMA ListedKept ==
    ASSUME UNCHANGED <<kernel_pages, user_pages>>, NEW p
    PROVE  InTables(p)' = InTables(p) /\ InUser(p)' = InUser(p)
BY DEF InTables, InUser

LEMMA TableListed ==
    ASSUME TypeOK, NEW s \in Slot, NEW v \in Page,
           kernel_pages' = [kernel_pages EXCEPT ![s] = Append(@, v)], user_pages' = user_pages
    PROVE  /\ InTables(v)'
           /\ \A p \in Page : InTables(p) => InTables(p)'
           /\ \A p \in Page : InUser(p)' = InUser(p)
<1>1. ASSUME NEW t \in Slot
      PROVE  /\ kernel_pages[t] \in Seq(Page)
             /\ t # s => kernel_pages'[t] = kernel_pages[t]
             /\ t = s => /\ Len(kernel_pages'[t]) = Len(kernel_pages[t]) + 1
                         /\ kernel_pages'[t][Len(kernel_pages[t]) + 1] = v
                         /\ \A k \in 1 .. Len(kernel_pages[t]) :
                               kernel_pages'[t][k] = kernel_pages[t][k]
  BY DEF TypeOK
<1>2. \A t \in Slot : Len(kernel_pages[t]) \in Nat
  BY <1>1
<1>3. Len(kernel_pages[s]) + 1 \in 1 .. Len(kernel_pages'[s])
  BY <1>1, <1>2
<1>4. InTables(v)'
  BY <1>1, <1>3 DEF InTables
<1>5. ASSUME NEW p \in Page, InTables(p) PROVE InTables(p)'
  <2>1. PICK t \in Slot : \E k \in 1 .. Len(kernel_pages[t]) : kernel_pages[t][k] = p
    BY <1>5 DEF InTables
  <2>2. PICK k \in 1 .. Len(kernel_pages[t]) : kernel_pages[t][k] = p
    BY <2>1
  <2>3. k \in 1 .. Len(kernel_pages'[t]) /\ kernel_pages'[t][k] = p
    BY <1>1, <1>2, <2>2
  <2> QED
    BY <2>3 DEF InTables
<1>6. \A p \in Page : InUser(p)' = InUser(p)
  BY DEF InUser
<1> QED
  BY <1>4, <1>5, <1>6

\* What an entry of user_pages adds.
LEMMA PageListed ==
    ASSUME TypeOK, NEW s \in Slot, NEW e \in [phys : Page, virt : Va],
           user_pages' = [user_pages EXCEPT ![s] = Append(@, e)], kernel_pages' = kernel_pages
    PROVE  /\ \A t \in Slot : t # s => user_pages'[t] = user_pages[t]
           /\ Len(user_pages[s]) \in Nat
           /\ Len(user_pages'[s]) = Len(user_pages[s]) + 1
           /\ user_pages'[s][Len(user_pages[s]) + 1] = e
           /\ \A k \in 1 .. Len(user_pages[s]) : user_pages'[s][k] = user_pages[s][k]
           /\ InUser(e.phys)'
           /\ \A p \in Page : InUser(p) => InUser(p)'
           /\ \A p \in Page : InTables(p)' = InTables(p)
<1> DEFINE S == [phys : Page, virt : Va]
<1>1. user_pages \in [Slot -> Seq(S)] /\ e \in S
  BY DEF TypeOK
<1> HIDE DEF S
<1>2. /\ user_pages[s] \in Seq(S)
      /\ \A t \in Slot : t # s => user_pages'[t] = user_pages[t]
      /\ user_pages'[s] = Append(user_pages[s], e)
  BY <1>1
<1>3. /\ Len(user_pages[s]) \in Nat
      /\ Len(user_pages'[s]) = Len(user_pages[s]) + 1
      /\ user_pages'[s][Len(user_pages[s]) + 1] = e
      /\ \A k \in 1 .. Len(user_pages[s]) : user_pages'[s][k] = user_pages[s][k]
  BY <1>1, <1>2
<1>4. InUser(e.phys)'
  <2>1. Len(user_pages[s]) + 1 \in 1 .. Len(user_pages'[s])
    BY <1>3
  <2> QED
    BY <1>3, <2>1 DEF InUser
<1>5. ASSUME NEW p \in Page, InUser(p) PROVE InUser(p)'
  <2>1. PICK t \in Slot : \E k \in 1 .. Len(user_pages[t]) : user_pages[t][k].phys = p
    BY <1>5 DEF InUser
  <2>2. PICK k \in 1 .. Len(user_pages[t]) : user_pages[t][k].phys = p
    BY <2>1
  <2>3. k \in 1 .. Len(user_pages'[t]) /\ user_pages'[t][k].phys = p
    BY <1>2, <1>3, <2>2
  <2> QED
    BY <2>3 DEF InUser
<1>6. \A p \in Page : InTables(p)' = InTables(p)
  BY DEF InTables
<1> QED
  BY <1>2, <1>3, <1>4, <1>5, <1>6

\* An entry set in a table, for a page nothing leads to.
SetIn(q, n, v) == table' = [table EXCEPT ![q][n] = v]

LEMMA TreeEntry ==
    ASSUME TypeOK, TreeInv, NEW q \in Page, NEW n \in Index, NEW v \in Page,
           SetIn(q, n, v), pgd' = pgd,
           InTables(q), \A p \in Page, i \in Index : table[p][i] # v,
           \A t \in Slot : pgd[t] # v,
           InTables(v)' \/ InUser(v)',
           \A p \in Page : InTables(p) => InTables(p)',
           \A p \in Page : InUser(p) => InUser(p)'
    PROVE  TreeInv'
<1>1. \A p \in Page, i \in Index :
         table'[p][i] = (IF p = q /\ i = n THEN v ELSE table[p][i])
  BY DEF TypeOK, SetIn
<1>2. \A p \in Page, i \in Index : table[p][i] # 0 => table[p][i] \in Page
  BY Sizes DEF TypeOK
<1>3. ASSUME NEW p \in Page, NEW i \in Index, table'[p][i] # 0
      PROVE  /\ InTables(p)'
             /\ InTables(table[p][i])' \/ InUser(table[p][i])' \/ (p = q /\ i = n)
  BY <1>1, <1>2, <1>3 DEF TreeInv
<1>4. ASSUME NEW p \in Page, NEW i \in Index, table'[p][i] # 0
      PROVE  (InTables(table[p][i]) \/ InUser(table[p][i]))'
  <2>1. PICK w \in Page : w = table'[p][i]
    BY <1>1, <1>2, <1>4
  <2>2. InTables(w)' \/ InUser(w)'
    <3>1. CASE p = q /\ i = n
      BY <1>1, <2>1, <3>1
    <3>2. CASE ~(p = q /\ i = n)
      <4>1. w = table[p][i] /\ table[p][i] # 0
        BY <1>1, <1>4, <2>1, <3>2
      <4>2. InTables(w) \/ InUser(w)
        BY <4>1 DEF TreeInv
      <4> QED
        BY <4>2
    <3> QED
      BY <3>1, <3>2
  <2> QED
    BY <2>1, <2>2 DEF InTables, InUser
<1>5. ASSUME NEW p1 \in Page, NEW p2 \in Page, NEW i \in Index, NEW j \in Index,
             table'[p1][i] # 0, table'[p1][i] = table'[p2][j]
      PROVE  p1 = p2 /\ i = j
  BY <1>1, <1>5 DEF TreeInv
<1>6. ASSUME NEW t \in Slot, pgd'[t] # 0
      PROVE  /\ InTables(pgd[t])'
             /\ \A p \in Page, i \in Index : table'[p][i] # pgd'[t]
             /\ \A u \in Slot : pgd'[u] = pgd'[t] => u = t
  <2>1. PICK w \in Page : w = pgd[t] /\ pgd'[t] = w
    BY <1>6, Sizes DEF TypeOK
  <2>2. InTables(w)
    BY <2>1, Sizes DEF TreeInv
  <2>3. InTables(pgd[t])'
    <3>1. InTables(w)'
      BY <2>2
    <3> QED
      BY <2>1, <3>1 DEF InTables
  <2>4. \A p \in Page, i \in Index : table'[p][i] # pgd'[t]
    BY <1>1, <1>6 DEF TreeInv
  <2>5. \A u \in Slot : pgd'[u] = pgd'[t] => u = t
    BY <1>6 DEF TreeInv
  <2> QED
    BY <2>3, <2>4, <2>5
<1>7. ASSUME NEW p \in Page, NEW i \in Index, table'[p][i] # 0 PROVE InTables(p)'
  BY <1>3, <1>7
<1> QED
  BY <1>4, <1>5, <1>6, <1>7 DEF TreeInv

LEMMA TreeStep ==
    ASSUME MmInv, [Next]_vars, ~wild, ~wild'
    PROVE  TreeInv'
<1>0. TypeOK /\ TreeInv /\ ListInv
  BY DEF MmInv
<1>k. ASSUME UNCHANGED <<table, mm>> PROVE TreeInv'
  BY <1>0, <1>k DEF TreeInv, InTables, InUser, mm
<1>1. CASE Quiet
  BY <1>1, <1>k DEF Quiet, memory
<1>2. ASSUME NEW va \in Touched, store(va) PROVE TreeInv'
  BY <1>2, <1>k DEF store
<1>3. ASSUME get_free_page_claim PROVE TreeInv'
  <2>0. PICK p \in Page, d \in Slot : p = me.found /\ d = dst
    BY <1>3, Fresh, Current
  <2>1. /\ ~InTables(p) /\ ~InUser(p) /\ ClearedTable(p) = table /\ At("claim")
    BY <1>3, <2>0, Fresh DEF get_free_page_claim
  <2>2. CASE take_struct(p) \/ take_user(p)
    BY <1>k, <2>1, <2>2 DEF take_struct, take_user
  <2>3. CASE take_table(p)
    <3>1. PICK k \in Level : k = me.want
      BY <2>3 DEF take_table
    <3>2. /\ kernel_pages' = [kernel_pages EXCEPT ![d] = Append(@, p)]
          /\ user_pages' = user_pages
      BY <2>0, <2>3 DEF take_table
    <3>3. /\ InTables(p)'
          /\ \A q \in Page : InTables(q) => InTables(q)'
          /\ \A q \in Page : InUser(q)' = InUser(q)
      BY <1>0, <3>2, TableListed
    <3>4. /\ \A i \in Index : table[p][i] = 0
          /\ \A q \in Page, i \in Index : table[q][i] # p
          /\ \A t \in Slot : pgd[t] # p
      BY <1>0, <2>1, Unlisted
    <3>5. /\ Gap(d, me.va, k) /\ me.va \in Va
      BY <2>0, <2>1, <3>1, Claiming
    <3>6. CASE k = 1
      <4>1. table' = table /\ pgd' = [pgd EXCEPT ![d] = p]
        BY <2>0, <2>1, <2>3, <3>1, <3>6 DEF take_table
      <4>2. \A t \in Slot : pgd'[t] = (IF t = d THEN p ELSE pgd[t])
        BY <1>0, <4>1 DEF TypeOK
      <4>3. ASSUME NEW q \in Page, NEW i \in Index, table'[q][i] # 0
            PROVE  InTables(q)' /\ (InTables(table[q][i]) \/ InUser(table[q][i]))'
        <5>1. PICK w \in Page : w = table[q][i] /\ table'[q][i] = w
          BY <1>0, <4>1, <4>3, Sizes DEF TypeOK
        <5>2. InTables(q) /\ (InTables(w) \/ InUser(w))
          BY <1>0, <5>1, Sizes DEF TreeInv
        <5>3. InTables(q)' /\ (InTables(w)' \/ InUser(w)')
          BY <3>3, <5>2
        <5> QED
          BY <5>1, <5>3 DEF InTables, InUser
      <4>4. ASSUME NEW t \in Slot, pgd'[t] # 0
            PROVE  /\ InTables(pgd[t])'
                   /\ \A q \in Page, i \in Index : table'[q][i] # pgd'[t]
                   /\ \A u \in Slot : pgd'[u] = pgd'[t] => u = t
        <5>1. PICK w \in Page : w = pgd'[t]
          BY <1>0, <4>2, <4>4, Sizes DEF TypeOK
        <5>2. InTables(w)'
          BY <1>0, <3>3, <4>2, <5>1, Sizes DEF TreeInv
        <5>3. InTables(pgd[t])'
          BY <5>1, <5>2 DEF InTables
        <5>4. \A q \in Page, i \in Index : table'[q][i] # pgd'[t]
          BY <1>0, <3>4, <4>1, <4>2, <4>4 DEF TreeInv
        <5>5. \A u \in Slot : pgd'[u] = pgd'[t] => u = t
          BY <1>0, <3>4, <4>2, <4>4 DEF TreeInv
        <5> QED
          BY <5>3, <5>4, <5>5
      <4>5. \A q1, q2 \in Page, i, j \in Index :
               table'[q1][i] # 0 /\ table'[q1][i] = table'[q2][j] => q1 = q2 /\ i = j
        BY <1>0, <4>1 DEF TreeInv
      <4> QED
        BY <4>3, <4>4, <4>5 DEF TreeInv
    <3>7. CASE k # 1
      <4>1. PICK l \in Level : k = l + 1 /\ l = me.want - 1
        BY <3>1, <3>7 DEF Level
      <4>2. PICK q \in Page, n \in Index :
               q = Way(d, me.va)[l] /\ n = IndexOf(me.va, l) /\ InTables(q)
        <5>1. Way(d, me.va)[l] # 0
          BY <3>5, <3>7, <4>1 DEF Gap, Level
        <5> QED
          BY <1>0, <3>5, <5>1, WayListed, IndexType
      <4>3. SetIn(q, n, p) /\ pgd' = pgd
        BY <2>0, <2>1, <2>3, <3>1, <3>7, <4>1, <4>2 DEF take_table, SetIn, Way
      <4> QED
        BY <1>0, <3>3, <3>4, <4>2, <4>3, TreeEntry
    <3> QED
      BY <3>6, <3>7
  <2> QED
    BY <1>3, <2>0, <2>2, <2>3 DEF get_free_page_claim
<1>4. ASSUME NEW op, map_page_entry(op) PROVE TreeInv'
  <2>1. /\ me.page \in Page /\ me.va \in Va /\ dst \in Slot
        /\ Leads(dst, me.va, 4, me.page)
        /\ Way(dst, me.va)[4] \in Page /\ InTables(Way(dst, me.va)[4])
    BY <1>4, AtMap, Mapping4, Current
  <2>2. PICK q \in Page, n \in Index, p \in Page, d \in Slot, e \in [phys : Page, virt : Va] :
           /\ q = Way(dst, me.va)[4] /\ n = IndexOf(me.va, 4)
           /\ p = me.page /\ d = dst /\ e = [phys |-> me.page, virt |-> me.va]
    <3>1. IndexOf(me.va, 4) \in Index
      BY <2>1, IndexType DEF Level
    <3>2. [phys |-> me.page, virt |-> me.va] \in [phys : Page, virt : Va]
      BY <2>1
    <3> QED
      BY <2>1, <3>1, <3>2
  <2>3. /\ user_pages' = [user_pages EXCEPT ![d] = Append(@, e)]
        /\ kernel_pages' = kernel_pages
    BY <1>4, <2>2 DEF map_page_entry
  <2>4. SetIn(q, n, p) /\ pgd' = pgd
    BY <2>1, <2>2 DEF Leads, SetIn
  <2>5. ~InTables(p) /\ ~InUser(p)
    BY <2>1, <2>2, Current, OneUserEach DEF MmInv, me
  <2>6. e.phys = p
    BY <2>2
  <2>7. /\ InUser(p)'
        /\ \A x \in Page : InUser(x) => InUser(x)'
        /\ \A x \in Page : InTables(x)' = InTables(x)
    <3>1. /\ InUser(e.phys)'
          /\ \A x \in Page : InUser(x) => InUser(x)'
          /\ \A x \in Page : InTables(x)' = InTables(x)
      BY <1>0, <2>3, PageListed
    <3> QED
      BY <2>6, <3>1
  <2>8. /\ \A x \in Page, i \in Index : table[x][i] # p
        /\ \A t \in Slot : pgd[t] # p
    BY <1>0, <2>5, Unlisted
  <2>9. InTables(q)
    BY <2>1, <2>2
  <2> QED
    BY <1>0, <2>4, <2>7, <2>8, <2>9, TreeEntry
<1> QED
  BY <1>1, <1>2, <1>3, <1>4, Kinds DEF map_page_load, map_page_copy, map_page_fault

LEMMA ListStep ==
    ASSUME MmInv, [Next]_vars, ~wild, ~wild'
    PROVE  ListInv'
<1>0. TypeOK /\ TreeInv /\ ListInv
  BY DEF MmInv
<1>k. ASSUME user_pages' = user_pages,
             \A t \in Slot, va \in Va : Way(t, va)'[5] = Way(t, va)[5]
      PROVE  ListInv'
  <2>1. ASSUME NEW t \in Slot, NEW va \in Va, Way(t, va)'[5] # 0
        PROVE  \E k \in 1 .. Len(user_pages'[t]) :
                   user_pages'[t][k] = [phys |-> Way(t, va)'[5], virt |-> va]
    BY <1>0, <1>k, <2>1 DEF ListInv
  <2>2. ASSUME NEW t \in Slot, NEW k \in 1 .. Len(user_pages'[t])
        PROVE  Way(t, user_pages[t][k].virt)'[5] = user_pages'[t][k].phys
    <3>1. PICK va \in Va : va = user_pages[t][k].virt /\ va = user_pages'[t][k].virt
      BY <1>0, <1>k, <2>2, UserPageType
    <3>2. Way(t, va)[5] = user_pages[t][k].phys
      BY <1>0, <1>k, <3>1 DEF ListInv
    <3>3. Way(t, va)'[5] = user_pages'[t][k].phys
      BY <1>k, <3>2
    <3> QED
      BY <3>1, <3>3 DEF Way
  <2> QED
    BY <2>1, <2>2 DEF ListInv
<1>1. CASE Quiet
  BY <1>1, <1>k, WaysKept DEF Quiet, memory, mm
<1>2. ASSUME NEW va \in Touched, store(va) PROVE ListInv'
  BY <1>2, <1>k, WaysKept DEF store, mm
<1>3. ASSUME get_free_page_claim PROVE ListInv'
  <2>1. user_pages' = user_pages
    BY <1>3 DEF get_free_page_claim, take_struct, take_user, take_table, mm
  <2> QED
    BY <1>3, <1>k, <2>1, ClaimWays
<1>4. ASSUME NEW op, map_page_entry(op) PROVE ListInv'
  <2>1. /\ me.page \in Page /\ me.va \in Va /\ dst \in Slot
        /\ Way(dst, me.va)[5] = 0
    BY <1>4, AtMap, Mapping4, Current
  <2>2. PICK p \in Page, d \in Slot, va \in Va, e \in [phys : Page, virt : Va] :
           /\ p = me.page /\ d = dst /\ va = me.va
           /\ e = [phys |-> p, virt |-> va]
    BY <2>1
  <2>3. /\ user_pages' = [user_pages EXCEPT ![d] = Append(@, e)]
        /\ kernel_pages' = kernel_pages
    BY <1>4, <2>2 DEF map_page_entry
  <2>4. /\ \A t \in Slot : t # d => user_pages'[t] = user_pages[t]
        /\ Len(user_pages[d]) \in Nat
        /\ Len(user_pages'[d]) = Len(user_pages[d]) + 1
        /\ user_pages'[d][Len(user_pages[d]) + 1] = e
        /\ \A k \in 1 .. Len(user_pages[d]) : user_pages'[d][k] = user_pages[d][k]
    BY <1>0, <2>3, PageListed
  <2>5. \A t \in Slot, wa \in Va :
           Way(t, wa)'[5] = (IF t = d /\ wa = va THEN p ELSE Way(t, wa)[5])
    BY <1>4, <2>2, EntryWays
  <2>6. ASSUME NEW t \in Slot, NEW wa \in Va, Way(t, wa)'[5] # 0
        PROVE  \E k \in 1 .. Len(user_pages'[t]) :
                   user_pages'[t][k] = [phys |-> Way(t, wa)'[5], virt |-> wa]
    <3>1. CASE t = d /\ wa = va
      <4>1. Len(user_pages[d]) + 1 \in 1 .. Len(user_pages'[t])
        BY <2>4, <3>1
      <4> QED
        BY <2>2, <2>4, <2>5, <3>1, <4>1
    <3>2. CASE ~(t = d /\ wa = va)
      <4>1. PICK k \in 1 .. Len(user_pages[t]) :
               user_pages[t][k] = [phys |-> Way(t, wa)[5], virt |-> wa]
        BY <1>0, <2>5, <2>6, <3>2 DEF ListInv
      <4>2. k \in 1 .. Len(user_pages'[t]) /\ user_pages'[t][k] = user_pages[t][k]
        BY <2>4, <4>1
      <4> QED
        BY <2>5, <3>2, <4>1, <4>2
    <3> QED
      BY <3>1, <3>2
  <2>7. ASSUME NEW t \in Slot, NEW k \in 1 .. Len(user_pages'[t])
        PROVE  Way(t, user_pages[t][k].virt)'[5] = user_pages'[t][k].phys
    <3>1. CASE k \in 1 .. Len(user_pages[t])
      <4>1. user_pages'[t][k] = user_pages[t][k]
        BY <2>4, <3>1
      <4>2. PICK wa \in Va : wa = user_pages[t][k].virt /\ wa = user_pages'[t][k].virt
        BY <1>0, <3>1, <4>1, UserPageType
      <4>3. Way(t, wa)[5] = user_pages[t][k].phys /\ user_pages[t][k].phys \in Page
        <5>1. user_pages[t][k].phys \in Page
          BY <1>0, <3>1, UserPageType
        <5>2. Way(t, user_pages[t][k].virt)[5] = user_pages[t][k].phys
          BY <1>0, <3>1 DEF ListInv
        <5> QED
          BY <4>2, <5>1, <5>2
      <4>4. ~(t = d /\ wa = va)
        BY <2>1, <2>2, <4>3, Sizes
      <4>5. Way(t, wa)'[5] = user_pages'[t][k].phys
        BY <2>5, <4>1, <4>3, <4>4
      <4> QED
        BY <4>2, <4>5 DEF Way
    <3>2. CASE k \notin 1 .. Len(user_pages[t])
      <4>1. t = d /\ k = Len(user_pages[d]) + 1
        BY <2>4, <2>7, <3>2
      <4>2. user_pages'[t][k] = e /\ e.virt = va /\ e.phys = p
        BY <2>2, <2>4, <4>1
      <4>3. Way(t, va)'[5] = user_pages'[t][k].phys
        BY <2>5, <4>1, <4>2
      <4>4. user_pages'[t][k].virt = va
        BY <4>2
      <4> QED
        BY <4>3, <4>4 DEF Way
    <3> QED
      BY <3>1, <3>2
  <2> QED
    BY <2>6, <2>7 DEF ListInv
<1> QED
  BY <1>1, <1>2, <1>3, <1>4, Kinds DEF map_page_load, map_page_copy, map_page_fault

-----------------------------------------------------------------------------
(* The calls in progress.                                                  *)

\* The task that has the CPU goes to a place of its call.
Step(place, c) ==
    /\ UNCHANGED <<current, nr_tasks>>
    /\ at'[current] = place /\ call'[current] = c
    /\ \A t \in Task \ {current} : at'[t] = at[t] /\ call'[t] = call[t] /\ held'[t] = held[t]

LEMMA Steps ==
    ASSUME TypeOK, NEW place, NEW c, Goto(place), Set(c), UNCHANGED <<current, nr_tasks>>,
           \A t \in Task \ {current} : held'[t] = held[t]
    PROVE  Step(place, c)
BY DEF TypeOK, Goto, Set, Step

LEMMA TaskSteps ==
    ASSUME MmInv, ~wild, NEW place, NEW c, Step(place, c), Shape(place, c),
           c.op \in {"kthread", "fork"} => held'[current]
    PROVE  TaskInv'
<1>0. /\ current \in Task /\ current < nr_tasks /\ TaskInv /\ current' = current
      /\ nr_tasks' = nr_tasks /\ current \in Nat /\ nr_tasks \in Nat
  BY Current DEF MmInv, Step
<1>1. ASSUME NEW t \in Task PROVE CallShape(t)'
  <2>1. CASE t = current
    <3>1. at'[t] = place /\ call'[t] = c
      BY <2>1 DEF Step
    <3> QED
      BY <3>1 DEF CallShape, Shape
  <2>2. CASE t # current
    <3>1. at'[t] = at[t] /\ call'[t] = call[t]
      BY <2>2 DEF Step
    <3>2. CallShape(t)
      BY <1>0 DEF TaskInv
    <3>3. ASSUME NEW x, NEW y, x = at[t], y = call[t], x = at'[t], y = call'[t]
          PROVE  CallShape(t)'
      <4>1. Shape(x, y)
        BY <3>2, <3>3 DEF CallShape
      <4> QED
        BY <3>3, <4>1 DEF CallShape, Shape
    <3> QED
      BY <3>1, <3>3
  <2> QED
    BY <2>1, <2>2
<1>2. ASSUME NEW t \in Task, t >= nr_tasks' PROVE at'[t] = "thread" /\ ~held'[t]
  <2>1. t # current
    BY <1>0, <1>2
  <2> QED
    BY <1>0, <1>2, <2>1 DEF Step, TaskInv
<1>3. ASSUME NEW t \in Task, Copying(t)' PROVE t = current' /\ held'[t]
  <2>1. CASE t = current
    BY <1>0, <1>3, <2>1 DEF Step, Copying
  <2>2. CASE t # current
    <3>1. Copying(t)
      BY <1>3, <2>2 DEF Step, Copying
    <3> QED
      BY <1>0, <2>2, <3>1 DEF TaskInv
  <2> QED
    BY <2>1, <2>2
<1> QED
  BY <1>0, <1>1, <1>2, <1>3 DEF TaskInv

\* Steps that change nothing but the call.
LEMMA OwnSteps ==
    ASSUME MmInv, ~wild, NEW place, NEW c, Step(place, c), Shape(place, c),
           UNCHANGED <<memory, mm, struct, ttbr0>>,
           c.op \in {"kthread", "fork"} => held'[current],
           place # "thread",
           Filling(current) => /\ c.op = me.op
                               /\ ~(c.want = STRUCT /\ place # "next"),
           c.op = "load" => user_pages[current] = <<>>,
           place = "user" \/ c.op \in {"fork", "fault"} => Process(current),
           Working(current, place, c), Forking(place, c)
    PROVE  TaskInv' /\ SlotInv' /\ WorkInv' /\ ForkInv'
<1>0. /\ current \in Task /\ current < nr_tasks /\ TaskInv /\ SlotInv /\ WorkInv
      /\ current' = current /\ nr_tasks' = nr_tasks
      /\ at'[current] = place /\ call'[current] = c
      /\ \A t \in Task \ {current} : at'[t] = at[t] /\ call'[t] = call[t] /\ held'[t] = held[t]
      /\ UNCHANGED <<struct, pgd, user_pages, kernel_pages, mem_map, table, word, ttbr0>>
  BY Current DEF MmInv, Step, memory, mm
<1>1. TaskInv'
  BY TaskSteps
<1>f. Filling(current) => Filling(current)' /\ call'[current].op = call[current].op
  BY <1>0 DEF Filling, Copying, me
<1>w. \A t, va : Way(t, va)' = Way(t, va)
  BY <1>0, WaysKept
<1>2. SlotInv'
  <2>1. ASSUME NEW t \in Slot, t >= nr_tasks'
        PROVE  /\ struct'[t] = 0 \/ (t = nr_tasks' /\ Filling(current)')
               /\ Blank(t)' \/ (t = nr_tasks' /\ Filling(current)' /\ call'[current].op = "fork")
    BY <1>0, <1>f, <2>1 DEF SlotInv, Blank
  <2>2. ASSUME NEW t \in Task, t < nr_tasks', at'[t] = "thread" PROVE Blank(t)'
    BY <1>0, <2>2 DEF SlotInv, Blank
  <2>3. ASSUME NEW t \in Task, call'[t].op = "load" PROVE user_pages'[t] = <<>>
    BY <1>0, <2>3 DEF SlotInv
  <2>4. ASSUME NEW t \in Task, Process(t)' PROVE user_pages'[t] # <<>> \/ mem_map' = Page
    <3>1. Process(t)
      BY <1>0, <2>4 DEF Process
    <3> QED
      BY <1>0, <3>1 DEF SlotInv
  <2>5. ASSUME Process(current)' PROVE ttbr0' = pgd'[current']
    <3>1. Process(current)
      BY <1>0, <2>5 DEF Process
    <3> QED
      BY <1>0, <3>1 DEF SlotInv
  <2> QED
    BY <1>0, <2>1, <2>2, <2>3, <2>4, <2>5 DEF SlotInv, Filling, Copying, Process
<1>3. WorkInv'
  <2>1. ASSUME NEW t \in Task PROVE Working(t, at[t], call[t])'
    <3>1. \E x, y : x = at'[t] /\ y = call'[t] /\ Working(t, x, y)
      BY <1>0 DEF WorkInv
    <3>2. PICK x, y : x = at'[t] /\ y = call'[t] /\ Working(t, x, y)
      BY <3>1
    <3>3. Working(t, x, y)'
      <4>1. PICK d : d = Target(t, y) /\ Target(t, y)' = d
        BY <1>0 DEF Target
      <4>2. \A va, k : Gap(d, va, k) => Gap(d, va, k)'
        BY <1>w DEF Gap
      <4> QED
        BY <1>0, <1>w, <3>2, <4>1, <4>2 DEF Working
    <3> QED
      BY <3>2, <3>3 DEF Working, Target
  <2> QED
    BY <2>1 DEF WorkInv
<1>4. ForkInv'
  <2>0. /\ \A va : Way(nr_tasks, va)' = Way(nr_tasks, va)
        /\ \A va : Way(current, va)' = Way(current, va)
    BY <1>0 DEF Way, Walk, Entry
  <2>1. Forking(place, c)'
    BY <1>0, <2>0 DEF Forking
  <2> QED
    BY <1>0, <2>1 DEF ForkInv, Forking
<1> QED
  BY <1>1, <1>2, <1>3, <1>4

LEMMA BlankWay ==
    ASSUME TypeOK, NEW t \in Slot, NEW va \in Va, pgd[t] = 0
    PROVE  \A k \in 1 .. 5 : Way(t, va)[k] = 0
<1>1. ASSUME NEW k \in 1 .. 5, Way(t, va)[k] # 0 PROVE FALSE
  <2>1. 1 \in 1 .. k
    OBVIOUS
  <2>2. Way(t, va)[1] # 0
    BY <1>1, <2>1, WayDown
  <2> QED
    BY <2>2, WayIs
<1> QED
  BY <1>1

\* What the invariant says of the call of the task that has the CPU.
LEMMA Mine ==
    ASSUME MmInv, ~wild
    PROVE  /\ current \in Task /\ current \in Slot /\ nr_tasks \in Slot /\ current < nr_tasks
           /\ me = call[current] /\ me \in Call /\ Shape(at[current], me)
           /\ Working(current, at[current], me) /\ Forking(at[current], me)
           /\ me.op \in {"kthread", "fork"} => held[current]
           /\ (at[current] = "user" \/ me.op \in {"fork", "fault"}) <=> Process(current)
           /\ Process(current) => ttbr0 = pgd[current]
           /\ Filling(current) <=> /\ me.op \in {"kthread", "fork"}
                                  /\ ~(me.want = STRUCT /\ at[current] # "next")
BY Current, CallType
DEF MmInv, TaskInv, SlotInv, WorkInv, ForkInv, CallShape, me, Process, Filling, Copying

LEMMA NoCallIs ==
    /\ NoCall.op = "none" /\ NoCall.want = USER /\ NoCall.found = 0 /\ NoCall.page = 0
    /\ NoCall.va = 0 /\ NoCall.copied = 0
BY DEF NoCall

\* A call that ends.
LEMMA ReturnSteps ==
    ASSUME MmInv, ~wild, NEW place \in {"user", "hung"}, Return(place),
           UNCHANGED <<memory, mm, struct, ttbr0, current, nr_tasks, held>>,
           ~Filling(current), place = "user" => Process(current)
    PROVE  TaskInv' /\ SlotInv' /\ WorkInv' /\ ForkInv'
<1>1. Step(place, NoCall)
  BY Steps DEF Return, MmInv
<1>2. Shape(place, NoCall)
  BY NoCallIs DEF Shape
<1>3. Working(current, place, NoCall) /\ Forking(place, NoCall)
  BY NoCallIs DEF Working, Forking
<1> QED
  BY <1>1, <1>2, <1>3, NoCallIs, OwnSteps

LEMMA ForkSteps ==
    ASSUME MmInv, ~wild, NEW op \in {"kthread", "fork"}, copy_process(op),
           at[current] = (IF op = "fork" THEN "user" ELSE "boot")
    PROVE  TaskInv' /\ SlotInv' /\ WorkInv' /\ ForkInv'
<1>0. /\ TypeOK /\ current \in Task /\ me = NoCall /\ Shape(at[current], me)
      /\ op = "fork" => Process(current)
      /\ ~Filling(current)
      /\ nr_tasks \in Slot
  BY Mine, NoCallIs DEF MmInv, Shape, STRUCT, USER, Level
<1> DEFINE e == [NoCall EXCEPT !.op = op, !.want = STRUCT]
<1>1. PICK c : c = e
  OBVIOUS
<1>2. c.op = op /\ c.want = STRUCT /\ c.page = 0 /\ c.copied = 0 /\ c.found = 0 /\ c.va = 0
  BY <1>1 DEF NoCall
<1>3. Step("find", c) /\ held'[current]
  <2>1. \A t \in Task \ {current} : held'[t] = held[t]
    BY <1>0 DEF copy_process, TypeOK
  <2>2. held'[current]
    BY <1>0 DEF copy_process, TypeOK
  <2> QED
    BY <1>0, <1>1, <2>1, <2>2, Steps DEF copy_process
<1> HIDE DEF e
<1>4. Shape("find", c)
  BY <1>2 DEF Shape
<1>5. Working(current, "find", c)
  BY <1>2 DEF Working, Level, STRUCT
<1>6. Forking("find", c)
  <2>1. CASE op = "fork"
    <3>1. Blank(nr_tasks)
      BY <1>0, Current DEF MmInv, SlotInv
    <3>2. \A va \in Va : Way(nr_tasks, va)[5] = 0
      BY <1>0, <3>1, BlankWay DEF Blank
    <3>3. 0 <= Len(user_pages[current])
      BY <1>0, Sizes DEF TypeOK
    <3> QED
      BY <1>2, <3>2, <3>3 DEF Forking
  <2>2. CASE op = "kthread"
    BY <1>2, <2>2 DEF Forking
  <2> QED
    BY <2>1, <2>2
<1>7. UNCHANGED <<memory, mm, struct, ttbr0>>
  BY DEF copy_process
<1> QED
  BY <1>0, <1>2, <1>3, <1>4, <1>5, <1>6, <1>7, OwnSteps

\* The steps of a call that get no page and map none.
LEMMA CallSteps ==
    ASSUME MmInv, ~wild, ~wild',
           \/ kernel_main \/ sys_fork \/ copy_virt_memory \/ move_to_user_mode
           \/ \E va \in Touched : do_mem_abort(va)
           \/ do_mem_abort_other \/ do_mem_abort_none
           \/ do_mem_abort_load \/ do_mem_abort_store \/ do_mem_abort_end
           \/ get_free_page_find \/ get_free_page_none \/ map_page_table
    PROVE  TaskInv' /\ SlotInv' /\ WorkInv' /\ ForkInv'
<1> DEFINE Goal == TaskInv' /\ SlotInv' /\ WorkInv' /\ ForkInv'
<1>0. /\ TypeOK /\ current \in Task /\ current \in Slot /\ nr_tasks \in Slot
      /\ me = call[current] /\ me \in Call /\ Shape(at[current], me)
      /\ Working(current, at[current], me) /\ Forking(at[current], me)
      /\ me.op \in {"kthread", "fork"} => held[current]
      /\ (at[current] = "user" \/ me.op \in {"fork", "fault"}) <=> Process(current)
      /\ Process(current) => ttbr0 = pgd[current]
      /\ Filling(current) <=> /\ me.op \in {"kthread", "fork"}
                             /\ ~(me.want = STRUCT /\ at[current] # "next")
  BY Mine DEF MmInv
<1>n. at[current] \in {"boot", "loop", "thread", "user", "hung"} => me = NoCall /\ ~Filling(current)
  BY <1>0, NoCallIs DEF Shape
<1>s. ASSUME NEW place, NEW c, Goto(place), Set(c),
             UNCHANGED <<memory, mm, nr_tasks, current, struct, ttbr0, held>>
      PROVE  Step(place, c)
  BY <1>0, <1>s, Steps
<1>1. ASSUME kernel_main PROVE Goal
  BY <1>1, ForkSteps DEF kernel_main, At
<1>2. ASSUME sys_fork PROVE Goal
  BY <1>2, ForkSteps DEF sys_fork, At
<1>3. ASSUME copy_virt_memory PROVE Goal
  <2>0. /\ at[current] = "next" /\ me.op = "fork" /\ me.copied < Len(user_pages[current])
        /\ UNCHANGED <<memory, mm, nr_tasks, current, struct, ttbr0, held>>
    BY <1>3 DEF copy_virt_memory, At
  <2>1. /\ me.page = 0 /\ me.copied \in Nat /\ me.copied + 1 \in 1 .. Len(user_pages[current])
    BY <1>0, <2>0 DEF Shape, Call, TypeOK
  <2>2. PICK va \in Va : va = user_pages[current][me.copied + 1].virt
    BY <1>0, <2>1, UserPageType
  <2>3. PICK c : c = [me EXCEPT !.want = USER, !.va = va]
    OBVIOUS
  <2>4. /\ c.op = me.op /\ c.want = USER /\ c.va = va /\ c.page = me.page
        /\ c.copied = me.copied /\ c.found = me.found
    BY <1>0, <2>3 DEF Call
  <2>5. Step("find", c)
    BY <1>3, <1>s, <2>2, <2>3 DEF copy_virt_memory
  <2>6. Shape("find", c)
    BY <2>0, <2>1, <2>4 DEF Shape, Mapping
  <2>7. Way(nr_tasks, va)[5] = 0
    <3> SUFFICES ASSUME Way(nr_tasks, va)[5] # 0 PROVE FALSE
      OBVIOUS
    <3>1. PICK k \in 1 .. me.copied : user_pages[current][k].virt = va
      BY <1>0, <2>0 DEF Forking
    <3>2. k \in 1 .. Len(user_pages[current]) /\ k # me.copied + 1
      BY <2>0, <2>1
    <3>3. user_pages[current][k].phys = user_pages[current][me.copied + 1].phys
      <4>1. /\ Way(current, user_pages[current][k].virt)[5] = user_pages[current][k].phys
            /\ Way(current, user_pages[current][me.copied + 1].virt)[5]
                   = user_pages[current][me.copied + 1].phys
        BY <1>0, <2>1, <3>2 DEF MmInv, ListInv
      <4> QED
        BY <2>2, <3>1, <4>1
    <3>4. user_pages[current][k].phys \in Page
      BY <1>0, <3>2, UserPageType
    <3> QED
      BY <1>0, <2>1, <3>2, <3>3, <3>4, OneUserEach DEF MmInv
  <2>8. Working(current, "find", c)
    BY <2>0, <2>1, <2>4, <2>7 DEF Working, Target, USER, Level
  <2>9. Forking("find", c)
    BY <1>0, <2>0, <2>1, <2>2, <2>4 DEF Forking, USER, STRUCT
  <2>10. c.op \in {"kthread", "fork"} => held'[current]
    BY <1>0, <2>0
  <2> QED
    BY <1>0, <2>0, <2>4, <2>5, <2>6, <2>8, <2>9, <2>10, OwnSteps DEF USER, STRUCT
<1>5. ASSUME move_to_user_mode PROVE Goal
  <2>0. /\ at[current] = "thread"
        /\ UNCHANGED <<memory, mm, nr_tasks, current, struct, ttbr0, held>>
    BY <1>5 DEF move_to_user_mode, At
  <2>1. PICK c : c = [NoCall EXCEPT !.op = "load"]
    OBVIOUS
  <2>2. c.op = "load" /\ c.want = USER /\ c.va = 0 /\ c.page = 0 /\ c.found = 0
    BY <2>1 DEF NoCall
  <2>3. Step("find", c)
    BY <1>5, <1>s, <2>1 DEF move_to_user_mode
  <2>4. Shape("find", c)
    BY <2>2 DEF Shape, Mapping
  <2>5. Blank(current)
    BY <1>0, <2>0, Current DEF MmInv, SlotInv
  <2>6. Way(current, 0)[5] = 0
    <3>1. 0 \in Va
      BY NoCallType DEF NoCall, Call
    <3> QED
      BY <1>0, <2>5, <3>1, BlankWay DEF Blank
  <2>7. Working(current, "find", c) /\ Forking("find", c)
    BY <2>2, <2>6 DEF Working, Forking, Target, USER, Level
  <2> QED
    BY <1>n, <2>0, <2>2, <2>3, <2>4, <2>5, <2>7, OwnSteps DEF Blank
<1>6. ASSUME NEW va \in Touched, do_mem_abort(va) PROVE Goal
  <2>0. /\ at[current] = "user" /\ Translate(ttbr0, va) = 0 /\ va \in Va
        /\ UNCHANGED <<memory, mm, nr_tasks, current, struct, ttbr0, held>>
    BY <1>6, Sizes DEF do_mem_abort, At
  <2>1. PICK c : c = [NoCall EXCEPT !.op = "fault", !.va = va]
    OBVIOUS
  <2>2. c.op = "fault" /\ c.want = USER /\ c.va = va /\ c.page = 0 /\ c.found = 0
    BY <2>1 DEF NoCall
  <2>3. Step("find", c)
    BY <1>6, <1>s, <2>1 DEF do_mem_abort
  <2>4. Shape("find", c)
    BY <2>2 DEF Shape, Mapping
  <2>5. Way(current, va)[5] = 0 /\ Process(current)
    BY <1>0, <2>0, WayIs
  <2>6. Working(current, "find", c) /\ Forking("find", c)
    BY <2>2, <2>5 DEF Working, Forking, Target, USER, Level
  <2> QED
    BY <1>n, <2>0, <2>2, <2>3, <2>4, <2>5, <2>6, OwnSteps
<1>7. ASSUME do_mem_abort_other PROVE Goal
  BY <1>7, <1>n, ReturnSteps DEF do_mem_abort_other, At
<1>8. ASSUME do_mem_abort_none PROVE Goal
  BY <1>0, <1>8, ReturnSteps DEF do_mem_abort_none, At
<1>9. ASSUME do_mem_abort_end PROVE Goal
  <2>1. at[current] = "check" /\ me.op = "fault"
    BY <1>0, <1>9 DEF do_mem_abort_end, At, Shape
  <2> QED
    BY <1>0, <1>9, <2>1, ReturnSteps DEF do_mem_abort_end
<1>10. ASSUME do_mem_abort_load PROVE Goal
  <2>0. /\ at[current] = "seen" /\ me.page = 0 /\ me.op = "fault"
        /\ UNCHANGED <<memory, mm, nr_tasks, current, struct, ttbr0, held>>
    BY <1>0, <1>10 DEF do_mem_abort_load, At, Shape
  <2>1. PICK c : c = [me EXCEPT !.seen = ind]
    OBVIOUS
  <2>2. c.op = "fault" /\ c.page = 0
    BY <1>0, <2>0, <2>1 DEF Call
  <2>3. Step("count", c)
    BY <1>10, <1>s, <2>1 DEF do_mem_abort_load
  <2>4. Shape("count", c) /\ Working(current, "count", c) /\ Forking("count", c)
    BY <2>2 DEF Shape, Working, Forking
  <2> QED
    BY <1>0, <2>0, <2>2, <2>3, <2>4, OwnSteps
<1>11. ASSUME do_mem_abort_store PROVE Goal
  <2>0. /\ at[current] = "count" /\ me.page = 0 /\ me.op = "fault"
        /\ UNCHANGED <<memory, mm, nr_tasks, current, struct, ttbr0, held, call>>
    BY <1>0, <1>11 DEF do_mem_abort_store, At, Shape
  <2>1. PICK c : c = me
    OBVIOUS
  <2>2. Step("check", c)
    BY <1>0, <1>11, <2>0, <2>1 DEF do_mem_abort_store, Goto, Step, TypeOK
  <2>3. Shape("check", c) /\ Working(current, "check", c) /\ Forking("check", c)
    BY <2>0, <2>1 DEF Shape, Working, Forking
  <2> QED
    BY <1>0, <2>0, <2>1, <2>2, <2>3, OwnSteps
<1>12. ASSUME get_free_page_find PROVE Goal
  <2>0. /\ at[current] = "find"
        /\ UNCHANGED <<memory, mm, nr_tasks, current, struct, ttbr0, held>>
    BY <1>12 DEF get_free_page_find, At
  <2>1. PICK p \in Page : Set([me EXCEPT !.found = p])
    BY <1>12 DEF get_free_page_find
  <2>2. PICK c : c = [me EXCEPT !.found = p]
    OBVIOUS
  <2>3. /\ c.op = me.op /\ c.want = me.want /\ c.va = me.va /\ c.page = me.page
        /\ c.copied = me.copied /\ c.found = p /\ p # 0
    BY <1>0, <2>2, Sizes DEF Call
  <2>4. Step("claim", c)
    BY <1>12, <1>s, <2>1, <2>2 DEF get_free_page_find
  <2>5. Shape("claim", c)
    BY <1>0, <2>0, <2>3 DEF Shape
  <2>6. Working(current, "claim", c) /\ Forking("claim", c)
    BY <1>0, <2>0, <2>3 DEF Working, Forking, Target
  <2>7. c.op = "load" => user_pages[current] = <<>>
    BY <1>0, <2>3 DEF MmInv, SlotInv
  <2> QED
    BY <1>0, <2>0, <2>3, <2>4, <2>5, <2>6, <2>7, OwnSteps
<1>13. ASSUME get_free_page_none PROVE Goal
  <2>0. /\ at[current] = "find" /\ mem_map = Page
        /\ UNCHANGED <<memory, mm, nr_tasks, current, struct, ttbr0, held>>
    BY <1>13 DEF get_free_page_none, At
  <2>1. CASE me.want = STRUCT /\ me.op = "fork" /\ Return("user")
    BY <1>0, <2>0, <2>1, ReturnSteps
  <2>2. CASE /\ me.want = USER /\ me.op = "fork" /\ Goto("next")
             /\ Set([me EXCEPT !.copied = Len(user_pages[current])])
    <3>1. PICK c : c = [me EXCEPT !.copied = Len(user_pages[current])]
      OBVIOUS
    <3>2. /\ c.op = me.op /\ c.want = me.want /\ c.page = me.page
          /\ c.copied = Len(user_pages[current])
      BY <1>0, <3>1 DEF Call
    <3>3. Step("next", c)
      BY <1>s, <2>0, <2>2, <3>1
    <3>4. me.page = 0
      BY <1>0, <2>0, <2>2 DEF Shape, USER, STRUCT, Level
    <3>5. Shape("next", c)
      BY <2>2, <3>2, <3>4 DEF Shape
    <3>6. Working(current, "next", c)
      BY <3>2, <3>4 DEF Working
    <3>7. Forking("next", c)
      <4>1. Len(user_pages[current]) \in Nat /\ me.copied \in Nat /\ me.copied <= Len(user_pages[current])
        BY <1>0, <2>2 DEF TypeOK, Call, Forking
      <4> QED
        BY <1>0, <2>0, <2>2, <3>2, <4>1 DEF Forking
    <3> QED
      BY <1>0, <2>0, <2>2, <3>2, <3>3, <3>5, <3>6, <3>7, OwnSteps
  <2> QED
    BY <1>13, <2>1, <2>2 DEF get_free_page_none, GoWild
<1>14. ASSUME map_page_table PROVE Goal
  <2>0. /\ at[current] = "map" /\ At("map")
        /\ UNCHANGED <<memory, mm, nr_tasks, current, struct, ttbr0, held>>
    BY <1>14 DEF map_page_table, At
  <2>1. PICK k \in Absent(pgd[dst], me.va) :
           /\ \A l \in Absent(pgd[dst], me.va) : k <= l
           /\ Set([me EXCEPT !.want = k])
    BY <1>14 DEF map_page_table
  <2>2. PICK c : c = [me EXCEPT !.want = k]
    OBVIOUS
  <2>3. /\ c.op = me.op /\ c.want = k /\ c.va = me.va /\ c.page = me.page
        /\ c.copied = me.copied /\ c.found = me.found
    BY <1>0, <2>2 DEF Call
  <2>4. Step("find", c)
    BY <1>14, <1>s, <2>1, <2>2 DEF map_page_table
  <2>5. k \in Level /\ Gap(dst, me.va, k)
    <3>1. \A l \in Level : l \in Absent(pgd[dst], me.va) <=> Way(dst, me.va)[l] = 0
      BY DEF Absent, Way
    <3>2. k \in Level
      BY DEF Absent
    <3>3. k # 1 => k - 1 \in Level /\ ~(k <= k - 1)
      BY <3>2 DEF Level
    <3> QED
      BY <2>1, <3>1, <3>2, <3>3 DEF Gap
  <2>6. me.op \in Mapping /\ me.page \in Page /\ me.want # STRUCT
    BY <1>0, <2>0, AtMap DEF Shape, USER, STRUCT, Level
  <2>7. Shape("find", c)
    BY <1>0, <2>0, <2>3, <2>5, <2>6, Sizes DEF Shape, Mapping
  <2>8. dst = Target(current, c)
    BY <1>0, <2>3, Current DEF Target
  <2>9. Working(current, "find", c)
    BY <1>0, <2>0, <2>3, <2>5, <2>6, <2>8 DEF Working, Target
  <2>10. Forking("find", c)
    BY <1>0, <2>0, <2>3, <2>6 DEF Forking
  <2>11. c.op = "load" => user_pages[current] = <<>>
    BY <1>0, <2>3 DEF MmInv, SlotInv
  <2>12. c.want # STRUCT
    BY <2>3, <2>5 DEF Level, STRUCT
  <2> QED
    BY <1>0, <2>0, <2>3, <2>4, <2>7, <2>9, <2>10, <2>11, <2>12, OwnSteps
<1> QED
  BY <1>1, <1>2, <1>3, <1>5, <1>6, <1>7, <1>8, <1>9, <1>10, <1>11, <1>12, <1>13, <1>14

-----------------------------------------------------------------------------
(* The calls, when a page is taken or mapped.                              *)

Fills(place, c) == c.op \in {"kthread", "fork"} /\ ~(c.want = STRUCT /\ place # "next")

LEMMA SlotSteps ==
    ASSUME MmInv, ~wild, NEW place, NEW c, Step(place, c), NEW d \in Slot,
           mem_map = Page => mem_map' = Page,
           \A t \in Slot : struct'[t] # struct[t] => t = nr_tasks /\ Fills(place, c),
           \A t \in Slot : t # d => /\ pgd'[t] = pgd[t]
                                   /\ kernel_pages'[t] = kernel_pages[t]
                                   /\ user_pages'[t] = user_pages[t],
           d = current \/ (d = nr_tasks /\ c.op = "fork" /\ Fills(place, c)),
           place # "thread",
           Filling(current) => c.op = me.op /\ Fills(place, c),
           c.op = "load" => user_pages'[current] = <<>>,
           place = "user" \/ c.op \in {"fork", "fault"} =>
              /\ user_pages'[current] # <<>> \/ mem_map' = Page
              /\ ttbr0' = pgd'[current]
    PROVE  SlotInv'
<1>0. /\ current \in Task /\ current \in Slot /\ current < nr_tasks /\ TaskInv /\ SlotInv
      /\ current \in Nat /\ nr_tasks \in Nat
      /\ current' = current /\ nr_tasks' = nr_tasks
      /\ at'[current] = place /\ call'[current] = c
      /\ \A t \in Task \ {current} : at'[t] = at[t] /\ call'[t] = call[t]
  BY Current DEF MmInv, Step
<1>n. /\ \A t \in Slot : t \in Nat
      /\ Task \subseteq Slot
  BY Sizes DEF Slot
<1>f. Filling(current)' <=> Fills(place, c)
  BY <1>0 DEF Filling, Copying, Fills
<1>1. ASSUME NEW t \in Slot, t >= nr_tasks
      PROVE  /\ struct'[t] = 0 \/ (t = nr_tasks /\ Filling(current)')
             /\ Blank(t)' \/ (t = nr_tasks /\ Filling(current)' /\ call'[current].op = "fork")
  <2>1. t # current
    BY <1>0, <1>n, <1>1
  <2>2. struct'[t] = 0 \/ (t = nr_tasks /\ Filling(current)')
    BY <1>0, <1>n, <1>1, <1>f DEF SlotInv
  <2>3. CASE t = d
    BY <1>0, <1>n, <1>f, <2>1, <2>2, <2>3
  <2>4. CASE t # d
    <3>1. Blank(t)' <=> Blank(t)
      BY <2>4 DEF Blank
    <3>2. call[current].op = me.op
      BY DEF me
    <3> QED
      BY <1>0, <1>n, <1>1, <1>f, <2>2, <3>1, <3>2 DEF SlotInv
  <2> QED
    BY <2>3, <2>4
<1>2. ASSUME NEW t \in Task, t < nr_tasks, at'[t] = "thread" PROVE Blank(t)'
  <2>1. t # current /\ t # d /\ at[t] = "thread"
    BY <1>0, <1>n, <1>2
  <2> QED
    BY <1>0, <1>n, <1>2, <2>1 DEF SlotInv, Blank
<1>3. ASSUME NEW t \in Task, t # current, t >= nr_tasks PROVE ~Process(t) /\ call[t].op = "none"
  <2>1. at[t] = "thread" /\ CallShape(t)
    BY <1>0, <1>n, <1>3 DEF TaskInv
  <2>2. call[t] = NoCall
    BY <2>1 DEF CallShape, Shape
  <2> QED
    BY <2>1, <2>2, NoCallIs DEF Process
<1>4. ASSUME NEW t \in Task, call'[t].op = "load" PROVE user_pages'[t] = <<>>
  <2>1. CASE t = current
    BY <1>0, <1>n, <1>4, <2>1
  <2>2. CASE t # current
    <3>1. call[t].op = "load" /\ t # d
      BY <1>0, <1>n, <1>3, <1>4, <2>2
    <3> QED
      BY <1>0, <1>n, <3>1 DEF SlotInv
  <2> QED
    BY <2>1, <2>2
<1>5. ASSUME NEW t \in Task, Process(t)' PROVE user_pages'[t] # <<>> \/ mem_map' = Page
  <2>1. CASE t = current
    BY <1>0, <1>n, <1>5, <2>1 DEF Process
  <2>2. CASE t # current
    <3>1. Process(t)
      BY <1>0, <1>n, <1>5, <2>2 DEF Process
    <3>2. t # d
      BY <1>0, <1>n, <1>3, <2>2, <3>1
    <3> QED
      BY <1>0, <1>n, <3>1, <3>2 DEF SlotInv
  <2> QED
    BY <2>1, <2>2
<1>6. ASSUME Process(current)' PROVE ttbr0' = pgd'[current']
  BY <1>0, <1>n, <1>6 DEF Process
<1> QED
  BY <1>0, <1>n, <1>1, <1>2, <1>4, <1>5, <1>6 DEF SlotInv, Filling, Copying, Process

LEMMA WorkSteps ==
    ASSUME MmInv, ~wild, NEW place, NEW c, Step(place, c),
           \A t \in Task \ {current} : t < nr_tasks =>
              /\ \A va \in Va : \A j \in 1 .. 5 : Way(t, va)'[j] = Way(t, va)[j]
              /\ call[t].page # 0 => word'[call[t].page] = word[call[t].page],
           Working(current, place, c)'
    PROVE  WorkInv'
<1>0. /\ current \in Task /\ TaskInv /\ WorkInv /\ TypeOK
      /\ current' = current /\ nr_tasks' = nr_tasks
      /\ at'[current] = place /\ call'[current] = c
      /\ \A t \in Task \ {current} : at'[t] = at[t] /\ call'[t] = call[t]
      /\ nr_tasks \in Nat /\ \A t \in Task : t \in Nat
  BY Current DEF MmInv, Step, Task
<1>1. ASSUME NEW t \in Task, t = current PROVE Working(t, at[t], call[t])'
  BY <1>0, <1>1 DEF Working, Target
<1>2. ASSUME NEW t \in Task, t # current PROVE Working(t, at[t], call[t])'
  <2>1. PICK x, y : x = at'[t] /\ y = call'[t] /\ x = at[t] /\ y = call[t]
    BY <1>0, <1>2
  <2>2. Working(t, x, y) /\ Shape(x, y)
    BY <1>0, <2>1 DEF WorkInv, TaskInv, CallShape
  <2>3. CASE t >= nr_tasks
    <3>1. y = NoCall /\ x = "thread"
      BY <1>0, <2>1, <2>2, <2>3 DEF TaskInv, Shape
    <3>2. Working(t, x, y)'
      BY <3>1, NoCallIs DEF Working
    <3> QED
      BY <2>1, <3>2 DEF Working, Target
  <2>4. CASE t < nr_tasks
    <3>1. y.op # "fork"
      BY <1>0, <1>2, <2>1 DEF TaskInv, Copying
    <3>2. Target(t, y) = t /\ Target(t, y)' = t
      BY <3>1 DEF Target
    <3>3. y.va \in Va
      BY <1>0, <2>1, CallType
    <3>4. \A k \in 1 .. 5 : Way(t, y.va)'[k] = Way(t, y.va)[k]
      BY <1>2, <2>4, <3>3
    <3>5. \A k \in Level : Gap(t, y.va, k) => Gap(t, y.va, k)'
      <4> SUFFICES ASSUME NEW k \in Level, Gap(t, y.va, k) PROVE Gap(t, y.va, k)'
        OBVIOUS
      <4>1. k \in 1 .. 5 /\ (k # 1 => k - 1 \in 1 .. 5)
        BY DEF Level
      <4> QED
        BY <3>4, <4>1 DEF Gap
    <3>6. y.page # 0 => word'[y.page] = word[y.page]
      BY <1>2, <2>1, <2>4
    <3>7. Working(t, x, y)'
      BY <2>2, <3>2, <3>4, <3>5, <3>6 DEF Working
    <3> QED
      BY <2>1, <3>7 DEF Working, Target
  <2> QED
    BY <1>0, <2>3, <2>4
<1> QED
  BY <1>1, <1>2 DEF WorkInv

LEMMA ForkInvSteps ==
    ASSUME NEW place, NEW c, Step(place, c), Forking(place, c)'
    PROVE  ForkInv'
BY DEF Step, ForkInv, Forking

\* Nobody else's page is the one a step writes to.
LEMMA OthersPage ==
    ASSUME MmInv, ~wild, NEW p \in Page, NEW t \in Task, call[t].page # 0,
           p \notin mem_map \/ InUser(p)
    PROVE  call[t].page # p
BY OneUserEach DEF MmInv

LEMMA StoreStep ==
    ASSUME MmInv, NEW va \in Touched, store(va), ~wild'
    PROVE  TaskInv' /\ SlotInv' /\ WorkInv' /\ ForkInv'
<1>0. /\ ~wild /\ at[current] = "user" /\ va \in Va
      /\ UNCHANGED <<mem_map, table, mm, nr_tasks, current, struct, ttbr0, at, call, held>>
      /\ Translate(ttbr0, va) # 0
      /\ word' = [word EXCEPT ![Translate(ttbr0, va)] = WRITTEN]
  BY Sizes DEF store, At
<1>1. /\ TypeOK /\ TreeInv /\ ListInv /\ current \in Task /\ current \in Slot
      /\ me = call[current] /\ me = NoCall /\ Shape(at[current], me)
      /\ Process(current) /\ ~Filling(current) /\ ttbr0 = pgd[current]
  BY <1>0, Mine, NoCallIs DEF MmInv, Shape
<1>2. PICK p \in Page : p = Translate(ttbr0, va) /\ InUser(p)
  BY <1>0, <1>1, WayIs, WayListed
<1>3. Step("user", NoCall)
  BY <1>0, <1>1 DEF Step
<1>4. Shape("user", NoCall)
  BY NoCallIs DEF Shape
<1>5. TaskInv'
  BY <1>0, <1>3, <1>4, NoCallIs, TaskSteps
<1>6. SlotInv'
  <2>1. /\ \A t \in Slot : struct'[t] = struct[t] /\ pgd'[t] = pgd[t]
                             /\ kernel_pages'[t] = kernel_pages[t] /\ user_pages'[t] = user_pages[t]
        /\ mem_map' = mem_map /\ ttbr0' = ttbr0
    BY <1>0 DEF mm
  <2>2. user_pages[current] # <<>> \/ mem_map = Page
    BY <1>0, <1>1 DEF MmInv, SlotInv
  <2> QED
    BY <1>0, <1>1, <1>3, <2>1, <2>2, NoCallIs, SlotSteps
<1>7. WorkInv'
  <2>1. \A t, wa : Way(t, wa)' = Way(t, wa)
    BY <1>0, WaysKept DEF mm
  <2>2. ASSUME NEW t \in Task, call[t].page # 0 PROVE word'[call[t].page] = word[call[t].page]
    <3>1. call[t].page \in Page
      BY <1>1, <2>2, CallType, Sizes
    <3>2. call[t].page # p
      BY <1>0, <1>2, <2>2, OthersPage
    <3> QED
      BY <1>0, <1>1, <1>2, <3>1, <3>2 DEF TypeOK
  <2>3. Working(current, "user", NoCall)'
    BY NoCallIs DEF Working
  <2>4. \A t \in Task \ {current} : t < nr_tasks =>
           /\ \A wa \in Va : \A j \in 1 .. 5 : Way(t, wa)'[j] = Way(t, wa)[j]
           /\ call[t].page # 0 => word'[call[t].page] = word[call[t].page]
    BY <2>1, <2>2
  <2>5. PICK place, c : Step(place, c) /\ Working(current, place, c)'
    BY <1>3, <2>3
  <2> QED
    BY <1>0, <2>4, <2>5, WorkSteps
<1>8. ForkInv'
  <2>1. Forking("user", NoCall)'
    BY NoCallIs DEF Forking
  <2> QED
    BY <1>3, <2>1, ForkInvSteps
<1> QED
  BY <1>5, <1>6, <1>7, <1>8

\* A fault is never served by a PGD: a process has one, unless no page was left
\* for it, and then there is none to take.
LEMMA NoPgdForProcess ==
    ASSUME MmInv, get_free_page_claim, ~wild', Process(current), me.want = 1
    PROVE  dst # current
<1> SUFFICES ASSUME dst = current PROVE FALSE
  OBVIOUS
<1>1. /\ At("claim") /\ ~wild /\ TypeOK /\ TreeInv /\ ListInv
      /\ current \in Task /\ current \in Slot
      /\ me.found \in Page /\ me.found \notin mem_map
  BY Current, Fresh DEF get_free_page_claim, At, MmInv
<1>2. Gap(current, me.va, 1) /\ me.va \in Va
  BY <1>1, Claiming DEF Level
<1>3. pgd[current] = 0
  BY <1>1, <1>2, WayIs DEF Gap
<1>4. user_pages[current] # <<>> \/ mem_map = Page
  BY <1>1 DEF MmInv, SlotInv
<1>5. user_pages[current] # <<>>
  BY <1>1, <1>4
<1>6. 1 \in 1 .. Len(user_pages[current])
  <2> DEFINE S == [phys : Page, virt : Va]
  <2>1. user_pages[current] \in Seq(S)
    BY <1>1 DEF TypeOK
  <2> HIDE DEF S
  <2> QED
    BY <1>5, <2>1
<1>7. /\ user_pages[current][1].virt \in Va
      /\ Way(current, user_pages[current][1].virt)[5] = user_pages[current][1].phys
      /\ user_pages[current][1].phys \in Page
  BY <1>1, <1>6, UserPageType DEF ListInv
<1>8. PICK va \in Va : Way(current, va)[5] \in Page
  BY <1>7
<1>9. Way(current, va)[5] = 0
  BY <1>1, <1>3, BlankWay
<1> QED
  BY <1>8, <1>9, Sizes

\* What a page taken does to the list of the child's pages: nothing.
LEMMA ClaimFork ==
    ASSUME MmInv, get_free_page_claim, ~wild', NEW place, NEW c,
           UNCHANGED <<current, nr_tasks>>,
           c.op = me.op, c.copied = me.copied, c.va = me.va, c.want = me.want,
           place # "next" => c.want # STRUCT
    PROVE  Forking(place, c)'
<1>1. /\ At("claim") /\ ~wild /\ at[current] = "claim" /\ TypeOK /\ TreeInv /\ ListInv
      /\ current \in Slot /\ nr_tasks \in Slot /\ Forking("claim", me)
      /\ current' = current /\ nr_tasks' = nr_tasks
  BY Mine DEF get_free_page_claim, At, MmInv
<1>2. /\ me.found \in Page /\ me.found \notin mem_map
      /\ word' = [word EXCEPT ![me.found] = ZERO]
      /\ \A t \in Slot, va \in Va : Way(t, va)[5] # me.found
      /\ user_pages' = user_pages
  BY Fresh DEF get_free_page_claim, take_struct, take_user, take_table, mm
<1>3. \A t \in Slot, va \in Va : Way(t, va)'[5] = Way(t, va)[5]
  BY ClaimWays
<1>4. PICK u \in Slot, n \in Slot :
         u = current /\ n = nr_tasks /\ u = current' /\ n = nr_tasks'
  BY <1>1
<1> SUFFICES ASSUME c.op = "fork" PROVE Forking(place, c)'
  BY DEF Forking
<1>5. /\ c.copied <= Len(user_pages[u])
      /\ place # "next" => c.copied < Len(user_pages[u]) /\ user_pages[u][c.copied + 1].virt = c.va
      /\ \A va \in Va : Way(n, va)[5] # 0 =>
            /\ \E k \in 1 .. c.copied : user_pages[u][k].virt = va
            /\ word[Way(n, va)[5]] = word[Way(u, va)[5]]
      /\ \/ mem_map = Page
         \/ \A k \in 1 .. c.copied : Way(n, user_pages[u][k].virt)[5] # 0
  BY <1>1, <1>4 DEF Forking
<1>6. c.copied \in Nat /\ Len(user_pages[u]) \in Nat
  <2>1. me.copied \in Nat
    BY <1>1, Mine DEF Call
  <2>2. Len(user_pages[u]) \in Nat
    BY <1>1 DEF TypeOK
  <2> QED
    BY <2>1, <2>2
<1>7. ASSUME NEW va \in Va, Way(n, va)'[5] # 0
      PROVE  /\ \E k \in 1 .. c.copied : user_pages'[u][k].virt = va
             /\ word'[Way(n, va)'[5]] = word'[Way(u, va)'[5]]
  <2>1. PICK k \in 1 .. c.copied : user_pages[u][k].virt = va
    BY <1>3, <1>5, <1>7
  <2>2. k \in 1 .. Len(user_pages[u])
    BY <1>5, <1>6
  <2>3. Way(u, va)[5] \in Page
    <3>1. Way(u, user_pages[u][k].virt)[5] = user_pages[u][k].phys
      BY <1>1, <2>2 DEF ListInv
    <3> QED
      BY <1>1, <2>1, <2>2, <3>1, UserPageType
  <2>4. Way(n, va)[5] \in Page
    BY <1>1, <1>3, <1>7, WayListed
  <2>5. \A p \in Page : p # me.found => word'[p] = word[p]
    BY <1>1, <1>2 DEF TypeOK
  <2>6. /\ word'[Way(n, va)[5]] = word[Way(n, va)[5]]
        /\ word'[Way(u, va)[5]] = word[Way(u, va)[5]]
    BY <1>2, <2>3, <2>4, <2>5
  <2> QED
    BY <1>2, <1>3, <1>5, <1>7, <2>1, <2>6
<1>8. \/ mem_map' = Page
      \/ \A k \in 1 .. c.copied : Way(n, user_pages[u][k].virt)'[5] # 0
  <2>1. mem_map # Page
    BY <1>2
  <2>2. ASSUME NEW k \in 1 .. c.copied PROVE Way(n, user_pages[u][k].virt)'[5] # 0
    <3>1. k \in 1 .. Len(user_pages[u])
      BY <1>5, <1>6
    <3>2. PICK va \in Va : va = user_pages[u][k].virt /\ va = user_pages'[u][k].virt
      BY <1>1, <1>2, <3>1, UserPageType
    <3>3. Way(n, va)'[5] # 0
      BY <1>3, <1>5, <2>1, <3>2
    <3> QED
      BY <3>2, <3>3 DEF Way
  <2> QED
    BY <2>2
<1>9. /\ c.copied <= Len(user_pages'[u])
      /\ place # "next" => c.copied < Len(user_pages'[u]) /\ user_pages'[u][c.copied + 1].virt = c.va
  BY <1>2, <1>5
<1> QED
  BY <1>4, <1>7, <1>8, <1>9 DEF Forking, Way

LEMMA ClaimStep ==
    ASSUME MmInv, get_free_page_claim, ~wild'
    PROVE  TaskInv' /\ SlotInv' /\ WorkInv' /\ ForkInv'
<1>0. /\ At("claim") /\ ~wild /\ at[current] = "claim" /\ TypeOK /\ TreeInv /\ ListInv
      /\ current \in Task /\ current \in Slot /\ nr_tasks \in Slot /\ current < nr_tasks
      /\ me = call[current] /\ me \in Call /\ Shape("claim", me)
      /\ Working(current, "claim", me)
      /\ me.op \in {"kthread", "fork"} => held[current]
      /\ me.op \in {"fork", "fault"} <=> Process(current)
      /\ Process(current) => ttbr0 = pgd[current]
      /\ Filling(current) <=> me.op \in {"kthread", "fork"} /\ me.want # STRUCT
      /\ UNCHANGED <<nr_tasks, current, ttbr0, held>>
      /\ dst \in Slot /\ dst = Target(current, me)
  BY Mine, Current DEF get_free_page_claim, At, MmInv
<1>1. /\ me.found \in Page /\ me.found \notin mem_map
      /\ word' = [word EXCEPT ![me.found] = ZERO]
      /\ mem_map' = mem_map \cup {me.found}
  BY Fresh DEF get_free_page_claim
<1>2. PICK p \in Page, d \in Slot : p = me.found /\ d = dst
  BY <1>0, <1>1
<1>o. \A t \in Task \ {current} : t < nr_tasks =>
         /\ \A va \in Va : \A j \in 1 .. 5 : Way(t, va)'[j] = Way(t, va)[j]
         /\ call[t].page # 0 => word'[call[t].page] = word[call[t].page]
  <2> SUFFICES ASSUME NEW t \in Task, t # current, t < nr_tasks
               PROVE  /\ \A va \in Va : \A j \in 1 .. 5 : Way(t, va)'[j] = Way(t, va)[j]
                      /\ call[t].page # 0 => word'[call[t].page] = word[call[t].page]
    OBVIOUS
  <2>1. t \in Slot /\ t # dst
    BY <1>0, Sizes DEF Target, Task
  <2>2. \A va \in Va : \A j \in 1 .. 5 : Way(t, va)'[j] = Way(t, va)[j]
    BY <2>1, ClaimWays
  <2>3. ASSUME call[t].page # 0 PROVE word'[call[t].page] = word[call[t].page]
    <3>1. call[t].page \in Page
      BY <1>0, <2>3, CallType, Sizes
    <3>2. call[t].page # me.found
      BY <1>0, <1>1, <2>3, OthersPage
    <3> QED
      BY <1>0, <1>1, <3>1, <3>2 DEF TypeOK
  <2> QED
    BY <2>2, <2>3
<1>f. (mem_map = Page => mem_map' = Page) /\ mem_map # Page
  BY <1>1
<1>l. me.op = "load" => user_pages[current] = <<>>
  BY <1>0 DEF MmInv, SlotInv
<1>3. CASE take_struct(p)
  <2>0. /\ me.want = STRUCT /\ me.page = 0 /\ me.op \in {"kthread", "fork"} /\ me.copied = 0
    BY <1>0, <1>3 DEF take_struct, Shape, STRUCT, USER, Level
  <2>1. PICK c : c = [me EXCEPT !.found = 0]
    OBVIOUS
  <2>2. /\ c.op = me.op /\ c.want = me.want /\ c.va = me.va /\ c.page = 0
        /\ c.copied = me.copied /\ c.found = 0
    BY <1>0, <2>0, <2>1 DEF Call
  <2>3. Step("next", c)
    BY <1>0, <1>3, <2>1, Steps DEF take_struct
  <2>4. Shape("next", c)
    BY <2>0, <2>2 DEF Shape
  <2>5. TaskInv'
    BY <1>0, <2>2, <2>3, <2>4, TaskSteps
  <2>6. SlotInv'
    <3>1. \A t \in Slot : struct'[t] # struct[t] => t = nr_tasks /\ Fills("next", c)
      BY <1>0, <1>3, <2>0, <2>2 DEF take_struct, TypeOK, Fills
    <3>2. \A t \in Slot : pgd'[t] = pgd[t] /\ kernel_pages'[t] = kernel_pages[t]
                           /\ user_pages'[t] = user_pages[t]
      BY <1>3 DEF take_struct, mm
    <3>3. Process(current) => user_pages[current] # <<>> \/ mem_map = Page
      BY <1>0 DEF MmInv, SlotInv
    <3>4. Fills("next", c)
      BY <2>0, <2>2 DEF Fills
    <3> QED
      BY <1>0, <1>f, <2>0, <2>2, <2>3, <3>1, <3>2, <3>3, <3>4, SlotSteps
  <2>7. WorkInv'
    <3>1. Working(current, "next", c)'
      BY <2>2 DEF Working
    <3> QED
      BY <1>0, <1>o, <2>3, <3>1, WorkSteps
  <2>8. Forking("next", c)'
    BY <1>0, <2>0, <2>2, ClaimFork
  <2> QED
    BY <2>3, <2>5, <2>6, <2>7, <2>8, ForkInvSteps
<1>4. CASE take_user(p)
  <2>0. me.want = USER /\ me.page = 0 /\ me.op \in Mapping
    BY <1>0, <1>4 DEF take_user, Shape, STRUCT, USER, Level
  <2>1. PICK c : c = [me EXCEPT !.found = 0, !.page = p]
    OBVIOUS
  <2>2. /\ c.op = me.op /\ c.want = me.want /\ c.va = me.va /\ c.page = p
        /\ c.copied = me.copied /\ c.found = 0 /\ c.want # STRUCT
    BY <1>0, <2>0, <2>1 DEF Call, USER, STRUCT
  <2>3. Step("map", c)
    BY <1>0, <1>4, <2>1, Steps DEF take_user
  <2>4. Shape("map", c)
    BY <1>0, <2>0, <2>2, Sizes DEF Shape
  <2>5. TaskInv'
    BY <1>0, <2>2, <2>3, <2>4, TaskSteps
  <2>6. SlotInv'
    <3>1. \A t \in Slot : struct'[t] = struct[t]
      BY <1>4 DEF take_user
    <3>2. \A t \in Slot : pgd'[t] = pgd[t] /\ kernel_pages'[t] = kernel_pages[t]
                           /\ user_pages'[t] = user_pages[t]
      BY <1>4 DEF take_user, mm
    <3>3. Process(current) => user_pages[current] # <<>> \/ mem_map = Page
      BY <1>0 DEF MmInv, SlotInv
    <3>4. Filling(current) => c.op = me.op /\ Fills("map", c)
      BY <1>0, <2>2 DEF Fills
    <3> QED
      BY <1>0, <1>f, <1>l, <2>2, <2>3, <3>1, <3>2, <3>3, <3>4, SlotSteps
  <2>7. WorkInv'
    <3>1. word'[p] = ZERO
      BY <1>0, <1>1, <1>2 DEF TypeOK
    <3>2. PICK x \in Slot, va \in Va : x = Target(current, c) /\ x = Target(current, c)' /\ va = c.va
      BY <1>0, <2>2, Claiming DEF Target
    <3>3. Way(x, va)'[5] = 0
      <4>1. Way(x, va)[5] = 0
        BY <1>0, <2>0, <2>2, <3>2 DEF Working, Target, USER, STRUCT
      <4> QED
        BY <4>1, ClaimWays
    <3>4. Way(Target(current, c), c.va)'[5] = 0
      BY <3>2, <3>3 DEF Way
    <3>5. Working(current, "map", c)'
      BY <2>2, <3>1, <3>4 DEF Working
    <3> QED
      BY <1>0, <1>o, <2>3, <3>5, WorkSteps
  <2>8. Forking("map", c)'
    BY <1>0, <2>0, <2>2, ClaimFork
  <2> QED
    BY <2>3, <2>5, <2>6, <2>7, <2>8, ForkInvSteps
<1>5. CASE take_table(p)
  <2>0. me.want \in Level /\ me.page \in Page /\ me.op \in Mapping
    BY <1>0, <1>5, Claiming DEF take_table
  <2>1. PICK c : c = [me EXCEPT !.found = 0]
    OBVIOUS
  <2>2. /\ c.op = me.op /\ c.want = me.want /\ c.va = me.va /\ c.page = me.page
        /\ c.copied = me.copied /\ c.found = 0 /\ c.want # STRUCT
    BY <1>0, <2>0, <2>1 DEF Call, Level, STRUCT
  <2>3. Step("map", c)
    BY <1>0, <1>5, <2>1, Steps DEF take_table
  <2>4. Shape("map", c)
    BY <1>0, <2>0, <2>2, Sizes DEF Shape
  <2>5. TaskInv'
    BY <1>0, <2>2, <2>3, <2>4, TaskSteps
  <2>6. SlotInv'
    <3>1. \A t \in Slot : struct'[t] = struct[t] /\ user_pages'[t] = user_pages[t]
      BY <1>5 DEF take_table
    <3>2. \A t \in Slot : t # d => pgd'[t] = pgd[t] /\ kernel_pages'[t] = kernel_pages[t]
      BY <1>0, <1>2, <1>5 DEF take_table, TypeOK
    <3>3. Process(current) => user_pages[current] # <<>> \/ mem_map = Page
      BY <1>0 DEF MmInv, SlotInv
    <3>4. Filling(current) => c.op = me.op /\ Fills("map", c)
      BY <1>0, <2>2 DEF Fills
    <3>5. c.op = "fork" => Fills("map", c)
      BY <2>2 DEF Fills
    <3>6. d = current \/ (d = nr_tasks /\ c.op = "fork" /\ Fills("map", c))
      BY <1>0, <1>2, <2>2, <3>5 DEF Target
    <3>7. Process(current) => pgd'[current] = pgd[current]
      <4>1. CASE d # current
        BY <1>0, <3>2, <4>1
      <4>2. CASE d = current /\ Process(current)
        <5>1. me.want # 1
          BY <1>2, <4>2, NoPgdForProcess
        <5> QED
          BY <1>5, <5>1 DEF take_table
      <4> QED
        BY <4>1, <4>2
    <3> QED
      BY <1>0, <1>f, <1>l, <2>2, <2>3, <3>1, <3>2, <3>3, <3>4, <3>6, <3>7, SlotSteps
  <2>7. WorkInv'
    <3>1. word'[c.page] = ZERO
      <4>1. c.page \in mem_map
        BY <1>0, <2>0, <2>2, OneUserEach DEF MmInv
      <4>2. word[c.page] = ZERO
        BY <1>0, <2>0, <2>2, Sizes DEF Working
      <4> QED
        BY <1>0, <1>1, <2>0, <2>2, <4>1, <4>2 DEF TypeOK
    <3>2. PICK x \in Slot, va \in Va : x = Target(current, c) /\ x = Target(current, c)' /\ va = c.va
      BY <1>0, <2>2, Claiming DEF Target
    <3>3. Way(x, va)'[5] = 0
      <4>1. Way(x, va)[5] = 0
        BY <1>0, <2>0, <2>2, <3>2 DEF Working, Target
      <4> QED
        BY <4>1, ClaimWays
    <3>4. Way(Target(current, c), c.va)'[5] = 0
      BY <3>2, <3>3 DEF Way
    <3>5. Working(current, "map", c)'
      BY <2>2, <3>1, <3>4 DEF Working
    <3> QED
      BY <1>0, <1>o, <2>3, <3>5, WorkSteps
  <2>8. Forking("map", c)'
    BY <1>0, <2>0, <2>2, ClaimFork
  <2> QED
    BY <2>3, <2>5, <2>6, <2>7, <2>8, ForkInvSteps
<1> QED
  BY <1>2, <1>3, <1>4, <1>5 DEF get_free_page_claim

\* A page mapped, whatever the call goes on with.
LEMMA EntrySteps ==
    ASSUME MmInv, NEW op, map_page_entry(op), ~wild'
    PROVE  /\ ~wild /\ at[current] = "map" /\ me.op = op /\ op \in Mapping
           /\ \A t \in Task \ {current} : t < nr_tasks =>
                 /\ \A va \in Va : \A j \in 1 .. 5 : Way(t, va)'[j] = Way(t, va)[j]
                 /\ call[t].page # 0 => call[t].page \in Page /\ call[t].page # me.page
           /\ \A t \in Slot : t # dst => user_pages'[t] = user_pages[t]
           /\ user_pages'[dst] # <<>>
           /\ \A t \in Slot : pgd'[t] = pgd[t] /\ kernel_pages'[t] = kernel_pages[t]
           /\ UNCHANGED <<mem_map, struct, current, nr_tasks, held>>
<1>0. /\ At("map") /\ ~wild /\ at[current] = "map" /\ me.op = op /\ TypeOK
      /\ me.op \in Mapping /\ me.page \in Page /\ me.va \in Va /\ me = call[current]
      /\ dst \in Slot /\ dst = Target(current, me) /\ current \in Task
      /\ current < nr_tasks /\ nr_tasks \in Nat
      /\ UNCHANGED <<mem_map, pgd, kernel_pages, struct, current, nr_tasks, held>>
  BY Mapping4, AtMap, Current DEF At, MmInv, me, map_page_entry
<1>1. ASSUME NEW t \in Task, t # current, t < nr_tasks
      PROVE  /\ \A va \in Va : \A j \in 1 .. 5 : Way(t, va)'[j] = Way(t, va)[j]
             /\ call[t].page # 0 => call[t].page \in Page /\ call[t].page # me.page
  <2>1. t \in Slot /\ t # dst
    BY <1>0, <1>1, Sizes DEF Target, Task
  <2>2. ASSUME NEW va \in Va, NEW j \in 1 .. 5 PROVE Way(t, va)'[j] = Way(t, va)[j]
    <3>1. /\ Way(t, va)'[5] = Way(t, va)[5]
          /\ \A k \in Level : Way(t, va)'[k] = Way(t, va)[k]
      BY <2>1, EntryWays
    <3>2. j \in Level \/ j = 5
      BY DEF Level
    <3> QED
      BY <3>1, <3>2
  <2>3. ASSUME call[t].page # 0 PROVE call[t].page \in Page /\ call[t].page # me.page
    <3>1. call[t].page \in Page
      BY <1>0, <2>3, CallType, Sizes
    <3> QED
      BY <1>0, <1>1, <3>1, OneUserEach DEF MmInv
  <2> QED
    BY <2>2, <2>3
<1>2. PICK d \in Slot, e \in [phys : Page, virt : Va] :
         d = dst /\ user_pages' = [user_pages EXCEPT ![d] = Append(@, e)]
  <2>1. [phys |-> me.page, virt |-> me.va] \in [phys : Page, virt : Va]
    BY <1>0
  <2>2. user_pages' = [user_pages EXCEPT ![dst] = Append(@, [phys |-> me.page, virt |-> me.va])]
    BY DEF map_page_entry
  <2> QED
    BY <1>0, <2>1, <2>2
<1>3. /\ \A t \in Slot : t # d => user_pages'[t] = user_pages[t]
      /\ Len(user_pages[d]) \in Nat /\ Len(user_pages'[d]) = Len(user_pages[d]) + 1
  BY <1>0, <1>2, PageListed
<1>4. user_pages'[d] # <<>>
  <2>1. Len(user_pages'[d]) # 0
    BY <1>3
  <2> QED
    BY <2>1
<1> QED
  BY <1>0, <1>1, <1>2, <1>3, <1>4

LEMMA MapStep ==
    ASSUME MmInv, map_page_load \/ map_page_copy \/ map_page_fault, ~wild'
    PROVE  TaskInv' /\ SlotInv' /\ WorkInv' /\ ForkInv'
<1> DEFINE Goal == TaskInv' /\ SlotInv' /\ WorkInv' /\ ForkInv'
<1>p. PICK op : map_page_entry(op)
  BY DEF map_page_load, map_page_copy, map_page_fault
<1>0. /\ ~wild /\ at[current] = "map" /\ At("map") /\ TypeOK /\ TreeInv /\ ListInv
      /\ current \in Task /\ current \in Slot /\ nr_tasks \in Slot /\ current < nr_tasks
      /\ me = call[current] /\ me \in Call /\ Shape("map", me) /\ Forking("map", me)
      /\ me.op \in {"kthread", "fork"} => held[current]
      /\ me.op \in {"fork", "fault"} <=> Process(current)
      /\ Process(current) => ttbr0 = pgd[current]
      /\ Filling(current) => me.op \in {"kthread", "fork"}
      /\ dst \in Slot /\ dst = Target(current, me)
      /\ me.page \in Page /\ me.va \in Va
  BY <1>p, EntrySteps, Mapping4, AtMap, Mine, Current DEF MmInv
<1>1. /\ \A t \in Task \ {current} : t < nr_tasks =>
            /\ \A va \in Va : \A j \in 1 .. 5 : Way(t, va)'[j] = Way(t, va)[j]
            /\ call[t].page # 0 => call[t].page \in Page /\ call[t].page # me.page
      /\ \A t \in Slot : t # dst => user_pages'[t] = user_pages[t]
      /\ user_pages'[dst] # <<>>
      /\ \A t \in Slot : pgd'[t] = pgd[t] /\ kernel_pages'[t] = kernel_pages[t]
      /\ UNCHANGED <<mem_map, struct, current, nr_tasks, held>>
  BY <1>p, EntrySteps
<1>o. ASSUME NEW x, word' = [word EXCEPT ![me.page] = x] \/ word' = word
      PROVE  \A t \in Task \ {current} : t < nr_tasks =>
                /\ \A va \in Va : \A j \in 1 .. 5 : Way(t, va)'[j] = Way(t, va)[j]
                /\ call[t].page # 0 => word'[call[t].page] = word[call[t].page]
  <2>1. \A p \in Page : p # me.page => word'[p] = word[p]
    BY <1>0, <1>o DEF TypeOK
  <2> QED
    BY <1>1, <2>1
<1>d. PICK d \in Slot : d = dst
  BY <1>0
<1>m. /\ \A t \in Slot : struct'[t] = struct[t]
      /\ \A t \in Slot : t # d => /\ pgd'[t] = pgd[t] /\ kernel_pages'[t] = kernel_pages[t]
                                 /\ user_pages'[t] = user_pages[t]
      /\ mem_map' = mem_map /\ pgd'[current] = pgd[current]
  BY <1>0, <1>1, <1>d
<1>s. Process(current) => user_pages[current] # <<>> \/ mem_map = Page
  BY <1>0 DEF MmInv, SlotInv
<1>2. CASE map_page_load
  <2>0. /\ me.op = "load" /\ Goto("user") /\ Set(NoCall) /\ ttbr0' = pgd[current]
        /\ word' = [word EXCEPT ![me.page] = PROGRAM]
    BY <1>2 DEF map_page_load, map_page_entry, Return
  <2>1. Step("user", NoCall)
    BY <1>0, <1>1, <2>0, Steps
  <2>2. Shape("user", NoCall)
    BY NoCallIs DEF Shape
  <2>3. TaskInv'
    BY <1>0, <2>1, <2>2, NoCallIs, TaskSteps
  <2>4. SlotInv'
    <3>1. d = current /\ ~Filling(current)
      BY <1>0, <1>d, <2>0 DEF Target
    <3>2. user_pages'[current] # <<>> /\ ttbr0' = pgd'[current]
      BY <1>1, <1>d, <1>m, <2>0, <3>1
    <3> QED
      BY <1>0, <1>m, <2>1, <3>1, <3>2, NoCallIs, SlotSteps
  <2>5. WorkInv'
    <3>1. Working(current, "user", NoCall)'
      BY NoCallIs DEF Working
    <3> QED
      BY <1>0, <1>o, <2>0, <2>1, <3>1, WorkSteps
  <2>6. Forking("user", NoCall)'
    BY NoCallIs DEF Forking
  <2> QED
    BY <2>1, <2>3, <2>4, <2>5, <2>6, ForkInvSteps
<1>3. CASE map_page_fault
  <2>0. /\ me.op = "fault" /\ Goto("seen") /\ Set([me EXCEPT !.page = 0])
        /\ ttbr0' = ttbr0 /\ word' = word
    BY <1>3 DEF map_page_fault, map_page_entry
  <2>1. PICK c : c = [me EXCEPT !.page = 0]
    OBVIOUS
  <2>2. c.op = "fault" /\ c.page = 0
    BY <1>0, <2>0, <2>1 DEF Call
  <2>3. Step("seen", c)
    BY <1>0, <1>1, <2>0, <2>1, Steps
  <2>4. Shape("seen", c)
    BY <2>2 DEF Shape
  <2>5. TaskInv'
    BY <1>0, <2>2, <2>3, <2>4, TaskSteps
  <2>6. SlotInv'
    <3>1. d = current /\ ~Filling(current)
      BY <1>0, <1>d, <2>0 DEF Target
    <3>2. user_pages'[current] # <<>> /\ ttbr0' = pgd'[current]
      BY <1>0, <1>1, <1>d, <1>m, <2>0, <3>1
    <3> QED
      BY <1>0, <1>m, <2>2, <2>3, <3>1, <3>2, SlotSteps
  <2>7. WorkInv'
    <3>1. Working(current, "seen", c)'
      BY <2>2 DEF Working
    <3> QED
      BY <1>0, <1>o, <2>0, <2>3, <3>1, WorkSteps
  <2>8. Forking("seen", c)'
    BY <2>2 DEF Forking
  <2> QED
    BY <2>3, <2>5, <2>6, <2>7, <2>8, ForkInvSteps
<1>4. CASE map_page_copy
  <2>0. /\ me.op = "fork" /\ Goto("next") /\ Set([me EXCEPT !.copied = @ + 1, !.page = 0])
        /\ ttbr0' = ttbr0 /\ map_page_entry("fork")
        /\ word' = [word EXCEPT ![me.page] = word[Translate(ttbr0, me.va)]]
    BY <1>4 DEF map_page_copy, map_page_entry
  <2>a. /\ dst = nr_tasks /\ me.copied \in Nat /\ me.copied < Len(user_pages[current])
        /\ user_pages[current][me.copied + 1].virt = me.va
        /\ Translate(ttbr0, me.va) = Way(current, me.va)[5]
        /\ Way(current, me.va)[5] \in Page
    BY <1>4, AtCopy
  <2>1. PICK c : c = [me EXCEPT !.copied = @ + 1, !.page = 0]
    OBVIOUS
  <2>2. c.op = "fork" /\ c.page = 0 /\ c.copied = me.copied + 1
    BY <1>0, <2>0, <2>1 DEF Call
  <2>3. Step("next", c)
    BY <1>0, <1>1, <2>0, <2>1, Steps
  <2>4. Shape("next", c)
    BY <2>2 DEF Shape
  <2>5. TaskInv'
    BY <1>0, <1>1, <2>0, <2>2, <2>3, <2>4, TaskSteps
  <2>6. SlotInv'
    <3>1. d = nr_tasks /\ d # current /\ user_pages'[current] = user_pages[current]
      BY <1>0, <1>1, <1>d, <2>a, Current
    <3>2. Fills("next", c)
      BY <2>2 DEF Fills
    <3> QED
      BY <1>0, <1>m, <1>s, <2>0, <2>2, <2>3, <3>1, <3>2, SlotSteps
  <2>7. WorkInv'
    <3>1. Working(current, "next", c)'
      BY <2>2 DEF Working
    <3>2. PICK x : x = word[Translate(ttbr0, me.va)]
      OBVIOUS
    <3> QED
      BY <1>0, <1>o, <2>0, <2>3, <3>1, <3>2, WorkSteps
  <2>8. Forking("next", c)'
    <3>1. PICK u \in Slot, n \in Slot, p \in Page, va \in Va :
             /\ u = current /\ n = nr_tasks /\ p = me.page /\ va = me.va
             /\ u = current' /\ n = nr_tasks' /\ u # n
      BY <1>0, <1>1, Current
    <3>2. /\ user_pages'[u] = user_pages[u] /\ Len(user_pages[u]) \in Nat
      BY <1>0, <1>1, <2>a, <3>1 DEF TypeOK
    <3>3. \A t \in Slot, wa \in Va :
             Way(t, wa)'[5] = (IF t = n /\ wa = va THEN p ELSE Way(t, wa)[5])
      BY <2>0, <2>a, <3>1, EntryWays
    <3>4. /\ me.copied <= Len(user_pages[u])
          /\ \A wa \in Va : Way(n, wa)[5] # 0 =>
                /\ \E k \in 1 .. me.copied : user_pages[u][k].virt = wa
                /\ word[Way(n, wa)[5]] = word[Way(u, wa)[5]]
          /\ \/ mem_map = Page
             \/ \A k \in 1 .. me.copied : Way(n, user_pages[u][k].virt)[5] # 0
      BY <1>0, <2>0, <3>1 DEF Forking
    <3>5. c.copied <= Len(user_pages'[u])
      BY <2>2, <2>a, <3>1, <3>2
    <3>6. ~InUser(p)
      BY <1>0, <3>1, OneUserEach DEF MmInv
    <3>7. \A q \in Page : q # p => word'[q] = word[q]
      BY <1>0, <2>0, <3>1 DEF TypeOK
    <3>8. word'[p] = word[Way(u, va)[5]] /\ Way(u, va)[5] \in Page
      BY <1>0, <2>0, <2>a, <3>1 DEF TypeOK
    <3>9. ASSUME NEW wa \in Va, Way(n, wa)'[5] # 0
          PROVE  /\ \E k \in 1 .. c.copied : user_pages'[u][k].virt = wa
                 /\ word'[Way(n, wa)'[5]] = word'[Way(u, wa)'[5]]
      <4>0. Way(u, wa)'[5] = Way(u, wa)[5]
        BY <3>1, <3>3
      <4>1. CASE wa = va
        <5>1. c.copied \in 1 .. c.copied /\ user_pages'[u][c.copied].virt = wa
          BY <2>2, <2>a, <3>1, <3>2, <4>1
        <5>2. Way(n, wa)'[5] = p
          BY <3>3, <4>1
        <5>3. Way(u, va)[5] # p
          BY <1>0, <3>6, <3>8, WayListed, Sizes
        <5> QED
          BY <3>7, <3>8, <4>0, <4>1, <5>1, <5>2, <5>3
      <4>2. CASE wa # va
        <5>1. Way(n, wa)'[5] = Way(n, wa)[5]
          BY <3>3, <4>2
        <5>2. PICK k \in 1 .. me.copied : user_pages[u][k].virt = wa
          BY <3>4, <3>9, <5>1
        <5>3. k \in 1 .. c.copied /\ k \in 1 .. Len(user_pages[u])
          BY <2>2, <2>a, <3>1, <3>2, <5>2
        <5>4. Way(u, wa)[5] \in Page
          <6>1. Way(u, user_pages[u][k].virt)[5] = user_pages[u][k].phys
            BY <1>0, <5>3 DEF ListInv
          <6> QED
            BY <1>0, <5>2, <5>3, <6>1, UserPageType
        <5>5. Way(n, wa)[5] \in Page
          BY <1>0, <3>9, <5>1, WayListed
        <5>6. Way(u, wa)[5] # p /\ Way(n, wa)[5] # p
          BY <1>0, <3>6, <5>4, <5>5, WayListed, Sizes
        <5>7. word'[Way(u, wa)[5]] = word[Way(u, wa)[5]] /\ word'[Way(n, wa)[5]] = word[Way(n, wa)[5]]
          BY <3>7, <5>4, <5>5, <5>6
        <5> QED
          BY <3>2, <3>4, <3>9, <4>0, <5>1, <5>2, <5>3, <5>7
      <4> QED
        BY <4>1, <4>2
    <3>10. \/ mem_map' = Page
           \/ \A k \in 1 .. c.copied : Way(n, user_pages[u][k].virt)'[5] # 0
      <4>1. CASE mem_map = Page
        BY <1>1, <4>1
      <4>2. CASE mem_map # Page
        <5> SUFFICES ASSUME NEW k \in 1 .. c.copied
                     PROVE  Way(n, user_pages[u][k].virt)'[5] # 0
          OBVIOUS
        <5>1. k \in 1 .. Len(user_pages[u])
          BY <2>2, <2>a, <3>1, <3>2
        <5>2. PICK wa \in Va : wa = user_pages[u][k].virt /\ wa = user_pages'[u][k].virt
          BY <1>0, <3>2, <5>1, UserPageType
        <5>3. Way(n, wa)'[5] # 0
          <6>1. CASE k = me.copied + 1
            <7>1. wa = va
              BY <2>a, <3>1, <5>2, <6>1
            <7>2. Way(n, wa)'[5] = p
              BY <3>3, <7>1
            <7> QED
              BY <7>2, Sizes
          <6>2. CASE k # me.copied + 1
            <7>1. k \in 1 .. me.copied
              BY <2>2, <2>a, <6>2
            <7>2. Way(n, wa)[5] # 0
              BY <3>4, <4>2, <5>2, <7>1
            <7> QED
              BY <3>1, <3>3, <7>2, Sizes
          <6> QED
            BY <6>1, <6>2
        <5> QED
          BY <5>2, <5>3 DEF Way
      <4> QED
        BY <4>1, <4>2
    <3> QED
      BY <2>2, <3>1, <3>5, <3>9, <3>10 DEF Forking, Way
  <2> QED
    BY <2>3, <2>5, <2>6, <2>7, <2>8, ForkInvSteps
<1> QED
  BY <1>2, <1>3, <1>4

-----------------------------------------------------------------------------
(* The end of copy_process, and the switch.                                *)

\* What the end of copy_process, for a process or a thread, does.
LEMMA EndEffects ==
    ASSUME MmInv, copy_process_end, ~wild'
    PROVE  /\ nr_tasks < NR_TASKS /\ nr_tasks' = nr_tasks + 1 /\ nr_tasks \in Task
           /\ UNCHANGED <<memory, mm, current, struct, ttbr0>>
           /\ me.op \in {"kthread", "fork"} /\ me.copied \in Nat
           /\ me.op = "fork" => me.copied >= Len(user_pages[current])
           /\ at[current] = "next" /\ current \in Task /\ current # nr_tasks
           /\ call'[current] = NoCall /\ ~held'[current]
           /\ at'[current] = (IF me.op = "fork" THEN "user" ELSE "loop")
           /\ at'[nr_tasks] = (IF me.op = "fork" THEN "user" ELSE "thread")
           /\ \A t \in Task \ {current} : call'[t] = call[t] /\ held'[t] = held[t]
           /\ \A t \in Task \ {current, nr_tasks} : at'[t] = at[t]
<1>0. /\ ~wild /\ at[current] = "next" /\ TypeOK /\ current \in Task
      /\ nr_tasks \in Nat /\ nr_tasks <= NR_TASKS /\ nr_tasks \in 1 .. NR_TASKS
      /\ current \in Nat /\ current < nr_tasks /\ me \in Call /\ Shape(at[current], me)
  BY Mine, Current DEF copy_process_end, At, MmInv, TypeOK
<1>1. nr_tasks # NR_TASKS /\ nr_tasks < NR_TASKS
  BY <1>0, Sizes DEF copy_process_end, GoWild
<1>2. nr_tasks \in Task
  BY <1>0, <1>1, Sizes DEF Task
<1>3. /\ nr_tasks' = nr_tasks + 1 /\ Set(NoCall)
      /\ held' = [held EXCEPT ![current] = FALSE]
      /\ UNCHANGED <<memory, mm, current, struct, ttbr0>>
  BY <1>1 DEF copy_process_end
<1>4. /\ me.op \in {"kthread", "fork"} /\ me.copied \in Nat
      /\ me.op = "fork" => me.copied >= Len(user_pages[current])
  <2>1. me.op \in {"kthread", "fork"} /\ me.copied \in Nat
    BY <1>0 DEF Shape, Call
  <2>2. me.op = "fork" => me.copied >= Len(user_pages[current])
    BY DEF copy_process_end
  <2> QED
    BY <2>1, <2>2
<1>5. /\ at'[current] = (IF me.op = "fork" THEN "user" ELSE "loop")
      /\ at'[nr_tasks] = (IF me.op = "fork" THEN "user" ELSE "thread")
      /\ \A t \in Task \ {current, nr_tasks} : at'[t] = at[t]
  <2>1. current # nr_tasks
    BY <1>0
  <2>2. CASE me.op = "fork"
    <3>1. at' = [at EXCEPT ![nr_tasks] = "user", ![current] = "user"]
      BY <1>1, <2>2 DEF copy_process_end
    <3> QED
      BY <1>0, <1>2, <2>1, <2>2, <3>1 DEF TypeOK
  <2>3. CASE me.op # "fork"
    <3>1. at' = [at EXCEPT ![nr_tasks] = "thread", ![current] = "loop"]
      BY <1>1, <2>3 DEF copy_process_end
    <3> QED
      BY <1>0, <1>2, <2>1, <2>3, <3>1 DEF TypeOK
  <2> QED
    BY <2>2, <2>3
<1>6. /\ call'[current] = NoCall /\ ~held'[current]
      /\ \A t \in Task \ {current} : call'[t] = call[t] /\ held'[t] = held[t]
  BY <1>0, <1>3 DEF Set, TypeOK
<1>7. current # nr_tasks
  BY <1>0
<1> QED
  BY <1>0, <1>1, <1>2, <1>3, <1>4, <1>5, <1>6, <1>7

LEMMA EndStep ==
    ASSUME MmInv, copy_process_end, ~wild'
    PROVE  TaskInv' /\ SlotInv' /\ WorkInv' /\ ForkInv'
<1>0. /\ ~wild /\ TypeOK /\ TaskInv /\ SlotInv /\ WorkInv /\ ListInv /\ current \in Slot
      /\ nr_tasks \in Nat /\ current \in Nat /\ current < nr_tasks /\ nr_tasks \in Slot
      /\ (at[current] = "user" \/ me.op \in {"fork", "fault"}) <=> Process(current)
      /\ me = call[current] /\ Forking("next", me)
      /\ \A t \in Task : t \in Nat
      /\ Task \subseteq Slot
  BY Mine, Current, EndEffects, Sizes DEF copy_process_end, At, MmInv, Task
<1>1. /\ nr_tasks' = nr_tasks + 1 /\ nr_tasks \in Task
      /\ UNCHANGED <<memory, mm, current, struct, ttbr0>>
      /\ me.op \in {"kthread", "fork"} /\ me.copied \in Nat
      /\ me.op = "fork" => me.copied >= Len(user_pages[current])
      /\ at[current] = "next" /\ current \in Task /\ current # nr_tasks
      /\ call'[current] = NoCall /\ ~held'[current]
      /\ at'[current] = (IF me.op = "fork" THEN "user" ELSE "loop")
      /\ at'[nr_tasks] = (IF me.op = "fork" THEN "user" ELSE "thread")
      /\ \A t \in Task \ {current} : call'[t] = call[t] /\ held'[t] = held[t]
      /\ \A t \in Task \ {current, nr_tasks} : at'[t] = at[t]
  BY EndEffects
<1>u. UNCHANGED <<mem_map, table, word, pgd, kernel_pages, user_pages, current, struct, ttbr0>>
  BY <1>1 DEF memory, mm
<1>2. at[nr_tasks] = "thread" /\ ~held[nr_tasks] /\ call[nr_tasks] = NoCall
  <2>1. at[nr_tasks] = "thread" /\ ~held[nr_tasks] /\ CallShape(nr_tasks)
    BY <1>0, <1>1 DEF TaskInv
  <2> QED
    BY <2>1 DEF CallShape, Shape
<1>n. call'[nr_tasks] = NoCall
  BY <1>1, <1>2
<1>c. \A t \in Task : call'[t].op \notin {"kthread", "fork"}
  BY <1>0, <1>1, NoCallIs DEF TaskInv, Copying
<1>3. TaskInv'
  <2>1. current' < nr_tasks'
    BY <1>0, <1>1
  <2>2. ASSUME NEW t \in Task PROVE CallShape(t)'
    <3>1. CASE t \in {current, nr_tasks}
      <4>1. call'[t] = NoCall /\ at'[t] \in {"user", "loop", "thread"}
        BY <1>1, <1>n, <3>1
      <4> QED
        BY <4>1, NoCallIs DEF CallShape, Shape
    <3>2. CASE t \notin {current, nr_tasks}
      <4>1. at'[t] = at[t] /\ call'[t] = call[t] /\ CallShape(t)
        BY <1>0, <1>1, <3>2 DEF TaskInv
      <4> QED
        BY <4>1 DEF CallShape, Shape
    <3> QED
      BY <3>1, <3>2
  <2>3. ASSUME NEW t \in Task, t >= nr_tasks' PROVE at'[t] = "thread" /\ ~held'[t]
    <3>1. t # current /\ t # nr_tasks /\ t >= nr_tasks
      BY <1>0, <1>1, <2>3
    <3> QED
      BY <1>0, <1>1, <3>1 DEF TaskInv
  <2>4. \A t \in Task : ~Copying(t)'
    BY <1>c DEF Copying
  <2> QED
    BY <2>1, <2>2, <2>3, <2>4 DEF TaskInv
<1>f. ~Filling(current) \/ me.op \in {"kthread", "fork"}
  BY <1>1
<1>4. SlotInv'
  <2>1. ASSUME NEW t \in Slot, t >= nr_tasks' PROVE struct'[t] = 0 /\ Blank(t)'
    <3>1. t >= nr_tasks /\ t # nr_tasks
      BY <1>0, <1>1, <2>1 DEF Slot
    <3>2. struct[t] = 0 /\ Blank(t)
      BY <1>0, <3>1 DEF SlotInv
    <3> QED
      BY <1>u, <3>2 DEF Blank
  <2>2. ASSUME NEW t \in Task, t < nr_tasks', at'[t] = "thread" PROVE Blank(t)'
    <3>1. Blank(t)
      <4>1. CASE t = nr_tasks
        <5>1. me.op # "fork"
          BY <1>1, <2>2, <4>1
        <5> QED
          BY <1>0, <4>1, <5>1 DEF SlotInv
      <4>2. CASE t # nr_tasks
        <5>1. t < nr_tasks /\ t # current /\ at[t] = "thread"
          BY <1>0, <1>1, <2>2, <4>2
        <5> QED
          BY <1>0, <5>1 DEF SlotInv
      <4> QED
        BY <4>1, <4>2
    <3> QED
      BY <1>u, <3>1 DEF Blank
  <2>3. ASSUME NEW t \in Task, call'[t].op = "load" PROVE user_pages'[t] = <<>>
    <3>1. t # current /\ call[t].op = "load"
      BY <1>1, <2>3, NoCallIs
    <3> QED
      BY <1>0, <1>u, <3>1 DEF SlotInv
  <2>4. ASSUME NEW t \in Task, Process(t)' PROVE user_pages'[t] # <<>> \/ mem_map' = Page
    <3>1. CASE t = nr_tasks
      <4>1. me.op = "fork"
        BY <1>1, <1>n, <2>4, <3>1, NoCallIs DEF Process
      <4>2. user_pages[current] # <<>> \/ mem_map = Page
        BY <1>0, <1>1, <4>1 DEF SlotInv
      <4>3. ASSUME user_pages[current] # <<>>, mem_map # Page PROVE user_pages[nr_tasks] # <<>>
        <5>1. 1 \in 1 .. Len(user_pages[current]) /\ 1 \in 1 .. me.copied
          <6> DEFINE S == [phys : Page, virt : Va]
          <6>1. user_pages[current] \in Seq(S)
            BY <1>0 DEF TypeOK
          <6> HIDE DEF S
          <6>2. Len(user_pages[current]) \in Nat /\ Len(user_pages[current]) > 0
            BY <4>3, <6>1
          <6> QED
            BY <1>1, <4>1, <6>2
        <5>2. Way(nr_tasks, user_pages[current][1].virt)[5] # 0
          BY <1>0, <4>1, <4>3, <5>1 DEF Forking
        <5>3. PICK va \in Va : Way(nr_tasks, va)[5] # 0
          BY <1>0, <5>1, <5>2, UserPageType
        <5>4. \E k \in 1 .. Len(user_pages[nr_tasks]) : TRUE
          BY <1>0, <5>3 DEF ListInv
        <5>5. user_pages[nr_tasks] = <<>> => Len(user_pages[nr_tasks]) = 0
          OBVIOUS
        <5> QED
          BY <5>4, <5>5
      <4> QED
        BY <1>u, <3>1, <4>2, <4>3
    <3>2. CASE t # nr_tasks
      <4>1. Process(t)
        <5>1. CASE t = current
          BY <1>0, <1>1, <2>4, <5>1, NoCallIs DEF Process
        <5>2. CASE t # current
          BY <1>1, <2>4, <3>2, <5>2 DEF Process
        <5> QED
          BY <5>1, <5>2
      <4> QED
        BY <1>0, <1>u, <4>1 DEF SlotInv
    <3> QED
      BY <3>1, <3>2
  <2>5. ASSUME Process(current)' PROVE ttbr0' = pgd'[current']
    <3>1. Process(current)
      BY <1>0, <1>1, <2>5, NoCallIs DEF Process
    <3> QED
      BY <1>0, <1>u, <3>1 DEF SlotInv
  <2> QED
    BY <2>1, <2>2, <2>3, <2>4, <2>5 DEF SlotInv
<1>5. WorkInv'
  <2>w. \A t, va : Way(t, va)' = Way(t, va)
    BY <1>u, WaysKept
  <2> SUFFICES ASSUME NEW t \in Task PROVE Working(t, at[t], call[t])'
    BY DEF WorkInv
  <2>1. CASE t \in {current, nr_tasks}
    <3>1. call'[t] = NoCall
      BY <1>1, <1>n, <2>1
    <3>2. at'[t] \notin {"find", "claim", "map"}
      BY <1>1, <2>1
    <3> QED
      BY <3>1, <3>2, NoCallIs DEF Working
  <2>2. CASE t \notin {current, nr_tasks}
    <3>1. PICK x, y : x = at[t] /\ y = call[t] /\ x = at'[t] /\ y = call'[t]
      BY <1>1, <2>2
    <3>2. Working(t, x, y)
      BY <1>0, <3>1 DEF WorkInv
    <3>3. Target(t, y) = t /\ Target(t, y)' = t
      BY <1>c, <3>1 DEF Target
    <3>4. \A va, k : Gap(t, va, k) => Gap(t, va, k)'
      BY <2>w DEF Gap
    <3>5. Working(t, x, y)'
      BY <1>u, <2>w, <3>2, <3>3, <3>4 DEF Working
    <3> QED
      BY <3>1, <3>5 DEF Working, Target
  <2> QED
    BY <2>1, <2>2
<1>6. ForkInv'
  BY <1>1, NoCallIs DEF ForkInv, Forking
<1> QED
  BY <1>3, <1>4, <1>5, <1>6

LEMMA SwitchStep ==
    ASSUME MmInv, NEW s \in Task, switch_to(s), ~wild'
    PROVE  TaskInv' /\ SlotInv' /\ WorkInv' /\ ForkInv'
<1>0. /\ ~wild /\ TypeOK /\ TaskInv /\ SlotInv /\ WorkInv
      /\ current \in Task /\ ~held[current]
      /\ s < nr_tasks /\ current' = s /\ ttbr0' = pgd[s]
      /\ UNCHANGED <<mem_map, table, word, pgd, kernel_pages, user_pages, nr_tasks, struct, at,
                     call, held>>
  BY Current DEF switch_to, MmInv, memory, mm
<1>1. \A t \in Task : ~Copying(t) /\ call[t].op \notin {"kthread", "fork"}
  BY <1>0 DEF TaskInv, Copying
<1>2. TaskInv'
  BY <1>0, <1>1 DEF TaskInv, CallShape, Copying
<1>3. SlotInv'
  <2>1. ~Filling(current) /\ ~Filling(s)
    BY <1>0, <1>1 DEF Filling
  <2>2. \A t \in Slot : t >= nr_tasks' => struct'[t] = 0 /\ Blank(t)'
    BY <1>0, <2>1 DEF SlotInv, Blank
  <2>3. \A t \in Task : t < nr_tasks' /\ at'[t] = "thread" => Blank(t)'
    BY <1>0 DEF SlotInv, Blank
  <2>4. \A t \in Task : call'[t].op = "load" => user_pages'[t] = <<>>
    BY <1>0 DEF SlotInv
  <2>5. \A t \in Task : Process(t)' => user_pages'[t] # <<>> \/ mem_map' = Page
    BY <1>0 DEF SlotInv, Process
  <2>6. ttbr0' = pgd'[current']
    BY <1>0
  <2> QED
    BY <2>2, <2>3, <2>4, <2>5, <2>6 DEF SlotInv
<1>4. WorkInv'
  <2>w. \A t, va : Way(t, va)' = Way(t, va)
    BY <1>0, WaysKept
  <2> SUFFICES ASSUME NEW t \in Task PROVE Working(t, at[t], call[t])'
    BY DEF WorkInv
  <2>1. PICK x, y : x = at[t] /\ y = call[t] /\ x = at'[t] /\ y = call'[t]
    BY <1>0
  <2>2. Working(t, x, y)
    BY <1>0, <2>1 DEF WorkInv
  <2>3. Target(t, y) = t /\ Target(t, y)' = t
    BY <1>1, <2>1 DEF Target
  <2>4. \A va, k : Gap(t, va, k) => Gap(t, va, k)'
    BY <2>w DEF Gap
  <2>5. Working(t, x, y)'
    BY <1>0, <2>w, <2>2, <2>3, <2>4 DEF Working
  <2> QED
    BY <2>1, <2>5 DEF Working, Target
<1>5. ForkInv'
  BY <1>0, <1>1 DEF ForkInv, Forking
<1> QED
  BY <1>2, <1>3, <1>4, <1>5

\* A step that changes nothing.
LEMMA StillStep ==
    ASSUME MmInv, UNCHANGED vars, ~wild
    PROVE  TaskInv' /\ SlotInv' /\ WorkInv' /\ ForkInv'
<1>0. /\ UNCHANGED <<mem_map, table, word, pgd, kernel_pages, user_pages, nr_tasks, current,
                     struct, ttbr0, at, call, held>>
      /\ TaskInv /\ SlotInv /\ WorkInv /\ ForkInv
  BY DEF vars, memory, mm, MmInv
<1>w. \A t, va : Way(t, va)' = Way(t, va)
  BY <1>0, WaysKept
<1>1. TaskInv'
  BY <1>0 DEF TaskInv, CallShape, Copying
<1>2. SlotInv'
  <2>1. Filling(current)' <=> Filling(current)
    BY <1>0 DEF Filling, Copying
  <2>2. \A t \in Slot : t >= nr_tasks' =>
           /\ struct'[t] = 0 \/ (t = nr_tasks' /\ Filling(current)')
           /\ Blank(t)' \/ (t = nr_tasks' /\ Filling(current)' /\ call'[current'].op = "fork")
    BY <1>0, <2>1 DEF SlotInv, Blank
  <2>3. \A t \in Task : t < nr_tasks' /\ at'[t] = "thread" => Blank(t)'
    BY <1>0 DEF SlotInv, Blank
  <2>4. \A t \in Task : call'[t].op = "load" => user_pages'[t] = <<>>
    BY <1>0 DEF SlotInv
  <2>5. \A t \in Task : Process(t)' => user_pages'[t] # <<>> \/ mem_map' = Page
    BY <1>0 DEF SlotInv, Process
  <2>6. Process(current)' => ttbr0' = pgd'[current']
    BY <1>0 DEF SlotInv, Process
  <2> QED
    BY <2>2, <2>3, <2>4, <2>5, <2>6 DEF SlotInv
<1>3. WorkInv'
  <2> SUFFICES ASSUME NEW t \in Task PROVE Working(t, at[t], call[t])'
    BY DEF WorkInv
  <2>1. PICK x, y : x = at[t] /\ y = call[t] /\ x = at'[t] /\ y = call'[t]
    BY <1>0
  <2>2. Working(t, x, y)
    BY <1>0, <2>1 DEF WorkInv
  <2>3. PICK s : s = Target(t, y) /\ s = Target(t, y)'
    BY <1>0 DEF Target
  <2>4. \A va, k : Gap(s, va, k) => Gap(s, va, k)'
    BY <1>w DEF Gap
  <2>5. \A va : Way(s, va)' = Way(s, va)
    BY <1>w
  <2>6. Working(t, x, y)'
    BY <1>0, <2>2, <2>3, <2>4, <2>5 DEF Working
  <2> QED
    BY <2>1, <2>6 DEF Working, Target
<1>4. ForkInv'
  <2>1. PICK x, y, c, n : /\ x = at[current] /\ x = at'[current'] /\ y = call[current]
                          /\ y = call'[current'] /\ c = current /\ c = current'
                          /\ n = nr_tasks /\ n = nr_tasks'
    BY <1>0
  <2>2. \A va : Way(n, va)' = Way(n, va) /\ Way(c, va)' = Way(c, va)
    BY <1>w
  <2> QED
    BY <1>0, <2>1, <2>2 DEF ForkInv, Forking
<1> QED
  BY <1>1, <1>2, <1>3, <1>4

-----------------------------------------------------------------------------
(* The invariant holds from the beginning, and every step keeps it.        *)

\* A kernel that is lost stays so.
LEMMA WildStays ==
    ASSUME [Next]_vars, wild
    PROVE  wild'
BY DEF Next, vars, kernel_main, sys_fork, copy_process, copy_virt_memory, copy_process_end,
       move_to_user_mode, do_mem_abort, store, do_mem_abort_other, do_mem_abort_none,
       do_mem_abort_load, do_mem_abort_store, do_mem_abort_end, get_free_page_find,
       get_free_page_none, get_free_page_claim, map_page_table, map_page_load, map_page_copy,
       map_page_fault, map_page_entry, switch_to, err_hang, At

LEMMA InvStep == MmInv /\ [Next]_vars => MmInv'
<1> SUFFICES ASSUME MmInv, [Next]_vars PROVE MmInv'
  OBVIOUS
<1>1. TypeOK'
  BY TypeStep
<1>2. CASE wild'
  BY <1>1, <1>2 DEF MmInv
<1>3. CASE ~wild'
  <2>1. ~wild
    BY <1>3, WildStays
  <2>2. Accounted' /\ TreeInv' /\ ListInv'
    BY <1>3, <2>1, AccountedStep, TreeStep, ListStep
  <2>3. TaskInv' /\ SlotInv' /\ WorkInv' /\ ForkInv'
    <3>1. CASE \/ kernel_main \/ sys_fork \/ copy_virt_memory \/ move_to_user_mode
               \/ \E va \in Touched : do_mem_abort(va)
               \/ do_mem_abort_other \/ do_mem_abort_none
               \/ do_mem_abort_load \/ do_mem_abort_store \/ do_mem_abort_end
               \/ get_free_page_find \/ get_free_page_none \/ map_page_table
      BY <1>3, <2>1, <3>1, CallSteps
    <3>2. CASE \E va \in Touched : store(va)
      BY <1>3, <3>2, StoreStep
    <3>3. CASE get_free_page_claim
      BY <1>3, <3>3, ClaimStep
    <3>4. CASE map_page_load \/ map_page_copy \/ map_page_fault
      BY <1>3, <3>4, MapStep
    <3>5. CASE copy_process_end
      BY <1>3, <3>5, EndStep
    <3>6. CASE \E t \in Task : switch_to(t)
      BY <1>3, <3>6, SwitchStep
    <3>7. CASE err_hang \/ UNCHANGED vars
      BY <2>1, <3>7, StillStep DEF err_hang
    <3> QED
      BY <3>1, <3>2, <3>3, <3>4, <3>5, <3>6, <3>7 DEF Next
  <2> QED
    BY <1>1, <2>2, <2>3 DEF MmInv
<1> QED
  BY <1>2, <1>3

LEMMA InvInit == Init => MmInv
<1> SUFFICES ASSUME Init PROVE MmInv
  OBVIOUS
<1>1. TypeOK
  <2>1. 1 .. FS_NPAGES \subseteq Page
    BY Sizes DEF Page
  <2>2. table \in [Page -> [Index -> Address]]
    BY Sizes DEF Init
  <2>3. call \in [Task -> Call]
    BY NoCallType DEF Init
  <2>4. /\ word \in [Page -> Word] /\ nr_tasks \in 1 .. NR_TASKS /\ current \in Task
        /\ struct \in [Slot -> Address] /\ pgd \in [Slot -> Address]
        /\ ttbr0 \in Address /\ ind \in Nat /\ held \in [Task -> BOOLEAN] /\ wild \in BOOLEAN
    <3>1. word \in [Page -> Word]
      BY Sizes DEF Init
    <3>2. nr_tasks \in 1 .. NR_TASKS /\ current \in Task
      BY Sizes DEF Init
    <3>3. struct \in [Slot -> Address] /\ pgd \in [Slot -> Address] /\ ttbr0 \in Address
      BY Sizes DEF Init
    <3>4. ind \in Nat /\ held \in [Task -> BOOLEAN] /\ wild \in BOOLEAN
      BY DEF Init
    <3> QED
      BY <3>1, <3>2, <3>3, <3>4
  <2>5. /\ kernel_pages \in [Slot -> Seq(Page)]
        /\ user_pages \in [Slot -> Seq([phys : Page, virt : Va])]
    BY DEF Init
  <2>6. at \in [Task -> {"boot", "loop", "thread", "user", "find", "claim",
                         "map", "next", "seen", "count", "check", "hung"}]
    BY DEF Init
  <2> QED
    BY <2>1, <2>2, <2>3, <2>4, <2>5, <2>6 DEF TypeOK, Init
<1>2. /\ \A t \in Slot : struct[t] = 0 /\ pgd[t] = 0 /\ kernel_pages[t] = <<>>
                         /\ user_pages[t] = <<>>
      /\ \A t \in Task : call[t] = NoCall /\ ~held[t]
      /\ \A p \in Page, i \in Index : table[p][i] = 0
      /\ nr_tasks = 1 /\ current = INIT_TASK /\ mem_map = 1 .. FS_NPAGES
      /\ \A t \in Task : at[t] = IF t = INIT_TASK THEN "boot" ELSE "thread"
  BY DEF Init
<1>n. /\ NoCall.op = "none" /\ NoCall.want = USER /\ NoCall.found = 0 /\ NoCall.page = 0
      /\ NoCall.va = 0 /\ NoCall.copied = 0
  BY DEF NoCall
<1>w. \A t \in Slot, va \in Va : \A k \in 1 .. 5 : Way(t, va)[k] = 0
  <2> SUFFICES ASSUME NEW t \in Slot, NEW va \in Va PROVE \A k \in 1 .. 5 : Way(t, va)[k] = 0
    OBVIOUS
  <2>1. Way(t, va)[1] = 0
    BY <1>2, WayIs
  <2>2. \A k \in 1 .. 5 : Way(t, va)[k] # 0 => Way(t, va)[1] # 0
    BY <1>1, WayDown
  <2> QED
    BY <2>1, <2>2
<1>3. Accounted
  <2> SUFFICES ASSUME NEW p \in Page
               PROVE  /\ p \in mem_map => Users(p) = {<<"inode", 0, 0>>}
                      /\ p \notin mem_map => Users(p) = {}
    BY DEF Accounted
  <2>1. Structs(p) = {}
    BY <1>2, Sizes DEF Structs
  <2>2. Calls(p) = {}
    BY <1>2, <1>n, Sizes DEF Calls
  <2>3. Tables(p) = {}
    BY <1>2 DEF Tables
  <2>4. UserPages(p) = {}
    BY <1>2 DEF UserPages
  <2>5. Inodes(p) = IF p \in mem_map THEN {<<"inode", 0, 0>>} ELSE {}
    BY <1>2 DEF Inodes
  <2> QED
    BY <2>1, <2>2, <2>3, <2>4, <2>5 DEF Users
<1>4. TaskInv
  <2>1. \A t \in Task : CallShape(t)
    BY <1>2, <1>n DEF CallShape, Shape
  <2>2. \A t \in Task : ~Copying(t)
    BY <1>2, <1>n DEF Copying
  <2>3. \A t \in Task : t >= nr_tasks => at[t] = "thread" /\ ~held[t]
    BY <1>2 DEF INIT_TASK
  <2>4. current < nr_tasks
    BY <1>2 DEF INIT_TASK
  <2> QED
    BY <2>1, <2>2, <2>3, <2>4 DEF TaskInv
<1>5. SlotInv
  <2>1. \A t \in Slot : Blank(t) /\ struct[t] = 0
    BY <1>2 DEF Blank
  <2>2. \A t \in Task : ~Process(t) /\ call[t].op # "load"
    BY <1>2, <1>n DEF Process
  <2> QED
    BY <2>1, <2>2, <1>2, Sizes DEF SlotInv
<1>6. TreeInv
  BY <1>2 DEF TreeInv
<1>7. ListInv
  <2>1. \A t \in Slot : Len(user_pages[t]) = 0
    BY <1>2
  <2> QED
    BY <1>w, <2>1 DEF ListInv
<1>8. WorkInv
  BY <1>2, <1>n DEF WorkInv, Working
<1>9. ForkInv
  BY <1>2, <1>n, Sizes DEF ForkInv, Forking
<1> QED
  BY <1>1, <1>3, <1>4, <1>5, <1>6, <1>7, <1>8, <1>9 DEF MmInv

LEMMA Invariance == Spec => []MmInv
<1> QED
  BY InvInit, InvStep, PTL DEF Spec

\* Every variable stays in its type.
THEOREM MmTypes == Spec => []TypeOK
<1>1. MmInv => TypeOK
  BY DEF MmInv
<1> QED
  BY <1>1, Invariance, PTL

\* However many tasks, pages and entries there are, a page that is taken has
\* one user, and a page that is free has none, until the race of
\* get_free_page or a null table (mm.c:26-37, 87-127).
THEOREM EveryPageHasOneUser == Spec => []PagesAccounted
<1>1. ASSUME MmInv PROVE PagesAccounted
  <2>1. CASE wild
    BY <2>1 DEF PagesAccounted
  <2>2. CASE ~wild
    <3> SUFFICES ASSUME NEW p \in Page
                 PROVE  Cardinality(Users(p)) = IF p \in mem_map THEN 1 ELSE 0
      BY DEF PagesAccounted
    <3>1. CASE p \in mem_map
      <4>1. PICK u \in Users(p) : \A v \in Users(p) : v = u
        BY <1>1, <2>2, <3>1 DEF MmInv, Accounted
      <4>2. Users(p) = {u}
        BY <4>1
      <4> QED
        BY <3>1, <4>2, FS_Singleton
    <3>2. CASE p \notin mem_map
      <4>1. Users(p) = {}
        BY <1>1, <2>2, <3>2 DEF MmInv, Accounted
      <4> QED
        BY <3>2, <4>1, FS_EmptySet
    <3> QED
      BY <3>1, <3>2
  <2> QED
    BY <2>1, <2>2
<1> QED
  BY <1>1, Invariance, PTL

-----------------------------------------------------------------------------
(* How far the lists go.                                                   *)

\* The faults that have loaded ind before it was counted, and have yet to
\* store a 2 there: no other ever will.
Early == {t \in Task : at[t] = "count" /\ call[t].seen = 1}
Spent == nr_tasks - 1 - Cardinality(Early)

\* The pages a task can list, by its place, the value i of ind and the number
\* s of tasks that may have stored their 2: each of those lets a task through
\* do_mem_abort once, and the fault that is refused has mapped its page.
Most(place, i, s) ==
    IF i = 1 THEN IF place \in {"seen", "count"} THEN 2 ELSE 1
    ELSE IF place \in {"seen", "count", "hung"} \/ (place = "check" /\ i > 2)
         THEN 2 + s ELSE 1 + s

\* The tables that go with n pages, and with those that lead to one more.
Rest(n) == IF n = 0 THEN 0 ELSE 3 * n + 1

Room(place, want, n) ==
    CASE place \in {"find", "claim"} /\ want \in Level -> 3 * n + want - 1
      [] place = "map" /\ want \in Level -> 3 * n + want
      [] OTHER -> Rest(n)

\* A task with n pages and k tables.
Fits(place, c, n, k, i, s) ==
    /\ n <= Most(place, i, s)
    /\ place = "count" => c.seen # 0 /\ (c.seen = 1 => n <= 2)
    /\ place = "check" => i # 1
    /\ k <= (IF c.op = "fork" THEN Rest(n) ELSE Room(place, c.want, n))

\* And the task that is being copied.
ChildFits(place, c, n, k) ==
    c.op = "fork" => n <= c.copied /\ k <= Room(place, c.want, n)

\* The table that has just been taken is on the way to the page.
Reached(t, place, c) ==
    place = "map" /\ c.want \in Level => Way(Target(t, c), c.va)[c.want] # 0

BoundInv ==
    /\ ind # 0
    /\ at[INIT_TASK] \in {"boot", "loop"} \/ call[INIT_TASK].op = "kthread"
    /\ \A t \in Task : t < nr_tasks =>
          Fits(at[t], call[t], Len(user_pages[t]), Len(kernel_pages[t]), ind, Spent)
    /\ ChildFits(at[current], call[current], Len(user_pages[nr_tasks]),
                 Len(kernel_pages[nr_tasks]))
    /\ \A t \in Task : Reached(t, at[t], call[t])

\* No more tasks have yet to store their 2 than there are processes.
LEMMA SpentIs ==
    ASSUME MmInv, ~wild, BoundInv
    PROVE  /\ IsFiniteSet(Early) /\ Cardinality(Early) \in Nat
           /\ Spent \in Nat /\ Spent <= nr_tasks - 1
<1>1. /\ nr_tasks \in Nat /\ 0 < nr_tasks /\ TaskInv
      /\ \A t \in Task : t \in Nat
  BY Current, Sizes DEF MmInv, TypeOK, Task
<1>2. Early \subseteq 1 .. nr_tasks - 1
  <2> SUFFICES ASSUME NEW t \in Early PROVE t \in 1 .. nr_tasks - 1
    OBVIOUS
  <2>1. t \in Task /\ at[t] = "count" /\ CallShape(t)
    BY <1>1 DEF Early, TaskInv
  <2>2. call[t].op = "fault"
    BY <2>1 DEF CallShape, Shape
  <2>3. t # INIT_TASK
    BY <2>1, <2>2 DEF BoundInv
  <2>4. t < nr_tasks
    BY <1>1, <2>1 DEF TaskInv
  <2> QED
    BY <1>1, <2>1, <2>3, <2>4 DEF INIT_TASK
<1>3. PICK n \in Nat : n = nr_tasks - 1
  BY <1>1
<1>4. IsFiniteSet(1 .. n) /\ Cardinality(1 .. n) = n
  BY FS_Interval, <1>3
<1>5. IsFiniteSet(Early) /\ Cardinality(Early) <= n
  BY <1>2, <1>3, <1>4, FS_Subset
<1>6. Cardinality(Early) \in Nat
  BY <1>5, FS_CardinalityType
<1> QED
  BY <1>1, <1>3, <1>5, <1>6 DEF Spent

\* What a task has still fits when ind, and the stores that count, go on.
LEMMA FitsLater ==
    ASSUME NEW place, NEW c, NEW n \in Nat, NEW k, NEW i \in Nat, NEW s \in Nat,
           NEW j \in Nat, NEW r, j # 0, Fits(place, c, n, k, i, s),
           \/ i = 1 /\ j = 1
           \/ r \in Nat /\ r >= s /\ (j = i \/ (j # 1 /\ (r >= s + 1 \/ j > 2)))
    PROVE  Fits(place, c, n, k, j, r)
<1>1. n <= Most(place, j, r)
  BY DEF Fits, Most
<1>2. place = "check" => j # 1
  BY DEF Fits
<1> QED
  BY <1>1, <1>2 DEF Fits

LEMMA EarlySteps ==
    ASSUME TypeOK, NEW place, NEW c, Step(place, c)
    PROVE  Early' = (Early \ {current})
                       \cup {t \in {current} : place = "count" /\ c.seen = 1}
<1>1. current \in Task /\ at'[current] = place /\ call'[current] = c
  BY DEF TypeOK, Step
<1>2. ASSUME NEW t \in Task, t # current
      PROVE  t \in Early' <=> t \in Early
  BY <1>2 DEF Early, Step
<1>3. current \in Early' <=> place = "count" /\ c.seen = 1
  BY <1>1 DEF Early
<1>4. Early \subseteq Task /\ Early' \subseteq Task
  BY DEF Early
<1> QED
  BY <1>2, <1>3, <1>4

\* No way loses a table.
LEMMA WaysGrow ==
    ASSUME MmInv, [Next]_vars, ~wild, ~wild',
           NEW u \in Slot, NEW wa \in Va, NEW j \in Level, Way(u, wa)[j] # 0
    PROVE  Way(u, wa)'[j] # 0
<1>1. CASE Quiet \/ \E va \in Touched : store(va)
  <2>1. UNCHANGED <<table, pgd>>
    BY <1>1 DEF Quiet, memory, mm, store
  <2> QED
    BY <2>1, WaysKept
<1>2. CASE get_free_page_claim
  <2>1. j \in 1 .. 5
    BY DEF Level
  <2> QED
    BY <1>2, <2>1, ClaimWays
<1>3. CASE map_page_load \/ map_page_copy \/ map_page_fault
  BY <1>3, EntryWays DEF map_page_load, map_page_copy, map_page_fault
<1> QED
  BY <1>1, <1>2, <1>3, Kinds

\* A step of the task that has the CPU, by what it leaves behind.
LEMMA BoundSteps ==
    ASSUME MmInv, [Next]_vars, ~wild, ~wild', BoundInv, MmInv',
           NEW place, NEW c, Step(place, c),
           \/ ind = 1 /\ ind' = 1
           \/ /\ Spent' \in Nat /\ Spent' >= Spent
              /\ ind' = ind \/ (ind' # 1 /\ (Spent' >= Spent + 1 \/ ind' > 2)),
           ind' # 0,
           \A t \in Task \ {current} : t < nr_tasks =>
              user_pages'[t] = user_pages[t] /\ kernel_pages'[t] = kernel_pages[t],
           Fits(place, c, Len(user_pages'[current]), Len(kernel_pages'[current]), ind', Spent'),
           ChildFits(place, c, Len(user_pages'[nr_tasks]), Len(kernel_pages'[nr_tasks])),
           Reached(current, place, c)',
           current = INIT_TASK => place \in {"boot", "loop"} \/ c.op = "kthread"
    PROVE  BoundInv'
<1>0. /\ current \in Task /\ current < nr_tasks /\ current' = current /\ nr_tasks' = nr_tasks
      /\ at'[current] = place /\ call'[current] = c
      /\ \A t \in Task \ {current} : at'[t] = at[t] /\ call'[t] = call[t]
      /\ TaskInv /\ INIT_TASK \in Task /\ Task \subseteq Slot
  BY Current, Sizes DEF MmInv, Step
<1>1. at'[INIT_TASK] \in {"boot", "loop"} \/ call'[INIT_TASK].op = "kthread"
  BY <1>0 DEF BoundInv
<1>2. ASSUME NEW t \in Task, t < nr_tasks'
      PROVE  Fits(at'[t], call'[t], Len(user_pages'[t]), Len(kernel_pages'[t]), ind', Spent')
  <2>1. CASE t = current
    BY <1>0, <2>1
  <2>2. CASE t # current
    <3>1. /\ at'[t] = at[t] /\ call'[t] = call[t] /\ t < nr_tasks
          /\ user_pages'[t] = user_pages[t] /\ kernel_pages'[t] = kernel_pages[t]
      BY <1>0, <1>2, <2>2
    <3>2. PICK p, y, n, k, i, s, j, r :
             /\ p = at[t] /\ y = call[t] /\ n = Len(user_pages[t]) /\ k = Len(kernel_pages[t])
             /\ i = ind /\ s = Spent /\ j = ind' /\ r = Spent'
      OBVIOUS
    <3>3. Fits(p, y, n, k, i, s)
      BY <3>1, <3>2 DEF BoundInv
    <3>4. n \in Nat /\ i \in Nat /\ s \in Nat /\ j \in Nat
      <4>1. user_pages[t] \in Seq([phys : Page, virt : Va]) /\ ind \in Nat /\ ind' \in Nat
        BY <1>0 DEF MmInv, TypeOK
      <4> QED
        BY <3>2, <4>1, SpentIs
    <3>5. Fits(p, y, n, k, j, r)
      BY <3>2, <3>3, <3>4, FitsLater
    <3> QED
      BY <3>1, <3>2, <3>5
  <2> QED
    BY <2>1, <2>2
<1>3. ASSUME NEW t \in Task PROVE Reached(t, at[t], call[t])'
  <2>1. CASE t = current
    BY <1>0, <2>1 DEF Reached, Target
  <2>2. CASE t # current
    <3>1. PICK p, y : p = at[t] /\ y = call[t] /\ p = at'[t] /\ y = call'[t]
      BY <1>0, <2>2
    <3>2. y.op # "fork" /\ y.va \in Va
      BY <1>0, <2>2, <3>1, CallType DEF TaskInv, Copying, MmInv
    <3>3. Reached(t, p, y)
      BY <3>1 DEF BoundInv
    <3>4. p = "map" /\ y.want \in Level => Way(t, y.va)'[y.want] # 0
      BY <1>0, <3>2, <3>3, WaysGrow DEF Reached, Target
    <3> QED
      BY <3>1, <3>2, <3>4 DEF Reached, Target
  <2> QED
    BY <2>1, <2>2
<1> QED
  BY <1>0, <1>1, <1>2, <1>3 DEF BoundInv

\* What the invariant says of the lists of the task that has the CPU.
LEMMA MyLists ==
    ASSUME MmInv, ~wild, BoundInv
    PROVE  /\ Fits(at[current], me, Len(user_pages[current]), Len(kernel_pages[current]), ind, Spent)
           /\ ChildFits(at[current], me, Len(user_pages[nr_tasks]), Len(kernel_pages[nr_tasks]))
           /\ Len(user_pages[current]) \in Nat /\ Len(kernel_pages[current]) \in Nat
           /\ Len(user_pages[nr_tasks]) \in Nat /\ Len(kernel_pages[nr_tasks]) \in Nat
           /\ ind \in Nat /\ ind # 0
<1>1. current \in Task /\ current < nr_tasks /\ current \in Slot /\ nr_tasks \in Slot
  BY Current
<1>2. \A t \in Slot : Len(user_pages[t]) \in Nat /\ Len(kernel_pages[t]) \in Nat
  BY DEF MmInv, TypeOK
<1> QED
  BY <1>1, <1>2 DEF BoundInv, me, MmInv, TypeOK

\* A step that maps nothing, and neither begins nor ends to count.
LEMMA QuietBound ==
    ASSUME MmInv, [Next]_vars, ~wild, ~wild', BoundInv, MmInv',
           NEW place, NEW c, Step(place, c), UNCHANGED <<mm, ind>>,
           at[current] # "count", place # "count", place # "map",
           Fits(place, c, Len(user_pages[current]), Len(kernel_pages[current]), ind, Spent),
           ChildFits(place, c, Len(user_pages[nr_tasks]), Len(kernel_pages[nr_tasks])),
           current = INIT_TASK => place \in {"boot", "loop"} \/ c.op = "kthread"
    PROVE  BoundInv'
<1>1. Early' = Early
  BY EarlySteps DEF MmInv, Early
<1>2. Spent' = Spent /\ nr_tasks' = nr_tasks
  BY <1>1 DEF Spent, Step
<1>3. Spent \in Nat /\ ind \in Nat
  BY SpentIs DEF MmInv, TypeOK
<1>4. ind' = ind /\ ind # 0 /\ user_pages' = user_pages /\ kernel_pages' = kernel_pages
  BY DEF mm, BoundInv
<1>5. Reached(current, place, c)'
  BY DEF Reached
<1> QED
  BY <1>2, <1>3, <1>4, <1>5, BoundSteps

\* The initial task is never in a page fault, nor a process.
LEMMA InitTask ==
    ASSUME MmInv, ~wild, BoundInv, current = INIT_TASK
    PROVE  /\ at[current] \in {"boot", "loop"} \/ me.op = "kthread"
           /\ at[current] \in {"boot", "loop", "find", "claim", "next"}
<1>1. Shape(at[current], me) /\ me = call[current] /\ current \in Task
  BY Mine
<1>2. at[current] \in {"boot", "loop"} \/ me.op = "kthread"
  BY <1>1 DEF BoundInv
<1>3. me.op = "kthread" => me # NoCall /\ me.want = STRUCT /\ me.op \notin Mapping /\ me.op # "fault"
  BY <1>1, NoCallIs DEF Shape, Mapping
<1>4. STRUCT # USER /\ STRUCT \notin Level
  BY DEF STRUCT, USER, Level
<1> QED
  BY <1>1, <1>2, <1>3, <1>4 DEF Shape

\* The first table that is missing is below those the call has seen to.
LEMMA NextTable ==
    ASSUME MmInv, At("map"), BoundInv, NEW k \in Absent(pgd[dst], me.va)
    PROVE  /\ k \in Level
           /\ me.want \in Level => k > me.want
           /\ me.want \in {USER} \cup Level
           /\ Len(user_pages[dst]) # 0 => k > 1
<1>1. /\ ~wild /\ at[current] = "map" /\ current \in Task /\ me = call[current]
      /\ dst \in Slot /\ dst = Target(current, me) /\ me.va \in Va /\ TypeOK
      /\ Shape(at[current], me)
  BY Mine, Current, AtMap DEF At, MmInv
<1>2. k \in Level /\ Way(dst, me.va)[k] = 0
  BY DEF Absent, Way
<1>3. me.want \in {USER} \cup Level
  BY <1>1 DEF Shape
<1>4. ASSUME me.want \in Level PROVE k > me.want
  <2>1. Way(dst, me.va)[me.want] # 0
    BY <1>1, <1>4 DEF BoundInv, Reached
  <2>2. me.want \in 1 .. 5 /\ k \in 1 .. 5
    BY <1>2, <1>4 DEF Level
  <2>3. \A j \in 1 .. me.want : Way(dst, me.va)[j] # 0
    BY <1>1, <2>1, <2>2, WayDown
  <2> QED
    BY <1>2, <2>2, <2>3
<1>5. ASSUME Len(user_pages[dst]) # 0 PROVE k > 1
  <2>1. user_pages[dst] \in Seq([phys : Page, virt : Va])
    BY <1>1 DEF TypeOK
  <2>2. 1 \in 1 .. Len(user_pages[dst])
    BY <1>5, <2>1
  <2>3. PICK va \in Va : va = user_pages[dst][1].virt /\ user_pages[dst][1].phys \in Page
    BY <1>1, <2>2, UserPageType
  <2>4. Way(dst, va)[5] # 0
    BY <1>1, <2>2, <2>3, Sizes DEF MmInv, ListInv
  <2>5. Way(dst, va)[1] # 0
    BY <1>1, <2>4, WayDown
  <2>6. Way(dst, me.va)[1] # 0
    BY <1>1, <2>5, WayIs
  <2> QED
    BY <1>2, <2>6 DEF Level
<1> QED
  BY <1>2, <1>3, <1>4, <1>5

\* The steps of a call that get no page and map none.
LEMMA CallBound ==
    ASSUME MmInv, [Next]_vars, ~wild, ~wild', BoundInv, MmInv',
           \/ kernel_main \/ sys_fork \/ copy_virt_memory \/ move_to_user_mode
           \/ \E va \in Touched : do_mem_abort(va)
           \/ do_mem_abort_other \/ do_mem_abort_none
           \/ do_mem_abort_end
           \/ get_free_page_find \/ get_free_page_none \/ map_page_table
    PROVE  BoundInv'
<1> DEFINE n == Len(user_pages[current])
           k == Len(kernel_pages[current])
           m == Len(user_pages[nr_tasks])
           l == Len(kernel_pages[nr_tasks])
<1>0. /\ TypeOK /\ current \in Task /\ current \in Slot /\ nr_tasks \in Slot
      /\ me = call[current] /\ me \in Call /\ Shape(at[current], me)
      /\ Forking(at[current], me)
      /\ Fits(at[current], me, n, k, ind, Spent) /\ ChildFits(at[current], me, m, l)
      /\ n \in Nat /\ k \in Nat /\ m \in Nat /\ l \in Nat /\ ind \in Nat /\ ind # 0
      /\ Spent \in Nat
  BY Mine, MyLists, SpentIs DEF MmInv
<1>n. at[current] \in {"boot", "loop", "thread", "user", "hung"} => me = NoCall
  BY <1>0 DEF Shape
<1>i. current = INIT_TASK => /\ at[current] \in {"boot", "loop"} \/ me.op = "kthread"
                             /\ at[current] \in {"boot", "loop", "find", "claim", "next"}
  BY InitTask
<1>s. ASSUME NEW place, NEW c, Goto(place), Set(c),
             UNCHANGED <<nr_tasks, current, held>>
      PROVE  Step(place, c)
  BY <1>0, <1>s, Steps
<1>q. ASSUME NEW place, NEW c, Step(place, c), UNCHANGED <<mm, ind>>,
             at[current] # "count", place # "count", place # "map",
             Fits(place, c, n, k, ind, Spent), ChildFits(place, c, m, l),
             current = INIT_TASK => place \in {"boot", "loop"} \/ c.op = "kthread"
      PROVE  BoundInv'
  BY <1>q, QuietBound
<1>k. NoCall.op = "none" /\ NoCall.want = USER
  BY NoCallIs
<1> HIDE DEF n, k, m, l
<1>1. ASSUME NEW op \in {"kthread", "fork"}, copy_process(op),
             at[current] = (IF op = "fork" THEN "user" ELSE "boot")
      PROVE  BoundInv'
  <2>1. PICK c : c = [NoCall EXCEPT !.op = op, !.want = STRUCT]
    OBVIOUS
  <2>2. c.op = op /\ c.want = STRUCT /\ c.copied = 0
    BY <2>1 DEF NoCall
  <2>3. Step("find", c)
    <3>1. Goto("find") /\ Set(c) /\ UNCHANGED <<nr_tasks, current>>
      BY <1>1, <2>1 DEF copy_process
    <3>2. \A t \in Task \ {current} : held'[t] = held[t]
      BY <1>0, <1>1 DEF copy_process, TypeOK
    <3> QED
      BY <1>0, <3>1, <3>2, Steps
  <2>4. op = "fork" => m = 0 /\ l = 0
    <3>1. ASSUME op = "fork" PROVE Blank(nr_tasks)
      <4>1. ~Filling(current)
        BY <1>0, <1>1, <1>n, <1>k, <3>1 DEF Filling, Copying
      <4> QED
        BY <1>0, <4>1, Current DEF MmInv, SlotInv
    <3> QED
      BY <3>1 DEF Blank, m, l
  <2>5. Fits("find", c, n, k, ind, Spent) /\ ChildFits("find", c, m, l)
    BY <1>0, <1>1, <1>n, <1>k, <2>2, <2>4
    DEF Fits, ChildFits, Most, Room, Rest, STRUCT, USER, Level
  <2>6. UNCHANGED <<mm, ind>>
    BY <1>1 DEF copy_process
  <2>7. current = INIT_TASK => c.op = "kthread"
    BY <1>1, <1>i, <2>2
  <2> QED
    BY <1>1, <1>q, <2>3, <2>5, <2>6, <2>7
<1>2. ASSUME kernel_main \/ sys_fork PROVE BoundInv'
  BY <1>1, <1>2 DEF kernel_main, sys_fork, At
<1>3. ASSUME copy_virt_memory PROVE BoundInv'
  <2>1. PICK c : c = [me EXCEPT !.want = USER,
                                !.va = user_pages[current][me.copied + 1].virt]
    OBVIOUS
  <2>2. /\ at[current] = "next" /\ me.op = "fork" /\ Step("find", c)
        /\ UNCHANGED <<mm, ind>>
    BY <1>3, <1>s, <2>1 DEF copy_virt_memory, At
  <2>3. c.op = me.op /\ c.want = USER /\ c.copied = me.copied
    BY <1>0, <2>1 DEF Call
  <2>4. Fits("find", c, n, k, ind, Spent) /\ ChildFits("find", c, m, l)
    BY <1>0, <2>2, <2>3 DEF Fits, ChildFits, Most, Room, Rest, USER, Level
  <2> QED
    BY <1>i, <1>q, <2>2, <2>3, <2>4
<1>4. ASSUME move_to_user_mode PROVE BoundInv'
  <2>1. PICK c : c = [NoCall EXCEPT !.op = "load"]
    OBVIOUS
  <2>2. at[current] = "thread" /\ Step("find", c) /\ UNCHANGED <<mm, ind>>
    BY <1>4, <1>s, <2>1 DEF move_to_user_mode, At
  <2>3. c.op = "load" /\ c.want = USER
    BY <2>1 DEF NoCall
  <2>4. Fits("find", c, n, k, ind, Spent) /\ ChildFits("find", c, m, l)
    BY <1>0, <1>n, <1>k, <2>2, <2>3 DEF Fits, ChildFits, Most, Room, Rest, USER, Level
  <2> QED
    BY <1>i, <1>q, <2>2, <2>4
<1>5. ASSUME NEW va \in Touched, do_mem_abort(va) PROVE BoundInv'
  <2>1. PICK c : c = [NoCall EXCEPT !.op = "fault", !.va = va]
    OBVIOUS
  <2>2. at[current] = "user" /\ Step("find", c) /\ UNCHANGED <<mm, ind>>
    BY <1>5, <1>s, <2>1 DEF do_mem_abort, At
  <2>3. c.op = "fault" /\ c.want = USER
    BY <2>1 DEF NoCall
  <2>4. Fits("find", c, n, k, ind, Spent) /\ ChildFits("find", c, m, l)
    BY <1>0, <1>n, <1>k, <2>2, <2>3 DEF Fits, ChildFits, Most, Room, Rest, USER, Level
  <2> QED
    BY <1>i, <1>q, <2>2, <2>4
\* A call that ends.
<1>r. ASSUME NEW place \in {"user", "hung"}, Return(place),
             UNCHANGED <<mm, ind, nr_tasks, current, held>>,
             at[current] \in {"user", "find", "check"},
             at[current] = "check" => (place = "hung" <=> ind > 2),
             at[current] \in {"user", "check"} \/ me.want \notin Level,
             me.op # "kthread"
      PROVE  BoundInv'
  <2>1. Step(place, NoCall)
    BY <1>r, <1>s DEF Return
  <2>2. Fits(place, NoCall, n, k, ind, Spent) /\ ChildFits(place, NoCall, m, l)
    BY <1>0, <1>n, <1>k, <1>r, <2>1 DEF Fits, ChildFits, Most, Room, Rest, USER, Level
  <2>3. current # INIT_TASK
    BY <1>i, <1>r
  <2> QED
    BY <1>q, <1>r, <2>1, <2>2, <2>3
<1>6. ASSUME do_mem_abort_other PROVE BoundInv'
  BY <1>6, <1>n, <1>k, <1>r DEF do_mem_abort_other, At
<1>7. ASSUME do_mem_abort_none PROVE BoundInv'
  BY <1>7, <1>r DEF do_mem_abort_none, At, USER, Level
<1>8. ASSUME do_mem_abort_end PROVE BoundInv'
  <2>1. at[current] = "check" /\ me.op = "fault"
    BY <1>0, <1>8 DEF do_mem_abort_end, At, Shape
  <2>2. UNCHANGED <<mm, ind, nr_tasks, current, held>>
    BY <1>8 DEF do_mem_abort_end
  <2>3. CASE ind > 2
    BY <1>8, <1>r, <2>1, <2>2, <2>3 DEF do_mem_abort_end
  <2>4. CASE ~(ind > 2)
    BY <1>8, <1>r, <2>1, <2>2, <2>4 DEF do_mem_abort_end
  <2> QED
    BY <2>3, <2>4
<1>9. ASSUME get_free_page_find PROVE BoundInv'
  <2>1. PICK p : Set([me EXCEPT !.found = p])
    BY <1>9 DEF get_free_page_find
  <2>2. PICK c : c = [me EXCEPT !.found = p]
    OBVIOUS
  <2>3. at[current] = "find" /\ Step("claim", c) /\ UNCHANGED <<mm, ind>>
    BY <1>9, <1>s, <2>1, <2>2 DEF get_free_page_find, At
  <2>4. c.op = me.op /\ c.want = me.want /\ c.copied = me.copied
    BY <1>0, <2>2 DEF Call
  <2>5. Fits("claim", c, n, k, ind, Spent) /\ ChildFits("claim", c, m, l)
    BY <1>0, <2>3, <2>4 DEF Fits, ChildFits, Most, Room, Rest
  <2> QED
    BY <1>i, <1>q, <2>3, <2>4, <2>5
<1>10. ASSUME get_free_page_none PROVE BoundInv'
  <2>0. at[current] = "find" /\ UNCHANGED <<mm, ind, nr_tasks, current, held>>
    BY <1>10 DEF get_free_page_none, At
  <2>1. CASE me.want = STRUCT /\ me.op = "fork" /\ Return("user")
    BY <1>r, <2>0, <2>1 DEF STRUCT, Level
  <2>2. CASE /\ me.want = USER /\ me.op = "fork" /\ Goto("next")
             /\ Set([me EXCEPT !.copied = Len(user_pages[current])])
    <3>1. PICK c : c = [me EXCEPT !.copied = Len(user_pages[current])]
      OBVIOUS
    <3>2. c.op = me.op /\ c.want = me.want /\ c.copied = n
      BY <1>0, <3>1 DEF Call, n
    <3>3. Step("next", c)
      BY <1>s, <2>0, <2>2, <3>1
    <3>4. me.copied <= n /\ me.copied \in Nat
      BY <1>0, <2>2 DEF Forking, Call, n
    <3>5. Fits("next", c, n, k, ind, Spent) /\ ChildFits("next", c, m, l)
      BY <1>0, <2>0, <2>2, <3>2, <3>4 DEF Fits, ChildFits, Most, Room, Rest, USER, Level
    <3> QED
      BY <1>i, <1>q, <2>0, <2>2, <3>2, <3>3, <3>5
  <2> QED
    BY <1>10, <2>1, <2>2 DEF get_free_page_none, GoWild
<1>11. ASSUME map_page_table PROVE BoundInv'
  <2>0. At("map") /\ at[current] = "map" /\ UNCHANGED <<mm, ind, nr_tasks, current, held>>
    BY <1>11 DEF map_page_table, At
  <2>1. PICK j \in Absent(pgd[dst], me.va) : Set([me EXCEPT !.want = j])
    BY <1>11 DEF map_page_table
  <2>2. PICK c : c = [me EXCEPT !.want = j]
    OBVIOUS
  <2>3. c.op = me.op /\ c.want = j /\ c.copied = me.copied
    BY <1>0, <2>2 DEF Call
  <2>4. Step("find", c)
    BY <1>11, <1>s, <2>0, <2>1, <2>2 DEF map_page_table
  <2>5. /\ j \in Level /\ me.want \in {USER} \cup Level
        /\ me.want \in Level => j > me.want
        /\ Len(user_pages[dst]) # 0 => j > 1
    BY <2>0, NextTable
  <2>6. (dst = nr_tasks /\ me.op = "fork") \/ (dst = current /\ me.op # "fork")
    BY DEF dst
  <2>a. ASSUME NEW x \in Nat, x # 0 => j > 1
        PROVE  Room("map", me.want, x) <= Room("find", j, x) /\ Room("find", j, x) \in Nat
    BY <2>5, <2>a DEF Room, Rest, USER, Level
  <2>b. ASSUME NEW x \in Nat PROVE Room("map", me.want, x) \in Nat
    BY <2>5, <2>b DEF Room, Rest, USER, Level
  <2>7. Fits("find", c, n, k, ind, Spent)
    <3>1. me.op # "fork" => (n # 0 => j > 1)
      BY <2>5, <2>6 DEF n
    <3>2. k <= (IF me.op = "fork" THEN Rest(n) ELSE Room("map", me.want, n))
      BY <1>0, <2>0 DEF Fits
    <3>3. k <= (IF c.op = "fork" THEN Rest(n) ELSE Room("find", c.want, n))
      BY <1>0, <2>3, <2>a, <2>b, <3>1, <3>2
    <3>4. n <= Most("find", ind, Spent)
      BY <1>0, <2>0 DEF Fits, Most
    <3> QED
      BY <3>3, <3>4 DEF Fits
  <2>8. ChildFits("find", c, m, l)
    <3>1. me.op = "fork" => (m # 0 => j > 1)
      BY <2>5, <2>6 DEF m
    <3>2. me.op = "fork" => m <= me.copied /\ l <= Room("map", me.want, m)
      BY <1>0, <2>0 DEF ChildFits
    <3> QED
      BY <1>0, <2>3, <2>a, <2>b, <3>1, <3>2 DEF ChildFits
  <2> QED
    BY <1>i, <1>q, <2>0, <2>3, <2>4, <2>7, <2>8
<1> QED
  BY <1>2, <1>3, <1>4, <1>5, <1>6, <1>7, <1>8, <1>9, <1>10, <1>11

\* A step that maps a page, or takes one for a table.
LEMMA PlainBound ==
    ASSUME MmInv, [Next]_vars, ~wild, ~wild', BoundInv, MmInv',
           NEW place, NEW c, Step(place, c), ind' = ind,
           at[current] # "count", place # "count",
           \A t \in Task \ {current} : t < nr_tasks =>
              user_pages'[t] = user_pages[t] /\ kernel_pages'[t] = kernel_pages[t],
           Fits(place, c, Len(user_pages'[current]), Len(kernel_pages'[current]), ind, Spent),
           ChildFits(place, c, Len(user_pages'[nr_tasks]), Len(kernel_pages'[nr_tasks])),
           Reached(current, place, c)',
           current = INIT_TASK => place \in {"boot", "loop"} \/ c.op = "kthread"
    PROVE  BoundInv'
<1>1. Early' = Early
  BY EarlySteps DEF MmInv, Early
<1>2. Spent' = Spent /\ nr_tasks' = nr_tasks
  BY <1>1 DEF Spent, Step
<1>3. Spent \in Nat /\ ind # 0
  BY SpentIs DEF BoundInv
<1> QED
  BY <1>2, <1>3, BoundSteps

\* The count of the faults.
LEMMA LoadBound ==
    ASSUME MmInv, [Next]_vars, ~wild, ~wild', BoundInv, MmInv', do_mem_abort_load
    PROVE  BoundInv'
<1> DEFINE n == Len(user_pages[current])
           k == Len(kernel_pages[current])
           m == Len(user_pages[nr_tasks])
           l == Len(kernel_pages[nr_tasks])
<1>0. /\ TypeOK /\ current \in Task /\ me = call[current] /\ me \in Call
      /\ at[current] = "seen" /\ me.op = "fault"
      /\ Fits("seen", me, n, k, ind, Spent)
      /\ n \in Nat /\ k \in Nat /\ ind \in Nat /\ ind # 0 /\ Spent \in Nat
      /\ UNCHANGED <<mm, nr_tasks, current, held, ind>>
  BY Mine, MyLists, SpentIs DEF MmInv, do_mem_abort_load, At, Shape
<1>1. PICK c : c = [me EXCEPT !.seen = ind]
  OBVIOUS
<1>2. c.op = "fault" /\ c.seen = ind /\ c.want = me.want
  BY <1>0, <1>1 DEF Call
<1>3. Step("count", c)
  BY <1>0, <1>1, Steps DEF do_mem_abort_load
<1>4. user_pages' = user_pages /\ kernel_pages' = kernel_pages /\ ind' = ind
  BY <1>0 DEF mm
<1>5. current # INIT_TASK
  BY <1>0, InitTask
<1>6. ChildFits("count", c, m, l) /\ Reached(current, "count", c)'
  BY <1>2 DEF ChildFits, Reached
<1> HIDE DEF n, k, m, l
<1>7. ASSUME NEW s, ind # 1 => s = Spent PROVE Fits("count", c, n, k, ind, s)
  BY <1>0, <1>2, <1>7 DEF Fits, Most, Room
<1>8. ind # 1 => Spent' = Spent
  <2>1. ind # 1 => Early' = Early
    BY <1>0, <1>2, <1>3, EarlySteps DEF Early
  <2> QED
    BY <1>0, <2>1 DEF Spent
<1>9. Fits("count", c, n, k, ind', Spent')
  BY <1>4, <1>7, <1>8
<1> QED
  BY <1>0, <1>3, <1>4, <1>5, <1>6, <1>8, <1>9, BoundSteps DEF n, k, m, l

LEMMA CountBound ==
    ASSUME MmInv, [Next]_vars, ~wild, ~wild', BoundInv, MmInv', do_mem_abort_store
    PROVE  BoundInv'
<1> DEFINE n == Len(user_pages[current])
           k == Len(kernel_pages[current])
           m == Len(user_pages[nr_tasks])
           l == Len(kernel_pages[nr_tasks])
<1>0. /\ TypeOK /\ current \in Task /\ me = call[current] /\ me \in Call
      /\ at[current] = "count" /\ me.op = "fault"
      /\ Fits("count", me, n, k, ind, Spent)
      /\ n \in Nat /\ k \in Nat /\ ind \in Nat /\ ind # 0 /\ Spent \in Nat
      /\ UNCHANGED <<mm, nr_tasks, current, held, call>>
      /\ ind' = me.seen + 1
  BY Mine, MyLists, SpentIs DEF MmInv, do_mem_abort_store, At, Shape
<1>1. PICK c : c = me
  OBVIOUS
<1>2. c.seen \in Nat /\ c.seen # 0 /\ c.op = "fault" /\ c.want = me.want
  BY <1>0, <1>1 DEF Call, Fits
<1>3. Step("check", c)
  BY <1>0, <1>1 DEF do_mem_abort_store, Goto, Step, TypeOK
<1>4. user_pages' = user_pages /\ kernel_pages' = kernel_pages
  BY <1>0 DEF mm
<1>5. current # INIT_TASK
  BY <1>0, InitTask
<1>6. ChildFits("check", c, m, l) /\ Reached(current, "check", c)'
  BY <1>2 DEF ChildFits, Reached
<1>7. Early' = Early \ {current}
  BY <1>0, <1>3, EarlySteps
<1>8. IF c.seen = 1 THEN ind' = 2 /\ Spent' = Spent + 1 ELSE ind' > 2 /\ Spent' = Spent
  <2>1. CASE c.seen = 1
    <3>1. current \in Early
      BY <1>0, <1>1, <2>1 DEF Early
    <3>2. Cardinality(Early') = Cardinality(Early) - 1
      BY <1>7, <3>1, SpentIs, FS_RemoveElement
    <3>3. nr_tasks \in Nat /\ Cardinality(Early) \in Nat
      BY SpentIs, Current
    <3> QED
      BY <1>0, <1>1, <2>1, <3>2, <3>3 DEF Spent
  <2>2. CASE c.seen # 1
    <3>1. Early' = Early
      BY <1>0, <1>1, <1>7, <2>2 DEF Early
    <3> QED
      BY <1>0, <1>1, <1>2, <2>2, <3>1 DEF Spent
  <2> QED
    BY <2>1, <2>2
<1> HIDE DEF n, k, m, l
<1>9. Fits("check", c, n, k, ind', Spent')
  <2>1. PICK j, r : j = ind' /\ r = Spent'
    OBVIOUS
  <2>2. Fits("check", c, n, k, j, r)
    BY <1>0, <1>1, <1>2, <1>8, <2>1 DEF Fits, Most, Room
  <2> QED
    BY <2>1, <2>2
<1>10. /\ ind' # 0 /\ Spent' \in Nat /\ Spent' >= Spent
       /\ ind' # 1 /\ (Spent' >= Spent + 1 \/ ind' > 2)
  BY <1>0, <1>8
<1> QED
  BY <1>0, <1>3, <1>4, <1>5, <1>6, <1>9, <1>10, BoundSteps DEF n, k, m, l

\* The new table is on the way.
LEMMA TableReached ==
    ASSUME MmInv, get_free_page_claim, ~wild', take_table(me.found),
           NEW d \in Slot, NEW va \in Va, d = dst, va = me.va
    PROVE  Way(d, va)'[me.want] # 0
<1>1. /\ At("claim") /\ ~wild /\ TypeOK /\ TreeInv
      /\ dst \in Slot /\ me.va \in Va
  BY Current, Claiming DEF get_free_page_claim, At, MmInv
<1>2. PICK k \in Level : k = me.want
  BY DEF take_table
<1>3. Gap(dst, me.va, k)
  BY <1>1, <1>2, Claiming
<1>4. /\ me.found \in Page /\ ~InTables(me.found) /\ me.found # 0
      /\ ClearedTable(me.found) = table
  BY <1>1, Fresh, Sizes
<1>5. CASE k = 1
  <2>1. pgd'[d] = me.found
    BY <1>1, <1>2, <1>5 DEF take_table, TypeOK
  <2>2. Way(d, va)'[1] = pgd'[d]
    BY DEF Way, Walk
  <2> QED
    BY <1>2, <1>4, <1>5, <2>1, <2>2
<1>6. CASE k # 1
  <2>1. PICK l \in Level : k = l + 1 /\ l = me.want - 1
    BY <1>2, <1>6 DEF Level
  <2>2. Leads(dst, me.va, l, me.found)
    BY <1>2, <1>4, <1>6, <2>1 DEF take_table, Leads, Way
  <2>3. Way(dst, me.va)[l] # 0 /\ Way(dst, me.va)[l + 1] = 0
    BY <1>3, <1>6, <2>1 DEF Gap, Level
  <2>4. InTables(Way(dst, me.va)[l])
    BY <1>1, <2>3, WayListed DEF MmInv
  <2>5. PICK v \in Page : v = me.found
    BY <1>4
  <2>6. Leads(d, va, l, v) /\ Way(d, va)[l] # 0 /\ Way(d, va)[l + 1] = 0
        /\ InTables(Way(d, va)[l]) /\ ~InTables(v)
    BY <1>4, <2>2, <2>3, <2>4, <2>5
  <2>7. Way(d, va)'[l + 1] = v
    BY <1>1, <2>6, EntryReached
  <2> QED
    BY <1>2, <1>4, <2>1, <2>5, <2>7
<1> QED
  BY <1>5, <1>6

\* The calls, when a page is taken or mapped.
LEMMA ClaimBound ==
    ASSUME MmInv, [Next]_vars, ~wild, ~wild', BoundInv, MmInv', get_free_page_claim
    PROVE  BoundInv'
<1> DEFINE n == Len(user_pages[current])
           k == Len(kernel_pages[current])
           m == Len(user_pages[nr_tasks])
           l == Len(kernel_pages[nr_tasks])
<1>0. /\ TypeOK /\ current \in Task /\ current \in Slot /\ nr_tasks \in Slot
      /\ current < nr_tasks /\ nr_tasks \in Nat
      /\ me = call[current] /\ me \in Call /\ at[current] = "claim"
      /\ Fits("claim", me, n, k, ind, Spent) /\ ChildFits("claim", me, m, l)
      /\ n \in Nat /\ k \in Nat /\ m \in Nat /\ l \in Nat /\ ind \in Nat /\ Spent \in Nat
      /\ UNCHANGED <<nr_tasks, current, held, ind>>
      /\ dst = Target(current, me) /\ dst \in Slot
  BY Mine, MyLists, SpentIs, Current DEF MmInv, get_free_page_claim, At
<1>i. current = INIT_TASK => me.op = "kthread"
  BY <1>0, InitTask
<1>1. CASE take_struct(me.found)
  <2>1. PICK c : c = [me EXCEPT !.found = 0]
    OBVIOUS
  <2>2. c.op = me.op /\ c.want = me.want /\ c.copied = me.copied /\ me.want = STRUCT
    BY <1>0, <1>1, <2>1 DEF Call, take_struct
  <2>3. Step("next", c) /\ UNCHANGED <<mm, ind>>
    BY <1>0, <1>1, <2>1, Steps DEF take_struct
  <2> HIDE DEF n, k, m, l
  <2>4. Fits("next", c, n, k, ind, Spent) /\ ChildFits("next", c, m, l)
    BY <1>0, <2>2 DEF Fits, ChildFits, Most, Room, STRUCT, Level
  <2> QED
    BY <1>0, <1>i, <2>2, <2>3, <2>4, QuietBound DEF n, k, m, l
<1>2. CASE take_user(me.found)
  <2>1. PICK c : c = [me EXCEPT !.found = 0, !.page = me.found]
    OBVIOUS
  <2>2. c.op = me.op /\ c.want = me.want /\ c.copied = me.copied /\ me.want = USER
    BY <1>0, <1>2, <2>1 DEF Call, take_user
  <2>3. Step("map", c) /\ UNCHANGED mm
    BY <1>0, <1>2, <2>1, Steps DEF take_user
  <2>4. user_pages' = user_pages /\ kernel_pages' = kernel_pages
    BY <2>3 DEF mm
  <2> HIDE DEF n, k, m, l
  <2>5. Fits("map", c, n, k, ind, Spent) /\ ChildFits("map", c, m, l)
    BY <1>0, <2>2 DEF Fits, ChildFits, Most, Room, USER, Level
  <2>6. Reached(current, "map", c)'
    BY <2>2 DEF Reached, USER, Level
  <2> QED
    BY <1>0, <1>i, <2>2, <2>3, <2>4, <2>5, <2>6, PlainBound DEF n, k, m, l
<1>3. CASE take_table(me.found)
  <2>0. me.found \in Page /\ me.op \in Mapping /\ me.va \in Va
    BY <1>0, <1>3, Claiming DEF get_free_page_claim, take_table
  <2>1. PICK c : c = [me EXCEPT !.found = 0]
    OBVIOUS
  <2>2. /\ c.op = me.op /\ c.want = me.want /\ c.copied = me.copied /\ c.va = me.va
        /\ me.want \in Level
    BY <1>0, <1>3, <2>1 DEF Call, take_table
  <2>3. Step("map", c) /\ user_pages' = user_pages
    BY <1>0, <1>3, <2>1, Steps DEF take_table
  <2>4. PICK d \in Slot, p \in Page : d = dst /\ p = me.found
    BY <1>0, <2>0
  <2>5. /\ \A t \in Slot : t # d => kernel_pages'[t] = kernel_pages[t]
        /\ kernel_pages'[d] = Append(kernel_pages[d], p)
    BY <1>0, <1>3, <2>4 DEF take_table, TypeOK
  <2>6. Len(kernel_pages'[d]) = Len(kernel_pages[d]) + 1
    <3>1. kernel_pages[d] \in Seq(Page)
      BY <1>0 DEF TypeOK
    <3> QED
      BY <2>5, <3>1
  <2>7. d = (IF me.op = "fork" THEN nr_tasks ELSE current)
    BY <1>0, <2>4 DEF Target
  <2>8. \A t \in Task \ {current} : t < nr_tasks => kernel_pages'[t] = kernel_pages[t]
    BY <2>5, <2>7, Sizes DEF Task
  <2>9. PICK a, b : a = Len(kernel_pages'[current]) /\ b = Len(kernel_pages'[nr_tasks])
    OBVIOUS
  <2>10. /\ a = (IF me.op = "fork" THEN k ELSE k + 1)
         /\ me.op = "fork" => b = l + 1
    <3>1. CASE me.op = "fork"
      <4>1. d = nr_tasks /\ current # d
        BY <1>0, <2>7, <3>1
      <4>2. kernel_pages'[current] = kernel_pages[current]
        BY <1>0, <2>5, <4>1
      <4> QED
        BY <2>6, <2>9, <3>1, <4>1, <4>2
    <3>2. CASE me.op # "fork"
      <4>1. d = current
        BY <2>7, <3>2
      <4> QED
        BY <2>6, <2>9, <3>2, <4>1
    <3> QED
      BY <3>1, <3>2
  <2> HIDE DEF n, k, m, l
  <2>11. Fits("map", c, n, a, ind, Spent) /\ ChildFits("map", c, m, b)
    BY <1>0, <2>2, <2>10 DEF Fits, ChildFits, Most, Room, Level
  <2>12. Reached(current, "map", c)'
    <3>1. PICK va \in Va : va = me.va
      BY <2>0
    <3>2. Way(d, va)'[me.want] # 0
      BY <1>3, <2>4, <3>1, TableReached
    <3>3. Target(current, c)' = d
      BY <1>0, <2>2, <2>7 DEF Target
    <3> QED
      BY <2>2, <3>1, <3>2, <3>3 DEF Reached
  <2>13. current # INIT_TASK
    BY <1>i, <2>0 DEF Mapping
  <2> QED
    BY <1>0, <2>3, <2>8, <2>9, <2>11, <2>12, <2>13, PlainBound DEF n, k, m, l
<1> QED
  BY <1>1, <1>2, <1>3 DEF get_free_page_claim

LEMMA EntryBound ==
    ASSUME MmInv, [Next]_vars, ~wild, ~wild', BoundInv, MmInv',
           map_page_load \/ map_page_copy \/ map_page_fault
    PROVE  BoundInv'
<1> DEFINE n == Len(user_pages[current])
           k == Len(kernel_pages[current])
           m == Len(user_pages[nr_tasks])
           l == Len(kernel_pages[nr_tasks])
<1>0. /\ TypeOK /\ current \in Task /\ current \in Slot /\ nr_tasks \in Slot
      /\ current < nr_tasks /\ nr_tasks \in Nat
      /\ me = call[current] /\ me \in Call /\ at[current] = "map" /\ At("map")
      /\ Fits("map", me, n, k, ind, Spent) /\ ChildFits("map", me, m, l)
      /\ n \in Nat /\ k \in Nat /\ m \in Nat /\ l \in Nat
      /\ ind \in Nat /\ ind # 0 /\ Spent \in Nat
      /\ UNCHANGED <<nr_tasks, current, held, ind, kernel_pages>>
      /\ dst = Target(current, me) /\ dst \in Slot
      /\ me.want \in {USER} \cup Level
      /\ me.page \in Page /\ me.va \in Va
      /\ user_pages' = [user_pages EXCEPT ![dst] = Append(@, [phys |-> me.page, virt |-> me.va])]
  BY Mine, MyLists, SpentIs, Current, AtMap
  DEF MmInv, map_page_load, map_page_copy, map_page_fault, map_page_entry, At, Shape
<1>i. current # INIT_TASK
  BY <1>0, InitTask
<1>1. PICK d \in Slot : d = dst
  BY <1>0
<1>2. /\ \A t \in Slot : t # d => user_pages'[t] = user_pages[t]
      /\ Len(user_pages'[d]) = Len(user_pages[d]) + 1
  <2>1. PICK e : e = [phys |-> me.page, virt |-> me.va]
    OBVIOUS
  <2>2. e \in [phys : Page, virt : Va]
    BY <1>0, <2>1
  <2>3. user_pages' = [user_pages EXCEPT ![d] = Append(@, e)]
    BY <1>0, <1>1, <2>1
  <2>4. PICK S : S = [phys : Page, virt : Va]
    OBVIOUS
  <2>5. user_pages \in [Slot -> Seq(S)] /\ e \in S
    BY <1>0, <2>2, <2>4 DEF TypeOK
  <2> QED
    BY <1>1, <2>3, <2>5
<1>3. d = (IF me.op = "fork" THEN nr_tasks ELSE current)
  BY <1>0, <1>1 DEF Target
<1>4. \A t \in Task \ {current} : t < nr_tasks =>
         user_pages'[t] = user_pages[t] /\ kernel_pages'[t] = kernel_pages[t]
  BY <1>0, <1>2, <1>3, Sizes DEF Task
<1>r. ASSUME NEW w \in {USER} \cup Level, NEW x \in Nat, NEW y \in Nat,
             y <= Room("map", w, x)
      PROVE  y <= Rest(x + 1)
  <2>1. Room("map", w, x) <= 3 * x + 4 /\ Room("map", w, x) \in Nat
    BY DEF Room, Rest, USER, Level
  <2>2. Rest(x + 1) = 3 * x + 4
    BY DEF Rest
  <2> QED
    BY <1>r, <2>1, <2>2
<1>5. CASE map_page_load
  <2>1. me.op = "load" /\ Step("user", NoCall)
    BY <1>0, <1>5, Steps DEF map_page_load, map_page_entry, Return
  <2>2. user_pages[current] = <<>>
    BY <1>0, <2>1 DEF MmInv, SlotInv
  <2>3. n = 0 /\ Len(user_pages'[current]) = 1
    <3>1. d = current
      BY <1>3, <2>1
    <3>2. Len(user_pages[current]) = 0
      BY <2>2
    <3> QED
      BY <1>2, <3>1, <3>2
  <2>4. k <= Rest(1)
    <3>1. k <= Room("map", me.want, 0)
      BY <1>0, <2>1, <2>3 DEF Fits
    <3>2. k <= Rest(0 + 1)
      BY <1>0, <1>r, <3>1
    <3> QED
      BY <3>2
  <2> HIDE DEF n, k, m, l
  <2>5. Fits("user", NoCall, 1, k, ind, Spent)
    BY <1>0, <2>4, NoCallIs DEF Fits, Most, Room, USER, Level
  <2>6. \A x, y : ChildFits("user", NoCall, x, y)
    BY NoCallIs DEF ChildFits
  <2>7. Reached(current, "user", NoCall)'
    BY DEF Reached
  <2> QED
    BY <1>0, <1>i, <1>4, <2>1, <2>3, <2>5, <2>6, <2>7, PlainBound DEF n, k, m, l
<1>6. CASE map_page_copy
  <2>1. PICK c : c = [me EXCEPT !.copied = @ + 1, !.page = 0]
    OBVIOUS
  <2>2. me.op = "fork" /\ Step("next", c)
    BY <1>0, <1>6, <2>1, Steps DEF map_page_copy, map_page_entry
  <2>3. c.op = me.op /\ c.copied = me.copied + 1 /\ c.want = me.want /\ me.copied \in Nat
    BY <1>0, <2>1 DEF Call
  <2>4. /\ user_pages'[current] = user_pages[current]
        /\ Len(user_pages'[nr_tasks]) = m + 1
    BY <1>0, <1>2, <1>3, <2>2
  <2> HIDE DEF n, k, m, l
  <2>5. Fits("next", c, n, k, ind, Spent)
    BY <1>0, <2>2, <2>3 DEF Fits, Most
  <2>6. ChildFits("next", c, m + 1, l)
    <3>1. l <= Rest(m + 1) /\ m <= me.copied
      BY <1>0, <1>r, <2>2 DEF ChildFits
    <3> QED
      BY <1>0, <2>3, <3>1 DEF ChildFits, Room
  <2>7. Reached(current, "next", c)'
    BY DEF Reached
  <2> QED
    BY <1>0, <1>i, <1>4, <2>2, <2>4, <2>5, <2>6, <2>7, PlainBound DEF n, k, m, l
<1>7. CASE map_page_fault
  <2>1. PICK c : c = [me EXCEPT !.page = 0]
    OBVIOUS
  <2>2. me.op = "fault" /\ Step("seen", c)
    BY <1>0, <1>7, <2>1, Steps DEF map_page_fault, map_page_entry
  <2>3. c.op = me.op /\ c.want = me.want
    BY <1>0, <2>1 DEF Call
  <2>4. Len(user_pages'[current]) = n + 1
    BY <1>2, <1>3, <2>2
  <2> HIDE DEF n, k, m, l
  <2>5. k <= Rest(n + 1)
    BY <1>0, <1>r, <2>2 DEF Fits
  <2>6. Fits("seen", c, n + 1, k, ind, Spent)
    BY <1>0, <2>2, <2>3, <2>5 DEF Fits, Most, Room
  <2>7. \A x, y : ChildFits("seen", c, x, y)
    BY <2>2, <2>3 DEF ChildFits
  <2>8. Reached(current, "seen", c)'
    BY DEF Reached
  <2> QED
    BY <1>0, <1>i, <1>4, <2>2, <2>4, <2>6, <2>7, <2>8, PlainBound DEF n, k, m, l
<1> QED
  BY <1>5, <1>6, <1>7

\* The child begins with what it has got, and one task more may count.
LEMMA EndBound ==
    ASSUME MmInv, [Next]_vars, ~wild, ~wild', BoundInv, MmInv', copy_process_end
    PROVE  BoundInv'
<1> DEFINE n == Len(user_pages[current])
           k == Len(kernel_pages[current])
           m == Len(user_pages[nr_tasks])
           l == Len(kernel_pages[nr_tasks])
<1>0. /\ nr_tasks < NR_TASKS /\ nr_tasks' = nr_tasks + 1 /\ nr_tasks \in Task
      /\ user_pages' = user_pages /\ kernel_pages' = kernel_pages /\ current' = current
      /\ me.op \in {"kthread", "fork"} /\ me.copied \in Nat
      /\ at[current] = "next" /\ current \in Task /\ current # nr_tasks
      /\ call'[current] = NoCall
      /\ at'[current] = (IF me.op = "fork" THEN "user" ELSE "loop")
      /\ at'[nr_tasks] = (IF me.op = "fork" THEN "user" ELSE "thread")
      /\ \A t \in Task \ {current} : call'[t] = call[t]
      /\ \A t \in Task \ {current, nr_tasks} : at'[t] = at[t]
  BY EndEffects DEF mm
<1>1. /\ me = call[current] /\ Forking("next", me) /\ TaskInv /\ SlotInv
      /\ Fits("next", me, n, k, ind, Spent) /\ ChildFits("next", me, m, l)
      /\ n \in Nat /\ k \in Nat /\ m \in Nat /\ l \in Nat
      /\ ind \in Nat /\ ind # 0 /\ Spent \in Nat
      /\ nr_tasks \in Nat /\ nr_tasks \in Slot /\ \A t \in Task : t \in Nat
      /\ ind' = ind
  BY <1>0, Mine, MyLists, SpentIs, Current, Sizes DEF MmInv, copy_process_end, Task
<1>2. at[nr_tasks] = "thread" /\ call[nr_tasks] = NoCall
  BY <1>0, <1>1 DEF TaskInv, CallShape, Shape
<1>3. Early' = Early
  BY <1>0, <1>2 DEF Early
<1>4. Spent' = Spent + 1
  <2>1. Cardinality(Early) \in Nat
    BY SpentIs
  <2> QED
    BY <1>0, <1>1, <1>3, <2>1 DEF Spent
<1>5. me.op = "kthread" => m = 0 /\ l = 0
  <2>1. me.op = "kthread" => Blank(nr_tasks)
    BY <1>1 DEF SlotInv
  <2> QED
    BY <2>1 DEF Blank
<1>6. INIT_TASK = current => me.op = "kthread"
  BY <1>0, InitTask
<1>7. at'[INIT_TASK] \in {"boot", "loop"} \/ call'[INIT_TASK].op = "kthread"
  <2>1. INIT_TASK \in Task /\ INIT_TASK # nr_tasks
    BY <1>0, <1>1, Current, Sizes DEF INIT_TASK, Task
  <2> QED
    BY <1>0, <1>1, <1>6, <2>1 DEF BoundInv
<1> HIDE DEF n, k, m, l
<1>8. ASSUME NEW t \in Task, t < nr_tasks'
      PROVE  Fits(at'[t], call'[t], Len(user_pages'[t]), Len(kernel_pages'[t]), ind', Spent')
  <2>1. CASE t = current
    <3>1. me.op = "fork" => Fits("user", NoCall, n, k, ind, Spent + 1)
      BY <1>1, NoCallIs DEF Fits, Most, Room, Rest, USER, Level
    <3>2. me.op = "kthread" => Fits("loop", NoCall, n, k, ind, Spent + 1)
      <4>1. me.op = "kthread" => me.want = STRUCT
        BY <1>0, <1>1 DEF TaskInv, CallShape, Shape
      <4> QED
        BY <1>1, <4>1, NoCallIs DEF Fits, Most, Room, Rest, USER, Level
    <3> QED
      BY <1>0, <1>1, <1>4, <2>1, <3>1, <3>2 DEF n, k
  <2>2. CASE t = nr_tasks
    <3>1. me.op = "fork" => Fits("user", NoCall, m, l, ind, Spent + 1)
      <4>1. me.op = "fork" => m <= me.copied /\ me.copied <= n /\ l <= Rest(m)
        BY <1>1 DEF ChildFits, Forking, Room, n
      <4> QED
        BY <1>0, <1>1, <4>1, NoCallIs DEF Fits, Most, Room, USER, Level
    <3>2. me.op = "kthread" => Fits("thread", NoCall, m, l, ind, Spent + 1)
      BY <1>1, <1>5, NoCallIs DEF Fits, Most, Room, Rest, USER, Level
    <3> QED
      BY <1>0, <1>1, <1>2, <1>4, <2>2, <3>1, <3>2 DEF m, l
  <2>3. CASE t # current /\ t # nr_tasks
    <3>1. at'[t] = at[t] /\ call'[t] = call[t] /\ t < nr_tasks
      <4>1. t \in Nat /\ nr_tasks \in Nat /\ t < nr_tasks + 1
        BY <1>0, <1>1, <1>8
      <4>2. t < nr_tasks
        BY <2>3, <4>1
      <4> QED
        BY <1>0, <2>3, <4>2
    <3>2. PICK p, y, a, b : /\ p = at[t] /\ y = call[t]
                            /\ a = Len(user_pages[t]) /\ b = Len(kernel_pages[t])
      OBVIOUS
    <3>3. Fits(p, y, a, b, ind, Spent)
      BY <3>1, <3>2 DEF BoundInv
    <3>4. a \in Nat
      <4>1. user_pages[t] \in Seq([phys : Page, virt : Va])
        BY Sizes DEF MmInv, TypeOK
      <4> QED
        BY <3>2, <4>1
    <3>5. Fits(p, y, a, b, ind, Spent + 1)
      BY <1>1, <3>3, <3>4, FitsLater
    <3> QED
      BY <1>0, <1>1, <1>4, <3>1, <3>2, <3>5
  <2> QED
    BY <2>1, <2>2, <2>3
<1>9. ChildFits(at'[current], call'[current], Len(user_pages'[nr_tasks']),
                Len(kernel_pages'[nr_tasks']))
  BY <1>0, NoCallIs DEF ChildFits
<1>10. ASSUME NEW t \in Task PROVE Reached(t, at[t], call[t])'
  <2>1. CASE t = current \/ t = nr_tasks
    BY <1>0, <2>1 DEF Reached
  <2>2. CASE t # current /\ t # nr_tasks
    <3>1. PICK p, y : p = at[t] /\ y = call[t] /\ p = at'[t] /\ y = call'[t]
      BY <1>0, <2>2
    <3>2. y.op # "fork" /\ y.va \in Va
      BY <1>1, <2>2, <3>1, CallType DEF TaskInv, Copying, MmInv
    <3>3. Reached(t, p, y)
      BY <3>1 DEF BoundInv
    <3>4. p = "map" /\ y.want \in Level => Way(t, y.va)'[y.want] # 0
      BY <3>2, <3>3, WaysGrow, Sizes DEF Reached, Target
    <3> QED
      BY <3>1, <3>2, <3>4 DEF Reached, Target
  <2> QED
    BY <2>1, <2>2
<1> QED
  BY <1>0, <1>1, <1>7, <1>8, <1>9, <1>10 DEF BoundInv

\* A switch comes when no task is being copied.
LEMMA SwitchBound ==
    ASSUME MmInv, ~wild, BoundInv, NEW s \in Task, switch_to(s)
    PROVE  BoundInv'
<1>0. /\ TaskInv /\ ~held[current] /\ current' = s
      /\ UNCHANGED <<table, pgd, kernel_pages, user_pages, nr_tasks, ind, at, call>>
  BY DEF switch_to, MmInv, memory, mm
<1>1. \A t \in Task : call[t].op # "fork"
  BY <1>0 DEF TaskInv, Copying
<1>2. Spent' = Spent
  BY <1>0 DEF Spent, Early
<1>3. ChildFits(at[s], call[s], Len(user_pages[nr_tasks]), Len(kernel_pages[nr_tasks]))
  BY <1>1 DEF ChildFits
<1>4. ASSUME NEW t \in Task PROVE Reached(t, at[t], call[t])'
  <2>1. PICK p, y : p = at[t] /\ y = call[t] /\ p = at'[t] /\ y = call'[t]
    BY <1>0
  <2>2. Reached(t, p, y) /\ y.op # "fork"
    BY <1>1, <2>1 DEF BoundInv
  <2>3. Way(t, y.va)' = Way(t, y.va)
    BY <1>0, WaysKept
  <2> QED
    BY <2>1, <2>2, <2>3 DEF Reached, Target
<1> QED
  BY <1>0, <1>2, <1>3, <1>4 DEF BoundInv

LEMMA StillBound ==
    ASSUME BoundInv, UNCHANGED <<table, pgd, kernel_pages, user_pages, nr_tasks, current, ind,
                                 at, call>>
    PROVE  BoundInv'
<1>1. Spent' = Spent
  BY DEF Spent, Early
<1>2. ASSUME NEW t \in Task PROVE Reached(t, at[t], call[t])'
  <2>1. PICK p, y : p = at[t] /\ y = call[t] /\ p = at'[t] /\ y = call'[t]
    OBVIOUS
  <2>2. PICK u : u = Target(t, y) /\ u = Target(t, y)'
    BY DEF Target
  <2>3. Way(u, y.va)' = Way(u, y.va)
    BY WaysKept
  <2>4. Reached(t, p, y)
    BY <2>1 DEF BoundInv
  <2> QED
    BY <2>1, <2>2, <2>3, <2>4 DEF Reached
<1> QED
  BY <1>1, <1>2 DEF BoundInv

LEMMA BoundStep ==
    ASSUME MmInv, [Next]_vars, ~wild, ~wild', BoundInv
    PROVE  BoundInv'
<1>1. MmInv'
  BY InvStep
<1>2. CASE \/ kernel_main \/ sys_fork \/ copy_virt_memory \/ move_to_user_mode
           \/ \E va \in Touched : do_mem_abort(va)
           \/ do_mem_abort_other \/ do_mem_abort_none \/ do_mem_abort_end
           \/ get_free_page_find \/ get_free_page_none \/ map_page_table
  BY <1>1, <1>2, CallBound
<1>3. CASE do_mem_abort_load
  BY <1>1, <1>3, LoadBound
<1>4. CASE do_mem_abort_store
  BY <1>1, <1>4, CountBound
<1>5. CASE get_free_page_claim
  BY <1>1, <1>5, ClaimBound
<1>6. CASE map_page_load \/ map_page_copy \/ map_page_fault
  BY <1>1, <1>6, EntryBound
<1>7. CASE copy_process_end
  BY <1>1, <1>7, EndBound
<1>8. CASE \E s \in Task : switch_to(s)
  BY <1>8, SwitchBound
<1>9. CASE err_hang \/ (\E va \in Touched : store(va)) \/ UNCHANGED vars
  <2>1. UNCHANGED <<table, pgd, kernel_pages, user_pages, nr_tasks, current, ind, at, call>>
    BY <1>9 DEF err_hang, store, vars, memory, mm
  <2> QED
    BY <2>1, StillBound
<1> QED
  BY <1>2, <1>3, <1>4, <1>5, <1>6, <1>7, <1>8, <1>9 DEF Next

LEMMA BoundInit == Init => BoundInv
<1> SUFFICES ASSUME Init PROVE BoundInv
  OBVIOUS
<1>1. /\ \A t \in Slot : kernel_pages[t] = <<>> /\ user_pages[t] = <<>>
      /\ \A t \in Task : call[t] = NoCall
      /\ nr_tasks = 1 /\ current = INIT_TASK /\ ind = 1
      /\ \A t \in Task : at[t] = IF t = INIT_TASK THEN "boot" ELSE "thread"
  BY DEF Init
<1>2. INIT_TASK \in Task /\ Task \subseteq Slot
  BY Sizes DEF Init
<1>3. ASSUME NEW t \in Task
      PROVE  Fits(at[t], call[t], Len(user_pages[t]), Len(kernel_pages[t]), ind, Spent)
  <2>1. Len(user_pages[t]) = 0 /\ Len(kernel_pages[t]) = 0 /\ call[t] = NoCall
    BY <1>1, <1>2
  <2>2. at[t] \in {"boot", "thread"}
    BY <1>1
  <2>3. \A s : Fits(at[t], NoCall, 0, 0, 1, s)
    BY <2>2, NoCallIs DEF Fits, Most, Room, Rest, USER, Level
  <2> QED
    BY <1>1, <2>1, <2>3
<1>4. \A n, k : ChildFits(at[current], call[current], n, k)
  BY <1>1, <1>2, NoCallIs DEF ChildFits
<1>5. \A t \in Task : Reached(t, at[t], call[t])
  BY <1>1 DEF Reached
<1> QED
  BY <1>1, <1>2, <1>3, <1>4, <1>5 DEF BoundInv

\* While no call is in the middle of a page, a list has room for one page
\* more, and for its tables.
LEMMA BoundsHold ==
    ASSUME MmInv, ~wild, BoundInv
    PROVE  /\ ListsBounded
           /\ At("claim") /\ me.want \in Level => Len(kernel_pages[dst]) < 3 * nr_tasks + 4
<1>0. /\ TypeOK /\ current \in Task /\ nr_tasks \in Nat /\ current < nr_tasks
      /\ nr_tasks \in Slot /\ me = call[current] /\ Forking(at[current], me)
      /\ dst = Target(current, me) /\ SlotInv
      /\ Spent \in Nat /\ Spent <= nr_tasks - 1 /\ nr_tasks > 0
  <2>1. /\ current \in Task /\ nr_tasks \in Nat /\ current < nr_tasks /\ current \in Nat
        /\ nr_tasks \in Slot /\ dst = Target(current, me)
    BY Current
  <2>2. me = call[current] /\ Forking(at[current], me)
    BY Mine
  <2>3. TypeOK /\ SlotInv
    BY DEF MmInv
  <2>4. Spent \in Nat /\ Spent <= nr_tasks - 1
    BY SpentIs
  <2> QED
    BY <2>1, <2>2, <2>3, <2>4
<1>1. \A t \in Slot : Len(user_pages[t]) \in Nat /\ Len(kernel_pages[t]) \in Nat
  BY <1>0 DEF TypeOK
<1>2. ASSUME NEW n \in Nat, NEW k \in Nat, NEW place, NEW c, Fits(place, c, n, k, ind, Spent)
      PROVE  /\ n <= nr_tasks + 1
             /\ place \in {"find", "claim", "map", "next"} => n <= nr_tasks
  BY <1>0, <1>2 DEF Fits, Most
<1>3. ASSUME NEW n \in Nat, NEW k \in Nat, NEW place, NEW want, k <= Room(place, want, n),
             n <= nr_tasks + 1, place \in {"find", "claim", "map"} => n <= nr_tasks
      PROVE  /\ k <= 3 * nr_tasks + 4
             /\ place = "claim" /\ want \in Level => k < 3 * nr_tasks + 4
  <2>1. CASE place \in {"find", "claim"} /\ want \in Level
    BY <1>0, <1>3, <2>1 DEF Room, Level
  <2>2. CASE place = "map" /\ want \in Level
    BY <1>0, <1>3, <2>2 DEF Room, Level
  <2>3. CASE ~(place \in {"find", "claim", "map"} /\ want \in Level)
    <3>1. k <= Rest(n)
      BY <1>3, <2>3 DEF Room
    <3> QED
      BY <1>0, <1>3, <2>3, <3>1 DEF Rest
  <2> QED
    BY <2>1, <2>2, <2>3
<1>4. ASSUME NEW n \in Nat, NEW k \in Nat, k <= Rest(n), n <= nr_tasks + 1
      PROVE  k <= 3 * nr_tasks + 4
  BY <1>0, <1>4 DEF Rest
<1>5. ASSUME NEW t \in Task, t < nr_tasks
      PROVE  /\ Len(user_pages[t]) <= nr_tasks + 1
             /\ Len(kernel_pages[t]) <= 3 * nr_tasks + 4
             /\ at[t] \in {"find", "claim", "map", "next"} => Len(user_pages[t]) <= nr_tasks
             /\ at[t] = "claim" /\ call[t].want \in Level /\ call[t].op # "fork" =>
                   Len(kernel_pages[t]) < 3 * nr_tasks + 4
  <2>1. PICK n, k, p, c :
           /\ n \in Nat /\ k \in Nat
           /\ n = Len(user_pages[t]) /\ k = Len(kernel_pages[t]) /\ p = at[t] /\ c = call[t]
    BY <1>1, Sizes
  <2>n. n \in Nat /\ k \in Nat
    BY <2>1
  <2>2. Fits(p, c, n, k, ind, Spent)
    BY <1>5, <2>1 DEF BoundInv
  <2>3. n <= nr_tasks + 1 /\ (p \in {"find", "claim", "map", "next"} => n <= nr_tasks)
    BY <1>2, <2>2, <2>n
  <2>4. k <= (IF c.op = "fork" THEN Rest(n) ELSE Room(p, c.want, n))
    BY <2>2 DEF Fits
  <2>5. /\ k <= 3 * nr_tasks + 4
        /\ p = "claim" /\ c.want \in Level /\ c.op # "fork" => k < 3 * nr_tasks + 4
    BY <1>3, <1>4, <2>3, <2>4, <2>n
  <2> QED
    BY <2>1, <2>3, <2>5
<1>6. ASSUME NEW t \in Slot, t >= nr_tasks
      PROVE  /\ Len(user_pages[t]) <= nr_tasks
             /\ Len(kernel_pages[t]) <= 3 * nr_tasks + 4
             /\ /\ t = nr_tasks /\ me.op = "fork" /\ at[current] = "claim" /\ me.want \in Level
                => Len(kernel_pages[t]) < 3 * nr_tasks + 4
  <2>1. CASE me.op # "fork" \/ t # nr_tasks
    <3>1. Blank(t)
      BY <1>0, <1>6, <2>1 DEF SlotInv
    <3>2. Len(user_pages[t]) = 0 /\ Len(kernel_pages[t]) = 0
      BY <3>1 DEF Blank
    <3> QED
      BY <1>0, <2>1, <3>2
  <2>2. CASE me.op = "fork" /\ t = nr_tasks
    <3>1. PICK n, k, p, w :
             /\ n \in Nat /\ k \in Nat
             /\ n = Len(user_pages[t]) /\ k = Len(kernel_pages[t])
             /\ p = at[current] /\ w = me.want
      BY <1>1
    <3>n. n \in Nat /\ k \in Nat
      BY <3>1
    <3>2. n <= me.copied /\ k <= Room(p, w, n)
      BY <1>0, <2>2, <3>1 DEF BoundInv, ChildFits
    <3>3. me.copied <= Len(user_pages[current]) /\ me.copied \in Nat
      BY <1>0, <2>2, CallType DEF Forking
    <3>4. at[current] \in {"find", "claim", "map", "next"}
      BY <2>2, Mine, NoCallIs DEF Shape
    <3>5. Len(user_pages[current]) <= nr_tasks /\ Len(user_pages[current]) \in Nat
      BY <1>0, <1>1, <1>5, <3>4, Sizes
    <3>6. n <= nr_tasks
      BY <1>0, <3>2, <3>3, <3>5, <3>n
    <3>7. /\ k <= 3 * nr_tasks + 4
          /\ p = "claim" /\ w \in Level => k < 3 * nr_tasks + 4
      BY <1>0, <1>3, <3>2, <3>6, <3>n
    <3> QED
      BY <3>1, <3>6, <3>7
  <2> QED
    BY <2>1, <2>2
<1>7. ListsBounded
  <2> SUFFICES ASSUME NEW t \in Slot
               PROVE  /\ Len(user_pages[t]) <= nr_tasks + 1
                      /\ Len(kernel_pages[t]) <= 3 * nr_tasks + 4
    BY DEF ListsBounded
  <2>1. CASE t >= nr_tasks
    BY <1>0, <1>1, <1>6, <2>1
  <2>2. CASE ~(t >= nr_tasks)
    <3>1. t \in Task /\ t < nr_tasks
      <4>1. t \in Nat /\ nr_tasks <= NR_TASKS /\ NR_TASKS \in Nat
        BY Current, Sizes DEF Slot, MmInv, TypeOK
      <4> QED
        BY <1>0, <2>2, <4>1 DEF Task
    <3> QED
      BY <1>5, <3>1
  <2> QED
    BY <2>1, <2>2
<1>8. ASSUME At("claim"), me.want \in Level
      PROVE  Len(kernel_pages[dst]) < 3 * nr_tasks + 4
  <2>1. at[current] = "claim"
    BY <1>8 DEF At
  <2>2. CASE me.op = "fork"
    BY <1>0, <1>6, <1>8, <2>1, <2>2 DEF Target
  <2>3. CASE me.op # "fork"
    BY <1>0, <1>5, <1>8, <2>1, <2>3 DEF Target
  <2> QED
    BY <2>2, <2>3
<1> QED
  BY <1>7, <1>8

\* A step that ends in a kernel that is lost maps no page, and lists no more
\* than one table, which has room.
LEMMA WildBound ==
    ASSUME MmInv, [Next]_vars, ~wild, wild', BoundInv
    PROVE  ListsBounded'
<1>1. ListsBounded /\ TypeOK /\ dst \in Slot
  BY BoundsHold, Current DEF MmInv
<1>2. get_free_page_none \/ copy_process_end \/ get_free_page_claim
  BY DEF Next, vars, kernel_main, sys_fork, copy_process, copy_virt_memory,
         move_to_user_mode, do_mem_abort, store, do_mem_abort_other, do_mem_abort_none,
         do_mem_abort_load, do_mem_abort_store, do_mem_abort_end, get_free_page_find,
         map_page_table, map_page_load, map_page_copy,
         map_page_fault, map_page_entry, switch_to, err_hang, At
<1>3. CASE get_free_page_none \/ copy_process_end
  <2>1. user_pages' = user_pages /\ kernel_pages' = kernel_pages
    BY <1>3 DEF get_free_page_none, copy_process_end, mm
  <2>2. nr_tasks' = nr_tasks
    BY <1>3 DEF get_free_page_none, copy_process_end
  <2> QED
    BY <1>1, <2>1, <2>2 DEF ListsBounded
<1>4. CASE get_free_page_claim
  <2>1. nr_tasks' = nr_tasks /\ At("claim")
    BY <1>4 DEF get_free_page_claim
  <2>2. CASE take_struct(me.found) \/ take_user(me.found)
    <3>1. user_pages' = user_pages /\ kernel_pages' = kernel_pages
      BY <2>2 DEF take_struct, take_user, mm
    <3> QED
      BY <1>1, <2>1, <3>1 DEF ListsBounded
  <2>3. CASE take_table(me.found)
    <3>1. me.want \in Level /\ user_pages' = user_pages
      BY <2>3 DEF take_table
    <3>2. me.found \in Page
      BY <2>1, Claiming
    <3>3. PICK d \in Slot, p \in Page : d = dst /\ p = me.found
      BY <1>1, <3>2
    <3>4. kernel_pages' = [kernel_pages EXCEPT ![d] = Append(kernel_pages[d], p)]
      BY <2>3, <3>3 DEF take_table
    <3>5. kernel_pages[d] \in Seq(Page) /\ kernel_pages \in [Slot -> Seq(Page)]
      BY <1>1 DEF TypeOK
    <3>6. Len(kernel_pages'[d]) = Len(kernel_pages[d]) + 1 /\ Len(kernel_pages[d]) \in Nat
      BY <3>4, <3>5
    <3>7. \A t \in Slot : t # d => kernel_pages'[t] = kernel_pages[t]
      BY <3>4, <3>5
    <3>8. Len(kernel_pages[d]) < 3 * nr_tasks + 4
      BY <2>1, <3>1, <3>3, BoundsHold
    <3>9. Len(kernel_pages'[d]) <= 3 * nr_tasks + 4
      BY <3>6, <3>8, Current
    <3> QED
      BY <1>1, <2>1, <3>1, <3>7, <3>9 DEF ListsBounded
  <2> QED
    BY <1>4, <2>2, <2>3 DEF get_free_page_claim
<1> QED
  BY <1>2, <1>3, <1>4

\* However often an update of ind is lost, a task of nr_tasks lists no more
\* than nr_tasks + 1 pages, and 3 * nr_tasks + 4 tables (mm.c:87-114, 128-146).
THEOREM FaultsAreLimited == Spec => []ListsBounded
<1> DEFINE Inv == (wild => ListsBounded) /\ (~wild => BoundInv)
<1>1. Init => Inv
  BY BoundInit DEF Init
<1>2. MmInv /\ Inv /\ [Next]_vars => Inv'
  <2> SUFFICES ASSUME MmInv, Inv, [Next]_vars PROVE Inv'
    OBVIOUS
  <2>1. CASE wild
    <3>1. UNCHANGED vars
      BY <2>1 DEF Next, vars, kernel_main, sys_fork, copy_process, copy_virt_memory,
         copy_process_end, move_to_user_mode, do_mem_abort, store, do_mem_abort_other,
         do_mem_abort_none, do_mem_abort_load, do_mem_abort_store, do_mem_abort_end,
         get_free_page_find, get_free_page_none, get_free_page_claim, map_page_table,
         map_page_load, map_page_copy, map_page_fault, map_page_entry, switch_to, err_hang, At
    <3>2. ListsBounded' /\ wild'
      BY <2>1, <3>1 DEF vars, mm, ListsBounded
    <3> QED
      BY <3>2
  <2>2. CASE ~wild /\ wild'
    BY <2>2, WildBound
  <2>3. CASE ~wild /\ ~wild'
    BY <2>3, BoundStep
  <2> QED
    BY <2>1, <2>2, <2>3
<1>3. MmInv /\ Inv => ListsBounded
  BY BoundsHold
<1> QED
  BY <1>1, <1>2, <1>3, Invariance, PTL DEF Spec

-----------------------------------------------------------------------------
(* The address spaces.                                                     *)

\* What a task finds at a virtual page, and the memory of AddressSpaces.
Found(t, va) == IF t < nr_tasks /\ Way(t, va)[5] # 0 THEN word[Way(t, va)[5]] ELSE -1

Memory == [t \in Task |-> [va \in Touched |->
              IF t < nr_tasks /\ Translate(pgd[t], va) # 0
              THEN word[Translate(pgd[t], va)]
              ELSE -1]]

LEMMA MemoryIs ==
    /\ Memory  = [t \in Task |-> [va \in Touched |-> Found(t, va)]]
    /\ Memory' = [t \in Task |-> [va \in Touched |-> Found(t, va)']]
BY DEF Memory, Found, Way, Translate

LEMMA MemorySame ==
    ASSUME \A t \in Task, va \in Touched : Found(t, va)' = Found(t, va)
    PROVE  Memory' = Memory
BY MemoryIs

\* A page of a task changes, if it is one that is looked at.
LEMMA MemoryChanged ==
    ASSUME NEW c \in Task, NEW a, NEW x,
           \A t \in Task, va \in Touched :
              Found(t, va)' = IF t = c /\ va = a THEN x ELSE Found(t, va)
    PROVE  /\ Memory' = [Memory EXCEPT ![c][a] = x]
           /\ a \notin Touched => Memory' = Memory
<1> DEFINE old(t) == [va \in Touched |-> Found(t, va)]
           new(t) == [va \in Touched |-> Found(t, va)']
<1>1. \A t \in Task : t # c => new(t) = old(t)
  OBVIOUS
<1>2. new(c) = [old(c) EXCEPT ![a] = x]
  OBVIOUS
<1>3. a \notin Touched => new(c) = old(c)
  OBVIOUS
<1>4. Memory = [t \in Task |-> old(t)] /\ Memory' = [t \in Task |-> new(t)]
  BY MemoryIs
<1> HIDE DEF old, new
<1>5. Memory' = [Memory EXCEPT ![c][a] = x]
  BY <1>1, <1>2, <1>4
<1>6. a \notin Touched => Memory' = Memory
  BY <1>1, <1>3, <1>4
<1> QED
  BY <1>5, <1>6

\* All pages of a task change.
LEMMA MemoryFilled ==
    ASSUME NEW c \in Task, NEW f,
           \A t \in Task, va \in Touched :
              Found(t, va)' = IF t = c THEN f[va] ELSE Found(t, va)
    PROVE  Memory' = [Memory EXCEPT ![c] = [va \in Touched |-> f[va]]]
<1> DEFINE old(t) == [va \in Touched |-> Found(t, va)]
           new(t) == [va \in Touched |-> Found(t, va)']
<1>1. \A t \in Task : t # c => new(t) = old(t)
  OBVIOUS
<1>2. new(c) = [va \in Touched |-> f[va]]
  OBVIOUS
<1>4. Memory = [t \in Task |-> old(t)] /\ Memory' = [t \in Task |-> new(t)]
  BY MemoryIs
<1> HIDE DEF old, new
<1> QED
  BY <1>1, <1>2, <1>4

\* The pages a task has mapped.
LEMMA MappedIs ==
    ASSUME MmInv, ~wild, NEW t \in Task
    PROVE  {va \in Touched : Memory[t][va] # -1}
             = {va \in Touched : t < nr_tasks /\ Way(t, va)[5] # 0}
<1>1. ASSUME NEW va \in Touched, Way(t, va)[5] # 0 PROVE word[Way(t, va)[5]] # -1
  <2>1. Way(t, va)[5] \in Page
    BY <1>1, Sizes, WayListed DEF MmInv
  <2>2. word[Way(t, va)[5]] \in Word
    BY <2>1 DEF MmInv, TypeOK
  <2> QED
    BY <2>2 DEF Word, ZERO, PROGRAM, WRITTEN
<1>2. \A va \in Touched : Memory[t][va] = Found(t, va)
  BY MemoryIs
<1> QED
  BY <1>1, <1>2 DEF Found

\* The pages two tasks have mapped differ.
LEMMA OwnPages ==
    ASSUME MmInv, ~wild, NEW t \in Slot, NEW va \in Va, NEW u \in Slot, NEW wa \in Va,
           Way(t, va)[5] # 0, Way(t, va)[5] = Way(u, wa)[5]
    PROVE  t = u /\ va = wa
BY SamePage DEF MmInv

\* Most steps change no memory, and none frees a page.
LEMMA FullStays ==
    ASSUME MmInv, [Next]_vars, ~wild, ~wild', mem_map = Page
    PROVE  mem_map' = Page
<1>1. TypeOK'
  BY TypeStep
<1>2. CASE Quiet
  BY <1>2 DEF Quiet, memory
<1>3. CASE get_free_page_claim
  <2>1. mem_map' = mem_map \cup {me.found} /\ mem_map' \subseteq Page
    BY <1>1, <1>3 DEF get_free_page_claim, TypeOK
  <2> QED
    BY <2>1
<1>4. CASE map_page_load \/ map_page_copy \/ map_page_fault
  BY <1>4 DEF map_page_load, map_page_copy, map_page_fault, map_page_entry
<1>5. CASE \E va \in Touched : store(va)
  BY <1>5 DEF store
<1> QED
  BY <1>2, <1>3, <1>4, <1>5, Kinds

LEMMA TasksStay ==
    ASSUME [Next]_vars, ~wild'
    PROVE  copy_process_end \/ nr_tasks' = nr_tasks
BY DEF Next, vars, kernel_main, sys_fork, copy_process, copy_virt_memory,
       move_to_user_mode, do_mem_abort, store, do_mem_abort_other, do_mem_abort_none,
       do_mem_abort_load, do_mem_abort_store, do_mem_abort_end, get_free_page_find,
       get_free_page_none, get_free_page_claim, map_page_table, map_page_load, map_page_copy,
       map_page_fault, map_page_entry, switch_to, err_hang, At

LEMMA QuietSpaces ==
    ASSUME Quiet, nr_tasks' = nr_tasks
    PROVE  Memory' = Memory
BY DEF Quiet, Memory, Translate, Walk, Entry, memory, mm

\* A page that get_free_page clears is in no address space.
LEMMA ClaimSpaces ==
    ASSUME MmInv, get_free_page_claim, ~wild'
    PROVE  Memory' = Memory
<1>0. ~wild /\ TypeOK /\ nr_tasks' = nr_tasks
  BY DEF get_free_page_claim, At, MmInv
<1>1. /\ me.found \in Page /\ word' = [word EXCEPT ![me.found] = ZERO]
      /\ \A t \in Slot, va \in Va : Way(t, va)[5] # me.found
  BY Fresh
<1>2. ASSUME NEW t \in Task, NEW va \in Touched PROVE Found(t, va)' = Found(t, va)
  <2>1. t \in Slot /\ va \in Va
    BY Sizes
  <2>2. Way(t, va)'[5] = Way(t, va)[5]
    BY <2>1, ClaimWays
  <2>3. PICK p : p = Way(t, va)[5]
    OBVIOUS
  <2>4. p # me.found
    BY <1>1, <2>1, <2>3
  <2>5. p # 0 => word'[p] = word[p]
    <3>1. p # 0 => p \in Page
      BY <1>0, <2>1, <2>3, WayListed DEF MmInv
    <3> QED
      BY <1>0, <1>1, <2>4, <3>1 DEF TypeOK
  <2> QED
    BY <1>0, <2>2, <2>3, <2>5 DEF Found
<1> QED
  BY <1>2, MemorySame

\* A page mapped appears at its virtual page, and nothing else does.
LEMMA MappedSpaces ==
    ASSUME MmInv, NEW op, map_page_entry(op), NEW x, x = word'[me.page],
           \A q \in Page \ {me.page} : word'[q] = word[q],
           NEW t \in Task, NEW va \in Touched
    PROVE  Found(t, va)' = IF dst < nr_tasks /\ t = dst /\ va = me.va THEN x ELSE Found(t, va)
<1>0. /\ ~wild /\ TypeOK /\ TreeInv /\ ListInv /\ nr_tasks' = nr_tasks
      /\ t \in Slot /\ va \in Va /\ At("map")
  BY Sizes DEF map_page_entry, At, MmInv
<1>1. /\ me.page \in Page /\ ~InUser(me.page) /\ me.page # 0
  BY <1>0, AtMap, Current, OneUserEach, Sizes DEF MmInv, me
<1>2. Way(t, va)'[5] = (IF t = dst /\ va = me.va THEN me.page ELSE Way(t, va)[5])
  BY <1>0, EntryWays
<1>3. PICK p : p = Way(t, va)[5]
  OBVIOUS
<1>4. p # 0 => p \in Page /\ p # me.page
  BY <1>0, <1>1, <1>3, WayListed
<1>5. CASE t = dst /\ va = me.va
  <2>1. Way(t, va)[5] = 0
    BY <1>0, <1>5, AtMap
  <2>2. Way(t, va)'[5] = me.page
    BY <1>2, <1>5
  <2> QED
    BY <1>0, <1>1, <1>5, <2>1, <2>2 DEF Found
<1>6. CASE ~(t = dst /\ va = me.va)
  <2>1. Way(t, va)'[5] = p
    BY <1>2, <1>3, <1>6
  <2>2. Found(t, va)' = Found(t, va)
    BY <1>0, <1>3, <1>4, <2>1 DEF Found
  <2> QED
    BY <1>6, <2>2
<1> QED
  BY <1>5, <1>6

LEMMA LoadSpaces ==
    ASSUME MmInv, map_page_load, ~wild'
    PROVE  Spaces!Load(current)
<1>0. /\ map_page_entry("load") /\ me.op = "load" /\ At("map") /\ ~wild /\ TypeOK /\ ListInv
      /\ current \in Task /\ current < nr_tasks /\ dst = current /\ me = call[current]
      /\ word' = [word EXCEPT ![me.page] = PROGRAM] /\ me.page \in Page
  BY Current, AtMap DEF map_page_load, map_page_entry, At, MmInv, dst, me
<1>1. me.va = 0
  BY <1>0, Current DEF CallShape, Shape
<1>2. PROGRAM = word'[me.page] /\ \A q \in Page \ {me.page} : word'[q] = word[q]
  BY <1>0 DEF TypeOK
<1>3. \A t \in Task, va \in Touched :
         Found(t, va)' = IF t = current /\ va = 0 THEN PROGRAM ELSE Found(t, va)
  BY <1>0, <1>1, <1>2, MappedSpaces
<1>4. Memory' = [Memory EXCEPT ![current][0] = PROGRAM]
  BY <1>0, <1>3, MemoryChanged
<1>5. {va \in Touched : Memory[current][va] # -1} = {}
  <2>1. user_pages[current] = <<>>
    BY <1>0 DEF MmInv, SlotInv
  <2>2. Len(user_pages[current]) = 0 /\ current \in Slot /\ Touched \subseteq Va
    BY <1>0, <2>1, Sizes
  <2>3. ASSUME NEW va \in Touched, Way(current, va)[5] # 0 PROVE FALSE
    <3>1. \E k \in 1 .. Len(user_pages[current]) :
             user_pages[current][k] = [phys |-> Way(current, va)[5], virt |-> va]
      BY <1>0, <2>2, <2>3 DEF ListInv
    <3> QED
      BY <2>2, <3>1
  <2> QED
    BY <1>0, <2>3, MappedIs
<1> QED
  BY <1>4, <1>5 DEF Spaces!Load, Spaces!Mapped, Memory

LEMMA FaultSpaces ==
    ASSUME MmInv, map_page_fault, ~wild'
    PROVE  \/ Memory' = Memory
           \/ \E va \in Touched : Spaces!Fault(current, va)
<1>0. /\ map_page_entry("fault") /\ me.op = "fault" /\ At("map") /\ ~wild /\ TypeOK
      /\ current \in Task /\ current < nr_tasks /\ dst = current /\ me = call[current]
      /\ word' = word /\ me.page \in Page /\ word[me.page] = ZERO
      /\ Way(current, me.va)[5] = 0
  BY Current, AtMap DEF map_page_fault, map_page_entry, At, MmInv, dst, me
<1>3. \A t \in Task, va \in Touched :
         Found(t, va)' = IF t = current /\ va = me.va THEN ZERO ELSE Found(t, va)
  BY <1>0, MappedSpaces
<1>4. PICK a : a = me.va
  OBVIOUS
<1>5. CASE a \notin Touched
  <2>1. \A t \in Task, va \in Touched : Found(t, va)' = Found(t, va)
    BY <1>3, <1>4, <1>5
  <2> QED
    BY <2>1, MemorySame
<1>6. CASE a \in Touched
  <2>1. Memory' = [Memory EXCEPT ![current][a] = ZERO]
    BY <1>0, <1>3, <1>4, MemoryChanged
  <2>2. a \notin {va \in Touched : Memory[current][va] # -1}
    BY <1>0, <1>4, MappedIs
  <2>3. Spaces!Fault(current, a)
    BY <2>1, <2>2 DEF Spaces!Fault, Spaces!Mapped, Memory
  <2> QED
    BY <1>6, <2>3
<1> QED
  BY <1>5, <1>6

LEMMA CopySpaces ==
    ASSUME MmInv, map_page_copy, ~wild'
    PROVE  Memory' = Memory
<1>0. /\ map_page_entry("fork") /\ At("map") /\ TypeOK /\ me.page \in Page
      /\ dst = nr_tasks /\ ~(dst < nr_tasks)
  BY Current, AtMap, AtCopy DEF map_page_copy, map_page_entry, At, MmInv
<1>1. \A q \in Page \ {me.page} : word'[q] = word[q]
  BY <1>0 DEF map_page_copy, TypeOK
<1>2. PICK x : x = word'[me.page]
  OBVIOUS
<1>3. \A t \in Task, va \in Touched : Found(t, va)' = Found(t, va)
  BY <1>0, <1>1, <1>2, MappedSpaces
<1> QED
  BY <1>3, MemorySame

LEMMA StoreSpaces ==
    ASSUME MmInv, NEW a \in Touched, store(a), ~wild'
    PROVE  Spaces!Store(current, a)
<1>0. /\ ~wild /\ at[current] = "user" /\ a \in Va
      /\ UNCHANGED <<mem_map, table, mm, nr_tasks, current>>
      /\ Translate(ttbr0, a) # 0
      /\ word' = [word EXCEPT ![Translate(ttbr0, a)] = WRITTEN]
  BY Sizes DEF store, At
<1>1. /\ TypeOK /\ TreeInv /\ ListInv /\ current \in Task /\ current \in Slot
      /\ current < nr_tasks /\ ttbr0 = pgd[current]
  BY <1>0, Mine DEF MmInv
<1>2. PICK p \in Page : p = Translate(ttbr0, a) /\ p = Way(current, a)[5] /\ p # 0
  BY <1>0, <1>1, WayIs, WayListed
<1>3. ASSUME NEW t \in Task, NEW va \in Touched
      PROVE  Found(t, va)' = IF t = current /\ va = a THEN WRITTEN ELSE Found(t, va)
  <2>1. Way(t, va)' = Way(t, va) /\ t \in Slot /\ va \in Va
    BY <1>0, WaysKept, Sizes DEF mm
  <2>2. PICK q : q = Way(t, va)[5]
    OBVIOUS
  <2>3. q = p => t = current /\ va = a
    <3>1. Way(current, a)[5] # 0 /\ Way(current, a)[5] = p /\ Way(t, va)[5] = q
      BY <1>2, <2>2
    <3> QED
      BY <1>0, <1>1, <2>1, <3>1, OwnPages
  <2>4. q # 0 => q \in Page
    BY <1>1, <2>1, <2>2, WayListed
  <2>5. q # 0 => word'[q] = IF q = p THEN WRITTEN ELSE word[q]
    BY <1>0, <1>1, <1>2, <2>4 DEF TypeOK
  <2> QED
    BY <1>0, <1>1, <1>2, <2>1, <2>2, <2>3, <2>5 DEF Found
<1>4. Memory' = [Memory EXCEPT ![current][a] = WRITTEN]
  BY <1>1, <1>3, MemoryChanged
<1>5. a \in {va \in Touched : Memory[current][va] # -1}
  BY <1>0, <1>1, <1>2, MappedIs
<1> QED
  BY <1>4, <1>5 DEF Spaces!Store, Spaces!Mapped, Memory

\* What AddressSpaces says of a fork.
Forked(full, c, n, copied) ==
    /\ {va \in Touched : Memory[n][va] # -1} = {}
    /\ copied \subseteq {va \in Touched : Memory[c][va] # -1}
    /\ full \/ copied = {va \in Touched : Memory[c][va] # -1}
    /\ Memory' = [Memory EXCEPT ![n] =
           [va \in Touched |-> IF va \in copied THEN Memory[c][va] ELSE -1]]

LEMMA ForkedIs ==
    ASSUME NEW n, NEW copied, Forked(mem_map = Page, current, n, copied)
    PROVE  Spaces!Fork(current, n)
BY DEF Forked, Spaces!Fork, Spaces!Mapped, Memory

\* A thread that is started has no memory yet, and a child what its parent has.
LEMMA EndSpaces ==
    ASSUME MmInv, copy_process_end, ~wild'
    PROVE  \/ Memory' = Memory
           \/ \E child \in Task : Spaces!Fork(current, child)
<1>0. /\ ~wild /\ TypeOK /\ SlotInv /\ ListInv /\ current \in Slot /\ current \in Task
      /\ nr_tasks \in Task /\ nr_tasks \in Slot /\ nr_tasks' = nr_tasks + 1
      /\ current \in Nat /\ nr_tasks \in Nat /\ current < nr_tasks
      /\ UNCHANGED <<memory, mm, current>>
      /\ me = call[current] /\ Forking("next", me)
      /\ me.op \in {"kthread", "fork"} /\ me.copied \in Nat
      /\ me.op = "fork" => me.copied >= Len(user_pages[current])
      /\ \A t \in Task : t \in Nat
  BY EndEffects, Mine, Current, Sizes DEF MmInv, copy_process_end, At, Task
<1>1. \A t, va : Way(t, va)' = Way(t, va)
  BY <1>0, WaysKept DEF memory, mm
<1>n. PICK n \in Task : n = nr_tasks /\ n \in Slot /\ n \in Nat
  BY <1>0
<1>c. PICK c \in Task : c = current /\ c \in Slot
  BY <1>0
<1>2. ASSUME NEW t \in Task, NEW va \in Touched, t # n PROVE Found(t, va)' = Found(t, va)
  <2>1. t < nr_tasks' <=> t < nr_tasks
    BY <1>0, <1>n, <1>2
  <2> QED
    BY <1>0, <1>1, <2>1 DEF Found, memory
<1>3. ASSUME NEW va \in Touched
      PROVE  /\ Found(n, va) = -1
             /\ Found(n, va)' = IF Way(n, va)[5] # 0 THEN word[Way(n, va)[5]] ELSE -1
  BY <1>0, <1>1, <1>n DEF Found, memory
<1>4. CASE me.op = "kthread"
  <2>1. Blank(n)
    BY <1>0, <1>4, <1>n DEF SlotInv
  <2>2. \A va \in Va : Way(n, va)[1] = 0
    BY <1>n, <2>1, WayIs DEF Blank
  <2>3. \A va \in Va : Way(n, va)[5] = 0
    BY <1>0, <1>n, <2>2, WayDown
  <2>4. \A t \in Task, va \in Touched : Found(t, va)' = Found(t, va)
    BY <1>2, <1>3, <2>3, Sizes
  <2> QED
    BY <2>4, MemorySame
<1>5. CASE me.op = "fork"
  <2> DEFINE copied == {va \in Touched : Way(n, va)[5] # 0}
             f == [va \in Touched |-> IF va \in copied THEN Memory[c][va] ELSE -1]
  <2>1. /\ \A va \in Va : Way(n, va)[5] # 0 =>
              /\ \E k \in 1 .. me.copied : user_pages[c][k].virt = va
              /\ word[Way(n, va)[5]] = word[Way(c, va)[5]]
        /\ \/ mem_map = Page
           \/ \A k \in 1 .. me.copied : Way(n, user_pages[c][k].virt)[5] # 0
        /\ me.copied = Len(user_pages[c])
    BY <1>0, <1>5, <1>n, <1>c DEF Forking
  <2>2. \A va \in Va : (\E k \in 1 .. Len(user_pages[c]) : user_pages[c][k].virt = va)
                         <=> Way(c, va)[5] # 0
    <3>1. ASSUME NEW va \in Va, NEW k \in 1 .. Len(user_pages[c]), user_pages[c][k].virt = va
          PROVE  Way(c, va)[5] # 0
      <4>1. user_pages[c][k].phys \in Page
        BY <1>0, <1>c, <3>1, UserPageType
      <4>2. Way(c, va)[5] = user_pages[c][k].phys
        BY <1>0, <1>c, <3>1 DEF ListInv
      <4> QED
        BY <4>1, <4>2, Sizes
    <3>2. ASSUME NEW va \in Va, Way(c, va)[5] # 0
          PROVE  \E k \in 1 .. Len(user_pages[c]) : user_pages[c][k].virt = va
      <4>1. PICK k \in 1 .. Len(user_pages[c]) :
               user_pages[c][k] = [phys |-> Way(c, va)[5], virt |-> va]
        BY <1>0, <1>c, <3>2 DEF ListInv
      <4>2. user_pages[c][k].virt = va
        BY <4>1
      <4> QED
        BY <4>2
    <3> QED
      BY <3>1, <3>2
  <2>3. copied \subseteq {va \in Touched : Way(c, va)[5] # 0}
    BY <2>1, <2>2, Sizes
  <2>4. mem_map = Page \/ copied = {va \in Touched : Way(c, va)[5] # 0}
    <3> SUFFICES ASSUME mem_map # Page, NEW va \in Touched, Way(c, va)[5] # 0
                 PROVE  Way(n, va)[5] # 0
      BY <2>3
    <3>1. PICK k \in 1 .. Len(user_pages[c]) : user_pages[c][k].virt = va
      BY <2>2, Sizes
    <3> QED
      BY <2>1, <3>1
  <2>5. ASSUME NEW va \in copied PROVE Memory[c][va] = word[Way(n, va)[5]]
    <3>1. Way(c, va)[5] # 0 /\ word[Way(n, va)[5]] = word[Way(c, va)[5]]
      BY <2>1, <2>3, Sizes
    <3>2. Memory[c][va] = Found(c, va)
      BY MemoryIs
    <3> QED
      BY <1>0, <1>c, <3>1, <3>2 DEF Found
  <2>6. \A t \in Task, va \in Touched :
           Found(t, va)' = IF t = n THEN f[va] ELSE Found(t, va)
    <3>1. \A va \in Touched : Found(n, va)' = f[va]
      BY <1>3, <2>5
    <3> QED
      BY <1>2, <3>1
  <2>7. Memory' = [Memory EXCEPT ![n] = [va \in Touched |-> f[va]]]
    <3> HIDE DEF f
    <3> QED
      BY <2>6, MemoryFilled
  <2>8. [va \in Touched |-> f[va]] =
           [va \in Touched |-> IF va \in copied THEN Memory[c][va] ELSE -1]
    OBVIOUS
  <2>9. {va \in Touched : Memory[n][va] # -1} = {}
    <3>1. ~(n < nr_tasks)
      BY <1>n
    <3> QED
      BY <1>0, <3>1, MappedIs
  <2>10. {va \in Touched : Memory[c][va] # -1} = {va \in Touched : Way(c, va)[5] # 0}
    BY <1>0, <1>c, MappedIs
  <2>11. Forked(mem_map = Page, c, n, copied)
    <3> HIDE DEF copied
    <3> QED
      BY <2>3, <2>4, <2>7, <2>8, <2>9, <2>10 DEF Forked
  <2>12. PICK kept : kept = copied
    OBVIOUS
  <2>13. Forked(mem_map = Page, current, n, kept)
    <3> HIDE DEF copied
    <3> QED
      BY <1>c, <2>11, <2>12 DEF Forked
  <2>14. Spaces!Fork(current, n)
    BY <2>13, ForkedIs
  <2> QED
    BY <2>14
<1> QED
  BY <1>0, <1>4, <1>5

LEMMA SpacesStep ==
    ASSUME MmInv, [Next]_vars
    PROVE  [Spaces!Next]_(Spaces!vars)
<1>1. CASE wild'
  BY <1>1 DEF Spaces!Next
<1>2. CASE ~wild'
  <2>1. ~wild
    BY <1>2, WildStays
  <2>2. mem_map = Page => mem_map' = Page
    BY <1>2, <2>1, FullStays
  <2>3. ASSUME Memory' = Memory PROVE Spaces!Next
    BY <1>2, <2>1, <2>2, <2>3 DEF Spaces!Next, Memory
  <2>4. ASSUME current' = current,
               \/ Spaces!Load(current)
               \/ \E va \in Touched : Spaces!Fault(current, va) \/ Spaces!Store(current, va)
               \/ \E child \in Task : Spaces!Fork(current, child)
        PROVE  Spaces!Next
    BY <1>2, <2>1, <2>2, <2>4 DEF Spaces!Next
  <2>5. CASE copy_process_end
    <3>1. current' = current
      BY <2>5 DEF copy_process_end
    <3> QED
      BY <1>2, <2>3, <2>4, <2>5, <3>1, EndSpaces
  <2>6. CASE Quiet /\ ~copy_process_end
    BY <1>2, <2>3, <2>6, TasksStay, QuietSpaces
  <2>7. ASSUME NEW va \in Touched, store(va) PROVE Spaces!Next
    <3>1. current' = current
      BY <2>7 DEF store
    <3>2. Spaces!Store(current, va)
      BY <1>2, <2>7, StoreSpaces
    <3> QED
      BY <2>4, <2>7, <3>1, <3>2
  <2>8. CASE get_free_page_claim
    BY <1>2, <2>3, <2>8, ClaimSpaces
  <2>9. CASE map_page_load
    <3>1. current' = current
      BY <2>9 DEF map_page_load, map_page_entry
    <3> QED
      BY <1>2, <2>4, <2>9, <3>1, LoadSpaces
  <2>10. CASE map_page_copy
    BY <1>2, <2>3, <2>10, CopySpaces
  <2>11. CASE map_page_fault
    <3>1. current' = current
      BY <2>11 DEF map_page_fault, map_page_entry
    <3> QED
      BY <1>2, <2>3, <2>4, <2>11, <3>1, FaultSpaces
  <2> QED
    BY <1>2, <2>1, <2>5, <2>6, <2>7, <2>8, <2>9, <2>10, <2>11, Kinds
<1> QED
  BY <1>1, <1>2

LEMMA SpacesInit ==
    ASSUME Init
    PROVE  Spaces!Init
<1>1. \A t \in Task : pgd[t] = 0
  BY Sizes DEF Init
<1>2. \A t \in Task, va \in Touched : Translate(pgd[t], va) = 0
  BY <1>1 DEF Translate, Walk, Entry
<1>3. [t \in Task |-> [va \in Touched |->
          IF t < nr_tasks /\ Translate(pgd[t], va) # 0
          THEN word[Translate(pgd[t], va)] ELSE -1]]
        = [t \in Task |-> [va \in Touched |-> -1]]
  BY <1>2
<1>4. wild = FALSE /\ current \in Task
  BY Sizes DEF Init
<1> QED
  BY <1>3, <1>4 DEF Spaces!Init

\* However the tasks and their faults interleave, each has an address space of
\* its own: a first touch finds zeroes, a child what its parent had, and a
\* store shows in no other (fork.c:23-27, 49-62, mm.c:117-146, sched.c:65).
THEOREM TasksHaveTheirOwnMemory == Spec => SpacesSpec
<1>1. ASSUME Init PROVE Spaces!Init
  BY <1>1, SpacesInit
<1>2. MmInv /\ [Next]_vars => [Spaces!Next]_(Spaces!vars)
  BY SpacesStep
<1> QED
  BY <1>1, <1>2, Invariance, PTL DEF Spec, SpacesSpec, Spaces!Spec
=============================================================================
