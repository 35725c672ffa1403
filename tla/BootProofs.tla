------------------------------ MODULE BootProofs ------------------------------
(***************************************************************************)
(* The page tables of the boot, for every number of entries and of         *)
(* sections, with and without the identity map.                            *)
(***************************************************************************)
EXTENDS Boot, TLAPS

Junk    == [to |-> "junk"]
Nothing == [to |-> "nothing"]

\* The entry a section has in a tree.
Mapping(tree, i) ==
    [to |-> "section", phys |-> i,
     type |-> IF tree = "idmap_dir" \/ i < DEVICE_BASE THEN "NORMAL_NC"
              ELSE "DEVICE_nGnRnE"]

Untouched(tree) == \A k \in Table, i \in Index : entry[tree][k][i] = Junk

\* A tree with its first n sections mapped, and nothing else.
Mapped(tree, n) ==
    /\ \A i \in Index : entry[tree]["PGD"][i] =
                            IF i = 0 THEN [to |-> "PUD"] ELSE Nothing
    /\ \A i \in Index : entry[tree]["PUD"][i] =
                            IF i = 0 THEN [to |-> "PMD"] ELSE Nothing
    /\ \A i \in Index : entry[tree]["PMD"][i] =
                            IF i < n THEN Mapping(tree, i) ELSE Nothing

\* The last section of the identity map: that of the wrapped index.
IdmapEnd == PMD(PHYS_MEMORY_SIZE)

\* What is built when boot.S stands at each of its places.
Built ==
    /\ at # "kernel"
    /\ dir = "idmap_dir" =>
         /\ USE_QEMU
         /\ Untouched("pg_dir")
         /\ at \in {"create_tables", "block"}
    /\ dir = "pg_dir" /\ USE_QEMU => Mapped("idmap_dir", IdmapEnd + 1)
    /\ at = "create_tables" => Untouched(dir)
    /\ at = "devices" => Mapped("pg_dir", DEVICE_BASE)
    /\ at = "mmu" => dir = "pg_dir" /\ Mapped("pg_dir", PHYS_MEMORY_SIZE)
    /\ at = "devices" => dir = "pg_dir"

\* Where the loop of create_block_map stands.
Loop ==
    at = "block" =>
        /\ start <= end
        /\ phys = start
        /\ Mapped(dir, start)
        /\ dir = "idmap_dir" => type = "NORMAL_NC" /\ end = IdmapEnd
        /\ dir = "pg_dir" /\ type = "NORMAL_NC" => end = DEVICE_BASE - 1
        /\ dir = "pg_dir" /\ type = "DEVICE_nGnRnE" =>
             start >= DEVICE_BASE /\ end = PHYS_MEMORY_SIZE - 1

BootInv == TypeOK /\ Built /\ Loop

-----------------------------------------------------------------------------
(* Indices.                                                                *)

LEMMA Division ==
    ASSUME NEW a \in Nat, NEW b \in Nat \ {0}
    PROVE  /\ a < b => a % b = a /\ a \div b = 0
           /\ a \in b .. 2 * b - 1 => a % b = a - b /\ a \div b = 1
           /\ a % b \in 0 .. b - 1
BY SMTT(30)

LEMMA Sizes ==
    /\ PTRS_PER_TABLE \in Nat \ {0, 1}
    /\ DEVICE_BASE \in Nat \ {0} /\ PHYS_MEMORY_SIZE \in Nat
    /\ DEVICE_BASE < PHYS_MEMORY_SIZE /\ PHYS_MEMORY_SIZE <= PTRS_PER_TABLE
    /\ 0 \in Index /\ 1 \in Index
BY BootAssumption DEF Index

LEMMA Ends ==
    /\ VA_START = 0
    /\ PMD(0) = 0 /\ PUD(0) = 0 /\ PGD(0) = 0
    /\ PMD(DEVICE_BASE) = DEVICE_BASE
    /\ PMD(DEVICE_BASE - 1) = DEVICE_BASE - 1
    /\ PMD(PHYS_MEMORY_SIZE - 1) = PHYS_MEMORY_SIZE - 1
    /\ IdmapEnd \in Index
<1>1. \A va \in Index : PMD(va) = va
  BY Sizes, Division DEF PMD, Index
<1>2. PUD(0) = 0
  BY Sizes, Division DEF PUD
<1>3. PTRS_PER_TABLE * PTRS_PER_TABLE \in Nat \ {0}
  BY Sizes
<1>4. PGD(0) = 0
  BY <1>3, Sizes, Division DEF PGD
<1>5. IdmapEnd \in Index
  BY Sizes, Division DEF IdmapEnd, PMD, Index
<1> QED
  BY <1>1, <1>2, <1>4, <1>5, Sizes DEF VA_START, Index

\* The indices of the addresses MmuSafe speaks of.
LEMMA Addresses ==
    ASSUME NEW va \in 0 .. 2 * PTRS_PER_TABLE - 1
    PROVE  /\ PGD(va) = 0
           /\ va < PTRS_PER_TABLE => PUD(va) = 0 /\ PMD(va) = va
           /\ va >= PTRS_PER_TABLE => PUD(va) = 1
           /\ PMD(va) \in Index
<1> DEFINE N == PTRS_PER_TABLE
<1>1. N \in Nat /\ N >= 2 /\ va \in Nat
  BY Sizes
<1>2. N * N \in Nat /\ N * N >= 2 * N
  BY <1>1
<1>3. va < N * N /\ N * N # 0
  BY <1>1, <1>2
<1>4. va \div (N * N) = 0
  BY <1>1, <1>2, <1>3, Division
<1>5. PGD(va) = 0
  BY <1>1, <1>4, Division DEF PGD
<1>6. va < N => PUD(va) = 0 /\ PMD(va) = va
  BY <1>1, Division DEF PUD, PMD
<1>7. va >= N => va \div N = 1 /\ 1 % N = 1
  BY <1>1, Division
<1>8. va % N \in 0 .. N - 1
  BY <1>1, Division
<1> QED
  BY <1>5, <1>6, <1>7, <1>8 DEF PUD, PMD, Index

-----------------------------------------------------------------------------
(* The steps.                                                              *)

LEMMA Entries ==
    /\ Junk \in Entry /\ Nothing \in Entry
    /\ [to |-> "PUD"] \in Entry /\ [to |-> "PMD"] \in Entry
    /\ \A i \in Nat, kind \in {"NORMAL_NC", "DEVICE_nGnRnE"} :
          [to |-> "section", phys |-> i, type |-> kind] \in Entry
BY DEF Entry, Junk, Nothing

\* A tree that is created has nothing mapped, and the other keeps what it had.
LEMMA Create ==
    ASSUME TypeOK, NEW tree \in Tree, dir = tree, create_pgd_entry(0)
    PROVE  /\ entry' \in [Tree -> [Table -> [Index -> Entry]]]
           /\ Mapped(tree, 0)'
           /\ \A other \in Tree \ {tree} : entry'[other] = entry[other]
<1> DEFINE New == [k \in Table |-> [i \in Index |->
                      IF k = "PGD" /\ i = PGD(0) THEN [to |-> "PUD"]
                      ELSE IF k = "PUD" /\ i = PUD(0) THEN [to |-> "PMD"]
                      ELSE [to |-> "nothing"]]]
<1>1. entry' = [entry EXCEPT ![tree] = New]
  BY DEF create_pgd_entry
<1>2. New \in [Table -> [Index -> Entry]]
  BY Entries DEF Nothing
<1> HIDE DEF New
<1>3. entry' \in [Tree -> [Table -> [Index -> Entry]]]
  BY <1>1, <1>2 DEF TypeOK
<1>4. entry'[tree] = New
  BY <1>1 DEF TypeOK
<1>5. \A other \in Tree \ {tree} : entry'[other] = entry[other]
  BY <1>1 DEF TypeOK
<1>6. Mapped(tree, 0)'
  <2>1. \A i \in Index : New["PGD"][i] = IF i = 0 THEN [to |-> "PUD"] ELSE Nothing
    BY Ends DEF New, Nothing, Table
  <2>2. \A i \in Index : New["PUD"][i] = IF i = 0 THEN [to |-> "PMD"] ELSE Nothing
    BY Ends DEF New, Nothing, Table
  <2>3. \A i \in Index : New["PMD"][i] = Nothing /\ ~(i < 0)
    BY Sizes DEF New, Nothing, Table, Index
  <2> QED
    BY <1>4, <2>1, <2>2, <2>3 DEF Mapped
<1> QED
  BY <1>3, <1>5, <1>6

\* One more section is mapped.
LEMMA Block1 ==
    ASSUME TypeOK, NEW tree \in Tree, NEW n \in Index, Mapped(tree, n),
           entry' = [entry EXCEPT ![tree]["PMD"][n] = Mapping(tree, n)]
    PROVE  /\ entry' \in [Tree -> [Table -> [Index -> Entry]]]
           /\ Mapped(tree, n + 1)'
           /\ \A other \in Tree \ {tree} : entry'[other] = entry[other]
           /\ \A t \in Tree, i \in Index :
                 entry[t]["PMD"][i].to = "section"
                    => entry'[t]["PMD"][i] = entry[t]["PMD"][i]
<1>1. Mapping(tree, n) \in Entry
  <2> DEFINE kind == IF tree = "idmap_dir" \/ n < DEVICE_BASE THEN "NORMAL_NC"
                     ELSE "DEVICE_nGnRnE"
  <2>1. Mapping(tree, n) = [to |-> "section", phys |-> n, type |-> kind]
    BY DEF Mapping
  <2>2. kind \in {"NORMAL_NC", "DEVICE_nGnRnE"} /\ n \in Nat
    BY DEF Index
  <2> HIDE DEF kind
  <2> QED
    BY <2>1, <2>2, Entries
<1>2. entry \in [Tree -> [Table -> [Index -> Entry]]] /\ "PMD" \in Table
  BY DEF TypeOK, Table
<1>3. entry' \in [Tree -> [Table -> [Index -> Entry]]]
  BY <1>1, <1>2
<1>4. \A t \in Tree, k \in Table, i \in Index :
        entry'[t][k][i] = IF t = tree /\ k = "PMD" /\ i = n
                          THEN Mapping(tree, n) ELSE entry[t][k][i]
  BY <1>2
<1>5. \A other \in Tree \ {tree} : entry'[other] = entry[other]
  BY <1>2
<1>6. Mapped(tree, n + 1)'
  <2>1. \A i \in Index : i < n + 1 <=> i < n \/ i = n
    BY DEF Index
  <2> QED
    BY <1>4, <2>1 DEF Mapped, Table, Mapping
<1>7. \A t \in Tree, i \in Index :
        entry[t]["PMD"][i].to = "section" => entry'[t]["PMD"][i] = entry[t]["PMD"][i]
  <2> SUFFICES ASSUME NEW t \in Tree, NEW i \in Index,
                      entry[t]["PMD"][i].to = "section"
               PROVE  entry'[t]["PMD"][i] = entry[t]["PMD"][i]
    OBVIOUS
  <2>1. CASE t = tree /\ i = n
    <3>1. entry[t]["PMD"][i] = Nothing
      BY <2>1 DEF Mapped, Index
    <3>2. Nothing.to # "section"
      BY DEF Nothing
    <3> QED
      BY <3>1, <3>2
  <2> QED
    BY <1>2, <1>4, <2>1
<1> QED
  BY <1>3, <1>5, <1>6, <1>7

LEMMA IdmapStep == ASSUME BootInv, __create_idmap PROVE BootInv'
<1>1. /\ dir = "idmap_dir" /\ dir' = dir /\ at' = "block" /\ USE_QEMU
      /\ phys' = 0 /\ start' = 0 /\ end' = IdmapEnd /\ type' = "NORMAL_NC"
      /\ create_pgd_entry(0)
      /\ Untouched("pg_dir")
  BY Ends DEF BootInv, Built, __create_idmap, Block, IdmapEnd
<1>2. /\ entry' \in [Tree -> [Table -> [Index -> Entry]]]
      /\ Mapped("idmap_dir", 0)'
      /\ entry'["pg_dir"] = entry["pg_dir"]
  BY <1>1, Create DEF BootInv, Tree
<1>3. TypeOK'
  BY <1>1, <1>2, Ends DEF BootInv, TypeOK
<1>4. Built'
  BY <1>1, <1>2 DEF Built, Untouched
<1>5. Loop'
  BY <1>1, <1>2, Ends DEF Loop, Index, IdmapEnd
<1> QED
  BY <1>3, <1>4, <1>5 DEF BootInv

LEMMA PageTablesStep == ASSUME BootInv, __create_page_tables PROVE BootInv'
<1>1. /\ dir = "pg_dir" /\ dir' = dir /\ at' = "block"
      /\ phys' = 0 /\ start' = 0 /\ end' = DEVICE_BASE - 1 /\ type' = "NORMAL_NC"
      /\ create_pgd_entry(0)
  BY Ends, Sizes DEF __create_page_tables, Block
<1>2. /\ entry' \in [Tree -> [Table -> [Index -> Entry]]]
      /\ Mapped("pg_dir", 0)'
      /\ entry'["idmap_dir"] = entry["idmap_dir"]
  BY <1>1, Create DEF BootInv, Tree
<1>3. TypeOK'
  BY <1>1, <1>2, Sizes DEF BootInv, TypeOK, Index
<1>4. Built'
  BY <1>1, <1>2 DEF BootInv, Built, Mapped, Mapping, Nothing, IdmapEnd, PMD
<1>5. Loop'
  BY <1>1, <1>2, Sizes DEF Loop
<1> QED
  BY <1>3, <1>4, <1>5 DEF BootInv

LEMMA DevicesStep == ASSUME BootInv, map_devices PROVE BootInv'
<1>1. /\ dir = "pg_dir" /\ dir' = dir /\ at' = "block" /\ entry' = entry
      /\ phys' = DEVICE_BASE /\ start' = DEVICE_BASE
      /\ end' = PHYS_MEMORY_SIZE - 1 /\ type' = "DEVICE_nGnRnE"
      /\ Mapped("pg_dir", DEVICE_BASE)
  BY Ends, Sizes DEF BootInv, Built, map_devices, Block
<1>2. TypeOK'
  BY <1>1, Sizes DEF BootInv, TypeOK, Index
<1>3. Built'
  BY <1>1 DEF BootInv, Built, Mapped, Mapping, Nothing, IdmapEnd, PMD
<1>4. Loop'
  BY <1>1, Sizes DEF Loop, Mapped, Mapping, Nothing
<1> QED
  BY <1>2, <1>3, <1>4 DEF BootInv

\* What a turn of the loop does to the tables.
LEMMA TurnFacts ==
    ASSUME BootInv, create_block_map, NEW tree, NEW n, tree = dir, n = start
    PROVE  /\ tree \in Tree /\ n \in Index /\ end \in Index /\ n <= end
           /\ entry' \in [Tree -> [Table -> [Index -> Entry]]]
           /\ Mapped(tree, n + 1)'
           /\ \A other \in Tree \ {tree} : entry'[other] = entry[other]
           /\ \A t \in Tree, i \in Index :
                 entry[t]["PMD"][i].to = "section"
                    => entry'[t]["PMD"][i] = entry[t]["PMD"][i]
<1>1. TypeOK /\ at = "block"
  BY DEF BootInv, create_block_map
<1>2. /\ start <= end /\ phys = start /\ Mapped(dir, start)
      /\ dir = "idmap_dir" => type = "NORMAL_NC"
      /\ dir = "pg_dir" /\ type = "NORMAL_NC" => end = DEVICE_BASE - 1
      /\ dir = "pg_dir" /\ type = "DEVICE_nGnRnE" => start >= DEVICE_BASE
  BY <1>1 DEF BootInv, Loop
<1>3. start \in Nat /\ end \in Index /\ dir \in Tree
      /\ type \in {"NORMAL_NC", "DEVICE_nGnRnE"}
  BY <1>1 DEF TypeOK
<1>4. start \in Index
  BY <1>2, <1>3, Sizes DEF Index
<1>5. Mapping(dir, start) = [to |-> "section", phys |-> phys, type |-> type]
  BY <1>2, <1>3, <1>4, Sizes DEF Mapping, Tree, Index
<1>6. entry' = [entry EXCEPT ![dir]["PMD"][start] = Mapping(dir, start)]
  BY <1>5 DEF create_block_map
<1> QED
  BY <1>1, <1>2, <1>3, <1>4, <1>6, Block1

LEMMA TurnStep == ASSUME BootInv, create_block_map PROVE BootInv'
<1>1. PICK tree, n : tree = dir /\ n = start
  OBVIOUS
<1>2. /\ tree \in Tree /\ n \in Index /\ end \in Index /\ n <= end
      /\ entry' \in [Tree -> [Table -> [Index -> Entry]]]
      /\ Mapped(tree, n + 1)'
      /\ \A other \in Tree \ {tree} : entry'[other] = entry[other]
  BY <1>1, TurnFacts
<1>3. /\ TypeOK /\ Built /\ Loop /\ at = "block"
      /\ start' = n + 1 /\ phys' = n + 1 /\ end' = end /\ type' = type
      /\ n \in Nat /\ end \in Nat
  BY <1>1, <1>2 DEF BootInv, Loop, create_block_map, Index
<1>4. CASE n + 1 <= end
  <2>1. at' = "block" /\ dir' = tree
    BY <1>1, <1>3, <1>4 DEF create_block_map
  <2>2. TypeOK'
    BY <1>2, <1>3, <2>1 DEF TypeOK
  <2>3. Built'
    BY <1>1, <1>2, <1>3, <2>1 DEF Built, Untouched, Mapped, Mapping, Nothing,
                                  IdmapEnd, PMD, Tree
  <2>4. Loop'
    <3>1. Mapped(dir, start)'
      BY <1>2, <1>3, <2>1 DEF Mapped, Mapping, Nothing
    <3>2. IdmapEnd' = IdmapEnd
      BY DEF IdmapEnd, PMD
    <3> QED
      BY <1>1, <1>3, <1>4, <2>1, <3>1, <3>2, Sizes DEF Loop
  <2> QED
    BY <2>2, <2>3, <2>4 DEF BootInv
<1>5. CASE n = end /\ tree = "idmap_dir"
  <2>1. at' = "create_tables" /\ dir' = "pg_dir"
    BY <1>1, <1>3, <1>5 DEF create_block_map
  <2>2. TypeOK'
    BY <1>2, <1>3, <2>1 DEF TypeOK, Tree
  <2>3. end = IdmapEnd /\ Untouched("pg_dir") /\ entry'["pg_dir"] = entry["pg_dir"]
    BY <1>1, <1>2, <1>3, <1>5 DEF Built, Loop, Tree
  <2>4. Mapped("idmap_dir", IdmapEnd + 1)'
    BY <1>2, <1>5, <2>3 DEF Mapped, Mapping, Nothing, IdmapEnd, PMD
  <2>5. Built'
    BY <2>1, <2>3, <2>4 DEF Built, Untouched
  <2>6. Loop'
    BY <2>1 DEF Loop
  <2> QED
    BY <2>2, <2>5, <2>6 DEF BootInv
<1>6. CASE n = end /\ tree = "pg_dir"
  <2>1. dir = "pg_dir" /\ dir' = "pg_dir"
        /\ at' = IF type = "NORMAL_NC" THEN "devices" ELSE "mmu"
    <3>1. dir = "pg_dir" /\ ~(start' <= end)
      BY <1>1, <1>3, <1>6
    <3>2. type = "NORMAL_NC" \/ type = "DEVICE_nGnRnE"
      BY <1>3 DEF TypeOK
    <3> QED
      BY <3>1, <3>2 DEF create_block_map
  <2>2. TypeOK'
    BY <1>2, <1>3, <2>1 DEF TypeOK, Tree
  <2>3. n + 1 = IF type = "NORMAL_NC" THEN DEVICE_BASE ELSE PHYS_MEMORY_SIZE
    BY <1>1, <1>3, <1>6, <2>1, Sizes DEF Loop, TypeOK
  <2>4. USE_QEMU => Mapped("idmap_dir", IdmapEnd + 1)'
    BY <1>2, <1>3, <1>6, <2>1 DEF Built, Mapped, Mapping, Nothing, IdmapEnd, PMD, Tree
  <2>5. Built'
    BY <1>2, <1>6, <2>1, <2>3, <2>4 DEF Built, Mapped, Mapping, Nothing
  <2>6. Loop'
    BY <2>1 DEF Loop
  <2> QED
    BY <2>2, <2>5, <2>6 DEF BootInv
<1>7. n + 1 <= end \/ n = end
  BY <1>2, <1>3
<1>8. tree = "idmap_dir" \/ tree = "pg_dir"
  BY <1>2 DEF Tree
<1> QED
  BY <1>4, <1>5, <1>6, <1>7, <1>8

-----------------------------------------------------------------------------
(* The invariant, and what follows from it.                                *)

LEMMA BootInit == Init => BootInv
<1> SUFFICES ASSUME Init PROVE BootInv
  OBVIOUS
<1>1. TypeOK
  BY Entries, Sizes DEF Init, TypeOK, Tree, Junk
<1>2. Built /\ Loop
  BY BootAssumption DEF Init, Built, Loop, Untouched, Tree, Junk
<1> QED
  BY <1>1, <1>2 DEF BootInv

LEMMA BootStep == BootInv /\ [Next]_vars => BootInv'
<1> SUFFICES ASSUME BootInv, [Next]_vars PROVE BootInv'
  OBVIOUS
<1>1. CASE __create_idmap
  BY <1>1, IdmapStep
<1>2. CASE __create_page_tables
  BY <1>2, PageTablesStep
<1>3. CASE map_devices
  BY <1>3, DevicesStep
<1>4. CASE create_block_map
  BY <1>4, TurnStep
<1>5. CASE UNCHANGED vars
  BY <1>5 DEF BootInv, TypeOK, Built, Loop, Untouched, Mapped, Mapping, Nothing,
              IdmapEnd, PMD, vars
<1> QED
  BY <1>1, <1>2, <1>3, <1>4, <1>5 DEF Next, kernel_main

\* The tables are as far as boot.S is, whatever was in memory before.
THEOREM BootInvariant == Spec => []BootInv
<1>1. Init => BootInv
  BY BootInit
<1>2. BootInv /\ [Next]_vars => BootInv'
  BY BootStep
<1> QED
  BY <1>1, <1>2, PTL DEF Spec

\* The registers of create_block_map and the entries keep their types; every
\* store is inside the table.
THEOREM BootTypes == Spec => []TypeOK
<1>1. BootInv => TypeOK
  BY DEF BootInv
<1> QED
  BY <1>1, BootInvariant, PTL

\* For every number of entries and of sections, the MMU finds each address of
\* the kernel where it should and nothing behind them, the code that turns it
\* on goes on, and an address of the identity map leads to itself if it leads
\* anywhere (boot.S:61-103, 160-205).
THEOREM TheMmuIsSafe == Spec => []MmuSafe
<1>1. BootInv => MmuSafe
  <2> SUFFICES ASSUME BootInv, at = "mmu" PROVE MmuSafe
    BY DEF MmuSafe
  <2>1. Mapped("pg_dir", PHYS_MEMORY_SIZE)
        /\ (USE_QEMU => Mapped("idmap_dir", IdmapEnd + 1))
    BY DEF BootInv, Built
  <2>2. \A va \in 0 .. 2 * PTRS_PER_TABLE - 1 :
            Translate("pg_dir", VA_START + va) =
                IF va \in Section
                THEN [to |-> "section", phys |-> va,
                      type |-> IF va < DEVICE_BASE THEN "NORMAL_NC"
                               ELSE "DEVICE_nGnRnE"]
                ELSE [to |-> "nothing"]
    <3> SUFFICES ASSUME NEW va \in 0 .. 2 * PTRS_PER_TABLE - 1
                 PROVE  Translate("pg_dir", va) =
                            IF va \in Section THEN Mapping("pg_dir", va)
                            ELSE Nothing
      BY Sizes DEF VA_START, Mapping, Nothing
    <3>1. entry["pg_dir"]["PGD"][PGD(va)] = [to |-> "PUD"]
      BY <2>1, Addresses, Sizes DEF Mapped
    <3>2. CASE va < PTRS_PER_TABLE
      <4>1. PUD(va) = 0 /\ PMD(va) = va /\ va \in Index
        BY <3>2, Addresses, Sizes DEF Index
      <4>2. entry["pg_dir"]["PUD"][PUD(va)] = [to |-> "PMD"]
        BY <2>1, <4>1, Sizes DEF Mapped
      <4>3. Translate("pg_dir", va) = entry["pg_dir"]["PMD"][va]
        BY <3>1, <4>1, <4>2 DEF Translate
      <4> QED
        BY <2>1, <4>1, <4>3, Sizes DEF Mapped, Section
    <3>3. CASE va >= PTRS_PER_TABLE
      <4>1. PUD(va) = 1 /\ va \notin Section
        BY <3>3, Addresses, Sizes DEF Section
      <4>2. entry["pg_dir"]["PUD"][PUD(va)] = Nothing
        BY <2>1, <4>1, Sizes DEF Mapped
      <4>3. Translate("pg_dir", va) = Nothing
        BY <3>1, <4>2 DEF Translate, Nothing
      <4> QED
        BY <4>1, <4>3
    <3> QED
      BY <3>2, <3>3, Sizes
  <2>3. USE_QEMU => Translate("idmap_dir", 0) = Mapping("idmap_dir", 0)
    <3> SUFFICES ASSUME USE_QEMU
                 PROVE  Translate("idmap_dir", 0) = Mapping("idmap_dir", 0)
      OBVIOUS
    <3>1. 0 < IdmapEnd + 1
      BY Ends DEF Index
    <3>2. /\ entry["idmap_dir"]["PGD"][PGD(0)] = [to |-> "PUD"]
          /\ entry["idmap_dir"]["PUD"][PUD(0)] = [to |-> "PMD"]
          /\ entry["idmap_dir"]["PMD"][PMD(0)] = Mapping("idmap_dir", 0)
      BY <2>1, <3>1, Ends, Sizes DEF Mapped
    <3> QED
      BY <3>2 DEF Translate
  <2>4. USE_QEMU => \A va \in 0 .. 2 * PTRS_PER_TABLE - 1 :
            Translate("idmap_dir", va) \in {Nothing, Mapping("idmap_dir", va)}
    <3> SUFFICES ASSUME USE_QEMU, NEW va \in 0 .. 2 * PTRS_PER_TABLE - 1
                 PROVE  Translate("idmap_dir", va) \in {Nothing, Mapping("idmap_dir", va)}
      OBVIOUS
    <3>1. entry["idmap_dir"]["PGD"][PGD(va)] = [to |-> "PUD"]
      BY <2>1, Addresses, Sizes DEF Mapped
    <3>2. CASE va < PTRS_PER_TABLE
      <4>1. PUD(va) = 0 /\ PMD(va) = va /\ va \in Index
        BY <3>2, Addresses, Sizes DEF Index
      <4>2. entry["idmap_dir"]["PUD"][PUD(va)] = [to |-> "PMD"]
        BY <2>1, <4>1, Sizes DEF Mapped
      <4>3. Translate("idmap_dir", va) = entry["idmap_dir"]["PMD"][va]
        BY <3>1, <4>1, <4>2 DEF Translate
      <4> QED
        BY <2>1, <4>1, <4>3 DEF Mapped
    <3>3. CASE va >= PTRS_PER_TABLE
      <4>1. PUD(va) = 1
        BY <3>3, Addresses, Sizes
      <4>2. entry["idmap_dir"]["PUD"][PUD(va)] = Nothing
        BY <2>1, <4>1, Sizes DEF Mapped
      <4>3. Translate("idmap_dir", va) = Nothing
        BY <3>1, <4>2 DEF Translate, Nothing
      <4> QED
        BY <4>3
    <3> QED
      BY <3>2, <3>3, Sizes
  <2> QED
    BY <2>2, <2>3, <2>4 DEF MmuSafe, Mapping, Nothing
<1> QED
  BY <1>1, BootInvariant, PTL

\* No section is mapped twice, for every size (boot.S:193-203).
THEOREM SectionsMappedOnce == Spec => MappedOnce
<1> DEFINE Kept == \A tree \in Tree, i \in Index :
                      entry[tree]["PMD"][i].to = "section"
                         => entry'[tree]["PMD"][i] = entry[tree]["PMD"][i]
<1>1. BootInv /\ [Next]_vars => [Kept]_vars
  <2> SUFFICES ASSUME BootInv, Next PROVE Kept
    OBVIOUS
  <2>1. \A tree \in Tree : Untouched(tree) =>
            \A i \in Index : entry[tree]["PMD"][i].to # "section"
    BY DEF Untouched, Junk, Table
  <2>2. CASE create_block_map
    BY <2>2, TurnFacts
  <2>3. CASE __create_idmap
    <3>1. dir = "idmap_dir" /\ Untouched("idmap_dir") /\ create_pgd_entry(0)
      BY <2>3 DEF BootInv, Built, __create_idmap
    <3>2. entry'["pg_dir"] = entry["pg_dir"]
      BY <3>1, Create DEF BootInv, Tree
    <3> QED
      BY <2>1, <3>1, <3>2 DEF Tree
  <2>4. CASE __create_page_tables
    <3>1. dir = "pg_dir" /\ Untouched("pg_dir") /\ create_pgd_entry(0)
      BY <2>4 DEF BootInv, Built, __create_page_tables, VA_START
    <3>2. entry'["idmap_dir"] = entry["idmap_dir"]
      BY <3>1, Create DEF BootInv, Tree
    <3> QED
      BY <2>1, <3>1, <3>2 DEF Tree
  <2>5. CASE map_devices \/ kernel_main
    BY <2>5 DEF map_devices, kernel_main, vars
  <2> QED
    BY <2>2, <2>3, <2>4, <2>5 DEF Next
<1>2. Spec => [][Kept]_vars
  BY <1>1, BootInvariant, PTL DEF Spec
<1> QED
  BY <1>2 DEF MappedOnce
===============================================================================
