--------------------------------- MODULE Boot ---------------------------------
(***************************************************************************)
(* The page tables boot.S builds before it turns the MMU on, one entry of  *)
(* a PMD table at a time.  Addresses are counted in sections of            *)
(* SECTION_SIZE, the unit of these tables, and VA_START by the 48 bits     *)
(* that index them, which are zero.                                        *)
(***************************************************************************)
EXTENDS Integers

CONSTANTS
    PTRS_PER_TABLE,     \* entries of a table
    DEVICE_BASE,        \* sections of memory
    PHYS_MEMORY_SIZE,   \* and with the devices behind it
    USE_QEMU            \* whether there is an identity map

ASSUME BootAssumption ==
    /\ PTRS_PER_TABLE \in Nat \ {0}
    /\ DEVICE_BASE \in Nat \ {0}
    /\ PHYS_MEMORY_SIZE \in Nat
    /\ DEVICE_BASE < PHYS_MEMORY_SIZE
    /\ PHYS_MEMORY_SIZE <= PTRS_PER_TABLE
    /\ USE_QEMU \in BOOLEAN

VA_START == 0

Index   == 0 .. PTRS_PER_TABLE - 1
Section == 0 .. PHYS_MEMORY_SIZE - 1
Tree    == {"idmap_dir", "pg_dir"}
Table   == {"PGD", "PUD", "PMD"}      \* the three pages of a tree, in order

\* What an entry can be: whatever the memory held, nothing, the next table of
\* the tree, or a section of physical memory.
Entry ==
    {[to |-> "junk"], [to |-> "nothing"], [to |-> "PUD"], [to |-> "PMD"]}
    \cup [to : {"section"}, phys : Nat, type : {"NORMAL_NC", "DEVICE_nGnRnE"}]

VARIABLES
    at,          \* what boot.S is about to do
    dir,         \* the tree it builds
    phys, start, end, type,    \* the registers of create_block_map
    entry        \* of each tree, table and index

vars == <<at, dir, phys, start, end, type, entry>>

TypeOK ==
    /\ at \in {"create_tables", "kernel", "devices", "block", "mmu"}
    /\ dir \in Tree
    /\ phys \in Nat /\ start \in Nat /\ end \in Index
    /\ type \in {"NORMAL_NC", "DEVICE_nGnRnE"}
    /\ entry \in [Tree -> [Table -> [Index -> Entry]]]

Init ==
    /\ at = "create_tables"
    /\ dir = IF USE_QEMU THEN "idmap_dir" ELSE "pg_dir"
    /\ phys = 0 /\ start = 0 /\ end = 0
    /\ type = "NORMAL_NC"
    /\ entry = [t \in Tree |-> [k \in Table |-> [i \in Index |-> [to |-> "junk"]]]]

\* Bits of an address that index the PGD, the PUD and the PMD.
PGD(va) == (va \div (PTRS_PER_TABLE * PTRS_PER_TABLE)) % PTRS_PER_TABLE
PUD(va) == (va \div PTRS_PER_TABLE) % PTRS_PER_TABLE
PMD(va) == va % PTRS_PER_TABLE

\* Slip: the end is not cut down to an index.
Block_NoMask(from, first, last, kind) ==
    /\ phys' = from
    /\ start' = PMD(first)
    /\ end' = last
    /\ type' = kind

\* The arguments of create_block_map; both ends are turned into an index.
Block(from, first, last, kind) ==
    /\ phys' = from
    /\ start' = PMD(first)
    /\ end' = PMD(last)
    /\ type' = kind

\* Slip: the pages of the tree are not cleared.
create_pgd_entry_NotCleared(va) ==
    entry' = [entry EXCEPT ![dir] = [@ EXCEPT
                 !["PGD"][PGD(va)] = [to |-> "PUD"],
                 !["PUD"][PUD(va)] = [to |-> "PMD"]]]

\* memzero over the three pages, and create_pgd_entry for the only entry of
\* the first two.
create_pgd_entry(va) ==
    entry' = [entry EXCEPT ![dir] =
        [k \in Table |-> [i \in Index |->
            IF k = "PGD" /\ i = PGD(va) THEN [to |-> "PUD"]
            ELSE IF k = "PUD" /\ i = PUD(va) THEN [to |-> "PMD"]
            ELSE [to |-> "nothing"]]]]

__create_idmap ==
    /\ at = "create_tables" /\ dir = "idmap_dir"
    /\ create_pgd_entry(0)
    /\ Block(0, 0, PHYS_MEMORY_SIZE, "NORMAL_NC")
    /\ at' = "block"
    /\ UNCHANGED dir

__create_page_tables ==
    /\ at = "create_tables" /\ dir = "pg_dir"
    /\ create_pgd_entry(VA_START)
    /\ Block(0, VA_START, VA_START + DEVICE_BASE - 1, "NORMAL_NC")
    /\ at' = "block"
    /\ UNCHANGED dir

\* Slip: the devices start where memory ends, one section early.
map_devices_Early ==
    /\ at = "devices"
    /\ Block(DEVICE_BASE - 1, VA_START + DEVICE_BASE - 1,
             VA_START + PHYS_MEMORY_SIZE - 1, "DEVICE_nGnRnE")
    /\ at' = "block"
    /\ UNCHANGED <<dir, entry>>

map_devices ==
    /\ at = "devices"
    /\ Block(DEVICE_BASE, VA_START + DEVICE_BASE,
             VA_START + PHYS_MEMORY_SIZE - 1, "DEVICE_nGnRnE")
    /\ at' = "block"
    /\ UNCHANGED <<dir, entry>>

\* One turn of create_block_map, which compares after it has stored.
create_block_map ==
    /\ at = "block"
    /\ entry' = [entry EXCEPT ![dir]["PMD"][start] =
                    [to |-> "section", phys |-> phys, type |-> type]]
    /\ start' = start + 1
    /\ phys' = phys + 1
    /\ IF start' <= end
       THEN UNCHANGED <<at, dir>>
       ELSE CASE dir = "idmap_dir" -> at' = "create_tables" /\ dir' = "pg_dir"
              [] dir = "pg_dir" /\ type = "NORMAL_NC" ->
                     at' = "devices" /\ UNCHANGED dir
              [] dir = "pg_dir" /\ type = "DEVICE_nGnRnE" ->
                     at' = "mmu" /\ UNCHANGED dir
    /\ UNCHANGED <<end, type>>

\* The MMU is on and kernel_main runs.
kernel_main == at = "mmu" /\ UNCHANGED vars

Next ==
    \/ __create_idmap \/ __create_page_tables \/ map_devices
    \/ create_block_map \/ kernel_main

Spec == Init /\ [][Next]_vars /\ WF_vars(Next)

-----------------------------------------------------------------------------
\* What the MMU finds for an address, walking the three tables.
Translate(tree, va) ==
    LET pgd == entry[tree]["PGD"][PGD(va)]
        pud == entry[tree]["PUD"][PUD(va)]
    IN  IF pgd.to # "PUD" THEN pgd
        ELSE IF pud.to # "PMD" THEN pud
        ELSE entry[tree]["PMD"][PMD(va)]

\* With the MMU on, every address of the kernel leads to the memory or the
\* device it is named after, with the attributes of its kind, and no address
\* beyond them leads anywhere, whatever was in memory before.  The code that
\* turns it on goes on at its physical address, in the first section, and
\* what else the identity map has leads to itself.  How much that is, is not
\* said: at the sizes of the build it is nothing, since its end wraps to
\* index 0 (boot.S:61-103, 160-205).
MmuSafe ==
    at = "mmu" =>
        /\ \A va \in 0 .. 2 * PTRS_PER_TABLE - 1 :
              Translate("pg_dir", VA_START + va) =
                  IF va \in Section
                  THEN [to |-> "section", phys |-> va,
                        type |-> IF va < DEVICE_BASE THEN "NORMAL_NC"
                                 ELSE "DEVICE_nGnRnE"]
                  ELSE [to |-> "nothing"]
        /\ USE_QEMU => Translate("idmap_dir", 0) =
              [to |-> "section", phys |-> 0, type |-> "NORMAL_NC"]
        /\ USE_QEMU => \A va \in 0 .. 2 * PTRS_PER_TABLE - 1 :
              Translate("idmap_dir", va) \in
                  {[to |-> "nothing"],
                   [to |-> "section", phys |-> va, type |-> "NORMAL_NC"]}

\* The maps of memory and of the devices do not overlap: no section is
\* mapped twice (boot.S:193-203).
MappedOnce ==
    [][\A tree \in Tree, i \in Index :
         entry[tree]["PMD"][i].to = "section"
            => entry'[tree]["PMD"][i] = entry[tree]["PMD"][i]]_vars
=============================================================================
