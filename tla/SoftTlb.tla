------------------------------- MODULE SoftTlb -------------------------------
(***************************************************************************)
(* What the hypervisor promises of address translation: it behaves as a    *)
(* TLB.  A translation that is cached was read from the table of the       *)
(* context in force; a cached translation is never replaced, only dropped  *)
(* with all the others; and the context (the address space and the         *)
(* privilege mode) changes only together with a flush.  The tables may     *)
(* change under the cache at any time, which is why a guest has to fence.  *)
(***************************************************************************)
CONSTANTS
    Pages,      \* the virtual pages a translation can be cached for
    Space,      \* address spaces
    Mode,       \* privilege modes
    Entry,      \* translations
    Empty       \* the absence of one

VARIABLES
    table,      \* the tables: [Space -> [Pages -> Entry or Empty]]
    space,      \* the address space in force
    mode,       \* the privilege mode in force
    tlb         \* the cached translations: [Pages -> Entry or Empty]

tlbvars == <<table, space, mode, tlb>>

Init == /\ table \in [Space -> [Pages -> Entry \cup {Empty}]]
        /\ space \in Space
        /\ mode \in Mode
        /\ tlb \in [Pages -> Entry \cup {Empty}]
        /\ \A p \in Pages : tlb[p] \in {Empty, table[space][p]}

Fill(p) == /\ tlb[p] = Empty
           /\ table[space][p] # Empty
           /\ tlb' = [tlb EXCEPT ![p] = table[space][p]]
           /\ UNCHANGED <<table, space, mode>>

Flush(s, m) == /\ tlb' = [p \in Pages |-> Empty]
               /\ space' = s
               /\ mode' = m
               /\ UNCHANGED table

Update(s, p, e) == /\ table' = [table EXCEPT ![s][p] = e]
                   /\ UNCHANGED <<space, mode, tlb>>

Next == \/ \E p \in Pages : Fill(p)
        \/ \E s \in Space, m \in Mode : Flush(s, m)
        \/ \E s \in Space, p \in Pages, e \in Entry \cup {Empty} : Update(s, p, e)

Spec == Init /\ [][Next]_tlbvars
=============================================================================
