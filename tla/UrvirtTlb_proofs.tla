--------------------------- MODULE UrvirtTlb_proofs ---------------------------
(***************************************************************************)
(* The memory map of the process implements the TLB of SoftTlb, for every  *)
(* instance; and a trap can be returned from.                              *)
(***************************************************************************)
EXTENDS UrvirtStub_proofs

-----------------------------------------------------------------------------
(* The refinement *)

LEMMA TranslationType ==
    ASSUME TypeOK, NEW s \in Satp, NEW p \in HostPage
    PROVE  Translation(s, p) \in GuestMapping \cup {Unmapped}
<1>1. s.ppn \in Root
  BY DEF Satp
<1>2. p \in VPage => pt[s.ppn][p] \in Pte
  BY <1>1 DEF TypeOK
<1> QED
  BY <1>2 DEF Translation, GuestMapping, RamMap, Prot, Pte

LEMMA CachedType ==
    ASSUME TypeOK, NEW p \in HostPage
    PROVE  Cached(p) \in GuestMapping \cup {Unmapped}
  BY DEF Cached, TypeOK, Mapping, GuestMapping, Unmapped, StubMap

\* The initial identity map is a set of translations of bare mode.
LEMMA TlbInit == Init => Tlb!Init
<1> SUFFICES ASSUME Init PROVE Tlb!Init
  OBVIOUS
<1>1. TypeOK
  BY TypeInit
<1>2. hart.satp \in Satp /\ hart.priv_mode \in {PRIV_U, PRIV_S}
  BY <1>1 DEF TypeOK, Hart
<1>3. \A p \in HostPage : Cached(p) \in {Unmapped, Translation(hart.satp, p)}
  BY DEF Init, Cached, Translation, initialize_priv, Unmapped, StubMap
<1> QED
  BY <1>1, <1>2, <1>3, TranslationType, CachedType DEF Tlb!Init

\* Unmapping everything is a flush, whatever the new context.
LEMMA FlushStep ==
    ASSUME Inv, TypeOK', NEW m \in [HostPage -> Mapping],
           \A p \in StubPage : m[p] = vm[p],
           vm' = clear_vm(m), pt' = pt
    PROVE  Tlb!Next
<1>1. \A p \in HostPage : Cached(p)' = Unmapped
  BY ClearedGuest DEF Inv, Cached
<1>2. \A s \in Satp, p \in HostPage : Translation(s, p)' = Translation(s, p)
  BY DEF Translation
<1>3. hart'.satp \in Satp /\ hart'.priv_mode \in {PRIV_U, PRIV_S}
  BY DEF TypeOK, Hart
<1>4. Tlb!Flush(hart'.satp, hart'.priv_mode)
  BY <1>1, <1>2 DEF Tlb!Flush
<1> QED
  BY <1>3, <1>4 DEF Tlb!Next

\* Nothing about the translation changes.
LEMMA StutterStep ==
    ASSUME hart'.satp = hart.satp, hart'.priv_mode = hart.priv_mode,
           vm' = vm, pt' = pt
    PROVE  UNCHANGED Tlb!tlbvars
<1>1. \A s \in Satp, p \in HostPage : Translation(s, p)' = Translation(s, p)
  BY DEF Translation
<1>2. \A p \in HostPage : Cached(p)' = Cached(p)
  BY DEF Cached
<1> QED
  BY <1>1, <1>2 DEF Tlb!tlbvars

\* A page fault that is resolved is a fill from the table in force.
LEMMA FillStep ==
    ASSUME Inv, TypeOK', NEW q \in HostPage, NEW pte \in Pte, Filled(q, pte)
    PROVE  Tlb!Next
<1> DEFINE m == [vm EXCEPT ![q] = RamMap(pte.ppn, pte.flags \cap Prot)]
<1>1. m \in [HostPage -> Mapping] /\ hart \in Hart /\ vm \in [HostPage -> Mapping]
  BY FillType DEF Filled, TypeOK, Inv
<1>2. take_interrupt(hart) = hart /\ ~ hart.should_clear_vm
  BY DEF Inv, Settled, InterruptTaken, take_interrupt, Filled
<1>3. hart' = [hart EXCEPT !.should_clear_vm = FALSE] /\ vm' = m
  BY <1>2 DEF Filled, Return
<1>4. hart'.satp = hart.satp /\ hart'.priv_mode = hart.priv_mode /\ pt' = pt
  BY <1>1, <1>3 DEF Hart, Filled
<1>5. m[q] = RamMap(pte.ppn, pte.flags \cap Prot) /\ \A p \in HostPage \ {q} : m[p] = vm[p]
  BY <1>1
<1> HIDE DEF m
<1>6. Cached(q) = Unmapped
  BY DEF Filled, FreePage, Cached
<1>7. Translation(hart.satp, q) = m[q]
  BY <1>5 DEF Filled, Translation
<1>8. Translation(hart.satp, q) # Unmapped
  BY <1>5, <1>7 DEF RamMap, Unmapped
<1>9. Cached(q)' = m[q] /\ \A p \in HostPage \ {q} : Cached(p)' = Cached(p)
  BY <1>3, <1>5 DEF Cached, RamMap
<1>10. \A s \in Satp, p \in HostPage : Translation(s, p)' = Translation(s, p)
  BY <1>4 DEF Translation
<1>11. hart.satp \in Satp
  BY <1>1 DEF Hart
<1>12. Tlb!Fill(q)
  BY <1>4, <1>6, <1>7, <1>8, <1>9, <1>10, <1>11 DEF Tlb!Fill
<1> QED
  BY <1>12 DEF Tlb!Next

\* A write to the guest's tables is an update of one entry of one space.
LEMMA UpdateStep ==
    ASSUME Inv, TypeOK', TableWritten
    PROVE  Tlb!Next \/ UNCHANGED Tlb!tlbvars
<1>1. PICK r \in Table, q \in VPage, pte \in PteChoice : GuestWritePte(r, q, pte)
  BY DEF TableWritten
<1>2. pt' = [pt EXCEPT ![r][q] = pte]
  BY <1>1 DEF GuestWritePte
<1>3. hart' = hart /\ vm' = vm
  BY <1>1 DEF GuestWritePte
<1>4. r \in Root
  BY DEF Table
<1> DEFINE s0 == [mode |-> SATP_MODE_SV39, asid |-> 0, ppn |-> r]
<1>5. s0 \in Satp
  BY <1>4 DEF Satp
<1>6. ASSUME NEW s \in Satp, NEW p \in HostPage, s # s0 \/ p # q
      PROVE  Translation(s, p)' = Translation(s, p)
  <2>1. CASE s.mode = SATP_MODE_BARE
    BY <2>1 DEF Translation
  <2>2. CASE s.mode # SATP_MODE_BARE
    <3>1. s.ppn \in Root /\ (s.ppn = r => s = s0)
      BY <2>2 DEF Satp
    <3>2. p \in VPage => pt'[s.ppn][p] = pt[s.ppn][p]
      BY <1>2, <1>4, <1>6, <3>1 DEF Inv, TypeOK
    <3> QED
      BY <2>2, <3>2 DEF Translation
  <2> QED
    BY <2>1, <2>2
<1>7. \A p \in HostPage : Cached(p)' = Cached(p)
  BY <1>3 DEF Cached
<1>8. CASE q \notin HostPage
  <2>1. \A s \in Satp, p \in HostPage : Translation(s, p)' = Translation(s, p)
    BY <1>6, <1>8
  <2> QED
    BY <1>3, <1>7, <2>1 DEF Tlb!tlbvars
<1>9. CASE q \in HostPage
  <2> DEFINE e == Translation(s0, q)'
  <2>1. e \in GuestMapping \cup {Unmapped}
    <3>1. pt'[r][q] \in Pte
      BY <1>4 DEF TypeOK
    <3> QED
      BY <3>1 DEF Translation, GuestMapping, RamMap, Prot, Pte, SATP_MODE_SV39, SATP_MODE_BARE
  <2> HIDE DEF s0
  <2>2. Tlb!Update(s0, q, e)
    BY <1>3, <1>5, <1>6, <1>7, <1>9 DEF Tlb!Update
  <2> QED
    BY <1>5, <1>9, <2>1, <2>2 DEF Tlb!Next
<1> QED
  BY <1>8, <1>9

LEMMA TlbStep ==
    ASSUME Inv, Inv', [Next]_vars
    PROVE  [Tlb!Next]_(Tlb!tlbvars)
<1>1. TypeOK /\ TypeOK' /\ vm \in [HostPage -> Mapping]
  BY DEF Inv, TypeOK
<1>2. CASE UNCHANGED vars
  BY <1>2, StutterStep DEF vars
<1>3. ASSUME NEW h \in Hart, NEW fence \in BOOLEAN, Returned(h, fence)
      PROVE  [Tlb!Next]_(Tlb!tlbvars)
  <2>1. /\ pt' = pt
        /\ \/ vm' = clear_vm(vm)
           \/ /\ vm' = vm
              /\ hart'.satp = hart.satp
              /\ hart'.priv_mode = hart.priv_mode
    BY <1>1, <1>3, ReturnFacts DEF Returned
  <2> QED
    BY <1>1, <2>1, FlushStep, StutterStep
<1>4. CASE \E p \in HostPage, pte \in Pte : Filled(p, pte)
  BY <1>1, <1>4, FillStep
<1>5. CASE Ended
  BY <1>5, StutterStep DEF Ended
<1>6. CASE TableWritten
  BY <1>1, <1>6, UpdateStep
<1>7. CASE Undisturbed
  <2>1. hart'.satp = hart.satp /\ hart'.priv_mode = hart.priv_mode
    BY <1>1, <1>7 DEF Undisturbed, TypeOK, Hart
  <2> QED
    BY <1>7, <2>1, StutterStep DEF Undisturbed
<1> QED
  BY <1>1, <1>2, <1>3, <1>4, <1>5, <1>6, <1>7, NextShape DEF Shape

(***************************************************************************)
(* The hypervisor's use of mmap and munmap is a TLB: every behaviour of    *)
(* the stub, seen through its memory map, is one of SoftTlb.               *)
(***************************************************************************)
THEOREM TlbRefinement == Spec => TlbImplemented
<1>1. Inv /\ Inv' /\ [Next]_vars => [Tlb!Next]_(Tlb!tlbvars)
  BY TlbStep
<1> QED
  BY <1>1, TlbInit, InvHolds, PTL DEF Spec, TlbImplemented, Tlb!Spec

-----------------------------------------------------------------------------
(* Traps *)

LEMMA SretUndoesTrap ==
    ASSUME NEW h \in Hart, NEW scause, NEW stval
    PROVE  LET r == sret(enter_trap(h, scause, stval))
           IN  /\ r.pc = h.pc
               /\ r.priv_mode = h.priv_mode
               /\ "SIE" \in r.sstatus <=> "SIE" \in h.sstatus
  BY DEF sret, enter_trap, Hart, SetBit, PRIV_S, PRIV_U

(***************************************************************************)
(* sret undoes enter_trap in every reachable state of the hart.            *)
(***************************************************************************)
THEOREM TrapReturnsAlways == Spec => []TrapReturns
<1>1. TypeOK => TrapReturns
  BY SretUndoesTrap DEF TypeOK, TrapReturns
<1> QED
  BY <1>1, TypeCorrect, PTL
=============================================================================
