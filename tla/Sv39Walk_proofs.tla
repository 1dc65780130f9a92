--------------------------- MODULE Sv39Walk_proofs ---------------------------
(***************************************************************************)
(* Proofs about the walk, for every size of tables and RAM and for every   *)
(* contents of RAM: the invariant Sofar says that what is left of the      *)
(* translation, from the table the loop has reached, is all of it.         *)
(***************************************************************************)
EXTENDS Sv39Walk, TLAPS

\* The translation from the table in page t on, at a level of the loop.
Rest(l, t, right) == IF l = 0 THEN Sv39Level0(t, right)
                     ELSE IF l = 1 THEN Sv39Level1(t, right)
                     ELSE Sv39Level2(t, right)

\* In the loop, the rest of the walk gives the answer of the whole.
Sofar == level >= 0 => /\ ~ bare
                       /\ sign_extended(va)
                       /\ \A right \in Right :
                             Rest(level, pt_addr, right) = Sv39Level0(root, right)

Inv == TypeOK /\ Sofar /\ WalkIsSv39

USE DEF Index, Right

-----------------------------------------------------------------------------
(* The indices and the entry of the loop *)

(***************************************************************************)
(* A remainder of Radix indexes a table: each field that vpn takes of a    *)
(* page number is one.                                                     *)
(***************************************************************************)
LEMMA RemainderIsIndex ==
    ASSUME NEW n \in Nat PROVE n % Radix \in Index
BY WalkAssumption

(***************************************************************************)
(* The fields of a virtual page number are indices of a table.             *)
(***************************************************************************)
LEMMA VpnIsIndex ==
    ASSUME NEW v \in Vpn, NEW l \in 0 .. 2 PROVE vpn(v, l) \in Index
<1>1. v \in Nat /\ v \div Radix \in Nat
  BY WalkAssumption DEF Vpn
<1>2. Radix * Radix \in Nat \ {0}
  BY WalkAssumption
<1>3. v \div (Radix * Radix) \in Nat
  <2> DEFINE n == Radix * Radix
  <2>1. n \in Nat \ {0}
    BY <1>2
  <2> HIDE DEF n
  <2>2. v \div n \in Nat
    BY <2>1, <1>1
  <2> QED BY <2>2 DEF n
<1>4. l = 0 \/ l = 1 \/ l = 2
  OBVIOUS
<1> QED
  BY <1>1, <1>3, <1>4, RemainderIsIndex DEF vpn

(***************************************************************************)
(* In the loop, with the table in RAM, the word read is an entry.          *)
(***************************************************************************)
LEMMA EntryType ==
    ASSUME TypeOK, level >= 0, pt_addr \in RamPage
    PROVE  entry \in [flags : SUBSET (Right \cup {"V"}), ppn : Ppn]
<1>1. level \in 0 .. 2
  BY DEF TypeOK
<1>2. vpn(va, level) \in Index
  BY <1>1, VpnIsIndex DEF TypeOK
<1>3. ram[pt_addr] \in [Index -> Entry]
  BY DEF TypeOK
<1>4. entry \in Entry
  BY <1>2, <1>3 DEF entry
<1> QED
  BY <1>4, WalkAssumption

(***************************************************************************)
(* What the levels of Sv39 read is the loop's entry.                       *)
(***************************************************************************)
LEMMA SameEntry ==
    ASSUME TypeOK, level >= 0, pt_addr \in RamPage, NEW right \in Right
    PROVE  Rest(level, pt_addr, right) =
             IF Reserved(entry) THEN Fault
             ELSE IF level = 2
                  THEN IF IsLeaf(entry) /\ right \in entry.flags
                       THEN Frame(entry.ppn) ELSE Fault
                  ELSE IF IsLeaf(entry) THEN Superpage
                       ELSE Rest(level + 1, entry.ppn, right)
<1>1. CASE level = 0
  <2>1. entry = ram[pt_addr][(va \div (Radix * Radix)) % Radix]
    BY <1>1 DEF entry, vpn
  <2>2. Rest(level, pt_addr, right) = Sv39Level0(pt_addr, right)
    BY <1>1 DEF Rest
  <2>3. Rest(level + 1, entry.ppn, right) = Sv39Level1(entry.ppn, right)
    BY <1>1 DEF Rest
  <2> QED BY <1>1, <2>1, <2>2, <2>3 DEF Sv39Level0
<1>2. CASE level = 1
  <2>1. entry = ram[pt_addr][(va \div Radix) % Radix]
    BY <1>2 DEF entry, vpn
  <2>2. Rest(level, pt_addr, right) = Sv39Level1(pt_addr, right)
    BY <1>2 DEF Rest
  <2>3. Rest(level + 1, entry.ppn, right) = Sv39Level2(entry.ppn, right)
    BY <1>2 DEF Rest
  <2> QED BY <1>2, <2>1, <2>2, <2>3 DEF Sv39Level1
<1>3. CASE level = 2
  <2>1. entry = ram[pt_addr][va % Radix]
    BY <1>3 DEF entry, vpn
  <2>2. Rest(level, pt_addr, right) = Sv39Level2(pt_addr, right)
    BY <1>3 DEF Rest
  <2> QED BY <1>3, <2>1, <2>2 DEF Sv39Level2
<1> QED
  BY <1>1, <1>2, <1>3 DEF TypeOK

(***************************************************************************)
(* A table outside RAM is an access fault of Sv39, at every level.         *)
(***************************************************************************)
LEMMA OutsideRam ==
    ASSUME TypeOK, level >= 0, pt_addr \notin RamPage, NEW right \in Right
    PROVE  Rest(level, pt_addr, right) = AccessFault
<1>1. level = 0 \/ level = 1 \/ level = 2
  BY DEF TypeOK
<1> QED
  BY <1>1 DEF Rest, Sv39Level0, Sv39Level1, Sv39Level2

(***************************************************************************)
(* A canonical address passes the code's test of its sign extension, which *)
(* is one bit too wide.                                                    *)
(***************************************************************************)
LEMMA CanonicalIsSignExtended ==
    ASSUME NEW v \in Vpn, Canonical(v) PROVE sign_extended(v)
<1>1. VpnSv39 \in Nat
  BY WalkAssumption DEF VpnSv39
<1>2. v \in Nat /\ VpnSpace \in Nat
  BY WalkAssumption DEF Vpn
<1> QED
  BY <1>1, <1>2 DEF Canonical, sign_extended

-----------------------------------------------------------------------------

(***************************************************************************)
(* The definitions of Sv39 look only at ram, va and root, which no step    *)
(* changes.                                                                *)
(***************************************************************************)
LEMMA SameTables ==
    ASSUME UNCHANGED <<ram, va, root>>, NEW right
    PROVE  /\ \A l, t : level' = l /\ pt_addr' = t =>
                 Rest(level, pt_addr, right)' = Rest(l, t, right)
           /\ Sv39(right)' = Sv39(right)
           /\ Sv39Level0(root, right)' = Sv39Level0(root, right)
<1>1. \A l, t : level' = l /\ pt_addr' = t =>
                 Rest(level, pt_addr, right)' = Rest(l, t, right)
  BY DEF Rest, Sv39Level0, Sv39Level1, Sv39Level2
<1>2. Sv39Level0(root, right)' = Sv39Level0(root, right)
  BY DEF Sv39Level0, Sv39Level1, Sv39Level2
<1>3. Sv39(right)' = Sv39(right)
  BY <1>2 DEF Sv39, Canonical
<1> QED
  BY <1>1, <1>2, <1>3

(***************************************************************************)
(* A step that returns an outcome keeps the loop where it is.              *)
(***************************************************************************)
LEMMA ReturnKeeps ==
    ASSUME Inv, NEW o \in Outcome, Return(o)
    PROVE  TypeOK' /\ Sofar' /\ result' = o
           /\ sign_extended(va)' = sign_extended(va)
           /\ Canonical(va)' = Canonical(va)
           /\ bare' = bare
<1> USE DEF Return
<1>1. TypeOK'
  BY DEF Inv, TypeOK
<1>2. sign_extended(va)' = sign_extended(va) /\ Canonical(va)' = Canonical(va)
  BY DEF sign_extended, Canonical
<1>3. Sofar'
  <2>1. ASSUME NEW right \in Right, level >= 0
        PROVE  Rest(level, pt_addr, right)' = Sv39Level0(root, right)'
    BY <2>1, SameTables DEF Inv, Sofar
  <2> QED BY <2>1, <1>2 DEF Inv, Sofar
<1> QED
  BY <1>1, <1>2, <1>3

(***************************************************************************)
(* The outcomes that carry no entry.                                       *)
(***************************************************************************)
LEMMA StopType ==
    ASSUME NEW k \in {"walking", "bare", "invalid", "broken"}
    PROVE  Stop(k) \in Outcome /\ Stop(k).kind = k
BY DEF Stop, Outcome

(***************************************************************************)
(* In the loop the answer of Sv39 to a canonical address is the rest.      *)
(***************************************************************************)
LEMMA LoopAnswer ==
    ASSUME Inv, Loop, Canonical(va), NEW right \in Right
    PROVE  Sv39(right) = Rest(level, pt_addr, right)
BY DEF Inv, Loop, Sofar, Sv39

\* The answers that agree.
LEMMA AgreesCases ==
    /\ Agrees(Fault, Fault) /\ Agrees(Stopped, AccessFault) /\ Agrees(Stopped, Superpage)
    /\ Agrees(Stopped, Fault)
    /\ Fault # Stopped /\ AccessFault # Fault /\ Superpage # Fault
    /\ \A p : /\ Agrees(Frame(p), Frame(p)) /\ Frame(p) # Stopped
              /\ Agrees(Outside(p), Fault) /\ Agrees(Outside(p), Frame(p))
              /\ Outside(p) # Stopped
BY DEF Agrees, Fault, Stopped, AccessFault, Superpage, Frame, Outside

\* The conclusion of WalkIsSv39 for one access, after a step.
Same(mode, right) == /\ Agrees(Answer(mode, right), Sv39(right))
                     /\ mode = "U" /\ Answer(mode, right) = Stopped => Sv39(right) # Fault

LEMMA SameAfter ==
    ASSUME NEW mode, NEW right, NEW stub, NEW arch,
           Answer(mode, right)' = stub, Sv39(right)' = arch,
           Agrees(stub, arch), mode = "U" /\ stub = Stopped => arch # Fault
    PROVE  Same(mode, right)'
BY DEF Same, Agrees, Fault, Stopped, Frame

\* Bare mode returns at once.
LEMMA NoTranslationStep == ASSUME Inv, NoTranslation PROVE Inv'
<1>1. Return(Stop("bare")) /\ bare
  BY DEF NoTranslation
<1>2. result'.kind = "bare"
  BY <1>1, StopType DEF Return
<1> QED
  BY <1>1, <1>2, StopType, ReturnKeeps DEF Inv, WalkIsSv39

\* An address that fails the test of its sign extension has no translation.
LEMMA NotSignExtendedStep == ASSUME Inv, NotSignExtended PROVE Inv'
<1>1. Return(Stop("invalid")) /\ ~ bare /\ ~ sign_extended(va)
  BY DEF NotSignExtended
<1>2. result'.kind = "invalid" /\ TypeOK' /\ Sofar' /\ bare' = bare
  BY <1>1, StopType, ReturnKeeps
<1>3. ~ Canonical(va)
  BY <1>1, CanonicalIsSignExtended DEF Inv, TypeOK
<1>4. ASSUME NEW mode \in {"S", "U"}, NEW right \in Right
      PROVE  Sv39(right)' = Fault /\ Answer(mode, right)' = Fault
  <2>1. Sv39(right)' = Fault
    BY <1>1, <1>3, SameTables DEF Return, Sv39
  <2> QED BY <1>2, <2>1 DEF Answer
<1>5. ASSUME NEW mode \in {"S", "U"}, NEW right \in Right PROVE Same(mode, right)'
  BY <1>4, SameAfter, AgreesCases
<1> QED
  BY <1>1, <1>2, <1>5 DEF Inv, WalkIsSv39, Same

\* The walk starts at the root.
LEMMA StartStep == ASSUME Inv, Start PROVE Inv'
<1> USE DEF Start, Enter
<1>1. TypeOK'
  BY WalkAssumption DEF Inv, TypeOK
<1>2. Sofar'
  <2>1. sign_extended(va)' /\ ~ bare'
    BY DEF sign_extended
  <2>2. ASSUME NEW right \in Right
        PROVE  Rest(level, pt_addr, right)' = Sv39Level0(root, right)'
    <3>1. Rest(level, pt_addr, right)' = Rest(0, root, right)
      BY SameTables
    <3> QED BY <3>1, SameTables DEF Rest
  <2> QED BY <2>1, <2>2 DEF Sofar
<1> QED
  BY <1>1, <1>2 DEF Inv, WalkIsSv39

\* The end at a table outside RAM.
LEMMA TableOutsideRamStep == ASSUME Inv, TableOutsideRam PROVE Inv'
<1>1. Return(Stop("broken")) /\ Loop /\ pt_addr \notin RamPage
  BY DEF TableOutsideRam
<1>2. result'.kind = "broken" /\ TypeOK' /\ Sofar' /\ bare' = bare
      /\ Canonical(va)' = Canonical(va) /\ sign_extended(va)' = sign_extended(va)
  BY <1>1, StopType, ReturnKeeps
<1>3. sign_extended(va) /\ ~ bare
  BY <1>1 DEF Inv, Loop, Sofar
<1>4. ASSUME NEW mode \in {"S", "U"}, NEW right \in Right, Canonical(va)
      PROVE  Sv39(right)' = AccessFault /\ Answer(mode, right)' = Stopped
  <2>1. Sv39(right) = AccessFault
    BY <1>1, <1>4, LoopAnswer, OutsideRam DEF Inv, Loop
  <2>2. Answer(mode, right)' = Stopped
    BY <1>2 DEF Answer
  <2> QED BY <1>1, <2>1, <2>2, SameTables DEF Return
<1>5. ASSUME NEW mode \in {"S", "U"}, NEW right \in Right, Canonical(va)
      PROVE  Same(mode, right)'
  BY <1>4, <1>5, SameAfter, AgreesCases
<1> QED
  BY <1>2, <1>3, <1>5 DEF Inv, WalkIsSv39, Same

\* The end at an entry that is not valid or reserved.
LEMMA RejectStep == ASSUME Inv, Reject PROVE Inv'
<1>1. Return(Stop("invalid")) /\ Loop /\ pt_addr \in RamPage /\ rejected(entry)
  BY DEF Reject
<1>2. result'.kind = "invalid" /\ TypeOK' /\ Sofar' /\ bare' = bare
      /\ Canonical(va)' = Canonical(va) /\ sign_extended(va)' = sign_extended(va)
  BY <1>1, StopType, ReturnKeeps
<1>3. sign_extended(va) /\ ~ bare
  BY <1>1 DEF Inv, Loop, Sofar
<1>4. ASSUME NEW mode \in {"S", "U"}, NEW right \in Right, Canonical(va)
      PROVE  Sv39(right)' = Fault /\ Answer(mode, right)' = Fault
  <2>1. Reserved(entry)
    BY <1>1 DEF rejected, Reserved
  <2>2. Sv39(right) = Fault
    BY <1>1, <1>4, <2>1, LoopAnswer, SameEntry DEF Inv, Loop
  <2> QED BY <1>1, <1>2, <2>2, SameTables DEF Return, Answer
<1>5. ASSUME NEW mode \in {"S", "U"}, NEW right \in Right, Canonical(va)
      PROVE  Same(mode, right)'
  BY <1>4, <1>5, SameAfter, AgreesCases
<1> QED
  BY <1>2, <1>3, <1>5 DEF Inv, WalkIsSv39, Same

\* The end at a leaf above the last level.
LEMMA LargePageStep == ASSUME Inv, LargePage PROVE Inv'
<1>1. Return(Stop("broken")) /\ Accepted /\ level < 2 /\ (fl("R") \/ fl("W") \/ fl("X"))
  BY DEF LargePage
<1>2. Loop /\ pt_addr \in RamPage /\ ~ rejected(entry)
  BY <1>1 DEF Accepted
<1>3. result'.kind = "broken" /\ TypeOK' /\ Sofar' /\ bare' = bare
      /\ Canonical(va)' = Canonical(va) /\ sign_extended(va)' = sign_extended(va)
  BY <1>1, StopType, ReturnKeeps
<1>4. sign_extended(va) /\ ~ bare
  BY <1>2 DEF Inv, Loop, Sofar
<1>5. ASSUME NEW mode \in {"S", "U"}, NEW right \in Right, Canonical(va)
      PROVE  Sv39(right)' = Superpage /\ Answer(mode, right)' = Stopped
  <2>1. IsLeaf(entry) /\ ~ Reserved(entry)
    BY <1>1, <1>2 DEF rejected, Reserved, IsLeaf, fl
  <2>2. level # 2
    BY <1>1 DEF Inv, TypeOK
  <2>3. Sv39(right) = Superpage
    BY <1>2, <1>5, <2>1, <2>2, LoopAnswer, SameEntry DEF Inv, Loop
  <2>4. Answer(mode, right)' = Stopped
    BY <1>3 DEF Answer
  <2> QED BY <1>1, <2>3, <2>4, SameTables DEF Return
<1>6. ASSUME NEW mode \in {"S", "U"}, NEW right \in Right, Canonical(va)
      PROVE  Same(mode, right)'
  BY <1>5, <1>6, SameAfter, AgreesCases
<1> QED
  BY <1>3, <1>4, <1>6 DEF Inv, WalkIsSv39, Same

\* One level down: the rest of the walk is still all of it.
LEMMA DescendStep == ASSUME Inv, Descend PROVE Inv'
<1>1. Loop /\ pt_addr \in RamPage /\ ~ rejected(entry)
  BY DEF Descend, Accepted
<1>2. /\ level < 2 /\ level' = level + 1 /\ pt_addr' = entry.ppn
      /\ UNCHANGED <<ram, bare, root, va, result>>
      /\ ~ (fl("R") \/ fl("W") \/ fl("X"))
  BY DEF Descend
<1>3. entry.ppn \in Nat
  BY <1>1, EntryType, WalkAssumption DEF Inv, Loop
<1>4. TypeOK'
  BY <1>1, <1>2, <1>3 DEF Inv, TypeOK, Loop
<1>5. sign_extended(va)' /\ ~ bare'
  BY <1>1, <1>2 DEF Inv, Loop, Sofar, sign_extended
<1>6. ASSUME NEW right \in Right
      PROVE  Rest(level, pt_addr, right)' = Sv39Level0(root, right)'
  <2>1. ~ IsLeaf(entry) /\ ~ Reserved(entry)
    BY <1>1, <1>2 DEF rejected, Reserved, IsLeaf, fl
  <2>2. level # 2
    BY <1>2 DEF Inv, TypeOK
  <2>3. Rest(level, pt_addr, right) = Rest(level + 1, entry.ppn, right)
    BY <1>1, <2>1, <2>2, SameEntry DEF Inv, Loop
  <2>4. Rest(level, pt_addr, right) = Sv39Level0(root, right)
    BY <1>1 DEF Inv, Loop, Sofar
  <2>5. Rest(level, pt_addr, right)' = Rest(level + 1, entry.ppn, right)
    BY <1>2, SameTables
  <2> QED BY <1>2, <2>3, <2>4, <2>5, SameTables
<1>7. Sofar'
  BY <1>5, <1>6 DEF Sofar
<1> QED
  BY <1>1, <1>2, <1>4, <1>7 DEF Inv, Loop, WalkIsSv39

\* The last level; an entry with V alone is returned and denies everything.
LEMMA LeafFoundStep == ASSUME Inv, LeafFound PROVE Inv'
<1> DEFINE o == [kind |-> "leaf", flags |-> entry.flags \cap Right, ppn |-> entry.ppn]
<1>1. Return(o) /\ Accepted /\ level = 2
  BY DEF LeafFound
<1>2. Loop /\ pt_addr \in RamPage /\ ~ rejected(entry)
  BY <1>1 DEF Accepted
<1>3. o \in Outcome
  BY <1>2, EntryType, WalkAssumption DEF Inv, Loop, Outcome
<1>4. result' = o /\ TypeOK' /\ Sofar' /\ bare' = bare
      /\ Canonical(va)' = Canonical(va) /\ sign_extended(va)' = sign_extended(va)
  BY <1>1, <1>3, ReturnKeeps
<1>5. sign_extended(va) /\ ~ bare
  BY <1>2 DEF Inv, Loop, Sofar
<1>6. ASSUME NEW mode \in {"S", "U"}, NEW right \in Right, Canonical(va)
      PROVE  Same(mode, right)'
  <2>1. ~ Reserved(entry)
    BY <1>2 DEF rejected, Reserved
  <2>2. Sv39(right) = IF IsLeaf(entry) /\ right \in entry.flags
                      THEN Frame(entry.ppn) ELSE Fault
    BY <1>1, <1>2, <1>6, <2>1, LoopAnswer, SameEntry DEF Inv, Loop
  <2>3. right \in entry.flags => IsLeaf(entry)
    BY <2>1 DEF Reserved, IsLeaf
  <2>4. Sv39(right)' = IF right \in entry.flags THEN Frame(entry.ppn) ELSE Fault
    BY <1>1, <2>2, <2>3, SameTables DEF Return
  <2>5. Answer(mode, right)' = IF entry.ppn \notin RamPage THEN Outside(entry.ppn)
                               ELSE IF right \in entry.flags THEN Frame(entry.ppn)
                               ELSE IF mode = "S" THEN Stopped ELSE Fault
    BY <1>4 DEF Answer
  <2> QED BY <2>4, <2>5, SameAfter, AgreesCases
<1>7. result'.kind = "leaf"
  BY <1>4
<1> QED
  BY <1>4, <1>5, <1>6, <1>7 DEF Inv, WalkIsSv39, Same

\* Nothing happens.
LEMMA StutterStep == ASSUME Inv, UNCHANGED vars PROVE Inv'
<1>1. TypeOK'
  BY DEF Inv, vars, TypeOK
<1>2. sign_extended(va)' = sign_extended(va) /\ Canonical(va)' = Canonical(va)
  BY DEF vars, sign_extended, Canonical
<1>3. ASSUME NEW mode \in {"S", "U"}, NEW right \in Right
      PROVE  /\ Rest(level, pt_addr, right)' = Rest(level, pt_addr, right)
             /\ Sv39(right)' = Sv39(right)
             /\ Sv39Level0(root, right)' = Sv39Level0(root, right)
             /\ Answer(mode, right)' = Answer(mode, right)
  BY SameTables DEF vars, Answer
<1>4. Sofar'
  BY <1>2, <1>3 DEF Inv, vars, Sofar
<1>5. WalkIsSv39'
  BY <1>2, <1>3 DEF Inv, vars, WalkIsSv39
<1> QED
  BY <1>1, <1>4, <1>5 DEF Inv

-----------------------------------------------------------------------------

(***************************************************************************)
(* Every step of the walk keeps the invariant.                             *)
(***************************************************************************)
LEMMA InvInductive == Inv /\ [Next]_vars => Inv'
BY NoTranslationStep, NotSignExtendedStep, StartStep, TableOutsideRamStep, RejectStep,
   LargePageStep, DescendStep, LeafFoundStep, StutterStep DEF Next, Returned

\* The invariant holds before the walk.
LEMMA InvInit == Init => Inv
<1> SUFFICES ASSUME Init PROVE Inv
  OBVIOUS
<1>1. TypeOK
  BY StopType DEF Init, TypeOK
<1>2. result.kind = "walking" /\ ~ (level >= 0)
  BY StopType DEF Init
<1> QED
  BY <1>1, <1>2 DEF Inv, Sofar, WalkIsSv39

\* The invariant of the walk.
LEMMA Invariance == Spec => []Inv
BY InvInit, InvInductive, PTL DEF Spec

(***************************************************************************)
(* The walk stays within three levels, and an entry it follows or returns  *)
(* is one of RAM.                                                          *)
(***************************************************************************)
THEOREM TypeCorrect == Spec => []TypeOK
BY Invariance, PTL DEF Inv

(***************************************************************************)
(* lookup_pa_in_ram computes the translation of Sv39, for tables of any    *)
(* size with any contents, aliased and cyclic ones included.               *)
(***************************************************************************)
THEOREM WalkCorrect == Spec => []WalkIsSv39
BY Invariance, PTL DEF Inv
=============================================================================
