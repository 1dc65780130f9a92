------------------------------ MODULE Sv39Walk ------------------------------
(***************************************************************************)
(* lookup_pa_in_ram: the page table walk the stub does in software, over   *)
(* the doublewords of the emulated RAM, and the Sv39 translation of the    *)
(* privileged architecture to compare it with.                             *)
(*                                                                         *)
(* Addresses are page numbers: the offset is copied through.  Nothing      *)
(* writes RAM during a walk, but its contents are arbitrary: tables may    *)
(* share pages, point to themselves or point anywhere.                     *)
(***************************************************************************)
EXTENDS Integers

CONSTANTS
    Radix,              \* entries of a table: 512, the doublewords of a page
    VpnSpace,           \* virtual page numbers of a 64-bit address: 2^52
    RamFirst, RamEnd,   \* page numbers of the emulated RAM: [First, End)
    Ppn,                \* page numbers that satp and the entries hold
    Entry               \* what the words of RAM hold, read as entries

Right   == {"R", "W", "X"}
Index   == 0 .. (Radix - 1)
RamPage == RamFirst .. (RamEnd - 1)
Vpn     == 0 .. (VpnSpace - 1)

\* The virtual page numbers of Sv39: 27 bits.
VpnSv39 == Radix * Radix * Radix

ASSUME WalkAssumption ==
    /\ Radix \in Nat \ {0} /\ VpnSpace \in Nat
    /\ RamFirst \in Nat /\ RamEnd \in Nat
    /\ Ppn \subseteq Nat
    /\ Entry \subseteq [flags : SUBSET (Right \cup {"V"}), ppn : Ppn]

Outcome == [kind : {"walking", "bare", "invalid", "broken", "leaf"},
            flags : SUBSET Right, ppn : Nat]

Stop(kind) == [kind |-> kind, flags |-> {}, ppn |-> 0]

VARIABLES
    ram,        \* the words of RAM, by page and index
    bare,       \* satp selects no translation
    root,       \* the page number in satp
    va,         \* the virtual page looked up
    level,      \* the loop counter; -1 before the loop
    pt_addr,    \* the page of the table at that level
    result      \* what the function returns

vars == <<ram, bare, root, va, level, pt_addr, result>>

TypeOK ==
    /\ ram \in [RamPage -> [Index -> Entry]]
    /\ bare \in BOOLEAN
    /\ root \in Ppn
    /\ va \in Vpn
    /\ level \in -1 .. 2
    /\ pt_addr \in Nat
    /\ result \in Outcome

Init ==
    /\ ram \in [RamPage -> [Index -> Entry]]
    /\ bare \in BOOLEAN
    /\ root \in Ppn
    /\ va \in Vpn
    /\ level = -1
    /\ pt_addr = 0
    /\ result = Stop("walking")

-----------------------------------------------------------------------------
(* The function *)

\* The field of a virtual page number that indexes the table of a level.
\* The mutant: the levels counted from the other end.
vpn_mutant(v, l) == CASE l = 0 -> v % Radix
                      [] l = 1 -> (v \div Radix) % Radix
                      [] OTHER -> (v \div (Radix * Radix)) % Radix
vpn(v, l) == CASE l = 0 -> (v \div (Radix * Radix)) % Radix
               [] l = 1 -> (v \div Radix) % Radix
               [] OTHER -> v % Radix

\* va << (63 - 39) >> (63 - 39) keeps the low 40 bits, 28 of them of the
\* page number, and extends the highest of those.
sign_extended(v) == v < VpnSv39 \/ v >= VpnSpace - VpnSv39

entry == ram[pt_addr][vpn(va, level)]

fl(f) == f \in entry.flags

Return(outcome) == /\ result' = outcome
                   /\ UNCHANGED <<ram, bare, root, va, level, pt_addr>>

Enter == level = -1 /\ result.kind = "walking"

NoTranslation == Enter /\ bare /\ Return(Stop("bare"))

NotSignExtended == Enter /\ ~ bare /\ ~ sign_extended(va) /\ Return(Stop("invalid"))

Start == /\ Enter
         /\ ~ bare
         /\ sign_extended(va)
         /\ level' = 0
         /\ pt_addr' = root
         /\ UNCHANGED <<ram, bare, root, va, result>>

Loop == level >= 0 /\ result.kind = "walking"

TableOutsideRam == Loop /\ pt_addr \notin RamPage /\ Return(Stop("broken"))

\* The first two tests on an entry.
rejected(e) == "V" \notin e.flags \/ ("R" \notin e.flags /\ "W" \in e.flags)

Reject == /\ Loop
          /\ pt_addr \in RamPage
          /\ rejected(entry)
          /\ Return(Stop("invalid"))

Accepted == Loop /\ pt_addr \in RamPage /\ ~ rejected(entry)

LargePage == Accepted /\ level < 2 /\ (fl("R") \/ fl("W") \/ fl("X"))
                      /\ Return(Stop("broken"))

\* The mutant: the loop runs once too often.
Descend_mutant == /\ Accepted
                  /\ ~ (fl("R") \/ fl("W") \/ fl("X"))
                  /\ pt_addr' = entry.ppn
                  /\ level' = level + 1
                  /\ UNCHANGED <<ram, bare, root, va, result>>
Descend == /\ Accepted
           /\ level < 2
           /\ ~ (fl("R") \/ fl("W") \/ fl("X"))
           /\ pt_addr' = entry.ppn
           /\ level' = level + 1
           /\ UNCHANGED <<ram, bare, root, va, result>>

LeafFound ==
    /\ Accepted
    /\ level = 2
    /\ Return([kind |-> "leaf", flags |-> entry.flags \cap Right, ppn |-> entry.ppn])

Returned == result.kind # "walking" /\ UNCHANGED vars

Next == \/ NoTranslation \/ NotSignExtended \/ Start
        \/ TableOutsideRam \/ Reject \/ LargePage \/ Descend \/ LeafFound
        \/ Returned

Spec == Init /\ [][Next]_vars

-----------------------------------------------------------------------------
(* Sv39, as the privileged architecture defines it *)

Fault       == [answer |-> "page fault", ppn |-> 0]
AccessFault == [answer |-> "access fault", ppn |-> 0]
Superpage   == [answer |-> "superpage", ppn |-> 0]
Frame(ppn)  == [answer |-> "frame", ppn |-> ppn]

Reserved(e) == "V" \notin e.flags \/ ("W" \in e.flags /\ "R" \notin e.flags)
IsLeaf(e)   == "R" \in e.flags \/ "X" \in e.flags

\* The answer to an access that needs right, from the table in page t on.
Sv39Level2(t, right) ==
    LET e == ram[t][va % Radix]
    IN  IF t \notin RamPage THEN AccessFault
        ELSE IF Reserved(e) \/ ~ IsLeaf(e) THEN Fault
        ELSE IF right \in e.flags THEN Frame(e.ppn) ELSE Fault

Sv39Level1(t, right) ==
    LET e == ram[t][(va \div Radix) % Radix]
    IN  IF t \notin RamPage THEN AccessFault
        ELSE IF Reserved(e) THEN Fault
        ELSE IF IsLeaf(e) THEN Superpage ELSE Sv39Level2(e.ppn, right)

Sv39Level0(t, right) ==
    LET e == ram[t][(va \div (Radix * Radix)) % Radix]
    IN  IF t \notin RamPage THEN AccessFault
        ELSE IF Reserved(e) THEN Fault
        ELSE IF IsLeaf(e) THEN Superpage ELSE Sv39Level1(e.ppn, right)

\* Bits 63 to 39 all equal to bit 38: the lower and the upper half.
Canonical(v) == 2 * v < VpnSv39 \/ 2 * (VpnSpace - v) <= VpnSv39

Sv39(right) == IF Canonical(va) THEN Sv39Level0(root, right) ELSE Fault

-----------------------------------------------------------------------------

Stopped      == [answer |-> "ebreak", ppn |-> 0]
Outside(ppn) == [answer |-> "outside RAM", ppn |-> ppn]

\* What handle_page_fault makes of the outcome, in S-mode or U-mode: the rights
\* of a page outside RAM are not looked at, and an access that a page of RAM
\* denies ends with ebreak in S-mode.
Answer(mode, right) ==
    IF result.kind = "invalid" THEN Fault
    ELSE IF result.kind = "broken" THEN Stopped
    ELSE IF result.ppn \notin RamPage THEN Outside(result.ppn)
    ELSE IF right \in result.flags THEN Frame(result.ppn)
    ELSE IF mode = "S" THEN Stopped ELSE Fault

\* What an answer of the stub says of the answer of Sv39.
Agrees(stub, arch) ==
    CASE stub.answer = "ebreak"      -> arch.answer # "frame"
      [] stub.answer = "outside RAM" -> arch \in {Fault, Frame(stub.ppn)}
      [] OTHER                       -> arch = stub

(***************************************************************************)
(* The walk answers as Sv39 does, whatever is in RAM: the guest gets the   *)
(* frame or the page fault that the architecture gives it; the stub gives  *)
(* up only on an access that has no frame, in U-mode only where the        *)
(* architecture has an access fault or a superpage; and what it takes for  *)
(* a page outside RAM is the leaf of Sv39.  Addresses that pass the code's *)
(* test without being canonical (bit 39 unlike bit 38) are left out: the   *)
(* walk translates them as if they were.                                   *)
(***************************************************************************)
WalkIsSv39 ==
    /\ result.kind \in {"invalid", "broken", "leaf"}
    /\ Canonical(va) \/ ~ sign_extended(va)
    => \A mode \in {"S", "U"}, right \in Right :
          /\ Agrees(Answer(mode, right), Sv39(right))
          /\ mode = "U" /\ Answer(mode, right) = Stopped => Sv39(right) # Fault
=============================================================================
