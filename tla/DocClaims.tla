------------------------------ MODULE DocClaims ------------------------------
(***************************************************************************)
(* What the documentation of urvirt says of the running system and the     *)
(* code does not do.  Each is refuted by a run.                            *)
(***************************************************************************)
EXTENDS UrvirtStub

(***************************************************************************)
(* "The access is blocking on writing to the command registers": when the  *)
(* read command is done, the block is in the page of the buffer, which the *)
(* guest's tables map writable.                                            *)
(***************************************************************************)
BlockReadDone ==
    [][LET t == Translation(hart.satp, Page(hart.urvb_buf))
           b == URVIRT_BLOCK_SIZE * hart.urvb_block_id
       IN  \A i \in DataInsn :
             /\ Sigsegv
             /\ MmioStore(i, 0, 1)
             /\ "W" \in t.prot
             /\ <<hart.satp.ppn, Page(hart.urvb_buf)>> \notin dirty
             /\ b \in DOMAIN disk
             /\ status' = "running"
             => ram'[t.ppn] = disk[b]]_vars

(***************************************************************************)
(* "If an access is to an emulated physical address is targeted to the     *)
(* block device MMIO registers, ... we emulate the access": a doubleword   *)
(* store to the block id register leaves the stored value there.           *)
(***************************************************************************)
MmioEmulated ==
    [][\A i \in DataInsn, va \in DataAddr :
         /\ SegvData(i, va)
         /\ IsStoreDoubleword(i)
         /\ lookup_pa(va).kind = "leaf"
         /\ lookup_pa(va).ppn = UrvbPage
         /\ va % PageSize = 8
         => /\ status' = "running"
            /\ hart'.urvb_block_id \in IF i.rs2 = 0 THEN {0} ELSE StoreData]_vars
=============================================================================
