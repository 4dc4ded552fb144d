----------------------------- MODULE It6805Bank -----------------------------
(***************************************************************************)
(* The banked registers of the IT6805 (gc573-it6805-core.c): register 0x0f *)
(* selects one of eight banks, and the driver remembers which.  The thread *)
(* that holds io_lock either selects a bank (reading 0x0f only when it is  *)
(* not remembered) or sets it (always), then accesses registers.  A write  *)
(* that fails on the I2C bus may have reached the chip.                    *)
(***************************************************************************)
EXTENDS Naturals

CONSTANTS
    Banks,         \* the banks the driver uses, 0 among them
    MaxFailures    \* bound on the failing transfers

VARIABLES
    hw,                     \* the bank of the chip
    bank, bank_valid,       \* struct gc555_it6805
    pc, want,               \* the call under way, and its bank
    asleep, failures

regVars == <<hw, bank, bank_valid>>
vars == <<regVars, pc, want, asleep, failures>>

\* The types of every variable.
TypeOK ==
    /\ hw \in Banks /\ bank \in Banks /\ bank_valid \in BOOLEAN
    /\ pc \in {"idle", "select", "set", "change", "access"} /\ want \in Banks
    /\ asleep \in BOOLEAN /\ failures \in 0 .. MaxFailures

\* The chip is found in any bank.
Init ==
    /\ hw \in Banks /\ bank = 0 /\ bank_valid = FALSE
    /\ pc = "idle" /\ want = 0 /\ asleep = FALSE /\ failures = 0

Unchanged == UNCHANGED <<asleep, failures>>

\* Mutant: the bank is taken for the one selected last whether it is known or not.
SelectBank_Trusts(b) ==
    /\ pc = "idle" /\ ~asleep
    /\ want' = b
    /\ pc' = IF bank = b THEN "access" ELSE "select"
    /\ UNCHANGED regVars /\ Unchanged

\* it6805_select_bank_locked
SelectBank(b) ==
    /\ pc = "idle" /\ ~asleep
    /\ want' = b
    /\ pc' = IF bank_valid /\ bank = b THEN "access" ELSE "select"
    /\ UNCHANGED regVars /\ Unchanged

\* 0x0f is read: the bank is known, and changed if need be.
SelectRead ==
    /\ pc = "select"
    /\ bank' = hw /\ bank_valid' = TRUE
    /\ pc' = IF hw = want THEN "access" ELSE "change"
    /\ UNCHANGED <<hw, want>> /\ Unchanged

\* it6805_set_bank_locked: read, modify and write.
SetBank(b) ==
    /\ pc \in {"idle", "access"} /\ ~asleep
    /\ want' = b /\ pc' = "set"
    /\ UNCHANGED regVars /\ Unchanged

SetRead ==
    /\ pc = "set" /\ pc' = "change"
    /\ UNCHANGED <<regVars, want>> /\ Unchanged

\* it6805_write_locked on 0x0f
Write ==
    /\ pc = "change"
    /\ hw' = want /\ bank' = want /\ bank_valid' = TRUE
    /\ pc' = "access"
    /\ UNCHANGED want /\ Unchanged

\* A transfer fails: it6805_read_locked, it6805_write_locked, it6805_bulk_read.
TransferFails ==
    /\ pc # "idle" /\ failures < MaxFailures
    /\ failures' = failures + 1
    /\ hw' \in IF pc = "change" THEN {hw, want} ELSE {hw}
    /\ bank_valid' = FALSE
    /\ pc' = "idle"
    /\ UNCHANGED <<bank, want, asleep>>

\* Registers of the bank are accessed, and the lock is released.
Done ==
    /\ pc = "access" /\ pc' = "idle"
    /\ UNCHANGED <<regVars, want>> /\ Unchanged

\* The card loses power; it6805_reset_runtime forgets the bank.
Suspend ==
    /\ pc = "idle" /\ ~asleep
    /\ asleep' = TRUE /\ hw' \in Banks
    /\ UNCHANGED <<bank, bank_valid, pc, want, failures>>

Resume ==
    /\ asleep
    /\ asleep' = FALSE /\ bank_valid' = FALSE
    /\ UNCHANGED <<hw, bank, pc, want, failures>>

Next ==
    \/ \E b \in Banks : SelectBank(b) \/ SetBank(b)
    \/ SelectRead \/ SetRead \/ Write \/ TransferFails \/ Done \/ Suspend \/ Resume

Spec == Init /\ [][Next]_vars

\* The remembered bank is that of the chip, whatever transfer failed.
BankAgrees == bank_valid /\ ~asleep => bank = hw

\* Registers are accessed in the bank they were meant in.
AccessInBank == pc = "access" => hw = want
=============================================================================
