------------------------------- MODULE Crc32 -------------------------------
(***************************************************************************)
(* The class CRC32 of hw3/Utils.cc, as the threads of the web server use   *)
(* it: every FileIndexReader constructs one to check the index it opens,   *)
(* and the first to be constructed fills a table that all of them share,   *)
(* without a lock.  hw3/Makefile builds it without optimisation, so that   *)
(* every access to the table in the source is one to memory, and a step.   *)
(*                                                                         *)
(* The checksum in the index file is right: another program wrote it, with *)
(* one thread.  A checksum comes out right if all the entries it used are. *)
(***************************************************************************)
EXTENDS Integers

CONSTANTS Threads,
          NumCodes,    \* bound: the entries of the table (255: that of 0 is always 0)
          NumShifts,   \* bound: the shifts that make an entry (8)
          NumBytes     \* bound: the bytes an index file has after its header

ASSUME Crc32Assumption == NumCodes \in Nat \ {0} /\ NumShifts \in Nat /\ NumBytes \in Nat

Codes == 1..NumCodes

VARIABLES
    table,                  \* CRC32::table_
    table_is_initialized_,
    pc,                     \* where a thread is, see below
    code, position,         \* the counters of the loops in Initialize
    register,               \* what the thread has loaded from its entry
    folded,                 \* how many bytes have gone into the thread's crc_state_
    right,                  \* and whether all the entries used for it were right
    overlapped              \* history: two threads were in Initialize at once

crcVars == <<table, table_is_initialized_, pc, code, position, register, folded, right,
             overlapped>>

\* The variables of a function that has returned are back at their first values.

(***************************************************************************)
(*   none    not in FileIndexReader    fold     folding bytes              *)
(*   entry   before an entry is set    load     before it is read          *)
(*   store   before it is set from what was read                           *)
(*   flag    the table is full         refused  the last Verify333 failed  *)
(***************************************************************************)
FillPC == {"entry", "load", "store", "flag"}
CrcPC  == FillPC \cup {"none", "fold", "refused"}

Filling(t) == pc[t] \in FillPC

(***************************************************************************)
(* What an entry holds: n + 1 if it was shifted n times, negated once it is*)
(* reflected, and 0 for a number that is none of these.                    *)
(***************************************************************************)
Entry      == -(NumShifts + 1)
Shift(v)   == IF v > 0 THEN v + 1 ELSE 0
Reflect(v) == -v

CrcInit ==
    /\ table = [c \in Codes |-> 0]
    /\ table_is_initialized_ = FALSE
    /\ pc = [t \in Threads |-> "none"]
    /\ code = [t \in Threads |-> 1]
    /\ position = [t \in Threads |-> 0]
    /\ register = [t \in Threads |-> 0]
    /\ folded = [t \in Threads |-> 0]
    /\ right = [t \in Threads |-> TRUE]
    /\ overlapped = FALSE

-----------------------------------------------------------------------------
\* Deviation: the flag is set before the table is filled.
ConstructFlagFirst(t) ==
    /\ pc[t] = "none"
    /\ pc' = [pc EXCEPT ![t] = IF table_is_initialized_ THEN "fold" ELSE "entry"]
    /\ table_is_initialized_' = TRUE
    /\ overlapped' = (overlapped \/ (~table_is_initialized_ /\ \E u \in Threads : Filling(u)))
    /\ UNCHANGED <<table, code, position, register, folded, right>>

\* The constructor looks at the flag.
Construct(t) ==
    /\ pc[t] = "none"
    /\ pc' = [pc EXCEPT ![t] = IF table_is_initialized_ THEN "fold" ELSE "entry"]
    /\ overlapped' = (overlapped \/ (~table_is_initialized_ /\ \E u \in Threads : Filling(u)))
    /\ UNCHANGED <<table, table_is_initialized_, code, position, register, folded, right>>

\* table_[code] = CRC32Reflect(code, 8) << 24
SetEntry(t) ==
    /\ pc[t] = "entry"
    /\ table' = [table EXCEPT ![code[t]] = 1]
    /\ position' = [position EXCEPT ![t] = 0]
    /\ pc' = [pc EXCEPT ![t] = "load"]
    /\ UNCHANGED <<table_is_initialized_, code, register, folded, right, overlapped>>

LoadEntry(t) ==
    /\ pc[t] = "load"
    /\ register' = [register EXCEPT ![t] = table[code[t]]]
    /\ pc' = [pc EXCEPT ![t] = "store"]
    /\ UNCHANGED <<table, table_is_initialized_, code, position, folded, right, overlapped>>

\* The entry is read twice for a shift: if it has changed since the first time, the
\* number stored may be made of two.
StoreShifted(t) ==
    /\ pc[t] = "store" /\ position[t] < NumShifts
    /\ \E v \in {Shift(register[t])} \cup {w \in {0} : table[code[t]] # register[t]} :
          table' = [table EXCEPT ![code[t]] = v]
    /\ position' = [position EXCEPT ![t] = @ + 1]
    /\ register' = [register EXCEPT ![t] = 0]
    /\ pc' = [pc EXCEPT ![t] = "load"]
    /\ UNCHANGED <<table_is_initialized_, code, folded, right, overlapped>>

StoreReflected(t) ==
    /\ pc[t] = "store" /\ position[t] = NumShifts
    /\ table' = [table EXCEPT ![code[t]] = Reflect(register[t])]
    /\ code' = [code EXCEPT ![t] = @ + 1]
    /\ register' = [register EXCEPT ![t] = 0]
    /\ pc' = [pc EXCEPT ![t] = IF code[t] = NumCodes THEN "flag" ELSE "entry"]
    /\ UNCHANGED <<table_is_initialized_, position, folded, right, overlapped>>

SetFlag(t) ==
    /\ pc[t] = "flag"
    /\ table_is_initialized_' = TRUE
    /\ code' = [code EXCEPT ![t] = 1]
    /\ position' = [position EXCEPT ![t] = 0]
    /\ pc' = [pc EXCEPT ![t] = "fold"]
    /\ UNCHANGED <<table, register, folded, right, overlapped>>

\* Which entry a byte uses depends on the bytes before it: any.
FoldByteIntoCRC(t) ==
    /\ pc[t] = "fold" /\ folded[t] < NumBytes
    /\ \E c \in Codes : right' = [right EXCEPT ![t] = @ /\ table[c] = Entry]
    /\ folded' = [folded EXCEPT ![t] = @ + 1]
    /\ UNCHANGED <<table, table_is_initialized_, pc, code, position, register, overlapped>>

\* GetFinalCRC, and the Verify333 that compares it with the header's checksum.
Accept(t) ==
    /\ pc[t] = "fold" /\ folded[t] = NumBytes /\ right[t]
    /\ pc' = [pc EXCEPT ![t] = "none"]
    /\ folded' = [folded EXCEPT ![t] = 0]
    /\ UNCHANGED <<table, table_is_initialized_, code, position, register, right, overlapped>>

Refuse(t) ==
    /\ pc[t] = "fold" /\ folded[t] = NumBytes /\ ~right[t]
    /\ pc' = [pc EXCEPT ![t] = "refused"]
    /\ UNCHANGED <<table, table_is_initialized_, code, position, register, folded, right,
                   overlapped>>

\* What a thread does between its constructor's look at the flag and the verdict.
CrcStep(t) ==
    \/ SetEntry(t) \/ LoadEntry(t) \/ StoreShifted(t) \/ StoreReflected(t) \/ SetFlag(t)
    \/ FoldByteIntoCRC(t)

CrcNext == \E t \in Threads : Construct(t) \/ CrcStep(t) \/ Accept(t) \/ Refuse(t)

CrcSpec == CrcInit /\ [][CrcNext]_crcVars

-----------------------------------------------------------------------------
\* "There is a potential race condition if multiple threads construct the very first
\* CRC32() objects simultaneously" (Utils.cc:46-48): only then.  An intact index is not
\* refused unless two threads have been in Initialize at once; a thread that comes
\* after the first, however soon after the flag is set, finds every entry right.
RefusedOnlyInRace == (\E t \in Threads : pc[t] = "refused") => overlapped
=============================================================================
