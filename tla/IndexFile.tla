----------------------------- MODULE IndexFile -----------------------------
(***************************************************************************)
(* How hw3/WriteIndex.cc puts an index on disk, and what a FileIndexReader *)
(* accepts afterwards.  The file is a header, piece 0, and NumPieces pieces*)
(* of the doctable and of the index, each written by one fseek and fwrite. *)
(*                                                                         *)
(* A piece passes through three places: the buffer of the FILE, which an   *)
(* fseek, fclose or exit empties into the file as other processes see it,  *)
(* and from there the disk, whenever the kernel likes or fsync says so.    *)
(* A killed process loses the buffer, a machine that stops all that is not *)
(* on disk.  The file did not exist before.                                *)
(***************************************************************************)
EXTENDS Integers

CONSTANTS
    NumPieces,
    EndPiece   \* the piece that ends the file; headers of tables are written after it

Header == 0
Pieces == 1..NumPieces

ASSUME IndexFileAssumption == NumPieces \in Nat \ {0} /\ EndPiece \in Pieces

VARIABLES
    pc,        \* where WriteIndex is
    machine,   \* up, or down once the machine has stopped and restarted
    exists,    \* the file name leads to the file
    written,   \* how many pieces of the tables were written
    buffer,    \* what is in the FILE's buffer
    visible,   \* what a reader of the file finds
    disk,      \* what is on disk
    crc        \* the pieces the header's checksum was computed from

writerVars == <<pc, machine, exists, written, buffer, visible, disk, crc>>

(***************************************************************************)
(*   open     before fopen             tables    in WriteDocTable and      *)
(*   checksum before the read back     header      WriteMemIndex           *)
(*   sync     before fsync             close     before the last fclose    *)
(*   returned with the size            failed    with kFailedWrite         *)
(*   aborted  fsync failed             killed    from outside              *)
(***************************************************************************)
WriterPC == {"open", "tables", "checksum", "header", "sync", "close",
             "returned", "failed", "aborted", "killed"}
WriterWorks == {"open", "tables", "checksum", "header", "sync", "close"}

WriterInit ==
    /\ pc = "open"
    /\ machine = "up"
    /\ exists = FALSE
    /\ written = 0
    /\ buffer = {} /\ visible = {} /\ disk = {}
    /\ crc = {}

\* WriteIndex runs.
WriterAt(place) == machine = "up" /\ pc = place

\* fseek empties the buffer into the file; the piece is then put in the buffer.
SeekAndWrite(p) ==
    /\ visible' = visible \cup buffer
    /\ buffer' = {p}

OpenFile ==
    /\ WriterAt("open")
    /\ \/ pc' = "tables" /\ exists' = TRUE
       \/ pc' = "failed" /\ UNCHANGED exists
    /\ UNCHANGED <<machine, written, buffer, visible, disk, crc>>

WritePiece ==
    /\ WriterAt("tables")
    /\ SeekAndWrite(written + 1)
    /\ written' = written + 1
    /\ pc' = IF written' = NumPieces THEN "checksum" ELSE "tables"
    /\ UNCHANGED <<machine, exists, disk, crc>>

\* Deviation: the checksum is computed from what happens to be in the file.
ReadBackUnflushed ==
    /\ WriterAt("checksum")
    /\ crc' = visible
    /\ pc' = "header"
    /\ UNCHANGED <<machine, exists, written, buffer, visible, disk>>

\* fseek, then fread of all that follows the header.
ReadBack ==
    /\ WriterAt("checksum")
    /\ visible' = visible \cup buffer
    /\ buffer' = {}
    /\ crc' = visible' \ {Header}
    /\ pc' = "header"
    /\ UNCHANGED <<machine, exists, written, disk>>

WriteHeader ==
    /\ WriterAt("header")
    /\ SeekAndWrite(Header)
    /\ pc' = "sync"
    /\ UNCHANGED <<machine, exists, written, disk, crc>>

\* Deviation: the file stays.
FailAndLeave ==
    /\ \E place \in {"tables", "checksum", "header"} : WriterAt(place)
    /\ pc' = "failed"
    /\ buffer' = {}
    /\ visible' = visible \cup buffer
    /\ UNCHANGED <<machine, exists, written, disk, crc>>

\* An fseek, fread or fwrite fails: fclose, unlink and return kFailedWrite.
Fail ==
    /\ \E place \in {"tables", "checksum", "header"} : WriterAt(place)
    /\ pc' = "failed"
    /\ buffer' = {}
    /\ visible' = visible \cup buffer
    /\ exists' = FALSE
    /\ UNCHANGED <<machine, written, disk, crc>>

\* Deviation: fsync is left out.
NoSync ==
    /\ WriterAt("sync")
    /\ pc' = "close"
    /\ UNCHANGED <<machine, exists, written, buffer, visible, disk, crc>>

\* fsync waits for what is in the file; the header is still in the buffer.
Sync ==
    /\ WriterAt("sync")
    /\ disk' = visible
    /\ pc' = "close"
    /\ UNCHANGED <<machine, exists, written, buffer, visible, crc>>

\* fsync fails: Verify333 calls exit, which empties the buffer into the file.
SyncFails ==
    /\ WriterAt("sync")
    /\ pc' = "aborted"
    /\ visible' = visible \cup buffer
    /\ buffer' = {}
    /\ UNCHANGED <<machine, exists, written, disk, crc>>

\* The last fclose; that it may fail to empty the buffer is not looked at.
Close ==
    /\ WriterAt("close")
    /\ pc' = "returned"
    /\ buffer' = {}
    /\ visible' \in {visible, visible \cup buffer}
    /\ UNCHANGED <<machine, exists, written, disk, crc>>

-----------------------------------------------------------------------------
\* The kernel and the world.

WriteBack ==
    /\ machine = "up"
    /\ \E p \in visible \ disk : disk' = disk \cup {p}
    /\ UNCHANGED <<pc, machine, exists, written, buffer, visible, crc>>

Kill ==
    /\ machine = "up" /\ pc \in WriterWorks
    /\ pc' = "killed"
    /\ buffer' = {}
    /\ UNCHANGED <<machine, exists, written, visible, disk, crc>>

\* What was not on disk is lost, the unlink of the file perhaps as well.
Stop ==
    /\ machine = "up"
    /\ machine' = "down"
    /\ buffer' = {}
    /\ visible' = disk
    /\ exists' \in {exists, pc # "open"}
    /\ UNCHANGED <<pc, written, disk, crc>>

\* Nothing is left to happen.
Over == (machine = "down" \/ pc \notin WriterWorks) /\ UNCHANGED writerVars

WriterNext ==
    \/ OpenFile \/ WritePiece \/ ReadBack \/ WriteHeader \/ Fail
    \/ Sync \/ SyncFails \/ Close
    \/ WriteBack \/ Kill \/ Stop \/ Over

WriterSpec == WriterInit /\ [][WriterNext]_writerVars

-----------------------------------------------------------------------------
\* FileIndexReader's constructor: the magic number, the length of the file,
\* which is where EndPiece ends, and the checksum if validate is set.
Accepts(validate) ==
    /\ exists
    /\ Header \in visible
    /\ EndPiece \in visible
    /\ validate => visible \ {Header} = crc

\* The variables keep their types; what is on disk is in the file, and the
\* pieces come in order.
TypeOK ==
    /\ pc \in WriterPC
    /\ machine \in {"up", "down"}
    /\ exists \in BOOLEAN
    /\ written \in 0..NumPieces
    /\ buffer \subseteq Pieces \cup {Header}
    /\ visible \subseteq (1..written) \cup {Header}
    /\ disk \subseteq visible
    /\ crc \subseteq Pieces

\* The order in which things reach the disk: as long as fsync succeeds, a file
\* that shows its header has all its tables on disk.  So the magic number is
\* never found in a file whose writing was cut short, whoever cut it, and an
\* index accepted without validation is complete as well.
HeaderLast ==
    pc # "aborted" /\ Header \in visible => Pieces \subseteq disk

\* An index that a validating reader accepts is complete, a failed fsync included;
\* and if WriteIndex returned its size and the header got out, it is accepted.
CheckedIndexIsComplete ==
    /\ Accepts(TRUE) => Pieces \subseteq visible
    /\ pc = "returned" /\ Header \in visible => Accepts(TRUE)

\* While the machine is up, a failed WriteIndex leaves no file.
FailureLeavesNothing == pc = "failed" /\ machine = "up" => ~exists

-----------------------------------------------------------------------------
\* "Use fsync to flush the header field to disk." (WriteIndex.cc:269): an index
\* whose size WriteIndex returned survives a stop of the machine.
HeaderDurable == pc = "returned" => Header \in disk
=============================================================================
