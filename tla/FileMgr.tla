------------------------------- MODULE FileMgr -------------------------------
(***************************************************************************)
(* src/src/file_mgr.c on the allocator of MemShim: one file, opened in any *)
(* mode, closed, measured, read and written.  The stream and the file are  *)
(* those of stdio, by what the C standard says of each mode.               *)
(***************************************************************************)
EXTENDS MemShim, Sequences

CONSTANTS
    InfoSize,    \* sizeof(FILE_MGR_INFO)
    Bytes,       \* what callers write
    MaxFile      \* bound: no write beyond so many bytes

NoInfo == "no info"

ASSUME FileAssumption ==
    /\ InfoSize \in 1 .. SizeMod - 1 /\ MaxFile \in Nat
    /\ NoInfo \notin Ptrs

VARIABLES
    info,        \* the FILE_MGR_INFO of the open file, or NoInfo
    mode,        \* the file_mode_value it was opened with
    pos,         \* where its stream is
    last,        \* the last transfer since it was positioned
    exists,      \* there is a file
    file,        \* its bytes
    measured     \* what get_length answered, until the next transfer

fileVars == <<info, mode, pos, last, exists, file, measured>>

Modes == {"file_mode_read", "file_mode_write", "file_mode_append",
          "file_mode_read_write", "file_mode_write_new", "file_mode_read_append"}

\* mutation: append is taken for write
GetFileMode_AppendWrites(m) ==
    CASE m = "file_mode_write" -> "w" [] m = "file_mode_append" -> "w"
      [] m = "file_mode_read_write" -> "r+" [] m = "file_mode_write_new" -> "w+"
      [] m = "file_mode_read_append" -> "a+" [] OTHER -> "r"

\* get_file_mode
GetFileMode(m) ==
    CASE m = "file_mode_write" -> "w" [] m = "file_mode_append" -> "a"
      [] m = "file_mode_read_write" -> "r+" [] m = "file_mode_write_new" -> "w+"
      [] m = "file_mode_read_append" -> "a+" [] OTHER -> "r"

Reads == {"r", "r+", "w+", "a+"}
Appends == {"a", "a+"}
Updates == {"r+", "w+", "a+"}

FileInit == /\ info = NoInfo /\ mode = "none" /\ pos = 0 /\ last = "none"
            /\ exists \in BOOLEAN /\ file = IF exists THEN <<1>> ELSE <<>>
            /\ measured = -1

Stream == GetFileMode(mode)

UnchangedShim == UNCHANGED <<head, counts, gballocState, blocks, peak, left>>

\* file_mgr_open gets its FILE_MGR_INFO, and the stream is opened.
Open(p, m) ==
    LET f == GetFileMode(m)
    IN  /\ info = NoInfo
        /\ f \in {"r", "r+"} => exists
        /\ Malloc(p, InfoSize)
        /\ info' = p /\ mode' = m /\ pos' = 0 /\ last' = "none" /\ measured' = -1
        /\ exists' = TRUE
        /\ file' = IF f \in {"w", "w+"} THEN <<>> ELSE file

\* fopen fails, and the FILE_MGR_INFO is freed: for the heap that is a block
\* that came and went.
OpenFails(p, m) ==
    /\ info = NoInfo
    /\ Malloc(p, InfoSize)
    /\ info' = p /\ mode' = "failed"
    /\ UNCHANGED <<pos, last, exists, file, measured>>

OpenFailed ==
    /\ mode = "failed" /\ info # NoInfo
    /\ Free(info)
    /\ info' = NoInfo /\ mode' = "none"
    /\ UNCHANGED <<pos, last, exists, file, measured>>

IsOpen == info # NoInfo /\ mode # "failed"

\* file_mgr_close
Close ==
    /\ IsOpen
    /\ Free(info)
    /\ info' = NoInfo /\ mode' = "none" /\ pos' = 0 /\ last' = "none" /\ measured' = -1
    /\ UNCHANGED <<exists, file>>

\* mutation: the stream stays at its end
GetLength_StaysAtEnd ==
    /\ IsOpen
    /\ measured' = Len(file)
    /\ pos' = Len(file) /\ last' = "none"
    /\ UnchangedShim /\ UNCHANGED <<info, mode, exists, file>>

\* file_mgr_get_length: to the end, and to the beginning
GetLength ==
    /\ IsOpen
    /\ measured' = Len(file)
    /\ pos' = 0 /\ last' = "none"
    /\ UnchangedShim /\ UNCHANGED <<info, mode, exists, file>>

\* A stream for both is positioned before the transfers change direction.
MayTurnTo(transfer) == Stream \in Updates => last \in {"none", transfer}

\* file_mgr_read of n bytes
Read(n) ==
    /\ IsOpen /\ MayTurnTo("read")
    /\ IF Stream \in Reads
       THEN pos' = IF pos + n <= Len(file) THEN pos + n ELSE MaxOf(pos, Len(file))
       ELSE UNCHANGED pos
    /\ last' = "read" /\ measured' = -1
    /\ UnchangedShim /\ UNCHANGED <<info, mode, exists, file>>

\* file_mgr_write of n bytes b
Write(n, b) ==
    LET at == IF Stream \in Appends THEN Len(file) ELSE pos
    IN  /\ IsOpen /\ MayTurnTo("write")
        /\ at + n <= MaxFile
        /\ IF Stream = "r" THEN UNCHANGED <<file, pos>>
           ELSE /\ file' = [i \in 1 .. MaxOf(Len(file), at + n) |->
                              IF i \in at + 1 .. at + n THEN b ELSE file[i]]
                /\ pos' = at + n
        /\ last' = "write" /\ measured' = -1
        /\ UnchangedShim /\ UNCHANGED <<info, mode, exists>>

FileNext ==
    \/ \E p \in Ptrs, m \in Modes : Open(p, m) \/ OpenFails(p, m)
    \/ OpenFailed \/ Close \/ GetLength
    \/ \E n \in 1 .. MaxFile : Read(n) \/ \E b \in Bytes : Write(n, b)

InfoBlocks == {info} \ {NoInfo}

=============================================================================
