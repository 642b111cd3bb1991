-------------------------------- MODULE Blob --------------------------------
(***************************************************************************)
(* struct mrpc_blob: bytes in a file of their own, shared by counting      *)
(* references.  A blob is created empty with its length, written once      *)
(* through a stream, read through any number of streams, and erased with   *)
(* its last reference.                                                     *)
(*                                                                         *)
(* The actions are the functions of mrpc_blob.c; a caller of the library   *)
(* keeps to the conditions that they assert.  The file system is external: *)
(* each of its operations may fail.                                        *)
(***************************************************************************)
EXTENDS MrpcInt, FiniteSets

CONSTANT MaxFiles            \* bound on the files that are created

VARIABLES
    blobs,                   \* the blobs that exist, by name
    streams,                 \* the open streams of blobs
    disk,                    \* the contents of the files that exist
    files,                   \* number of unique file paths given out
    remaining                \* files that could not be erased

blobVars == <<blobs, streams, disk, files, remaining>>

With(f, x, v) == [y \in DOMAIN f \union {x} |-> IF y = x THEN v ELSE f[y]]
Without(f, x) == Restrict(f, DOMAIN f \ {x})
Path(b) == blobs[b].file_path

BlobInit ==
    /\ blobs = [b \in {} |-> <<>>]
    /\ streams = {}
    /\ disk = [p \in {} |-> <<>>]
    /\ files = 0
    /\ remaining = {}

\* create_blob, with create_temporary_file_path
CreateBlob(b, len) ==
    /\ b \notin DOMAIN blobs
    /\ files < MaxFiles
    /\ files' = files + 1
    /\ blobs' = With(blobs, b, [file_path |-> files', len |-> len,
                                state |-> "EMPTY", ref_cnt |-> 1])
    /\ UNCHANGED <<streams, disk, remaining>>

\* mutant: the file is erased only if the blob is complete
ErasesComplete(b) == blobs[b].state = "COMPLETE"

\* delete_blob erases the file unless nothing has been opened for writing
Erases(b) == blobs[b].state # "EMPTY"

\* mrpc_blob_dec_ref n times, with delete_blob
DropRefs(b, n) ==
    \/ /\ blobs[b].ref_cnt > n
       /\ blobs' = [blobs EXCEPT ![b].ref_cnt = @ - n]
       /\ UNCHANGED <<disk, files, remaining>>
    \/ /\ blobs[b].ref_cnt = n
       /\ blobs' = Without(blobs, b)
       /\ \/ /\ disk' = IF Erases(b) THEN Without(disk, Path(b)) ELSE disk
             /\ UNCHANGED remaining
          \/ /\ Erases(b)
             /\ remaining' = remaining \union {Path(b)}
             /\ UNCHANGED disk
       /\ UNCHANGED files

BlobDecRef(b) == DropRefs(b, 1) /\ UNCHANGED streams

\* mrpc_blob_open_stream for reading; if the file cannot be opened, nothing
\* changes.  who tells the streams apart.
OpenBlobToRead(b, who) ==
    /\ blobs[b].state = "COMPLETE"
    /\ blobs' = [blobs EXCEPT ![b].ref_cnt = @ + 1]
    /\ streams' = streams \union
                    {[blob |-> b, who |-> who, mode |-> "READ", curr_pos |-> 0]}
    /\ UNCHANGED <<disk, files, remaining>>

\* ... and for writing
OpenBlobToWrite(b) ==
    /\ blobs[b].ref_cnt = 1 /\ blobs[b].state = "EMPTY"
    /\ blobs' = [blobs EXCEPT ![b].ref_cnt = 2, ![b].state = "INCOMPLETE"]
    /\ disk' = With(disk, Path(b), <<>>)
    /\ streams' = streams \union
                    {[blob |-> b, who |-> "writer", mode |-> "WRITE", curr_pos |-> 0]}
    /\ UNCHANGED <<files, remaining>>

BytesLeftIn(s) == blobs[s.blob].len - s.curr_pos
Advanced(s, n) == (streams \ {s}) \union {[s EXCEPT !.curr_pos = @ + n]}

\* read_from_blob_stream: it returns the bytes at curr_pos
ReadBlobStream(s, n) ==
    /\ s \in streams /\ s.mode = "READ"
    /\ n <= BytesLeftIn(s)
    /\ streams' = Advanced(s, n)
    /\ UNCHANGED <<blobs, disk, files, remaining>>

\* write_to_blob_stream
WriteBlobStream(s, data) ==
    /\ s \in streams /\ s.mode = "WRITE"
    /\ Len(data) <= BytesLeftIn(s)
    /\ disk' = [disk EXCEPT ![Path(s.blob)] = @ \o data]
    /\ streams' = Advanced(s, Len(data))
    /\ UNCHANGED <<blobs, files, remaining>>

IsFilled(s) == s.curr_pos = blobs[s.blob].len

\* flush_blob_stream
FlushBlobStream(s) ==
    /\ s \in streams /\ s.mode = "WRITE"
    /\ blobs' = [blobs EXCEPT ![s.blob].state = IF IsFilled(s) THEN "COMPLETE" ELSE @]
    /\ UNCHANGED <<streams, disk, files, remaining>>

\* delete_blob_stream, followed by n calls of mrpc_blob_dec_ref
DeleteBlobStream(s, n) ==
    /\ s \in streams
    /\ streams' = streams \ {s}
    /\ DropRefs(s.blob, n + 1)

\* mrpc_blob_move; if the file cannot be moved, nothing changes
MoveBlob(b) ==
    /\ blobs[b].state = "COMPLETE" /\ blobs[b].ref_cnt = 1
    /\ files < MaxFiles
    /\ files' = files + 1
    /\ disk' = With(Without(disk, Path(b)), files', disk[Path(b)])
    /\ blobs' = [blobs EXCEPT ![b].file_path = files']
    /\ UNCHANGED <<streams, remaining>>

-----------------------------------------------------------------------------
\* The files are those of the blobs that have been opened for writing, one
\* each, and those that could not be erased: no failure leaves another file
\* behind.  And the file of a complete blob has all its bytes, although
\* flush_blob_stream may have been called before the last one was written.
FilesMatchBlobs ==
    /\ DOMAIN disk = {Path(b) : b \in {b \in DOMAIN blobs : blobs[b].state # "EMPTY"}}
                        \union remaining
    /\ \A a, b \in DOMAIN blobs : Path(a) = Path(b) => a = b
    /\ \A b \in DOMAIN blobs :
         blobs[b].state = "COMPLETE" => Len(disk[Path(b)]) = blobs[b].len
=============================================================================
