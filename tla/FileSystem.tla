----------------------------- MODULE FileSystem -----------------------------
(***************************************************************************)
(* The FileSystem class (src/filesystem.cc) at the grain of the system     *)
(* calls it makes: what other worker threads can see, and do, between two  *)
(* of them.  The state is one entity directory below a data_path; every    *)
(* worker thread runs at most one FileSystem call at a time.               *)
(*                                                                         *)
(* A request body has at most 1024 bytes (session.h: max_length), less     *)
(* than the buffer of an fstream, so a writeFile reaches the disk in one   *)
(* write when the stream is closed, and one read returns all that a file   *)
(* holds at that moment.                                                   *)
(***************************************************************************)
EXTENDS Integers, Sequences

CONSTANTS
    Workers,    \* the threads of server::run
    Names,      \* the entries an entity directory may have
    Inodes,     \* files on disk, named or not
    Byte, NL,   \* contents of files; NL is the newline
    NoFile, NoName,
    Faults      \* what may go wrong: "open" (no descriptor left, no
                \* permission), "write" (the disk is full), "mkdir" (either,
                \* or a component of the path that is a file)

ASSUME FileSystemAssumption ==
    /\ NL \in Byte
    /\ NoFile \notin Inodes
    /\ NoName \notin Names
    /\ Faults \subseteq {"open", "write", "mkdir"}

VARIABLES
    dirExists,  \* whether the entity directory has been made
    dir,        \* name -> the file it is linked to
    disk,       \* file -> its bytes
    call        \* worker -> its FileSystem call

fsVars == <<dirExists, dir, disk, call>>

Data == Seq(Byte)
Functions == {"readFile", "writeFile", "deleteFile", "listFiles"}

\* A call: the function, the next system call to make ("done" once it has
\* returned, "thrown" once it has thrown an exception), its arguments, the
\* file it has open, and what it returns.
Calls == [fn: Functions \cup {"none"},
          at: {"idle", "mkdir", "open", "read", "write", "remove", "done",
               "thrown"},
          name: Names \cup {NoName}, data: Data, ino: Inodes \cup {NoFile},
          ok: BOOLEAN, out: Data, list: SUBSET Names]

NoCall == [fn |-> "none", at |-> "idle", name |-> NoName, data |-> <<>>,
           ino |-> NoFile, ok |-> FALSE, out |-> <<>>, list |-> {}]

readFile(n)     == [NoCall EXCEPT !.fn = "readFile", !.at = "open", !.name = n]
writeFile(n, d) == [NoCall EXCEPT !.fn = "writeFile", !.at = "mkdir",
                                  !.name = n, !.data = d]
deleteFile(n)   == [NoCall EXCEPT !.fn = "deleteFile", !.at = "open", !.name = n]
listFiles       == [NoCall EXCEPT !.fn = "listFiles", !.at = "open"]

Return(w, ok) == call' = [call EXCEPT ![w].at = "done", ![w].ok = ok,
                                      ![w].ino = NoFile]

\* Entries of the directory.
Present == {n \in Names : dir[n] # NoFile}

\* A worker is in a call that may change the entry n.
Touches(w, n) == call[w].fn \in {"writeFile", "deleteFile"} /\ call[w].name = n

\* Files that nothing is linked to and nobody has open.
FreeInodes == {i \in Inodes : /\ \A n \in Names : dir[n] # i
                              /\ \A w \in Workers : call[w].ino # i}

\* Writing c at offset 0 of a file that holds d.
Overlay(d, c) == c \o SubSeq(d, Len(c) + 1, Len(d))

\* Mutant: a newline after whatever the last getline left.
LinesAlwaysEnded(d) == Append(d, NL)

\* The getline loop of readFile ends every line with a newline, the last
\* one too when the file does not.
Lines(d) == IF d = <<>> \/ d[Len(d)] = NL THEN d ELSE Append(d, NL)

-----------------------------------------------------------------------------
FsInit ==
    /\ dirExists = FALSE
    /\ dir = [n \in Names |-> NoFile]
    /\ disk = [i \in Inodes |-> <<>>]
    /\ call = [w \in Workers |-> NoCall]

\* writeFile creates the directory unless it exists; nothing removes it.
MakeDirectory(w) ==
    /\ call[w].at = "mkdir"
    /\ dirExists' = TRUE
    /\ call' = [call EXCEPT ![w].at = "open"]
    /\ UNCHANGED <<dir, disk>>

\* fs::exists and fs::create_directories report every error by throwing.
MakeDirectoryFails(w) ==
    /\ call[w].at = "mkdir"
    /\ "mkdir" \in Faults
    /\ call' = [call EXCEPT ![w].at = "thrown"]
    /\ UNCHANGED <<dirExists, dir, disk>>

\* The file, or the directory, is not there or cannot be opened.
OpenFails(w) ==
    /\ call[w].at = "open"
    /\ \/ call[w].fn = "readFile" /\ dir[call[w].name] = NoFile
       \/ call[w].fn \in {"deleteFile", "listFiles"} /\ ~dirExists
       \/ "open" \in Faults
    /\ Return(w, FALSE)
    /\ UNCHANGED <<dirExists, dir, disk>>

OpenToRead(w) ==
    /\ call[w].at = "open"
    /\ call[w].fn = "readFile"
    /\ dir[call[w].name] # NoFile
    /\ call' = [call EXCEPT ![w].at = "read", ![w].ino = dir[call[w].name]]
    /\ UNCHANGED <<dirExists, dir, disk>>

\* Mutant: opened for reading and writing, the file keeps what is in it.
OpenToWriteKeeping(w) ==
    /\ call[w].at = "open"
    /\ call[w].fn \in {"writeFile", "deleteFile"}
    /\ dirExists
    /\ \E i \in IF dir[call[w].name] # NoFile THEN {dir[call[w].name]}
                                              ELSE FreeInodes :
         /\ dir' = [dir EXCEPT ![call[w].name] = i]
         /\ disk' = [disk EXCEPT ![i] = IF i \in FreeInodes THEN <<>> ELSE @]
         /\ call' = [call EXCEPT
                ![w].at = IF call[w].fn = "writeFile" THEN "write" ELSE "remove",
                ![w].ino = i]
    /\ UNCHANGED dirExists

\* open(path, ios::out), by writeFile and by deleteFile alike: truncates the
\* file that is there, and creates one where there is none.
OpenToWrite(w) ==
    /\ call[w].at = "open"
    /\ call[w].fn \in {"writeFile", "deleteFile"}
    /\ dirExists
    /\ \E i \in IF dir[call[w].name] # NoFile THEN {dir[call[w].name]}
                                              ELSE FreeInodes :
         /\ dir' = [dir EXCEPT ![call[w].name] = i]
         /\ disk' = [disk EXCEPT ![i] = <<>>]
         /\ call' = [call EXCEPT
                ![w].at = IF call[w].fn = "writeFile" THEN "write" ELSE "remove",
                ![w].ino = i]
    /\ UNCHANGED dirExists

\* Mutant: the loop does not stop at the end of the file.
ReadChunkForever(w) ==
    /\ call[w].at = "read"
    /\ LET got == call[w].out
           d   == disk[call[w].ino]
       IN  call' = [call EXCEPT ![w].out =
                       got \o SubSeq(d, Len(got) + 1, Len(d))]
    /\ UNCHANGED <<dirExists, dir, disk>>

\* One read of the getline loop, from where the last one ended.
ReadChunk(w) ==
    /\ call[w].at = "read"
    /\ LET got == call[w].out
           d   == disk[call[w].ino]
           new == SubSeq(d, Len(got) + 1, Len(d))
       IN  call' = IF new # <<>>
                   THEN [call EXCEPT ![w].out = got \o new]
                   ELSE [call EXCEPT ![w].at = "done", ![w].ok = TRUE,
                                     ![w].ino = NoFile, ![w].out = Lines(got)]
    /\ UNCHANGED <<dirExists, dir, disk>>

\* The stream's buffer goes to the file as it is closed.
Write(w) ==
    /\ call[w].at = "write"
    /\ disk' = [disk EXCEPT ![call[w].ino] = Overlay(@, call[w].data)]
    /\ Return(w, TRUE)
    /\ UNCHANGED <<dirExists, dir>>

\* A full disk takes a part of the data; the stream's state is not looked at
\* after the open, so writeFile returns true all the same.
WriteFails(w) ==
    /\ call[w].at = "write"
    /\ "write" \in Faults
    /\ \E k \in 0 .. Len(call[w].data) - 1 :
         disk' = [disk EXCEPT ![call[w].ino] =
                     Overlay(@, SubSeq(call[w].data, 1, k))]
    /\ Return(w, TRUE)
    /\ UNCHANGED <<dirExists, dir>>

\* Mutant: the file that the open has emptied counts as removed.
EmptiedOnly(w) ==
    /\ call[w].at = "remove"
    /\ Return(w, TRUE)
    /\ UNCHANGED <<dirExists, dir, disk>>

\* remove(path): by name, whatever the name is linked to by now.
Remove(w) ==
    /\ call[w].at = "remove"
    /\ dir' = [dir EXCEPT ![call[w].name] = NoFile]
    /\ Return(w, dir[call[w].name] # NoFile)
    /\ UNCHANGED <<dirExists, disk>>

\* The directory is small: one getdents returns all its entries.
ListDirectory(w) ==
    /\ call[w].at = "open"
    /\ call[w].fn = "listFiles"
    /\ dirExists
    /\ call' = [call EXCEPT ![w].at = "done", ![w].ok = TRUE, ![w].list = Present]
    /\ UNCHANGED <<dirExists, dir, disk>>

FsStep(w) ==
    \/ MakeDirectory(w)
    \/ MakeDirectoryFails(w)
    \/ OpenFails(w)
    \/ OpenToRead(w)
    \/ OpenToWrite(w)
    \/ ReadChunk(w)
    \/ Write(w)
    \/ WriteFails(w)
    \/ Remove(w)
    \/ ListDirectory(w)

-----------------------------------------------------------------------------
\* A call has a file open exactly while it uses it, has a name exactly if it
\* is about a file, makes only the system calls of its function, and has no
\* result before it has made one that gives it.
WellFormed(c) ==
    /\ c.at \in {"read", "write", "remove"} <=> c.ino # NoFile
    /\ c.at = "idle" <=> c.fn = "none"
    /\ c.at \in {"mkdir", "write", "thrown"} => c.fn = "writeFile"
    /\ c.at = "remove" => c.fn = "deleteFile"
    /\ c.at = "read" => c.fn = "readFile"
    /\ c.fn \in {"readFile", "writeFile", "deleteFile"} <=> c.name # NoName
    /\ c.at \in {"mkdir", "open", "thrown"} => c.out = <<>> /\ c.list = {}
    /\ c.at # "done" => ~c.ok

FsTypeOK ==
    /\ dirExists \in BOOLEAN
    /\ dir \in [Names -> Inodes \cup {NoFile}]
    /\ disk \in [Inodes -> Data]
    /\ call \in [Workers -> Calls]
    /\ \A w \in Workers : WellFormed(call[w])
=============================================================================
