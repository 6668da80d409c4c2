--------------------------- MODULE FileSystemProofs ---------------------------
(***************************************************************************)
(* What the system calls of FileSystem keep and change, for any number of  *)
(* workers, names, files and bytes: the lemmas that the proofs about its   *)
(* two users, the CRUD handler and the Markdown handler, rest on.          *)
(***************************************************************************)
EXTENDS FileSystem, FiniteSetsExt, SequenceTheorems, WellFoundedInduction, TLAPS

(***************************************************************************)
(* The data operators.                                                     *)
(***************************************************************************)

\* A part of a file is data again.
LEMMA PartType ==
    ASSUME NEW d \in Data, NEW m \in 1 .. Len(d) + 1, NEW n \in 0 .. Len(d)
    PROVE  SubSeq(d, m, n) \in Data
<1>1. \A i \in m .. n : d[i] \in Byte
  BY DEF Data
<1> QED
  BY <1>1, SubSeqProperties DEF Data

\* What a write at the start of a file leaves in it is data.
LEMMA OverlayType ==
    ASSUME NEW d \in Data, NEW c \in Data
    PROVE  Overlay(d, c) \in Data
<1>1. \A i \in Len(c) + 1 .. Len(d) : d[i] \in Byte
  BY DEF Data
<1>2. SubSeq(d, Len(c) + 1, Len(d)) \in Data
  BY <1>1, SubSeqProperties DEF Data
<1> QED
  BY <1>2 DEF Overlay, Data

\* So is what readFile makes of it.
LEMMA LinesType ==
    ASSUME NEW d \in Data
    PROVE  Lines(d) \in Data
BY FileSystemAssumption DEF Lines, Data

\* What is written to an empty file is all that is in it then.
LEMMA OverlayEmpty ==
    ASSUME NEW c \in Data
    PROVE  Overlay(<<>>, c) = c
<1>1. Len(<<>>) = 0 /\ Len(c) \in Nat
  BY DEF Data
<1>2. SubSeq(<<>>, Len(c) + 1, Len(<<>>)) = <<>>
  BY <1>1, SubSeqEmpty
<1> QED
  BY <1>2, ConcatEmptySeq DEF Overlay, Data

\* A nonempty set of ints has a maximum: the differences to its bound are
\* natural numbers, and one of them is the least.
LEMMA MaxIsGreatest ==
    ASSUME NEW lo \in Int, NEW hi \in Int, NEW S, S \subseteq lo .. hi, S # {}
    PROVE  Max(S) \in S /\ \A x \in S : Max(S) >= x
<1> DEFINE T == {hi - x : x \in S}
<1>1. T \subseteq Nat /\ T # {}
  <2>1. \A x \in S : hi - x \in Nat
    OBVIOUS
  <2> QED
    BY <2>1
<1>2. PICK t \in T : \A u \in T : ~ (<<u, t>> \in OpToRel(<, Nat))
  BY <1>1, WFMin, NatLessThanWellFounded
<1>3. PICK m \in S : t = hi - m
  OBVIOUS
<1>4. \A x \in S : m >= x
  <2> SUFFICES ASSUME NEW x \in S PROVE m >= x
    OBVIOUS
  <2>1. hi - x \in T /\ hi - x \in Nat /\ t \in Nat
    BY <1>1
  <2>2. ~ (hi - x < t)
    BY <2>1, <1>2 DEF OpToRel
  <2> QED
    BY <2>2, <1>3
<1> QED
  BY <1>4 DEF Max

(***************************************************************************)
(* Type correctness.                                                       *)
(***************************************************************************)

\* A step that changes one worker's call into a well-formed one.
LEMMA CallUpdate ==
    ASSUME FsTypeOK, NEW w \in Workers, NEW c \in Calls, WellFormed(c),
           call' = [call EXCEPT ![w] = c]
    PROVE  call' \in [Workers -> Calls] /\ \A v \in Workers : WellFormed(call'[v])
BY DEF FsTypeOK

\* Every system call keeps the types of the disk and of the calls.
LEMMA FsStepType ==
    ASSUME FsTypeOK, NEW w \in Workers, FsStep(w)
    PROVE  FsTypeOK'
<1> DEFINE c == call[w]
<1>a. c \in Calls /\ WellFormed(c)
  BY DEF FsTypeOK
<1>b. dirExists \in BOOLEAN /\ dir \in [Names -> Inodes \cup {NoFile}]
      /\ disk \in [Inodes -> Data] /\ call \in [Workers -> Calls]
  BY DEF FsTypeOK
<1>c. SUFFICES /\ dirExists' \in BOOLEAN
               /\ dir' \in [Names -> Inodes \cup {NoFile}]
               /\ disk' \in [Inodes -> Data]
               /\ \E e \in Calls : WellFormed(e) /\ call' = [call EXCEPT ![w] = e]
  BY CallUpdate DEF FsTypeOK
<1> USE FileSystemAssumption DEF Calls, Functions, WellFormed
<1>1. CASE MakeDirectory(w)
  <2> DEFINE e == [c EXCEPT !.at = "open"]
  <2>1. e \in Calls /\ WellFormed(e)
    BY <1>1, <1>a DEF MakeDirectory
  <2>2. call' = [call EXCEPT ![w] = e]
    BY <1>1, <1>b DEF MakeDirectory
  <2> QED
    BY <1>1, <1>b, <2>1, <2>2 DEF MakeDirectory
<1>10. CASE MakeDirectoryFails(w)
  <2> DEFINE e == [c EXCEPT !.at = "thrown"]
  <2>1. e \in Calls /\ WellFormed(e)
    BY <1>10, <1>a DEF MakeDirectoryFails
  <2>2. call' = [call EXCEPT ![w] = e]
    BY <1>10, <1>b DEF MakeDirectoryFails
  <2> QED
    BY <1>10, <1>b, <2>1, <2>2 DEF MakeDirectoryFails
<1>2. CASE OpenFails(w)
  <2> DEFINE e == [c EXCEPT !.at = "done", !.ok = FALSE, !.ino = NoFile]
  <2>1. e \in Calls /\ WellFormed(e)
    BY <1>2, <1>a DEF OpenFails, Return
  <2>2. call' = [call EXCEPT ![w] = e]
    BY <1>2, <1>b DEF OpenFails, Return
  <2> QED
    BY <1>2, <1>b, <2>1, <2>2 DEF OpenFails, Return
<1>3. CASE OpenToRead(w)
  <2> DEFINE e == [c EXCEPT !.at = "read", !.ino = dir[c.name]]
  <2>1. e \in Calls /\ WellFormed(e)
    BY <1>3, <1>a, <1>b DEF OpenToRead
  <2>2. call' = [call EXCEPT ![w] = e]
    BY <1>3, <1>b DEF OpenToRead
  <2> QED
    BY <1>3, <1>b, <2>1, <2>2 DEF OpenToRead
<1>4. CASE OpenToWrite(w)
  <2>0. c.name \in Names
    BY <1>4, <1>a DEF OpenToWrite
  <2>1. PICK i \in Inodes :
           /\ dir' = [dir EXCEPT ![c.name] = i]
           /\ disk' = [disk EXCEPT ![i] = <<>>]
           /\ call' = [call EXCEPT
                 ![w].at = IF c.fn = "writeFile" THEN "write" ELSE "remove",
                 ![w].ino = i]
    BY <1>4, <1>b, <2>0 DEF OpenToWrite, FreeInodes
  <2> DEFINE e == [c EXCEPT
                    !.at = IF c.fn = "writeFile" THEN "write" ELSE "remove",
                    !.ino = i]
  <2>2. e \in Calls /\ WellFormed(e)
    BY <1>4, <1>a DEF OpenToWrite
  <2>3. call' = [call EXCEPT ![w] = e]
    BY <1>b, <2>1
  <2>4. <<>> \in Data
    BY DEF Data
  <2> QED
    BY <1>4, <1>b, <2>1, <2>2, <2>3, <2>4 DEF OpenToWrite
<1>5. CASE ReadChunk(w)
  <2> DEFINE d   == disk[c.ino]
             new == SubSeq(d, Len(c.out) + 1, Len(d))
  <2>1. c.out \in Data /\ d \in Data
    BY <1>5, <1>a, <1>b DEF ReadChunk
  <2>2. new \in Data
    <3>1. \A i \in Len(c.out) + 1 .. Len(d) : d[i] \in Byte
      BY <2>1 DEF Data
    <3> QED
      BY <3>1, <2>1, SubSeqProperties DEF Data
  <2>3. c.out \o new \in Data /\ Lines(c.out) \in Data
    BY <2>1, <2>2, LinesType DEF Data
  <2> DEFINE more == [c EXCEPT !.out = c.out \o new]
             end  == [c EXCEPT !.at = "done", !.ok = TRUE,
                               !.ino = NoFile, !.out = Lines(c.out)]
  <2>4. \/ call' = [call EXCEPT ![w] = more]
        \/ call' = [call EXCEPT ![w] = end]
    BY <1>5, <1>b DEF ReadChunk
  <2>5. more \in Calls /\ WellFormed(more)
    BY <1>5, <1>a, <2>3 DEF ReadChunk
  <2>6. end \in Calls /\ WellFormed(end)
    BY <1>5, <1>a, <2>3 DEF ReadChunk
  <2> QED
    BY <1>5, <1>b, <2>4, <2>5, <2>6 DEF ReadChunk
<1>6. CASE Write(w)
  <2> DEFINE e == [c EXCEPT !.at = "done", !.ok = TRUE, !.ino = NoFile]
  <2>1. e \in Calls /\ WellFormed(e) /\ c.ino \in Inodes /\ c.data \in Data
    BY <1>6, <1>a DEF Write, Return
  <2>2. call' = [call EXCEPT ![w] = e]
    BY <1>6, <1>b DEF Write, Return
  <2>3. Overlay(disk[c.ino], c.data) \in Data
    BY <1>b, <2>1, OverlayType
  <2> QED
    BY <1>6, <1>b, <2>1, <2>2, <2>3 DEF Write
<1>7. CASE WriteFails(w)
  <2> DEFINE e == [c EXCEPT !.at = "done", !.ok = TRUE, !.ino = NoFile]
  <2>1. e \in Calls /\ WellFormed(e) /\ c.ino \in Inodes /\ c.data \in Data
    BY <1>7, <1>a DEF WriteFails, Return
  <2>2. call' = [call EXCEPT ![w] = e]
    BY <1>7, <1>b DEF WriteFails, Return
  <2>3. PICK k \in 0 .. Len(c.data) - 1 :
           disk' = [disk EXCEPT ![c.ino] = Overlay(@, SubSeq(c.data, 1, k))]
    BY <1>7 DEF WriteFails
  <2>4. SubSeq(c.data, 1, k) \in Data
    <3> HIDE DEF c, e
    <3>1. c.data \in Data /\ Len(c.data) \in Nat
      BY <2>1 DEF Data
    <3>2. k \in 0 .. Len(c.data) /\ 1 \in 1 .. Len(c.data) + 1
      BY <3>1
    <3> QED
      BY <3>1, <3>2, PartType
  <2>5. Overlay(disk[c.ino], SubSeq(c.data, 1, k)) \in Data
    BY <1>b, <2>1, <2>4, OverlayType
  <2> QED
    BY <1>7, <1>b, <2>1, <2>2, <2>3, <2>5 DEF WriteFails
<1>8. CASE Remove(w)
  <2> DEFINE e == [c EXCEPT !.at = "done", !.ok = (dir[c.name] # NoFile),
                            !.ino = NoFile]
  <2>1. e \in Calls /\ WellFormed(e)
    BY <1>8, <1>a DEF Remove, Return
  <2>2. call' = [call EXCEPT ![w] = e]
    BY <1>8, <1>b DEF Remove, Return
  <2> QED
    BY <1>8, <1>b, <2>1, <2>2 DEF Remove
<1>9. CASE ListDirectory(w)
  <2> DEFINE e == [c EXCEPT !.at = "done", !.ok = TRUE, !.list = Present]
  <2>1. e \in Calls /\ WellFormed(e)
    BY <1>9, <1>a DEF ListDirectory, Present
  <2>2. call' = [call EXCEPT ![w] = e]
    BY <1>9, <1>b DEF ListDirectory
  <2> QED
    BY <1>9, <1>b, <2>1, <2>2 DEF ListDirectory
<1> QED
  BY <1>1, <1>2, <1>3, <1>4, <1>5, <1>6, <1>7, <1>8, <1>9, <1>10 DEF FsStep

\* A system call is made within the call of one worker: it leaves the calls
\* of the others, and the arguments of this one, as they are.  Only a readFile
\* returns a content, and only listFiles a listing.
LEMMA FsStepFrame ==
    ASSUME FsTypeOK, NEW w \in Workers, FsStep(w)
    PROVE  /\ \A v \in Workers \ {w} : call'[v] = call[v]
           /\ call[w].at \notin {"idle", "done", "thrown"} /\ call'[w].at # "idle"
           /\ call'[w].fn = call[w].fn
           /\ call'[w].name = call[w].name
           /\ call'[w].data = call[w].data
           /\ call[w].fn # "readFile" => call'[w].out = call[w].out
           /\ call[w].fn # "listFiles" => call'[w].list = call[w].list
<1>1. call \in [Workers -> Calls] /\ call[w] \in Calls
  BY DEF FsTypeOK
<1> USE DEF Calls
<1>2. CASE MakeDirectory(w) \/ MakeDirectoryFails(w) \/ OpenFails(w) \/ Remove(w)
  BY <1>1, <1>2 DEF MakeDirectory, MakeDirectoryFails, OpenFails, Remove, Return
<1>3. CASE OpenToRead(w) \/ OpenToWrite(w) \/ ListDirectory(w)
  BY <1>1, <1>3 DEF OpenToRead, OpenToWrite, ListDirectory
<1>4. CASE ReadChunk(w)
  <2>1. call[w].fn = "readFile"
    BY <1>4 DEF ReadChunk, FsTypeOK, WellFormed
  <2> QED
    BY <1>1, <1>4, <2>1 DEF ReadChunk
<1>5. CASE Write(w) \/ WriteFails(w)
  BY <1>1, <1>5 DEF Write, WriteFails, Return
<1> QED
  BY <1>2, <1>3, <1>4, <1>5 DEF FsStep

\* The four calls as their callers make them.
LEMMA CallTypes ==
    ASSUME NEW n \in Names, NEW d \in Data
    PROVE  /\ readFile(n) \in Calls /\ WellFormed(readFile(n))
           /\ writeFile(n, d) \in Calls /\ WellFormed(writeFile(n, d))
           /\ deleteFile(n) \in Calls /\ WellFormed(deleteFile(n))
           /\ listFiles \in Calls /\ WellFormed(listFiles)
           /\ NoCall \in Calls /\ WellFormed(NoCall)
<1>0. <<>> \in Data
  BY DEF Data
<1>1. NoCall \in Calls /\ NoCall.name = NoName /\ NoCall.ino = NoFile
      /\ ~NoCall.ok /\ NoCall.out = <<>> /\ NoCall.list = {}
  BY <1>0 DEF NoCall, Calls
<1> USE <1>1, FileSystemAssumption DEF Calls, Functions, WellFormed
<1>2. readFile(n) \in Calls /\ WellFormed(readFile(n))
  BY DEF readFile
<1>3. writeFile(n, d) \in Calls /\ WellFormed(writeFile(n, d))
  BY DEF writeFile
<1>4. deleteFile(n) \in Calls /\ WellFormed(deleteFile(n))
  BY DEF deleteFile
<1>5. listFiles \in Calls /\ WellFormed(listFiles)
  BY DEF listFiles
<1>6. WellFormed(NoCall)
  BY DEF NoCall
<1> QED
  BY <1>2, <1>3, <1>4, <1>5, <1>6

(***************************************************************************)
(* The directory and the files.                                            *)
(***************************************************************************)

\* There are no files before there is a directory.
NoDirectory == ~dirExists => \A n \in Names : dir[n] = NoFile

\* No file has two names.
Linked ==
    \A n, m \in Names : dir[n] = dir[m] /\ dir[n] # NoFile => n = m

\* A request writes to, or removes, the file of no other name than its own.
OwnFile ==
    \A w \in Workers : \A n \in Names :
        call[w].at \in {"write", "remove"} /\ call[w].ino = dir[n]
          => n = call[w].name

\* What one system call may do to the directory.
LEMMA FsStepDir ==
    ASSUME FsTypeOK, NoDirectory, NEW w \in Workers, FsStep(w)
    PROVE  /\ NoDirectory'
           /\ \A n \in Names : dir[n] # NoFile /\ dir'[n] = NoFile
                => call[w].fn = "deleteFile" /\ call[w].name = n
           /\ \A n \in Names : dir[n] = NoFile /\ dir'[n] # NoFile => Touches(w, n)
           /\ call'[w].at = "write" => dir'[call[w].name] # NoFile
           /\ call[w].fn = "writeFile" /\ call'[w].at = "done" /\ call'[w].ok
                => call[w].at = "write"
           /\ call[w].fn = "deleteFile" /\ call'[w].at = "done"
                => ("open" \notin Faults \/ call'[w].ok => dir'[call[w].name] = NoFile)
<1> DEFINE c == call[w]
<1>a. /\ c \in Calls /\ WellFormed(c) /\ call \in [Workers -> Calls]
      /\ dir \in [Names -> Inodes \cup {NoFile}]
  BY DEF FsTypeOK
<1>b. c.fn \in {"writeFile", "deleteFile", "readFile"} => c.name \in Names
  BY <1>a DEF Calls, WellFormed
<1> USE DEF Calls
<1>1. CASE MakeDirectory(w) \/ MakeDirectoryFails(w)
  BY <1>1, <1>a DEF MakeDirectory, MakeDirectoryFails, NoDirectory, WellFormed
<1>2. CASE OpenFails(w)
  BY <1>2, <1>a, <1>b DEF OpenFails, Return, NoDirectory, WellFormed
<1>3. CASE OpenToRead(w)
  BY <1>3, <1>a DEF OpenToRead, NoDirectory, WellFormed
<1>4. CASE OpenToWrite(w)
  <2>0. c.name \in Names
    BY <1>4, <1>b DEF OpenToWrite
  <2>1. PICK i \in IF dir[c.name] # NoFile THEN {dir[c.name]} ELSE FreeInodes :
           /\ dir' = [dir EXCEPT ![c.name] = i]
           /\ call' = [call EXCEPT
                 ![w].at = IF c.fn = "writeFile" THEN "write" ELSE "remove",
                 ![w].ino = i]
    BY <1>4 DEF OpenToWrite
  <2>2. i # NoFile /\ dirExists /\ dirExists' = dirExists
    BY <1>4, <2>1, FileSystemAssumption DEF OpenToWrite, FreeInodes
  <2>3. call'[w].at \in {"write", "remove"}
    BY <1>a, <2>1
  <2> QED
    BY <1>4, <1>a, <1>b, <2>1, <2>2, <2>3 DEF OpenToWrite, NoDirectory, Touches
<1>5. CASE ReadChunk(w)
  <2>1. call'[w].at \in {"read", "done"} /\ c.fn = "readFile"
    BY <1>5, <1>a DEF ReadChunk, WellFormed
  <2> QED
    BY <1>5, <1>a, <2>1 DEF ReadChunk, NoDirectory
<1>6. CASE Write(w) \/ WriteFails(w)
  BY <1>6, <1>a DEF Write, WriteFails, Return, NoDirectory, WellFormed
<1>7. CASE Remove(w)
  BY <1>7, <1>a, <1>b DEF Remove, Return, NoDirectory, WellFormed
<1>8. CASE ListDirectory(w)
  BY <1>8, <1>a DEF ListDirectory, NoDirectory, WellFormed
<1> QED
  BY <1>1, <1>2, <1>3, <1>4, <1>5, <1>6, <1>7, <1>8 DEF FsStep

\* listFiles is one system call.  It returns every file there is, or none.
LEMMA FsStepList ==
    ASSUME FsTypeOK, NoDirectory, NEW w \in Workers, FsStep(w),
           call[w].fn = "listFiles"
    PROVE  /\ UNCHANGED <<dir, disk>> /\ call'[w].at = "done"
           /\ call'[w].list = IF call'[w].ok THEN Present ELSE {}
           /\ "open" \notin Faults => \A n \in Names : dir[n] # NoFile => n \in call'[w].list
<1>1. call[w].at = "open" /\ call[w].list = {} /\ call \in [Workers -> Calls]
  BY FsStepFrame DEF FsTypeOK, WellFormed, Calls
<1>2. CASE ListDirectory(w)
  BY <1>1, <1>2 DEF ListDirectory, Present, Calls
<1>3. CASE OpenFails(w)
  BY <1>1, <1>3 DEF OpenFails, Return, NoDirectory, Calls
<1> QED
  BY <1>1, <1>2, <1>3 DEF FsStep, MakeDirectory, MakeDirectoryFails, OpenToRead,
                          OpenToWrite, ReadChunk, Write, WriteFails, Remove

\* All of a file that holds d is read by one read, and nothing by the next.
LEMMA ReadRest ==
    ASSUME NEW d \in Data, NEW got \in {<<>>, d}
    PROVE  SubSeq(d, Len(got) + 1, Len(d)) = IF got = <<>> THEN d ELSE <<>>
<1>1. Len(<<>>) = 0 /\ Len(d) \in Nat /\ d \in Seq(Byte)
  BY DEF Data
<1>2. SubSeq(d, 1, Len(d)) = d
  BY <1>1, SubSeqFull
<1>3. SubSeq(d, Len(d) + 1, Len(d)) = <<>>
  BY <1>1, SubSeqEmpty
<1>4. d = <<>> => SubSeq(d, Len(got) + 1, Len(d)) = <<>>
  BY <1>1, <1>3
<1> QED
  BY <1>1, <1>2, <1>3, <1>4

\* readFile changes nothing, opens the file that its name is linked to, and if
\* it starts with the content of that file, or with nothing, it goes on so
\* and ends with that content, its last line ended.
LEMMA FsStepRead ==
    ASSUME FsTypeOK, NEW w \in Workers, FsStep(w), call[w].fn = "readFile"
    PROVE  /\ UNCHANGED <<dir, disk>>
           /\ call'[w].at \in {"read", "done"}
           /\ call[w].at = "open" /\ call'[w].at = "read" =>
                /\ call'[w].ino = dir[call[w].name] /\ dir[call[w].name] # NoFile
                /\ call'[w].out = <<>>
           /\ call[w].at = "open" /\ call'[w].at = "done" => ~call'[w].ok
           /\ call[w].at = "read" /\ call[w].out \in {<<>>, disk[call[w].ino]} =>
                /\ call'[w].at = "read" => /\ call'[w].ino = call[w].ino
                                          /\ call'[w].out = disk[call[w].ino]
                /\ call'[w].at = "done" => call'[w].out = Lines(disk[call[w].ino])
<1> DEFINE c == call[w]
<1>a. /\ c \in Calls /\ WellFormed(c) /\ call \in [Workers -> Calls]
      /\ disk \in [Inodes -> Data]
  BY DEF FsTypeOK
<1>1. CASE OpenFails(w)
  BY <1>1, <1>a DEF OpenFails, Return, Calls
<1>2. CASE OpenToRead(w)
  BY <1>2, <1>a DEF OpenToRead, WellFormed, Calls
<1>3. CASE ReadChunk(w)
  <2> DEFINE d == disk[c.ino]
             new == SubSeq(d, Len(c.out) + 1, Len(d))
  <2>1. c.at = "read" /\ d \in Data /\ UNCHANGED <<dir, disk>>
    BY <1>3, <1>a DEF ReadChunk, WellFormed, Calls
  <2>2. call' = IF new # <<>>
                THEN [call EXCEPT ![w].out = c.out \o new]
                ELSE [call EXCEPT ![w].at = "done", ![w].ok = TRUE,
                                  ![w].ino = NoFile, ![w].out = Lines(c.out)]
    BY <1>3 DEF ReadChunk
  <2> HIDE DEF d, new
  <2>3. CASE new # <<>>
    <3>1. /\ call'[w].at = "read" /\ call'[w].ino = c.ino
          /\ call'[w].out = c.out \o new
      BY <1>a, <2>1, <2>2, <2>3 DEF Calls
    <3>2. c.out \in {<<>>, d} => c.out = <<>> /\ new = d
      BY <2>1, <2>3, ReadRest DEF new
    <3>3. <<>> \o d = d
      BY <2>1, ConcatEmptySeq DEF Data
    <3> QED
      BY <2>1, <3>1, <3>2, <3>3 DEF d
  <2>4. CASE new = <<>>
    <3>1. call'[w].at = "done" /\ call'[w].out = Lines(c.out)
      BY <1>a, <2>1, <2>2, <2>4 DEF Calls
    <3>2. c.out \in {<<>>, d} => c.out = d
      BY <2>1, <2>4, ReadRest DEF new
    <3> QED
      BY <2>1, <3>1, <3>2 DEF d
  <2> QED
    BY <2>3, <2>4
<1> QED
  BY <1>a, <1>1, <1>2, <1>3 DEF FsStep, MakeDirectory, MakeDirectoryFails, OpenToWrite, Write,
                          WriteFails, Remove, ListDirectory, WellFormed

\* What one system call may do to the files.
LEMMA FsStepDisk ==
    ASSUME FsTypeOK, NoDirectory, Linked, OwnFile, "write" \notin Faults,
           NEW w \in Workers, FsStep(w)
    PROVE  /\ Linked' /\ OwnFile'
           /\ \A n \in Names : dir[n] # NoFile /\ ~ Touches(w, n)
                => dir'[n] = dir[n] /\ disk'[dir[n]] = disk[dir[n]]
           /\ call'[w].at \in {"write", "remove"}
                => dir'[call[w].name] = call'[w].ino /\ disk'[call'[w].ino] = <<>>
           /\ call[w].fn = "writeFile" /\ call'[w].at = "done" /\ call'[w].ok
                => /\ call[w].at = "write" /\ dir' = dir
                   /\ disk'[call[w].ino] = Overlay(disk[call[w].ino], call[w].data)
<1> DEFINE c == call[w]
<1>a. /\ c \in Calls /\ WellFormed(c) /\ call \in [Workers -> Calls]
      /\ dir \in [Names -> Inodes \cup {NoFile}] /\ disk \in [Inodes -> Data]
  BY DEF FsTypeOK
<1>b. \A v \in Workers \ {w} : call'[v] = call[v]
  BY FsStepFrame
<1>c. c.fn \in {"writeFile", "deleteFile"} => c.name \in Names
  BY <1>a DEF Calls, WellFormed
<1>d. \A v \in Workers : call[v].at \in {"write", "remove"} => call[v].ino # NoFile
  BY DEF FsTypeOK, WellFormed
<1> USE DEF Calls
<1>1. CASE UNCHANGED <<dir, disk>> /\ call'[w].at \notin {"write", "remove"}
           /\ ~ (c.fn = "writeFile" /\ call'[w].at = "done" /\ call'[w].ok)
  BY <1>1, <1>b DEF Linked, OwnFile
<1>2. CASE OpenToWrite(w)
  <2>0. c.name \in Names /\ c.fn \in {"writeFile", "deleteFile"} /\ Touches(w, c.name)
    BY <1>2, <1>c DEF OpenToWrite, Touches
  <2>1. PICK i \in IF dir[c.name] # NoFile THEN {dir[c.name]} ELSE FreeInodes :
           /\ dir' = [dir EXCEPT ![c.name] = i]
           /\ disk' = [disk EXCEPT ![i] = <<>>]
           /\ call' = [call EXCEPT
                 ![w].at = IF c.fn = "writeFile" THEN "write" ELSE "remove",
                 ![w].ino = i]
    BY <1>2 DEF OpenToWrite
  <2>2. i \in Inodes /\ i # NoFile
    BY <1>a, <2>0, <2>1, FileSystemAssumption DEF FreeInodes
  <2>3. \A n \in Names : dir[n] = i => n = c.name
    BY <1>a, <2>0, <2>1 DEF FreeInodes, Linked
  <2>4. \A v \in Workers : call[v].at \in {"write", "remove"} /\ call[v].ino = i
                             => call[v].name = c.name
    BY <1>a, <2>0, <2>1 DEF FreeInodes, OwnFile
  <2>5. /\ call'[w].ino = i /\ call'[w].name = c.name
        /\ call'[w].at \in {"write", "remove"}
    BY <1>a, <2>1
  <2>6. dir'[c.name] = i /\ \A n \in Names \ {c.name} : dir'[n] = dir[n]
    BY <1>a, <2>0, <2>1
  <2>7. disk'[i] = <<>> /\ \A j \in Inodes \ {i} : disk'[j] = disk[j]
    BY <1>a, <2>1, <2>2
  <2>8. Linked'
    BY <2>3, <2>6 DEF Linked
  <2>9. OwnFile'
    <3> SUFFICES ASSUME NEW v \in Workers, NEW n \in Names,
                        call'[v].at \in {"write", "remove"}, call'[v].ino = dir'[n]
                 PROVE  n = call'[v].name
      BY DEF OwnFile
    <3>1. CASE v = w
      BY <2>3, <2>5, <2>6, <3>1
    <3>2. CASE v # w /\ n = c.name
      BY <1>b, <2>4, <2>6, <3>2
    <3>3. CASE v # w /\ n # c.name
      BY <1>b, <2>6, <3>3 DEF OwnFile
    <3> QED
      BY <3>1, <3>2, <3>3
  <2> QED
    BY <1>a, <2>0, <2>3, <2>5, <2>6, <2>7, <2>8, <2>9 DEF Touches
<1>3. CASE Write(w)
  <2>1. /\ UNCHANGED dir /\ c.at = "write" /\ c.fn = "writeFile"
        /\ call'[w].at = "done" /\ c.ino \in Inodes
        /\ disk' = [disk EXCEPT ![c.ino] = Overlay(@, c.data)]
    BY <1>3, <1>a, <1>d DEF Write, Return, WellFormed
  <2>2. OwnFile' /\ Linked'
    BY <1>b, <2>1 DEF OwnFile, Linked
  <2>3. \A n \in Names : dir[n] = c.ino => Touches(w, n)
    BY <2>1 DEF OwnFile, Touches
  <2>4. disk'[c.ino] = Overlay(disk[c.ino], c.data)
        /\ \A j \in Inodes \ {c.ino} : disk'[j] = disk[j]
    BY <1>a, <2>1
  <2> QED
    BY <1>a, <2>1, <2>2, <2>3, <2>4
<1>4. CASE Remove(w)
  <2>1. /\ UNCHANGED disk /\ c.fn = "deleteFile" /\ c.name \in Names
        /\ call'[w].at = "done" /\ dir' = [dir EXCEPT ![c.name] = NoFile]
    BY <1>4, <1>a, <1>c DEF Remove, Return, WellFormed
  <2>2. dir'[c.name] = NoFile /\ \A n \in Names \ {c.name} : dir'[n] = dir[n]
    BY <1>a, <2>1
  <2>3. Linked'
    BY <2>2 DEF Linked
  <2>4. OwnFile'
    BY <1>b, <1>d, <2>1, <2>2 DEF OwnFile
  <2> QED
    BY <1>a, <2>1, <2>2, <2>3, <2>4 DEF Touches
<1>5. CASE \/ MakeDirectory(w) \/ MakeDirectoryFails(w) \/ OpenToRead(w)
           \/ ListDirectory(w) \/ OpenFails(w)
  <2>1. UNCHANGED <<dir, disk>> /\ call'[w].at \notin {"write", "remove"}
        /\ ~ (c.fn = "writeFile" /\ call'[w].at = "done" /\ call'[w].ok)
    BY <1>5, <1>a DEF MakeDirectory, MakeDirectoryFails, OpenToRead, ListDirectory, OpenFails, Return
  <2> QED
    BY <1>1, <2>1
<1>6. CASE ReadChunk(w)
  <2>1. UNCHANGED <<dir, disk>> /\ c.fn = "readFile" /\ call'[w].at \in {"read", "done"}
    BY <1>6, <1>a DEF ReadChunk, WellFormed
  <2> QED
    BY <1>1, <2>1
<1>7. ~ WriteFails(w)
  BY DEF WriteFails
<1> QED
  BY <1>2, <1>3, <1>4, <1>5, <1>6, <1>7 DEF FsStep
=============================================================================
