-------------------------------- MODULE Wofs --------------------------------
(***************************************************************************)
(* The write-once file system of src/romfs.c: files as records in flash,   *)
(* the descriptor table, and power loss at any byte of a flash write.      *)
(*                                                                         *)
(* A record is the name with its 0 byte, padding, a deleted field, a size  *)
(* field and the data; the next record starts at the next multiple of      *)
(* ROMFS_ALIGN and the first erased byte (0xFF) there ends the list.  The  *)
(* size field stays erased until the file is closed.                       *)
(*                                                                         *)
(* Addresses are offsets in the area.  The u32 arithmetic of the code is   *)
(* kept as signed numbers: an address outside 0 .. MaxSize - 1 is outside  *)
(* the area either way.  Files are opened with the flags fopen and the     *)
(* shell use: "r", "w" (O_CREAT | O_TRUNC) and "a" (O_CREAT | O_APPEND).   *)
(* No caller bounds the length of a name, while the search reads the first *)
(* DM_MAX_FNAME_LENGTH bytes of one.                                       *)
(***************************************************************************)
EXTENDS Integers, Sequences, FiniteSets

CONSTANTS
  MaxSize,     \* max_size of the area, in bytes
  NameLength,  \* DM_MAX_FNAME_LENGTH
  MaxFds,      \* TOTAL_MAX_FDS
  SectorSize,  \* bytes per flash sector
  Names,       \* file names, in one case: the search does not tell cases apart
  Chunks,      \* what programs write: sequences of bytes
  MaxSteps,    \* bound: flash writes and erasures
  MaxSpoilt    \* bound: at most so many at all once the list is spoilt

AlignTo == 4      \* ROMFS_ALIGN, and the length of the deleted and size fields
Erased  == 255    \* WOFS_END_MARKER_CHAR
Deleted == 170    \* WOFS_FILE_DELETED
MinNeeded == 11   \* WOFS_MIN_NEEDED_SIZE
TopSize == 2147483647   \* the addresses of a flash fit into 31 bits

ASSUME ConstantsAssumption ==
  /\ MaxSize \in Nat \ {0} /\ MaxSize % AlignTo = 0 /\ MaxSize <= TopSize
  /\ NameLength \in Nat \ {0} /\ MaxFds \in Nat \ {0} /\ SectorSize \in Nat \ {0}
  /\ \A n \in Names : n \in Seq(1 .. 254) /\ Len(n) >= 1
  /\ <<1>> \notin Names         \* "a file with an invalid name"
  /\ \A s \in Chunks : s \in Seq(0 .. 255)
  /\ MaxSteps \in Nat /\ MaxSpoilt \in Nat

Addr  == 0 .. MaxSize - 1
Fds   == 1 .. MaxFds
NoFd  == [base |-> -1, offset |-> -1, size |-> -1, mode |-> "free", name |-> <<>>, of |-> <<>>]

VARIABLES
  flash,    \* the area: [Addr -> 0 .. 255]
  fds,      \* fd_table; name and of (history) say which file and its contents
  num_fd,   \* romfs_num_fd
  writing,  \* ROMFS_FS_FLAG_WRITING
  files,    \* history: contents of the closed files, by name
  torn,     \* history: "yes" once power was lost inside a record or a format did
            \* not come to its end, "spoilt" once a file was created after that, or
            \* one replaced that never was one, or one created whose name is too long
  twice,    \* history: a byte was changed that was not erased
  steps     \* bounded counter

vars == <<flash, fds, num_fd, writing, files, torn, twice, steps>>

NoFile == <<-1>>

Init ==
  /\ flash = [a \in Addr |-> Erased]
  /\ fds = [f \in Fds |-> NoFd] /\ num_fd = 0 /\ writing = "no"
  /\ files = [n \in Names |-> NoFile]
  /\ torn = "no" /\ twice = "no" /\ steps = 0

-----------------------------------------------------------------------------
(* Records *)

(* Round to a multiple of ROMFS_ALIGN. *)
RoundUp(x) == ((x + AlignTo - 1) \div AlignTo) * AlignTo

(* romfsh_read8: outside the area anything could be read; ScanStep stops there. *)
Read8(fl, a) == IF a \in Addr THEN fl[a] ELSE Erased

(* The number of name bytes before the 0 byte, at most NameLength. *)
NameLen(fl, i) ==
  LET zeros == {j \in 0 .. NameLength - 1 : Read8(fl, i + j) = 0}
  IN IF zeros = {} THEN NameLength ELSE CHOOSE j \in zeros : \A k \in zeros : j <= k

DelAddr(fl, i)  == RoundUp(i + NameLen(fl, i) + 1)
DataAddr(fl, i) == DelAddr(fl, i) + AlignTo + AlignTo

(* The size field at address a, 0xFFFFFFFF being -1. *)
SizeAt(fl, a) ==
  LET top == Read8(fl, a + 3)
  IN Read8(fl, a) + Read8(fl, a + 1) * 256 + Read8(fl, a + 2) * 65536
       + (IF top >= 128 THEN top - 256 ELSE top) * 16777216

RecordSize(fl, i) == SizeAt(fl, DelAddr(fl, i) + AlignTo)

(* How much of the name n the search compares. *)
Compared(n) == IF Len(n) <= NameLength THEN Len(n) ELSE NameLength

(* The name at i is n and the record is not deleted (strncasecmp). *)
IsFile(fl, i, n) ==
  /\ \A j \in 1 .. Compared(n) : Read8(fl, i + j - 1) = n[j]
  /\ NameLen(fl, i) = Compared(n)
  /\ Read8(fl, DelAddr(fl, i)) # Deleted

NextRecord(fl, i) == RoundUp(DataAddr(fl, i) + RecordSize(fl, i))

(* Where the loop of romfs_open_file goes from record i when it looks for   *)
(* n: it stays at the record it stops at, and anywhere outside the area is  *)
(* one place.                                                               *)
Outside == -1
ScanStep(fl, i, n) ==
  IF i = Outside \/ Read8(fl, i) = Erased \/ IsFile(fl, i, n) THEN i
  ELSE LET next == NextRecord(fl, i) IN IF next \in Addr THEN next ELSE Outside

(* romfs_open_file.  A record takes at least 12 bytes, so a scan that goes  *)
(* on after MaxSize \div AlignTo records has come back to one of them and   *)
(* never ends.                                                              *)
Scan(fl, n) ==
  LET p[k \in 0 .. MaxSize \div AlignTo] == IF k = 0 THEN 0 ELSE ScanStep(fl, p[k - 1], n)
  IN p[MaxSize \div AlignTo]

romfs_open_file(fl, n) ==
  LET i == Scan(fl, n)
  IN CASE i = Outside -> [res |-> "outside", at |-> i]
       [] i # Outside /\ Read8(fl, i) = Erased -> [res |-> "not_found", at |-> i]
       [] i # Outside /\ Read8(fl, i) # Erased /\ IsFile(fl, i, n) -> [res |-> "ok", at |-> i]
       [] OTHER -> [res |-> "endless", at |-> i]

Found(n) == romfs_open_file(flash, n)

(* The first free address: romfs_open_file looks for the name "\1".  That   *)
(* this name is met inside an interrupted record is left out.               *)
FirstFree(fl) == romfs_open_file(fl, <<1>>)

-----------------------------------------------------------------------------
(* Flash writes (writef, platform_flash_write): the bytes of s go to a,     *)
(* a + 1, ...  A platform that writes whole units writes the neighbours in  *)
(* the unit too, with the bytes it has just read there.                     *)
Put(fl, a, s) ==
  [x \in Addr |-> IF x - a + 1 \in DOMAIN s THEN s[x - a + 1] ELSE fl[x]]

(* The flash becomes fl.  Only an erased byte can take another value.       *)
Program(fl) ==
  /\ flash' = fl
  /\ twice' = IF \E a \in Addr : flash[a] \notin {Erased, fl[a]} THEN "yes" ELSE twice

CountStep ==
  /\ steps < (IF torn = "spoilt" THEN MaxSpoilt ELSE MaxSteps)
  /\ steps' = steps + 1

FreeFds == {f \in Fds : fds[f] = NoFd}

(* romfs_find_empty_fd *)
romfs_find_empty_fd == CHOOSE f \in FreeFds : \A g \in FreeFds : f <= g

(* romfs_open_r for reading: what is in the table afterwards.  The history  *)
(* field of is what the file contains, if it was closed.                    *)
OpenRead(n) ==
  LET found == Found(n)
      size == RecordSize(flash, found.at)
  IN /\ num_fd < MaxFds
     /\ found.res = "ok"
     /\ fds' = [fds EXCEPT ![romfs_find_empty_fd] =
          [base |-> DataAddr(flash, found.at), offset |-> 0, size |-> size,
           mode |-> "r", name |-> n, of |-> IF size < 0 THEN NoFile ELSE files[n]]]
     /\ num_fd' = num_fd + 1
     /\ UNCHANGED <<flash, writing, files, torn, twice, steps>>

(* What romfs_open_r checks before it changes anything: a free descriptor,  *)
(* the file must be new or truncated, and no other file is being written.   *)
MayCreate(n, mode) ==
  /\ num_fd < MaxFds
  /\ writing = "no"
  /\ Found(n).res \in (IF mode = "w" THEN {"ok", "not_found"} ELSE {"not_found"})

(* The flash after the old record of n, if any, has been marked deleted. *)
AfterDelete(n) ==
  LET found == Found(n)
  IN IF found.res = "ok" THEN Put(flash, DelAddr(flash, found.at), <<Deleted>>) ELSE flash

(* History: the record found under the name n is no closed file. *)
Phantom(n) == Found(n).res = "ok" /\ files[n] = NoFile

(* History: from here on records may run into what lies behind the list, or *)
(* a name is there that no search can tell from others.                     *)
Spoils(creates, n) == (torn # "no" \/ Len(n) > NameLength) /\ (creates \/ Phantom(n))

(* Faulty variant: the deleted field is not part of the space needed. *)
EnoughSpace_NoDel(free, n) == MaxSize - free + 1 >= Len(n) + 1 + MinNeeded

(* Is there enough space for another file? *)
EnoughSpace(free, n) == MaxSize - free + 1 >= Len(n) + 1 + MinNeeded + AlignTo

(* Where the data of a new file start. *)
NewBase(free, n) == RoundUp(free + Len(n) + 1) + AlignTo + AlignTo

(* romfs_open_r for writing.  An existing file is marked deleted before the *)
(* space is checked, so it is gone even if the call fails.                  *)
OpenWrite(n, mode) ==
  LET cleared == AfterDelete(n)
      last == FirstFree(cleared)
      free == last.at
  IN /\ CountStep /\ MayCreate(n, mode)
     /\ last.res = "not_found"
     /\ files' = [files EXCEPT ![n] = NoFile]
     /\ torn' = IF Spoils(EnoughSpace(free, n), n) THEN "spoilt" ELSE torn
     /\ IF EnoughSpace(free, n)
          THEN /\ Program(Put(cleared, free, Append(n, 0)))
               /\ writing' = "yes"
               /\ fds' = [fds EXCEPT ![romfs_find_empty_fd] =
                    [base |-> NewBase(free, n), offset |-> 0, size |-> 0,
                     mode |-> mode, name |-> n, of |-> <<>>]]
               /\ num_fd' = num_fd + 1
          ELSE /\ Program(cleared)
               /\ UNCHANGED <<fds, num_fd, writing>>

(* Faulty variant: the check keeps no byte free. *)
Accepted_All(d, s) == IF Len(s) < MaxSize - (d.base + d.size) THEN Len(s)
                      ELSE MaxSize - (d.base + d.size)

(* How much of s fits; ROMFS_ALIGN bytes are always kept. *)
Accepted(d, s) ==
  IF d.base + d.size + Len(s) > MaxSize - AlignTo
    THEN MaxSize - (d.base + d.size) - AlignTo
    ELSE Len(s)

(* Faulty variant: a write may start inside the file. *)
WritesHere_Anywhere(d) == TRUE

(* Only at the end of the file; append mode goes there first. *)
WritesHere(d) == d.mode = "a" \/ d.offset = d.size

romfs_write_r(f, s) ==
  LET d == fds[f]
      part == SubSeq(s, 1, Accepted(d, s))
      at == IF d.mode = "a" THEN d.size ELSE d.offset
  IN /\ d.mode \in {"w", "a"} /\ WritesHere(d) /\ CountStep
     /\ Program(Put(flash, d.base + at, part))
     /\ fds' = [fds EXCEPT ![f].offset = at + Len(part), ![f].size = @ + Len(part),
                           ![f].of = @ \o part]
     /\ UNCHANGED <<num_fd, writing, files, torn>>

(* romfs_read_r: up to len bytes from the offset.  Reading from a record    *)
(* whose size is more than the area holds (one never closed) is left out.   *)
romfs_read_r(f, len) ==
  LET left == fds[f].size - fds[f].offset
  IN /\ fds[f].mode = "r" /\ fds[f].size \in 0 .. MaxSize
     /\ fds' = [fds EXCEPT ![f].offset = @ + (IF len < left THEN len ELSE left)]
     /\ UNCHANGED <<flash, num_fd, writing, files, torn, twice, steps>>

(* romfs_lseek_r; a size below 0 is one of 2^31 or more. *)
romfs_lseek_r(f, pos) ==
  /\ fds[f].mode # "free"
  /\ pos <= fds[f].size \/ fds[f].size < 0
  /\ fds' = [fds EXCEPT ![f].offset = pos]
  /\ UNCHANGED <<flash, num_fd, writing, files, torn, twice, steps>>

(* Faulty variant: the two low bytes of the size change places. *)
SizeBytes_Swapped(k) == <<(k \div 256) % 256, k % 256, (k \div 65536) % 256, k \div 16777216>>

(* The four bytes of the size field. *)
SizeBytes(k) == <<k % 256, (k \div 256) % 256, (k \div 65536) % 256, k \div 16777216>>

(* romfs_close_r *)
romfs_close_r(f) ==
  LET d == fds[f]
  IN /\ d # NoFd
     /\ fds' = [fds EXCEPT ![f] = NoFd]
     /\ num_fd' = num_fd - 1
     /\ IF d.mode = "r"
          THEN UNCHANGED <<flash, writing, files, twice, steps>>
          ELSE /\ CountStep
               /\ Program(Put(flash, d.base - AlignTo, SizeBytes(d.size)))
               /\ writing' = "no"
               /\ files' = [files EXCEPT ![d.name] = d.of]
     /\ UNCHANGED torn

(* A reset: the descriptor table and the writing flag start afresh.         *)
Restarted ==
  /\ fds' = [f \in Fds |-> NoFd] /\ num_fd' = 0 /\ writing' = "no"

Interrupted(record) == torn' = IF record /\ torn = "no" THEN "yes" ELSE torn

(* A search that leaves the area or never ends: reading the list for name n *)
(* or, in romfs_open_r, for the first free address after the old record was *)
(* marked deleted.  Only a reset helps.                                     *)
SearchLost(n) ==
  /\ CountStep /\ Restarted
  /\ \/ /\ Found(n).res \in {"outside", "endless"}
        /\ Interrupted(writing = "yes")
        /\ UNCHANGED <<flash, twice, files>>
     \/ /\ MayCreate(n, "w")
        /\ FirstFree(AfterDelete(n)).res \in {"outside", "endless"}
        /\ Program(AfterDelete(n))
        /\ files' = [files EXCEPT ![n] = NoFile]
        /\ torn' = IF Spoils(FALSE, n) THEN "spoilt" ELSE torn

(* The sector that holds the first free address. *)
LastSector == FirstFree(flash).at \div SectorSize

(* wofs_format, from the shell: the sectors are erased one by one, from the *)
(* first to the last that is needed.  It ends behind sector k, before the   *)
(* last if the next cannot be erased or power is lost there.  The erasure   *)
(* of one sector is the platform's, and atomic here.                        *)
wofs_format(k) ==
  /\ num_fd = 0 /\ CountStep
  /\ FirstFree(flash).res = "not_found" /\ k <= LastSector
  /\ flash' = [a \in Addr |-> IF a \div SectorSize <= k THEN Erased ELSE flash[a]]
  /\ files' = [n \in Names |-> NoFile]
  /\ torn' = IF \A a \in Addr : flash'[a] = Erased THEN "no"
             ELSE IF k < LastSector /\ torn = "no" THEN "yes" ELSE torn
  /\ twice' = IF \A a \in Addr : flash'[a] = Erased THEN "no" ELSE twice
  /\ UNCHANGED <<fds, num_fd, writing>>

-----------------------------------------------------------------------------
(* Power is lost between two operations, *)
PowerLoss ==
  /\ \E f \in Fds : fds[f] # NoFd
  /\ Restarted /\ CountStep
  /\ Interrupted(writing = "yes")
  /\ UNCHANGED <<flash, files, twice>>

(* ... inside romfs_open_r, when the old record is marked and k bytes of    *)
(* the name are written, *)
PowerLossInOpen(n, k) ==
  LET cleared == AfterDelete(n)
      last == FirstFree(cleared)
  IN /\ CountStep /\ MayCreate(n, "w")
     /\ last.res = "not_found" /\ EnoughSpace(last.at, n)
     /\ Program(Put(cleared, last.at, SubSeq(Append(n, 0), 1, k)))
     /\ files' = [files EXCEPT ![n] = NoFile]
     /\ IF Spoils(k > 0, n) THEN torn' = "spoilt" ELSE Interrupted(k > 0)
     /\ Restarted

(* ... inside romfs_write_r, when k bytes of the data are written, *)
PowerLossInWrite(f, s, k) ==
  LET d == fds[f]
  IN /\ d.mode \in {"w", "a"} /\ WritesHere(d) /\ k < Accepted(d, s) /\ CountStep
     /\ Program(Put(flash, d.base + d.size, SubSeq(s, 1, k)))
     /\ Interrupted(TRUE)
     /\ Restarted
     /\ UNCHANGED files

(* ... inside romfs_close_r, when k bytes of the size field are written.    *)
PowerLossInClose(f, k) ==
  LET d == fds[f]
  IN /\ d.mode \in {"w", "a"} /\ CountStep
     /\ Program(Put(flash, d.base - AlignTo, SubSeq(SizeBytes(d.size), 1, k)))
     /\ Interrupted(TRUE)
     /\ Restarted
     /\ UNCHANGED files

Next ==
  \/ \E n \in Names : OpenRead(n) \/ OpenWrite(n, "w") \/ OpenWrite(n, "a")
  \/ \E f \in Fds : \/ \E s \in Chunks : romfs_write_r(f, s)
                    \/ romfs_read_r(f, MaxSize) \/ romfs_lseek_r(f, 0)
                    \/ romfs_close_r(f)
                    \/ \E s \in Chunks : \E k \in 1 .. Len(s) : PowerLossInWrite(f, s, k)
                    \/ \E k \in 1 .. 3 : PowerLossInClose(f, k)
  \/ \E n \in Names : SearchLost(n)
  \/ \E k \in 0 .. (MaxSize - 1) \div SectorSize : wofs_format(k)
  \/ PowerLoss
  \/ \E n \in Names : \E k \in 0 .. Len(n) : PowerLossInOpen(n, k)

Spec == Init /\ [][Next]_vars

-----------------------------------------------------------------------------
Bytes(base, size) == [j \in 1 .. size |-> Read8(flash, base + j - 1)]

(* Looking a name up finds the contents its file was closed with, and a     *)
(* descriptor opened for reading still sees the contents of its file,       *)
(* whatever was opened, written, truncated and written anew since, and      *)
(* through a loss of power at any byte, until a file is created behind an   *)
(* interrupted record or what an interrupted format left, or something in   *)
(* it is taken for a file and replaced, or a file gets a name longer than   *)
(* the search reads.                                                        *)
ContentsKept ==
  torn # "spoilt" =>
    /\ \A n \in Names : files[n] # NoFile =>
         LET found == Found(n)
         IN /\ found.res = "ok"
            /\ Bytes(DataAddr(flash, found.at), RecordSize(flash, found.at)) = files[n]
    /\ \A f \in Fds : (fds[f].mode = "r" /\ fds[f].of # NoFile) =>
         Bytes(fds[f].base, fds[f].size) = fds[f].of

(* A flash write changes a byte only while it is erased, as the flash       *)
(* requires, also after a format, which erases no more sectors than it must *)
(* - unless what an interrupted record or format left is taken for free     *)
(* space or for a file, or a name is too long.  That a whole write unit is  *)
(* written again with the bytes it has is not counted.                      *)
WriteOnce == twice = "yes" => torn = "spoilt"

(* While no record and no format is incomplete, a search for any name the   *)
(* search reads in full ends inside the area, and finds a file exactly if   *)
(* one of that name was closed.                                             *)
SearchEnds ==
  (torn = "no" /\ writing = "no") =>
    \A n \in Names : Len(n) <= NameLength =>
      Found(n).res = (IF files[n] = NoFile THEN "not_found" ELSE "ok")

(* The file being written leaves ROMFS_ALIGN bytes of the area free, so the *)
(* number of bytes romfs_write_r accepts, an unsigned difference, never     *)
(* wraps; and exactly one descriptor writes while the writing flag is set.  *)
SpaceKept ==
  LET writers == {f \in Fds : fds[f].mode \in {"w", "a"}}
  IN /\ \A f \in writers : fds[f].base + fds[f].size <= MaxSize - AlignTo
     /\ Cardinality(writers) = (IF writing = "yes" THEN 1 ELSE 0)
     /\ num_fd = Cardinality({f \in Fds : fds[f] # NoFd})

=============================================================================
