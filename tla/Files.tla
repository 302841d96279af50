------------------------------- MODULE Files -------------------------------
(***************************************************************************)
(* What the file system promises its clients: a directory, in which a      *)
(* deleted entry's place is taken by the last one, of files that are       *)
(* sequences of cells, each written with the name of the file it is        *)
(* written to; open files with a position; and a listing that              *)
(* returns the names one by one.  A call that needs space fails only when  *)
(* there is none left.  Implemented by Ktfs (src/src/modified/sys/ktfs.c). *)
(***************************************************************************)
EXTENDS Integers, Sequences, SequencesExt

CONSTANTS
  Name,     \* the names of files
  Handle,   \* open files a client may have
  Cell,     \* what a position of a file may hold
  Reqs,     \* the sizes of reads and writes (bound)
  Ends,     \* the arguments of SETPOS and SETEND (bound)
  MaxSize   \* the most cells a file has

VARIABLES
  dir,      \* the names of the existing files, in directory order
  content,  \* content[n]: the cells of file n, <<>> if there is none
  file,     \* file[h]: the file open at h and its position, or NotOpen
  listing,  \* entries the listing has returned, or NoListing
  call,     \* the last call and its arguments
  ret,      \* its result: a number and the data returned
  full      \* is there no room for another file, or none for its data?

vars == <<dir, content, file, listing, call, ret, full>>

NotOpen   == [name |-> "none", pos |-> 0]
NoListing == -1
ERR       == -1

Result(rc, out) == ret' = [rc |-> rc, out |-> out]
Data(n)   == <<"data", n>>
Cells(h)  == content[file[h].name]
IsOpen(n) == \E h \in Handle : file[h].name = n
Exists(n) == n \in Range(dir)

(* s with len cells v written over it from position p on.                  *)
Overwrite(s, p, len, v) ==
  [k \in 1 .. (IF p + len > Len(s) THEN p + len ELSE Len(s)) |->
     IF k \in p + 1 .. p + len THEN v ELSE s[k]]

(* dir without its entry i, whose place the last entry takes.              *)
Without(i) == SubSeq([dir EXCEPT ![i] = Last(dir)], 1, Len(dir) - 1)

Init ==
  /\ dir = <<>>
  /\ content = [n \in Name |-> <<>>]
  /\ file = [h \in Handle |-> NotOpen]
  /\ listing = NoListing
  /\ call = <<>>
  /\ ret = [rc |-> 0, out |-> <<>>]
  /\ full \in BOOLEAN

Create(n) ==
  /\ call' = <<"create", n>>
  /\ ~Exists(n)
  /\ dir' = Append(dir, n)
  /\ Result(0, <<>>)
  /\ UNCHANGED <<content, file, listing>>

(* With the file system full a creation may report success all the same.   *)
CreateFails(n) ==
  /\ call' = <<"create", n>>
  /\ \/ Exists(n) /\ Result(ERR, <<>>)
     \/ full' /\ ~Exists(n) /\ \E rc \in {0, ERR} : Result(rc, <<>>)
  /\ UNCHANGED <<dir, content, file, listing>>

Delete(n) ==
  /\ call' = <<"delete", n>>
  /\ \E i \in DOMAIN dir : dir[i] = n /\ dir' = Without(i)
  /\ content' = [content EXCEPT ![n] = <<>>]
  /\ Result(0, <<>>)
  /\ UNCHANGED <<file, listing>>

Open(h, n) ==
  /\ call' = <<"open", h, n>>
  /\ file[h] = NotOpen /\ Exists(n)
  /\ file' = [file EXCEPT ![h] = [name |-> n, pos |-> 0]]
  /\ Result(0, <<>>)
  /\ UNCHANGED <<dir, content, listing>>

NoEntry(n) ==
  /\ \/ call' = <<"delete", n>>
     \/ \E h \in Handle : file[h] = NotOpen /\ call' = <<"open", h, n>>
  /\ ~Exists(n)
  /\ Result(ERR, <<>>)
  /\ UNCHANGED <<dir, content, file, listing>>

Close(h) ==
  /\ call' = <<"close", h>>
  /\ file[h] # NotOpen
  /\ file' = [file EXCEPT ![h] = NotOpen]
  /\ Result(0, <<>>)
  /\ UNCHANGED <<dir, content, listing>>

Fetch(h, n) ==
  /\ call' = <<"fetch", h, n>>
  /\ file[h] # NotOpen
  /\ LET p   == file[h].pos
         len == Len(Cells(h))
         out == SubSeq(Cells(h), p + 1, IF p + n < len THEN p + n ELSE len)
     IN /\ Result(Len(out), out)
        /\ file' = [file EXCEPT ![h].pos = @ + Len(out)]
  /\ UNCHANGED <<dir, content, listing>>

Store(h, n) ==
  /\ call' = <<"store", h, n>>
  /\ file[h] # NotOpen
  /\ content' = [content EXCEPT ![file[h].name] =
                    Overwrite(@, file[h].pos, n, Data(file[h].name))]
  /\ file' = [file EXCEPT ![h].pos = @ + n]
  /\ Result(n, <<>>)
  /\ UNCHANGED <<dir, listing>>

(* A write that fails half-way has written some of its bytes over the file,*)
(* and has not made it longer.                                             *)
StoreFails(h, n) ==
  /\ call' = <<"store", h, n>>
  /\ file[h] # NotOpen /\ (full' \/ file[h].pos + n > MaxSize)
  /\ \E k \in 0 .. n - 1 :
       content' = [content EXCEPT ![file[h].name] =
         SubSeq(Overwrite(@, file[h].pos, k, Data(file[h].name)), 1, Len(@))]
  /\ Result(ERR, <<>>)
  /\ UNCHANGED <<dir, file, listing>>

GetEnd(h) ==
  /\ call' = <<"getend", h>>
  /\ file[h] # NotOpen
  /\ Result(Len(Cells(h)), <<>>)
  /\ UNCHANGED <<dir, content, file, listing>>

GetPos(h) ==
  /\ call' = <<"getpos", h>>
  /\ file[h] # NotOpen
  /\ Result(file[h].pos, <<>>)
  /\ UNCHANGED <<dir, content, file, listing>>

SetPos(h, p) ==
  /\ call' = <<"setpos", h, p>>
  /\ file[h] # NotOpen
  /\ IF p <= Len(Cells(h))
       THEN file' = [file EXCEPT ![h].pos = p] /\ Result(0, <<>>)
       ELSE Result(ERR, <<>>) /\ UNCHANGED file
  /\ UNCHANGED <<dir, content, listing>>

(* A file that is made longer keeps its cells; the new ones are anything.  *)
SetEnd(h, n) ==
  /\ call' = <<"setend", h, n>>
  /\ file[h] # NotOpen /\ n <= MaxSize
  /\ LET new == content'[file[h].name] IN
       /\ new \in Seq(Cell) /\ Len(new) = n
       /\ \A k \in 1 .. n : k <= Len(Cells(h)) => new[k] = Cells(h)[k]
       /\ content' = [content EXCEPT ![file[h].name] = new]
  /\ file' = [file EXCEPT ![h].pos = IF @ > n THEN n ELSE @]
  /\ Result(0, <<>>)
  /\ UNCHANGED <<dir, listing>>

SetEndFails(h, n) ==
  /\ call' = <<"setend", h, n>>
  /\ file[h] # NotOpen
  /\ n > MaxSize \/ (full' /\ n > Len(Cells(h)))
  /\ Result(ERR, <<>>)
  /\ UNCHANGED <<dir, content, file, listing>>

OpenListing ==
  /\ call' = <<"openlisting">>
  /\ listing = NoListing
  /\ listing' = 0
  /\ Result(0, <<>>)
  /\ UNCHANGED <<dir, content, file>>

ReadListing ==
  /\ call' = <<"readlisting">>
  /\ listing # NoListing
  /\ IF listing < Len(dir)
       THEN Result(1, <<dir[listing + 1]>>) /\ listing' = listing + 1
       ELSE Result(0, <<>>) /\ UNCHANGED listing
  /\ UNCHANGED <<dir, content, file>>

CloseListing ==
  /\ call' = <<"closelisting">>
  /\ listing # NoListing
  /\ listing' = NoListing
  /\ Result(0, <<>>)
  /\ UNCHANGED <<dir, content, file>>

Next ==
  \/ \E n \in Name : Create(n) \/ CreateFails(n) \/ Delete(n) \/ NoEntry(n)
  \/ \E h \in Handle :
       \/ \E n \in Name : Open(h, n)
       \/ \E n \in Reqs : Fetch(h, n) \/ Store(h, n) \/ StoreFails(h, n)
       \/ \E p \in Ends : SetPos(h, p) \/ SetEnd(h, p) \/ SetEndFails(h, p)
       \/ Close(h) \/ GetEnd(h) \/ GetPos(h)
  \/ OpenListing \/ ReadListing \/ CloseListing

Spec == Init /\ [][Next]_vars
=============================================================================
