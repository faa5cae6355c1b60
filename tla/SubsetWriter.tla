------------------------------ MODULE SubsetWriter ------------------------------
(***************************************************************************)
(* Reading headers of safetensors files, and write_subset, which copies    *)
(* chosen tensors of several files into a new one                          *)
(* (src/recipe/safetensors.py).                                            *)
(*                                                                         *)
(* A file is its header (the tensors' names, types, byte sizes by shape,   *)
(* and offsets), the length of what lies before the data, and the data,    *)
(* cut into cells whose identity tells where the bytes come from.  Calls   *)
(* run at once, over sources that may be replaced under them; replacing is *)
(* by rename or deletion, so an open handle keeps the file it was opened   *)
(* on.  Names are numbers, ordered as the strings are.                     *)
(***************************************************************************)
EXTENDS Integers, SequencesExt

CONSTANTS
    Calls,        \* the calls of write_subset, one each
    Requests,     \* what may be asked for: [entries |-> <<[name, path]>>, to |-> path]
    Disks,        \* what may be there at first: functions path -> file or Missing
    Later,        \* path -> what somebody else may put there later
    Expected,     \* expected_dtype
    Buffer,       \* _COPY_BUFFER_BYTES, in cells
    Byte,         \* the cells that the data of a file may have
    MaxFaults,    \* bound: replacements, failing system calls and kills in a behaviour
    Missing       \* no file, no handle, no request

ASSUME BufferAssumption == Buffer \in Nat \ {0}
ASSUME FaultsAssumption == MaxFaults \in Nat

VARIABLES
    disk,         \* path -> file or Missing
    job,          \* call -> its local variables
    replaced,     \* the paths where somebody else has put something
    faults        \* how many faults there have been

vars == <<disk, job, replaced, faults>>

Paths == DOMAIN Later

Tensors == [name : Nat, dtype : STRING, bytes : Nat, lo : Nat, hi : Nat]
Cell == Byte \union ({"header"} \X Nat)
Files == [legible : BOOLEAN, head : Nat \ {0}, meta : Seq(Tensors), data : Seq(Cell)]

ASSUME FilesAssumption ==
    /\ Disks \subseteq [Paths -> Files \union {Missing}]
    /\ \A p \in Paths : Later[p] \subseteq Files \union {Missing}
    /\ Requests \subseteq [entries : Seq([name : Nat, path : Paths]), to : Paths]
    /\ Missing \notin Files /\ Missing \notin Nat /\ Missing \notin Requests

(* The caller copies out of the snapshot of a revision into a directory of *)
(* its own (src/recipe/mtp.py), so a destination is no source and nobody   *)
(* else writes there.  A request that has its destination among its own    *)
(* sources, which no caller makes, is left out: it is refused.             *)
ASSUME StagingAssumption ==
    \A q \in Requests :
        \/ \E i \in DOMAIN q.entries : q.entries[i].path = q.to
        \/ /\ Later[q.to] = {}
           /\ \A r \in Requests : \A i \in DOMAIN r.entries : r.entries[i].path /= q.to
--------------------------------------------------------------------------------
FileSize(f) == f.head + Len(f.data)

(* Python's sorted(), of a sequence with no two equal members.             *)
InOrder(s, Less(_, _)) ==
    [p \in DOMAIN s |->
        s[CHOOSE i \in DOMAIN s : Cardinality({j \in DOMAIN s : Less(s[j], s[i])}) = p - 1]]

(* The data ranges of a header, in the order of their beginnings.          *)
Before(x, y) == \/ x[1] < y[1]
                \/ x[1] = y[1] /\ x[2] < y[2]
                \/ x[1] = y[1] /\ x[2] = y[2] /\ x[3] < y[3]
Ranges(f) ==
    InOrder([i \in DOMAIN f.meta |-> <<f.head + f.meta[i].lo, f.head + f.meta[i].hi, f.meta[i].name>>],
            Before)

(* Faulty: only the end of the last range is compared with the file.       *)
ContiguousAtEnd(f, size) == Last(<<f.head>> \o [i \in DOMAIN f.meta |-> Ranges(f)[i][2]]) = size

(* Each range begins where the last one ended, the first one at the end of *)
(* the header, and the last one ends with the file.                        *)
Contiguous(f, size) ==
    LET n        == Len(f.meta)
        ranges   == Ranges(f)
        start(i) == IF i <= n THEN ranges[i][1] ELSE size
        end(i)   == IF i = 0 THEN f.head ELSE ranges[i][2]
    IN  \A i \in 0 .. n : end(i) = start(i + 1)

(* Does read_header return, for a file whose size was seen to be size?     *)
(* Not if the header is truncated or no JSON (not legible), and not if it  *)
(* names a tensor twice.                                                   *)
Readable(f, size) ==
    /\ f.legible /\ f.head <= size
    /\ \A i, j \in DOMAIN f.meta : f.meta[i].name = f.meta[j].name => i = j
    /\ \A m \in ToSet(f.meta) : m.lo <= m.hi /\ f.head + m.hi <= size
    /\ Contiguous(f, size)

(* Faulty: the offsets are left as they are in the header.                 *)
HeaderUnbased(f) ==
    [n \in {m.name : m \in ToSet(f.meta)} |->
        LET m == CHOOSE m \in ToSet(f.meta) : m.name = n
        IN  [dtype |-> m.dtype, bytes |-> m.bytes, from |-> m.lo, to |-> m.hi]]

(* What read_header returns: the offsets are those in the whole file.      *)
Header(f) ==
    [n \in {m.name : m \in ToSet(f.meta)} |->
        LET m == CHOOSE m \in ToSet(f.meta) : m.name = n
        IN  [dtype |-> m.dtype, bytes |-> m.bytes, from |-> f.head + m.lo, to |-> f.head + m.hi]]

(* The whole file, cell by cell: what a handle on it reads.                *)
Cells(f) == [k \in 1 .. f.head |-> <<"header", k>>] \o f.data
--------------------------------------------------------------------------------
(* The locals of a call before it is made.  Of sources, the headers read   *)
(* so far; of stat, the size of the file whose header is being read; of    *)
(* handle, the open source.  lost is no local: another call has removed    *)
(* the file that this one made.                                            *)
Idle == [pc |-> "idle", request |-> Missing, sources |-> [p \in {} |-> Missing],
         stat |-> Missing, selected |-> <<>>, at |-> 1, handle |-> Missing,
         done |-> 0, digest |-> <<>>, size |-> 0, lost |-> FALSE]

Size(item) == item.meta.to - item.meta.from

Init ==
    /\ disk \in Disks
    /\ job = [c \in Calls |-> Idle]
    /\ replaced = {}
    /\ faults = 0

(* The call is made; an empty request and one that names a tensor twice    *)
(* are refused at once.                                                    *)
Begin(c) ==
    /\ job[c].pc = "idle"
    /\ \E r \in Requests :
          LET names == {r.entries[i].name : i \in DOMAIN r.entries}
              sound == r.entries /= <<>> /\ Cardinality(names) = Len(r.entries)
          IN  job' = [job EXCEPT ![c].request = r,
                                 ![c].pc = IF sound THEN "select" ELSE "raised"]
    /\ UNCHANGED <<disk, replaced, faults>>

(* The entry that the loop over the request has come to.                   *)
Entry(c) == job[c].request.entries[Len(job[c].selected) + 1]
Selecting(c) == job[c].pc = "select" /\ Len(job[c].selected) < Len(job[c].request.entries)

(* The file of the call is where the call made it.                         *)
Made(j) == j.pc \in {"copy", "left", "returned"} /\ ~j.lost

Raise(c) == job' = [job EXCEPT ![c].pc = "raised", ![c].handle = Missing]

(* The source is resolved and must not be the destination.  The size that  *)
(* a first read of its header takes is taken now.                          *)
Resolve(c) ==
    LET p == Entry(c).path
    IN  /\ Selecting(c) /\ job[c].stat = Missing
        /\ IF disk[p] = Missing \/ p = job[c].request.to
           THEN Raise(c)
           ELSE job' = [job EXCEPT ![c].stat = FileSize(disk[p])]
        /\ UNCHANGED <<disk, replaced, faults>>

(* The header of a source is read once, at its first entry, and kept.      *)
ReadHeader(c) ==
    LET p == Entry(c).path
    IN  /\ Selecting(c) /\ job[c].stat /= Missing /\ p \notin DOMAIN job[c].sources
        /\ IF disk[p] = Missing \/ ~Readable(disk[p], job[c].stat)
           THEN Raise(c)
           ELSE job' = [job EXCEPT ![c].sources =
                          [q \in DOMAIN @ \union {p} |-> IF q = p THEN Header(disk[p]) ELSE @[q]]]
        /\ UNCHANGED <<disk, replaced, faults>>

(* The tensor is looked up: it must be there, of the type asked for and of *)
(* the size that its type and shape give.                                  *)
Select(c) ==
    LET e      == Entry(c)
        header == job[c].sources[e.path]
        meta   == header[e.name]
    IN  /\ Selecting(c) /\ job[c].stat /= Missing /\ e.path \in DOMAIN job[c].sources
        /\ IF e.name \in DOMAIN header /\ meta.dtype = Expected /\ meta.to - meta.from = meta.bytes
           THEN job' = [job EXCEPT ![c].stat = Missing,
                                   ![c].selected = Append(@, [name |-> e.name, path |-> e.path, meta |-> meta])]
           ELSE Raise(c)
        /\ UNCHANGED <<disk, replaced, faults>>
--------------------------------------------------------------------------------
(* Faulty: the order of the request is kept.                               *)
AsRequested(selected) == selected

(* The selection in the order of its names, and the header for it.         *)
Ordered(selected) == InOrder(selected, LAMBDA x, y : x.name < y.name)

(* Faulty: every tensor is said to begin where the data begin.             *)
LayoutNoOffset(items) ==
    [i \in DOMAIN items |->
        [name |-> items[i].name, dtype |-> items[i].meta.dtype, bytes |-> items[i].meta.bytes,
         lo |-> 0, hi |-> Size(items[i])]]

(* Where the tensors end in the new file, one after the other.             *)
Offsets(items) ==
    LET offset[i \in 0 .. Len(items)] == IF i = 0 THEN 0 ELSE offset[i - 1] + Size(items[i])
    IN  offset

Layout(items) ==
    [i \in DOMAIN items |->
        [name |-> items[i].name, dtype |-> items[i].meta.dtype, bytes |-> items[i].meta.bytes,
         lo |-> Offsets(items)[i - 1], hi |-> Offsets(items)[i]]]

(* The open destination gets its header.                                   *)
MakeFile(c) ==
    LET items == Ordered(job[c].selected)
    IN  /\ disk' = [disk EXCEPT ![job[c].request.to] =
                       [legible |-> TRUE, head |-> 1, meta |-> Layout(items), data |-> <<>>]]
        /\ job' = [job EXCEPT ![c].pc = "copy", ![c].selected = items,
                              ![c].digest = <<Layout(items)>>]

(* Faulty: the destination is opened with "wb".                            *)
CreateOver(c) ==
    /\ job[c].pc = "select" /\ ~Selecting(c)
    /\ MakeFile(c)
    /\ UNCHANGED <<replaced, faults>>

(* The destination is created, which fails if anything is there.           *)
Create(c) ==
    /\ job[c].pc = "select" /\ ~Selecting(c)
    /\ IF disk[job[c].request.to] = Missing
       THEN MakeFile(c)
       ELSE Raise(c) /\ UNCHANGED disk
    /\ UNCHANGED <<replaced, faults>>

(* Faulty: it is left.                                                     *)
AbandonLeft(c) == Raise(c) /\ UNCHANGED disk

(* What the handler of any exception does: what has the destination's name *)
(* is removed.  A call that is copying to it is left without a file.       *)
Abandon(c) ==
    LET to == job[c].request.to
    IN  /\ disk' = [disk EXCEPT ![to] = Missing]
        /\ job' = [d \in Calls |->
                     IF d = c THEN [job[d] EXCEPT !.pc = "raised", !.handle = Missing]
                     ELSE IF Made(job[d]) /\ job[d].request.to = to
                          THEN [job[d] EXCEPT !.lost = TRUE, !.handle = Missing]
                          ELSE job[d]]

(* The handler spares what was there only when that is why open failed:    *)
(* not when there are too many open files, say, on this path or another.   *)
OpenFails(c) ==
    /\ job[c].pc = "select" /\ ~Selecting(c) /\ faults < MaxFaults
    /\ Abandon(c)
    /\ faults' = faults + 1
    /\ UNCHANGED replaced

Item(c) == job[c].selected[job[c].at]

(* How a call copies to a lost file is not followed.                       *)
Copying(c) == job[c].pc = "copy" /\ ~job[c].lost /\ job[c].at <= Len(job[c].selected)

(* The source of the next tensor is opened.                                *)
Open(c) ==
    LET file == disk[Item(c).path]
    IN  /\ Copying(c) /\ job[c].handle = Missing
        /\ \/ /\ file = Missing
              /\ Abandon(c)
           \/ /\ file /= Missing
              /\ job' = [job EXCEPT ![c].handle = file, ![c].done = 0]
              /\ UNCHANGED disk
        /\ UNCHANGED <<replaced, faults>>

(* What the next read returns: the rest of the tensor, if it fits the     *)
(* buffer and the file is that long.                                       *)
Chunk(c) ==
    LET from == Item(c).meta.from + job[c].done
        to   == Min({Item(c).meta.to, from + Buffer, FileSize(job[c].handle)})
    IN  SubSeq(Cells(job[c].handle), from + 1, to)

(* Faulty: one handle serves for all tensors, and is never closed.         *)
NextTensorOpen(c) ==
    /\ job[c].done = Size(Item(c))
    /\ job' = [job EXCEPT ![c].at = @ + 1, ![c].done = 0]
    /\ UNCHANGED disk

(* All of the tensor is copied, and its source is closed.                  *)
NextTensor(c) ==
    /\ job[c].done = Size(Item(c))
    /\ job' = [job EXCEPT ![c].at = @ + 1, ![c].handle = Missing]
    /\ UNCHANGED disk

WriteChunk(c) ==
    /\ job[c].done < Size(Item(c))
    /\ disk' = [disk EXCEPT ![job[c].request.to].data = @ \o Chunk(c)]
    /\ job' = [job EXCEPT ![c].done = @ + Len(Chunk(c)), ![c].digest = @ \o Chunk(c)]

(* Faulty: an empty read is not taken for the end of the source.           *)
CopyOn(c) ==
    /\ Copying(c) /\ job[c].handle /= Missing
    /\ NextTensor(c) \/ WriteChunk(c)
    /\ UNCHANGED <<replaced, faults>>

(* One round of the copying loop: nothing is left and the source is        *)
(* closed, or a chunk is read and written, or the source has no more.      *)
CopyChunk(c) ==
    /\ Copying(c) /\ job[c].handle /= Missing
    /\ \/ NextTensor(c)
       \/ Chunk(c) /= <<>> /\ WriteChunk(c)
       \/ Chunk(c) = <<>> /\ job[c].done < Size(Item(c)) /\ Abandon(c)
    /\ UNCHANGED <<replaced, faults>>

(* A copy to a lost file fails, and removes what another call has put in   *)
(* its place.                                                              *)
LoseMore(c) ==
    /\ job[c].pc = "copy" /\ job[c].lost
    /\ Abandon(c)
    /\ UNCHANGED <<replaced, faults>>

(* All is copied: the size is that of the file there, and the call returns.*)
Return(c) ==
    LET to == job[c].request.to
    IN  /\ job[c].pc = "copy" /\ ~Copying(c)
        /\ job' = IF disk[to] = Missing
                  THEN [job EXCEPT ![c].pc = "raised"]
                  ELSE [job EXCEPT ![c].pc = "returned", ![c].size = FileSize(disk[to])]
        /\ UNCHANGED <<disk, replaced, faults>>
--------------------------------------------------------------------------------
(* A write fails while the destination is open: the disk is full.          *)
WriteFails(c) ==
    /\ Copying(c) /\ faults < MaxFaults
    /\ Abandon(c)
    /\ faults' = faults + 1
    /\ UNCHANGED replaced

(* The process is killed, or interrupted with an exception that the        *)
(* handlers do not catch, or they cannot remove the file and pass over it. *)
(* Before the copy it leaves nothing, as a call that raises.               *)
Leave(c) ==
    /\ job[c].pc = "copy" /\ faults < MaxFaults
    /\ job' = [job EXCEPT ![c].pc = "left", ![c].handle = Missing]
    /\ faults' = faults + 1
    /\ UNCHANGED <<disk, replaced>>

(* Somebody else replaces or removes a source.                             *)
Replace ==
    /\ faults < MaxFaults
    /\ \E p \in Paths : \E f \in Later[p] :
          /\ disk' = [disk EXCEPT ![p] = f]
          /\ replaced' = replaced \union {p}
    /\ faults' = faults + 1
    /\ UNCHANGED job

Step(c) == \/ Begin(c) \/ Resolve(c) \/ ReadHeader(c) \/ Select(c)
           \/ Create(c) \/ Open(c) \/ CopyChunk(c) \/ LoseMore(c) \/ Return(c)

Next == (\E c \in Calls : Step(c) \/ OpenFails(c) \/ WriteFails(c) \/ Leave(c)) \/ Replace

Spec == Init /\ [][Next]_vars

(* A call that has been made runs on: nothing in it waits for another.     *)
FairSpec == Spec /\ \A c \in Calls : WF_vars(Step(c))
--------------------------------------------------------------------------------
(* The state keeps its types; no read ends beyond its tensor.              *)
TypeOK ==
    /\ DOMAIN disk = Paths
    /\ replaced \subseteq Paths /\ faults \in 0 .. MaxFaults
    /\ \A c \in Calls :
          /\ job[c].pc \in {"idle", "select", "copy", "returned", "raised", "left"}
          /\ job[c].handle /= Missing => Copying(c) /\ job[c].done \in 0 .. Size(Item(c))
          /\ Made(job[c]) => disk[job[c].request.to] /= Missing

(* No byte of the data of a file that read_header accepts belongs to two   *)
(* tensors, or to none.                                                    *)
AcceptedTiles ==
    \A p \in Paths :
        disk[p] /= Missing /\ Readable(disk[p], FileSize(disk[p])) =>
            \A k \in DOMAIN disk[p].data :
                Cardinality({m \in ToSet(disk[p].meta) : m.lo < k /\ k <= m.hi}) = 1

(* A file that write_subset returned is accepted by read_header, holds the *)
(* tensors asked for and no others, all of the type asked for, and is what *)
(* its digest and its size were taken of, whatever other calls with the    *)
(* same destination did meanwhile, short of removing it.                   *)
ReturnedIsWhole ==
    \A c \in Calls : job[c].pc = "returned" /\ ~job[c].lost =>
        LET f == disk[job[c].request.to]
            e == job[c].request.entries
        IN  /\ f /= Missing /\ Readable(f, FileSize(f))
            /\ DOMAIN Header(f) = {e[i].name : i \in DOMAIN e}
            /\ \A n \in DOMAIN Header(f) :
                  /\ Header(f)[n].dtype = Expected
                  /\ Header(f)[n].to - Header(f)[n].from = Header(f)[n].bytes
            /\ job[c].digest = <<f.meta>> \o f.data
            /\ job[c].size = FileSize(f)

(* Each tensor of a returned file has the bytes that it has in its source, *)
(* if nobody replaced the source.                                          *)
PayloadKept ==
    \A c \in Calls : job[c].pc = "returned" /\ ~job[c].lost =>
        \A i \in DOMAIN job[c].request.entries :
            LET e     == job[c].request.entries[i]
                f     == disk[job[c].request.to]
                part(g) == LET m == CHOOSE m \in ToSet(g.meta) : m.name = e.name
                         IN  SubSeq(g.data, m.lo + 1, m.hi)
            IN  e.path \notin replaced => part(f) = part(disk[e.path])

(* The order of the request does not show in the result: calls that ask    *)
(* for the same tensors of the same sources return the same digest.        *)
OrderIrrelevant ==
    \A c, d \in Calls :
        /\ job[c].pc = "returned" /\ job[d].pc = "returned" /\ replaced = {}
        /\ ~job[c].lost /\ ~job[d].lost
        /\ ToSet(job[c].request.entries) = ToSet(job[d].request.entries)
        => job[c].digest = job[d].digest

(* A file that is not whole is one that a call is still writing, or could  *)
(* not remove: a call that raises leaves none behind.                      *)
NoOrphan ==
    \A c \in Calls : job[c].pc = "raised" =>
        LET to == job[c].request.to
        IN  \/ to \in replaced
            \/ disk[to] \in {Missing} \union {k[to] : k \in Disks}
            \/ Readable(disk[to], FileSize(disk[to]))
            \/ \E d \in Calls : /\ Made(job[d]) /\ job[d].pc /= "returned"
                                /\ job[d].request.to = to

(* The step changes no file but the one that a call made and is copying to.*)
OthersAlone ==
    \A p \in Paths :
        disk[p] /= Missing /\ disk'[p] /= disk[p] =>
            \/ p \in replaced'
            \/ \E c \in Calls : job[c].pc = "copy" /\ ~job[c].lost /\ job[c].request.to = p

(* No call changes or removes a file that it did not make: not what was    *)
(* there, not the result of another call, not what a kill left.  It is so  *)
(* unless the exclusive open fails for another reason than that the file   *)
(* exists, or a copy does whose file was lost to such a failure: then the  *)
(* handler of write_subset removes what is there, although by              *)
(* tests/test_safetensors_audit.py a file found there is preserved.        *)
NeverReplaced ==
    [][\/ OthersAlone
       \/ \E c \in Calls : OpenFails(c) \/ LoseMore(c)]_vars

(* A call that is made returns, raises or is killed, also when a source    *)
(* turns out shorter than its header said.                                 *)
EachCallEnds ==
    \A c \in Calls : job[c].pc \in {"select", "copy"} ~> job[c].pc \in {"returned", "raised", "left"}
================================================================================
