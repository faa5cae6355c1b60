------------------------------- MODULE PleGather -------------------------------
(***************************************************************************)
(* Opening and reading the memory-mapped table: _setup_table's layout      *)
(* check, then MmapPleTable.gather over a pool of worker threads           *)
(* (src/vllm_ple_mmap.py).                                                 *)
(*                                                                         *)
(* One thread, the model's forward pass, calls gather again and again; the *)
(* pool is the table's and outlives a call.  When a task of a call raises, *)
(* the call raises too and cancels what has not begun, but a task that is  *)
(* running runs on, while the next call is made.                           *)
(***************************************************************************)
EXTENDS PleLayout, SequencesExt

CONSTANTS
    Layouts,      \* what may be on disk: functions shard number -> rows
    Requests,     \* the id sequences gather is called with
    Chunk,        \* VLLM_PLE_MMAP_CHUNK, rows per task at most
    Workers,      \* VLLM_PLE_MMAP_WORKERS
    MaxCalls,     \* bound: calls of gather in a behaviour
    Unwritten     \* what np.empty leaves in a row

ASSUME PoolAssumption == Chunk \in Nat \ {0} /\ Workers \in Nat \ {0}
ASSUME RequestsAssumption == Requests \subseteq Seq(Int)

VARIABLES
    found,        \* the shards in the checkpoint's files
    table,        \* "none", "open", "refused"
    call,         \* the calls made so far, in order; the last may be under way
    buf           \* the array out of each call: position -> row, or Unwritten

vars == <<found, table, call, buf>>

Row == Nat \X Nat          \* <<shard, row in its file>>
Now == Len(call)
Busy == Now > 0 /\ call[Now].state = "running"
--------------------------------------------------------------------------------
(* The numbers of a set in ascending order.                                *)
Sorted(S) ==
    [p \in 1 .. Cardinality(S) |-> CHOOSE v \in S : Cardinality({w \in S : w <= v}) = p]

(* np.unique: the ids once each, sorted.                                   *)
Uniq(ids) == Sorted(ToSet(ids))

(* The positions that hold rows of the shard that position p is in.        *)
SameShard(uniq, p) == {q \in DOMAIN uniq : ShardOf(uniq[q]) = ShardOf(uniq[p])}

(* Where a task begins: at every Chunk-th row of a shard.                  *)
Starts(uniq) == {p \in DOMAIN uniq : (p - Min(SameShard(uniq, p))) % Chunk = 0}

(* The tasks (si, a, b), a:b as the set of its positions.                  *)
Tasks(uniq) ==
    LET start == Sorted(Starts(uniq))
    IN  [k \in DOMAIN start |->
            [shard |-> ShardOf(uniq[start[k]]),
             slice |-> {p \in SameShard(uniq, start[k]) :
                           start[k] <= p /\ p < start[k] + Chunk}]]

(* Faulty: every shard is mapped with shard_size rows, past its tensor.    *)
ReadableBeyond(s, locals) ==
    s \in DOMAIN found /\ \A l \in locals : 0 <= l /\ l < ShardSize

(* mm[local[a:b]]: the shard is there, and NumPy finds every index inside. *)
Readable(s, locals) ==
    s \in DOMAIN found /\ \A l \in locals : 0 <= l /\ l < found[s]

(* out[inverse]                                                            *)
Scattered(c) ==
    [i \in DOMAIN call[c].ids |->
        buf[c][CHOOSE p \in DOMAIN call[c].uniq : call[c].uniq[p] = call[c].ids[i]]]
--------------------------------------------------------------------------------
Init ==
    /\ found \in Layouts
    /\ table = "none"
    /\ call = <<>>
    /\ buf = <<>>

(* _setup_table                                                            *)
SetupTable ==
    /\ table = "none"
    /\ table' = IF ValidLayout(found) THEN "open" ELSE "refused"
    /\ UNCHANGED <<found, call, buf>>

(* gather, up to handing the tasks to the pool: nothing to do, an id out   *)
(* of range, or a future for every task.                                   *)
Gather(ids) ==
    LET uniq == Uniq(ids)
        size == Max(DOMAIN found) + 1
        refused == \E i \in DOMAIN ids : ~InRange(ids[i], size)
        tasks == IF refused THEN <<>> ELSE Tasks(uniq)
    IN  /\ table = "open" /\ ~Busy /\ Now < MaxCalls
        /\ call' = Append(call,
              [ids |-> ids, uniq |-> uniq, tasks |-> tasks,
               future |-> [k \in DOMAIN tasks |-> "pending"], awaited |-> 1, rows |-> <<>>,
               state |-> CASE ids = <<>> -> "returned"
                           [] ids # <<>> /\ refused -> "raised"
                           [] OTHER -> "running"])
        /\ buf' = Append(buf, [p \in DOMAIN uniq |-> Unwritten])
        /\ UNCHANGED <<found, table>>

Inline(c) == Len(call[c].future) = 1

LocalRow(c, k, p) == call[c].uniq[p] - call[c].tasks[k].shard * ShardSize

Fails(c, k) ==
    ~Readable(call[c].tasks[k].shard, {LocalRow(c, k, p) : p \in call[c].tasks[k].slice})

(* run(task): the rows of the slice, or an IndexError and no row.          *)
RunTask(c, k) ==
    /\ buf' = IF Fails(c, k) THEN buf
              ELSE [buf EXCEPT ![c] = [p \in DOMAIN @ |->
                      IF p \in call[c].tasks[k].slice
                      THEN <<call[c].tasks[k].shard, LocalRow(c, k, p)>> ELSE @[p]]]
    /\ call' = [call EXCEPT ![c].future[k] = IF Fails(c, k) THEN "failed" ELSE "done"]
    /\ UNCHANGED <<found, table>>

(* A worker takes the next task of the queue.  Only the last call can have *)
(* pending ones.                                                           *)
Begin ==
    /\ Busy /\ ~Inline(Now)
    /\ Cardinality({w \in UNION {{c} \X DOMAIN call[c].future : c \in DOMAIN call} :
                      call[w[1]].future[w[2]] = "running"}) < Workers
    /\ LET k == SelectInSeq(call[Now].future, LAMBDA f : f = "pending")
       IN  k # 0 /\ call' = [call EXCEPT ![Now].future[k] = "running"]
    /\ UNCHANGED <<found, table, buf>>

(* Faulty: a worker that meets an error leaves its future as it is.        *)
FinishSilently(c, k) ==
    /\ call[c].future[k] = "running" /\ ~Fails(c, k)
    /\ RunTask(c, k)

(* A worker ends a task, of this call or of one that raised.               *)
Finish(c, k) ==
    /\ call[c].future[k] = "running"
    /\ RunTask(c, k)

(* A single task runs in the caller's own thread.                          *)
RunInline ==
    /\ Busy /\ Inline(Now) /\ call[Now].future[1] = "pending"
    /\ RunTask(Now, 1)

(* Faulty: gather waits for the task it has handed out last.               *)
AwaitLast ==
    LET f == call[Now].future
    IN  /\ Busy
        /\ f[Len(f)] \in {"done", "failed"}
        /\ call' = [call EXCEPT ![Now].state = IF f[Len(f)] = "done" THEN "returned" ELSE "raised",
                                ![Now].rows = IF f[Len(f)] = "done" THEN Scattered(Now) ELSE <<>>]
        /\ UNCHANGED <<found, table, buf>>

(* The loop over pool.map, in the order of the tasks: a task that failed   *)
(* raises and cancels those that have not begun; after the last, the rows  *)
(* are returned.                                                           *)
Await ==
    LET f == call[Now].future
        n == call[Now].awaited
        cancelled == [k \in DOMAIN f |-> IF f[k] = "pending" THEN "cancelled" ELSE f[k]]
    IN  /\ Busy
        /\ \/ /\ n <= Len(f) /\ f[n] = "done"
              /\ call' = [call EXCEPT ![Now].awaited = n + 1]
           \/ /\ n <= Len(f) /\ f[n] = "failed"
              /\ call' = [call EXCEPT ![Now].state = "raised", ![Now].future = cancelled]
           \/ /\ n > Len(f)
              /\ call' = [call EXCEPT ![Now].state = "returned", ![Now].rows = Scattered(Now)]
        /\ UNCHANGED <<found, table, buf>>

Next ==
    \/ SetupTable
    \/ \E ids \in Requests : Gather(ids)
    \/ Begin
    \/ \E c \in DOMAIN call : \E k \in DOMAIN call[c].future : Finish(c, k)
    \/ RunInline
    \/ Await

Spec == Init /\ [][Next]_vars

(* The operating system runs every thread that can run.                    *)
FairSpec ==
    /\ Spec
    /\ WF_vars(Begin) /\ WF_vars(RunInline) /\ WF_vars(Await)
    /\ \A c \in 1 .. MaxCalls : \A k \in 1 .. ShardSize * Parts :
          WF_vars(c \in DOMAIN call /\ k \in DOMAIN call[c].future /\ Finish(c, k))
--------------------------------------------------------------------------------
Returned(c) == call[c].state = "returned"

(* Types of the state; an array that is returned has every row written.    *)
TypeOK ==
    /\ found \in Layouts
    /\ table \in {"none", "open", "refused"}
    /\ \A c \in DOMAIN call :
          /\ call[c].ids \in Requests
          /\ ToSet(call[c].future) \subseteq
                {"pending", "running", "done", "failed", "cancelled"}
          /\ call[c].awaited \in 1 .. Len(call[c].future) + 1
          /\ call[c].state \in {"running", "raised", "returned"}
          /\ call[c].rows \in Seq(Row)

(* The row of an id in vLLM's layout: shard s has its rows from            *)
(* s * ShardSize on.                                                       *)
RowOf(id) == CHOOSE row \in {<<s, l>> : s \in Shard, l \in 0 .. ShardSize - 1} :
                 row[1] * ShardSize + row[2] = id

(* gather: "ids: int64 [N] global row ids -> uint8 [N, row_bytes] (a fresh *)
(* array)".  What is returned is the table's row for every id, in the      *)
(* order of the ids, whatever the workers of this call and of earlier      *)
(* failed ones did when.                                                   *)
GatheredRows ==
    \A c \in DOMAIN call : Returned(c) =>
        /\ Len(call[c].rows) = Len(call[c].ids)
        /\ \A i \in DOMAIN call[c].ids : call[c].rows[i] = RowOf(call[c].ids[i])

(* An id that is no row, below the table, above it, or in the gap between  *)
(* Vocab and the end of a full last shard, never returns rows.             *)
UnknownIdsRaise ==
    \A c \in DOMAIN call : Returned(c) => ToSet(call[c].ids) \subseteq RowId

(* A checkpoint that _validate_shard_layout lets in serves every row of    *)
(* the vocabulary: no call for known ids raises.                           *)
KnownIdsServed ==
    \A c \in DOMAIN call : ToSet(call[c].ids) \subseteq RowId => call[c].state # "raised"

(* Every call of gather ends, with rows or with an error.                  *)
EachCallEnds == \A c \in 1 .. MaxCalls : (Now = c) ~> (Now >= c /\ call[c].state # "running")
================================================================================
