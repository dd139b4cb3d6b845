---------------------------- MODULE MessagePipe ----------------------------
(***************************************************************************)
(* The legacy message pipe of src/src/lib.rs: MessagePipe (create, read,   *)
(* write_raw, write, write_reply), its MessageBuf (bytes, handles and      *)
(* unused_ix, the index of the first handle not yet taken) and HandleIter, *)
(* over the handle layer of Handle.                                        *)
(*                                                                         *)
(* MessagePipe::read is two syscalls: a probe and, after                   *)
(* ERR_BUFFER_TOO_SMALL, one retry with the grown buffer; other threads    *)
(* run between them.  A pipe created with MX_FLAG_REPLY_PIPE lets its      *)
(* second endpoint ("ep1") write only messages that carry the endpoint     *)
(* itself as the last handle (write_reply), and forbids that to "ep0"; the *)
(* test message_pipe_reply_basic pins these kernel rules down.             *)
(***************************************************************************)
EXTENDS Handle

CONSTANTS
  ByteSizes,        \* payload lengths the application writes
  MaxMsgs           \* bound on the number of pipe writes

ASSUME ByteSizes \subseteq Nat

Endpoints == {"ep0", "ep1"}
Peer(e) == IF e = "ep0" THEN "ep1" ELSE "ep0"
Obj == Endpoints \cup Vmos

ReadStatus == {"NONE", "NO_ERROR", "ERR_BUFFER_TOO_SMALL",
               "ERR_SHOULD_WAIT", "ERR_REMOTE_CLOSED"}

Msg == [id : 1..MaxMsgs, size : ByteSizes,
        objs : BoundedSeq(Vmos \cup {"ep1"}, MaxHandlesPerMsg + 1)]

VARIABLES
  replyPipe, \* the pipe was created with MX_FLAG_REPLY_PIPE
  queue,     \* queue[e]: messages pending to be read from endpoint e
  nextId,    \* id of the next message written
  buf,       \* buf[t]: the MessageBuf of thread t
  retry,     \* retry[t]: the pipe handle of a read waiting for its retry
  res        \* res[t]: the result of thread t's last MessagePipe::read

vars == <<table, created, held, out, replyPipe, queue, nextId, buf, retry, res>>
PipeVars == <<replyPipe, queue, nextId, buf, retry, res>>

\* bytes (bid, blen, bcap), handles (hs, hcap) and unused_ix.
EmptyBuf == [bid |-> 0, blen |-> 0, bcap |-> 0, hs |-> <<>>, hcap |-> 0,
             unused |-> 0]

InTable(o, tbl) == \E h \in HVals : tbl[h] = o

\* An endpoint lives while a handle to it exists: in the table, or ep1 in
\* transit in the queue of a living ep0.
Alive(e, tbl, q) ==
  \/ InTable(e, tbl)
  \/ /\ e = "ep1"
     /\ InTable("ep0", tbl)
     /\ \E i \in DOMAIN q["ep0"] : Contains(q["ep0"][i].objs, "ep1")

\* The kernel destroys the queue of a dead endpoint, and what it carries.
Settle(tbl, q) == [e \in Endpoints |-> IF Alive(e, tbl, q) THEN q[e] ELSE <<>>]

InTransit == FoldSet(LAMBDA e, a :
                       a + FoldLeft(LAMBDA n, m : n + Len(m.objs), 0, queue[e]),
                     0, Endpoints)

Usable(t, h) == /\ retry[t] = Idle
                /\ h \in held
                /\ table[h] \in Endpoints

Borrowed(h) == \E t \in Threads : retry[t] = h

\* Kernel rule of mx_msgpipe_write: on a reply pipe, ep1 must send itself
\* and ep0 must not; on a plain pipe no endpoint may send itself.
WriteAllowed(e, carriesSelf) ==
  IF replyPipe /\ e = "ep1" THEN carriesSelf ELSE ~carriesSelf

-----------------------------------------------------------------------------
(* MessageBuf and its helpers *)

\* ensure_capacity: reserve(size - len) when size > len; Vec::reserve grows
\* the capacity to max(2 * capacity, len + additional) when it must grow.
EnsureCapacity(cap, len, size) ==
  IF size > len /\ size > cap THEN Max({2 * cap, size}) ELSE cap

\* drop_handles: the handles from unused_ix on.
DropHandles(b) == {b.hs[i] : i \in (b.unused + 1)..Len(b.hs)}

\* Mutant: reset_handles that forgets unused_ix = 0.
ResetHandlesKeepIx(b) == [b EXCEPT !.hs = <<>>]

\* reset_handles: drop_handles, unused_ix = 0, handles.clear().
ResetHandles(b) == [b EXCEPT !.hs = <<>>, !.unused = 0]

TooSmall(m, b) == m.size > b.bcap \/ Len(m.objs) > b.hcap

\* mx_msgpipe_read on endpoint e into b, after the buffer is prepared:
\* the queue is empty, the head does not fit, or the head is delivered.
Deliver(t, e, b, tbl, q) ==
  LET m == Head(q[e]) IN
  /\ \E f \in Injection(DOMAIN m.objs, Free(tbl)) :
       /\ table' = Install(tbl, f, m.objs)
       /\ buf' = [buf EXCEPT ![t] = [b EXCEPT !.bid = m.id, !.blen = m.size,
                                              !.hs = f]]
  /\ queue' = [q EXCEPT ![e] = Tail(@)]
  /\ res' = [res EXCEPT ![t] = "NO_ERROR"]

EmptyStatus(e, tbl, q) ==
  IF Alive(Peer(e), tbl, q) THEN "ERR_SHOULD_WAIT" ELSE "ERR_REMOTE_CLOSED"

-----------------------------------------------------------------------------
(* Operations *)

Init ==
  /\ HandleInit
  /\ replyPipe = FALSE
  /\ queue = [e \in Endpoints |-> <<>>]
  /\ nextId = 1
  /\ buf = [t \in Threads |-> EmptyBuf]
  /\ retry = [t \in Threads |-> Idle]
  /\ res = [t \in Threads |-> "NONE"]

\* MessagePipe::create(flags), flags 0 or MX_FLAG_REPLY_PIPE.
PipeCreate(t) ==
  /\ retry[t] = Idle
  /\ Endpoints \cap created = {}
  /\ RoomFor(2, InTransit)
  /\ \E h0, h1 \in Free(table) :
       /\ h0 # h1
       /\ table' = [table EXCEPT ![h0] = "ep0", ![h1] = "ep1"]
       /\ held' = held \cup {h0, h1}
  /\ created' = created \cup Endpoints
  /\ \E flag \in BOOLEAN : replyPipe' = flag
  /\ UNCHANGED <<out, queue, nextId, buf, retry, res>>

HandleOp(t) ==
  /\ retry[t] = Idle
  /\ \/ /\ \E v \in Vmos : VmoCreate(v, InTransit)
        /\ UNCHANGED PipeVars
     \/ /\ \E h \in HVals : Duplicate(h, InTransit)
        /\ UNCHANGED PipeVars
     \/ /\ \E h \in HVals : ~Borrowed(h) /\ DropHandle(h)
        /\ queue' = Settle(table', queue)
        /\ UNCHANGED <<replyPipe, nextId, buf, retry, res>>
     \/ /\ \E h \in HVals : PushHandle(t, h)
        /\ UNCHANGED PipeVars
     \/ /\ DropOut(t)
        /\ UNCHANGED PipeVars

(***************************************************************************)
(* write_raw(raw, bytes, hs): mx_msgpipe_write moves every handle of hs    *)
(* into a message queued at the peer, and on success handles.set_len(0).   *)
(* On failure nothing changes.  (The ERR_OUT_OF_RANGE check on the lengths *)
(* cannot fire at these sizes.)                                            *)
(***************************************************************************)
WriteRaw(h, hs, carriesSelf) ==
  LET e == table[h] IN
  /\ nextId <= MaxMsgs
  /\ WriteAllowed(e, carriesSelf)
  /\ Alive(Peer(e), table, queue)
  /\ \E n \in ByteSizes :
       queue' = [queue EXCEPT ![Peer(e)] =
                  Append(@, [id |-> nextId, size |-> n,
                             objs |-> [i \in DOMAIN hs |-> table[hs[i]]]])]
  /\ table' = Close(table, Range(hs))
  /\ nextId' = nextId + 1

WriteFails(h, carriesSelf) ==
  ~WriteAllowed(table[h], carriesSelf) \/ ~Alive(Peer(table[h]), table, queue)

\* MessagePipe::write: write_raw on the Vec of thread t.
Write(t, h) ==
  /\ Usable(t, h)
  /\ \/ /\ WriteRaw(h, out[t], FALSE)
        /\ out' = [out EXCEPT ![t] = <<>>]
     \/ /\ WriteFails(h, FALSE)
        /\ UNCHANGED <<table, queue, nextId, out>>
  /\ UNCHANGED <<created, held, replyPipe, buf, retry, res>>

\* Mutant: on failure rebuild Self from the raw value, leaving it in the Vec.
WriteReplyRestoreRaw(t, h) ==
  /\ Usable(t, h)
  /\ ~Borrowed(h)
  /\ \/ /\ WriteRaw(h, Append(out[t], h), TRUE)
        /\ out' = [out EXCEPT ![t] = <<>>]
        /\ held' = held \ {h}
     \/ /\ WriteFails(h, TRUE)
        /\ out' = [out EXCEPT ![t] = Append(@, h)]
        /\ UNCHANGED <<table, queue, nextId, held>>
  /\ UNCHANGED <<created, replyPipe, buf, retry, res>>

(***************************************************************************)
(* MessagePipe::write_reply(self): self.into_handle() is pushed onto the   *)
(* Vec and write_raw sends it along; on failure handles.pop() gives the    *)
(* endpoint back to the caller as Self.                                    *)
(***************************************************************************)
WriteReply(t, h) ==
  /\ Usable(t, h)
  /\ ~Borrowed(h)
  /\ \/ /\ WriteRaw(h, Append(out[t], h), TRUE)
        /\ out' = [out EXCEPT ![t] = <<>>]
        /\ held' = held \ {h}
     \/ /\ WriteFails(h, TRUE)
        /\ UNCHANGED <<table, queue, nextId, out, held>>
  /\ UNCHANGED <<created, replyPipe, buf, retry, res>>

(***************************************************************************)
(* MessagePipe::read, first syscall: reset_handles, then mx_msgpipe_read   *)
(* with the capacities.  On ERR_BUFFER_TOO_SMALL both capacities are       *)
(* grown to the reported sizes and the retry is still to come.             *)
(***************************************************************************)
ReadProbe(t, h) ==
  LET b   == ResetHandles(buf[t])
      tbl == Close(table, DropHandles(buf[t]))
      q   == Settle(tbl, queue)
      e   == table[h]
  IN
  /\ Usable(t, h)
  /\ \/ /\ q[e] = <<>>
        /\ table' = tbl
        /\ queue' = q
        /\ buf' = [buf EXCEPT ![t] = b]
        /\ res' = [res EXCEPT ![t] = EmptyStatus(e, tbl, q)]
        /\ UNCHANGED retry
     \/ /\ q[e] # <<>>
        /\ TooSmall(Head(q[e]), b)
        /\ table' = tbl
        /\ queue' = q
        /\ buf' = [buf EXCEPT ![t] =
                     [b EXCEPT !.bcap = EnsureCapacity(b.bcap, b.blen,
                                                       Head(q[e]).size),
                               !.hcap = EnsureCapacity(b.hcap, 0,
                                                       Len(Head(q[e]).objs))]]
        /\ retry' = [retry EXCEPT ![t] = h]
        /\ UNCHANGED res
     \/ /\ q[e] # <<>>
        /\ ~TooSmall(Head(q[e]), b)
        /\ Deliver(t, e, b, tbl, q)
        /\ UNCHANGED retry
  /\ UNCHANGED <<created, held, out, replyPipe, nextId>>

\* MessagePipe::read, second syscall: whatever it returns is the result.
ReadRetry(t, h) ==
  LET b == buf[t]
      e == table[h]
  IN
  /\ retry[t] = h
  /\ \/ /\ queue[e] = <<>>
        /\ res' = [res EXCEPT ![t] = EmptyStatus(e, table, queue)]
        /\ UNCHANGED <<table, queue, buf>>
     \/ /\ queue[e] # <<>>
        /\ TooSmall(Head(queue[e]), b)
        /\ res' = [res EXCEPT ![t] = "ERR_BUFFER_TOO_SMALL"]
        /\ UNCHANGED <<table, queue, buf>>
     \/ /\ queue[e] # <<>>
        /\ ~TooSmall(Head(queue[e]), b)
        /\ Deliver(t, e, b, table, queue)
  /\ retry' = [retry EXCEPT ![t] = Idle]
  /\ UNCHANGED <<created, held, out, replyPipe, nextId>>

\* HandleIter::next: the handle at unused_ix moves out, unused_ix += 1.
NextHandle(t) ==
  /\ retry[t] = Idle
  /\ buf[t].unused # Len(buf[t].hs)
  /\ held' = held \cup {buf[t].hs[buf[t].unused + 1]}
  /\ buf' = [buf EXCEPT ![t].unused = @ + 1]
  /\ UNCHANGED <<table, created, out, replyPipe, queue, nextId, retry, res>>

\* Drop for MessageBuf (drop_handles), then a fresh MessageBuf::new().
DropBuf(t) ==
  /\ retry[t] = Idle
  /\ buf[t] # EmptyBuf
  /\ table' = Close(table, DropHandles(buf[t]))
  /\ queue' = Settle(table', queue)
  /\ buf' = [buf EXCEPT ![t] = EmptyBuf]
  /\ res' = [res EXCEPT ![t] = "NONE"]
  /\ UNCHANGED <<created, held, out, replyPipe, nextId, retry>>

\* Every object was created and every handle closed: the program is done.
Terminated ==
  /\ created = Obj
  /\ Live(table) = {}
  /\ UNCHANGED vars

Next ==
  \/ Terminated
  \/ \E t \in Threads :
       \/ PipeCreate(t)
       \/ HandleOp(t)
       \/ \E h \in HVals : \/ Write(t, h)
                           \/ WriteReply(t, h)
                           \/ ReadProbe(t, h)
                           \/ ReadRetry(t, h)
       \/ NextHandle(t)
       \/ DropBuf(t)

Spec == Init /\ [][Next]_vars

-----------------------------------------------------------------------------
(* Properties *)

TypeOK ==
  /\ HandleTypeOK(Obj)
  /\ replyPipe \in BOOLEAN
  /\ queue \in [Endpoints -> Seq(Msg)]
  /\ nextId \in 1..MaxMsgs + 1
  /\ \A t \in Threads :
       /\ buf[t].hs \in BoundedSeq(HVals, MaxHandlesPerMsg + 1)
       /\ buf[t].unused \in 0..Len(buf[t].hs)
       /\ {buf[t].bid, buf[t].blen, buf[t].bcap, buf[t].hcap} \subseteq Nat
  /\ retry \in [Threads -> HVals \cup {Idle}]
  /\ res \in [Threads -> ReadStatus]

Owners(h) == HandleOwners(h)
             + FoldSet(LAMBDA t, a :
                         a + Cardinality({i \in (buf[t].unused + 1)..Len(buf[t].hs) :
                                            buf[t].hs[i] = h}),
                       0, Threads)

(***************************************************************************)
(* Single ownership (spec 3, 4.2, 4.4): every raw value live in the handle *)
(* table is owned by exactly one place (a Handle or MessagePipe, a Vec     *)
(* slot, a MessageBuf slot at or after unused_ix), and no other value is   *)
(* owned.  write_reply moves the endpoint itself into the Vec; this breaks *)
(* if it is lost or doubled on either outcome.                             *)
(***************************************************************************)
OwnershipExclusive ==
  \A h \in HVals : Owners(h) = IF table[h] # NoObj THEN 1 ELSE 0

(***************************************************************************)
(* Spec 4.4: read grows the buffer on a too-small outcome and retries      *)
(* until success or a failure other than the capacity one, so it never     *)
(* returns ERR_BUFFER_TOO_SMALL.                                           *)
(***************************************************************************)
ReadNeverTooSmall ==
  \A t \in Threads : res[t] # "ERR_BUFFER_TOO_SMALL"
=============================================================================
