------------------------------ MODULE Channel ------------------------------
(***************************************************************************)
(* The channel layer of magenta-rs (src/src/channel.rs: Channel,           *)
(* MessageBuf) over the handle layer of src/src/lib.rs (Handle,            *)
(* handle_drop, duplicate, Vmo::create), together with the part of the    *)
(* kernel these wrappers rely on: the process handle table, which maps raw *)
(* handle values to kernel objects and reissues closed values, and the     *)
(* message queue of each channel endpoint.                                 *)
(*                                                                         *)
(* The application is a set of threads sharing the owned handles `held`.  *)
(* Each thread has its own outgoing Vec<Handle> (`out`) and its own        *)
(* MessageBuf (`buf`).  Every syscall is one atomic step; Channel::read   *)
(* is a loop of read_raw calls, so one iteration is one step and other     *)
(* threads run between iterations.                                         *)
(***************************************************************************)
EXTENDS Handle

CONSTANTS
  Invalid,          \* INVALID_HANDLE (0), never issued by the kernel
  ByteSizes,        \* payload lengths the application writes
  MaxMsgs           \* bound on the number of channel writes

ASSUME /\ Invalid \notin HVals
       /\ ByteSizes \subseteq Nat

Endpoints == {"ep0", "ep1"}
Peer(e) == IF e = "ep0" THEN "ep1" ELSE "ep0"
Obj == Endpoints \cup Vmos

\* Outcomes of mx_channel_read as read_raw reports them.
ReadStatus == {"NONE", "NO_ERROR", "ERR_BUFFER_TOO_SMALL",
               "ERR_SHOULD_WAIT", "ERR_REMOTE_CLOSED"}

Msg == [id : 1..MaxMsgs, size : ByteSizes,
        objs : BoundedSeq(Vmos, MaxHandlesPerMsg)]

VARIABLES
  queue,    \* queue[e]: messages pending to be read from endpoint e
  nextId,   \* id of the next message written
  buf,      \* buf[t]: the MessageBuf of thread t
  reading,  \* reading[t]: the endpoint handle thread t is inside Channel::read on
  res       \* res[t]: the status of thread t's last read_raw

vars == <<table, created, queue, nextId, held, out, buf, reading, res>>

(***************************************************************************)
(* A MessageBuf: bytes (bid: which message's payload bytes() shows, blen:  *)
(* bytes.len(), bcap: bytes.capacity()) and handles (hs: the raw values, *)
(* INVALID_HANDLE where taken; hcap: handles.capacity()).                  *)
(***************************************************************************)
EmptyBuf == [bid |-> 0, blen |-> 0, bcap |-> 0, hs |-> <<>>, hcap |-> 0]

EndpointAlive(e, tbl) == \E h \in HVals : tbl[h] = e

\* The kernel destroys an endpoint with its last handle, and its queue with it.
Settle(tbl) == [e \in Endpoints |-> IF EndpointAlive(e, tbl) THEN queue[e]
                                                            ELSE <<>>]

InTransit == FoldSet(LAMBDA e, a :
                       a + FoldLeft(LAMBDA n, m : n + Len(m.objs), 0, queue[e]),
                     0, Endpoints)

\* A thread may use endpoint handle h: it owns it and is not inside a read.
Usable(t, h) == /\ reading[t] = Idle
                /\ h \in held
                /\ table[h] \in Endpoints

\* A Rust borrow (&self in Channel::read) keeps h from being moved or dropped.
Borrowed(h) == \E t \in Threads : reading[t] = h

-----------------------------------------------------------------------------
(* Helpers of channel.rs *)

\* Mutant: reserve(size - len - 1), one element short.
EnsureCapacityShort(cap, len, size) ==
  IF size - 1 > len /\ size - 1 > cap THEN Max({2 * cap, size - 1}) ELSE cap

\* ensure_capacity: reserve(size - len) when size > len; Vec::reserve grows
\* the capacity to max(2 * capacity, len + additional) when it must grow.
EnsureCapacity(cap, len, size) ==
  IF size > len /\ size > cap THEN Max({2 * cap, size}) ELSE cap

\* drop_handles: the values of the slots that are not INVALID_HANDLE.
DropHandles(b) == {b.hs[i] : i \in {j \in DOMAIN b.hs : b.hs[j] # Invalid}}

\* Mutant: reset_handles without handles.clear().
ResetHandlesNoClear(b) == b

\* reset_handles: drop_handles, then handles.clear().
ResetHandles(b) == [b EXCEPT !.hs = <<>>]

\* mx_channel_read, given the capacities (size_to_u32_sat is the identity at
\* these sizes), fails with ERR_BUFFER_TOO_SMALL and leaves m queued.
TooSmall(m, b) == m.size > b.bcap \/ Len(m.objs) > b.hcap

-----------------------------------------------------------------------------
(* Operations *)

Init ==
  /\ HandleInit
  /\ queue = [e \in Endpoints |-> <<>>]
  /\ nextId = 1
  /\ buf = [t \in Threads |-> EmptyBuf]
  /\ reading = [t \in Threads |-> Idle]
  /\ res = [t \in Threads |-> "NONE"]

ChannelVars == <<queue, nextId, buf, reading, res>>

\* Channel::create: mx_channel_create yields two connected endpoint handles.
ChannelCreate(t) ==
  /\ reading[t] = Idle
  /\ Endpoints \cap created = {}
  /\ RoomFor(2, InTransit)
  /\ \E h0, h1 \in Free(table) :
       /\ h0 # h1
       /\ table' = [table EXCEPT ![h0] = "ep0", ![h1] = "ep1"]
       /\ held' = held \cup {h0, h1}
  /\ created' = created \cup Endpoints
  /\ UNCHANGED <<out, queue, nextId, buf, reading, res>>

\* The handle-layer operations of Handle, by a thread outside Channel::read.
\* Dropping the last handle of an endpoint destroys its queue.
HandleOp(t) ==
  /\ reading[t] = Idle
  /\ \/ /\ \E v \in Vmos : VmoCreate(v, InTransit)
        /\ UNCHANGED ChannelVars
     \/ /\ \E h \in HVals : Duplicate(h, InTransit)
        /\ UNCHANGED ChannelVars
     \/ /\ \E h \in HVals : ~Borrowed(h) /\ DropHandle(h)
        /\ queue' = Settle(table')
        /\ UNCHANGED <<nextId, buf, reading, res>>
     \/ /\ \E h \in HVals : PushHandle(t, h)
        /\ UNCHANGED ChannelVars
     \/ /\ DropOut(t)
        /\ UNCHANGED ChannelVars

(***************************************************************************)
(* Channel::write: mx_channel_write moves the handles of the Vec into a    *)
(* message queued at the peer; on success the Vec is emptied with          *)
(* set_len(0), on failure (peer closed) it keeps every handle.             *)
(***************************************************************************)
Write(t, h) ==
  /\ Usable(t, h)
  /\ nextId <= MaxMsgs
  /\ LET e == table[h] IN
     \/ /\ EndpointAlive(Peer(e), table)
        /\ \E n \in ByteSizes :
             queue' = [queue EXCEPT ![Peer(e)] =
                        Append(@, [id |-> nextId, size |-> n,
                                   objs |-> [i \in DOMAIN out[t] |->
                                               table[out[t][i]]]])]
        /\ table' = Close(table, Range(out[t]))
        /\ out' = [out EXCEPT ![t] = <<>>]
        /\ nextId' = nextId + 1
     \/ /\ ~EndpointAlive(Peer(e), table)
        /\ UNCHANGED <<table, queue, out, nextId>>
  /\ UNCHANGED <<created, held, buf, reading, res>>

(***************************************************************************)
(* Channel::read_raw on endpoint handle h into buf[t]: reset_handles       *)
(* closes the untaken handles and clears the handle vector (the bytes are  *)
(* left as they are), then mx_channel_read is called with the capacities.  *)
(* When `grow` holds this is one iteration of Channel::read, which on      *)
(* ERR_BUFFER_TOO_SMALL grows both capacities and loops again.             *)
(***************************************************************************)
ReadRaw(t, h, grow) ==
  LET b   == ResetHandles(buf[t])
      tbl == Close(table, DropHandles(buf[t]))
      e   == table[h]
      q   == queue[e]
  IN
  \/ /\ q = <<>>
     /\ table' = tbl
     /\ buf' = [buf EXCEPT ![t] = b]
     /\ res' = [res EXCEPT ![t] = IF EndpointAlive(Peer(e), table)
                                    THEN "ERR_SHOULD_WAIT"
                                    ELSE "ERR_REMOTE_CLOSED"]
     /\ reading' = [reading EXCEPT ![t] = Idle]
     /\ UNCHANGED queue
  \/ /\ q # <<>>
     /\ TooSmall(Head(q), b)
     /\ table' = tbl
     /\ buf' = [buf EXCEPT ![t] =
                  IF grow
                    THEN [b EXCEPT !.bcap = EnsureCapacity(b.bcap, b.blen,
                                                           Head(q).size),
                                   !.hcap = EnsureCapacity(b.hcap, 0,
                                                           Len(Head(q).objs))]
                    ELSE b]
     /\ res' = [res EXCEPT ![t] = "ERR_BUFFER_TOO_SMALL"]
     /\ reading' = [reading EXCEPT ![t] = IF grow THEN h ELSE Idle]
     /\ UNCHANGED queue
  \/ /\ q # <<>>
     /\ ~TooSmall(Head(q), b)
     /\ LET m == Head(q) IN
        \E f \in Injection(DOMAIN m.objs, Free(tbl)) :
          /\ table' = Install(tbl, f, m.objs)
          /\ buf' = [buf EXCEPT ![t] = [b EXCEPT !.bid = m.id, !.blen = m.size,
                                                 !.hs = f]]
     /\ queue' = [queue EXCEPT ![e] = Tail(q)]
     /\ res' = [res EXCEPT ![t] = "NO_ERROR"]
     /\ reading' = [reading EXCEPT ![t] = Idle]

\* A direct call of the public read_raw.
ReadRawCall(t, h) ==
  /\ Usable(t, h)
  /\ ReadRaw(t, h, FALSE)
  /\ UNCHANGED <<created, nextId, held, out>>

\* An iteration of Channel::read: the first, or one after ERR_BUFFER_TOO_SMALL.
Read(t, h) ==
  /\ Usable(t, h) \/ reading[t] = h
  /\ ReadRaw(t, h, TRUE)
  /\ UNCHANGED <<created, nextId, held, out>>

\* MessageBuf::ensure_capacity_bytes / ensure_capacity_handles.
EnsureCapacityBytes(t, n) ==
  /\ reading[t] = Idle
  /\ buf' = [buf EXCEPT ![t].bcap = EnsureCapacity(@, buf[t].blen, n)]
  /\ buf' # buf
  /\ UNCHANGED <<table, created, queue, nextId, held, out, reading, res>>

EnsureCapacityHandles(t, n) ==
  /\ reading[t] = Idle
  /\ buf' = [buf EXCEPT ![t].hcap = EnsureCapacity(@, Len(buf[t].hs), n)]
  /\ buf' # buf
  /\ UNCHANGED <<table, created, queue, nextId, held, out, reading, res>>

\* Mutant: take_handle without the INVALID_HANDLE check.
TakeHandleUnchecked(t, i) ==
  /\ reading[t] = Idle
  /\ i \in DOMAIN buf[t].hs
  /\ held' = held \cup {buf[t].hs[i]}
  /\ buf' = [buf EXCEPT ![t].hs[i] = Invalid]
  /\ UNCHANGED <<table, created, queue, nextId, out, reading, res>>

\* MessageBuf::take_handle: the value moves out, INVALID_HANDLE stays behind.
TakeHandle(t, i) ==
  /\ reading[t] = Idle
  /\ i \in DOMAIN buf[t].hs
  /\ buf[t].hs[i] # Invalid
  /\ held' = held \cup {buf[t].hs[i]}
  /\ buf' = [buf EXCEPT ![t].hs[i] = Invalid]
  /\ UNCHANGED <<table, created, queue, nextId, out, reading, res>>

\* Drop for MessageBuf (drop_handles), then a fresh MessageBuf::new().
DropBuf(t) ==
  /\ reading[t] = Idle
  /\ buf[t] # EmptyBuf
  /\ table' = Close(table, DropHandles(buf[t]))
  /\ buf' = [buf EXCEPT ![t] = EmptyBuf]
  /\ res' = [res EXCEPT ![t] = "NONE"]
  /\ UNCHANGED <<created, queue, nextId, held, out, reading>>

Next ==
  \E t \in Threads :
    \/ ChannelCreate(t)
    \/ HandleOp(t)
    \/ \E h \in HVals : \/ Write(t, h)
                        \/ ReadRawCall(t, h)
                        \/ Read(t, h)
    \/ \E n \in ByteSizes : EnsureCapacityBytes(t, n)
    \/ \E n \in 1..MaxHandlesPerMsg : EnsureCapacityHandles(t, n)
    \/ \E i \in 1..MaxHandlesPerMsg : TakeHandle(t, i)
    \/ DropBuf(t)

Spec == Init /\ [][Next]_vars

\* Only a thread inside Channel::read is owed progress: the loop is code,
\* while every other step is the application's choice.
FairSpec == Spec /\ \A t \in Threads :
                      WF_vars(\E h \in HVals : reading[t] = h /\ Read(t, h))

-----------------------------------------------------------------------------
(* Properties *)

TypeOK ==
  /\ HandleTypeOK(Obj)
  /\ queue \in [Endpoints -> Seq(Msg)]
  /\ nextId \in 1..MaxMsgs + 1
  /\ buf \in [Threads -> [bid : 0..MaxMsgs, blen : Nat, bcap : Nat,
                          hs : BoundedSeq(HVals \cup {Invalid}, MaxHandlesPerMsg),
                          hcap : Nat]]
  /\ reading \in [Threads -> HVals \cup {Idle}]
  /\ res \in [Threads -> ReadStatus]

\* How many places of the application own raw value h: a Handle, a slot of
\* an outgoing Vec, an untaken slot of a MessageBuf.
Owners(h) == HandleOwners(h)
             + FoldSet(LAMBDA t, a : a + Occurrences(buf[t].hs, h), 0, Threads)

(***************************************************************************)
(* Single ownership (spec 3, 4.2): every raw value live in the handle      *)
(* table is owned by exactly one place of the program, and a value that is *)
(* not live is owned by none.  Breaks on a double close, a leak, a write   *)
(* that keeps transferred handles, take_handle that does not clear the     *)
(* slot, or reset_handles that forgets a slot.                             *)
(***************************************************************************)
OwnershipExclusive ==
  \A h \in HVals : Owners(h) = IF table[h] # NoObj THEN 1 ELSE 0

(***************************************************************************)
(* Channel::read terminates: a thread that entered the retry loop leaves   *)
(* it, whatever the other threads read or write meanwhile.                 *)
(***************************************************************************)
ReadTerminates ==
  \A t \in Threads : reading[t] # Idle ~> reading[t] = Idle

(***************************************************************************)
(* Spec 4.3: reset_handles, called at the start of every read, clears the  *)
(* byte region too, so a read that delivers nothing leaves bytes() empty   *)
(* (the test channel_read_raw_too_small asserts bytes() == b"").           *)
(***************************************************************************)
BytesClearedOnFailedRead ==
  \A t \in Threads :
    res[t] \in {"ERR_BUFFER_TOO_SMALL", "ERR_SHOULD_WAIT", "ERR_REMOTE_CLOSED"}
      => buf[t].blen = 0

(***************************************************************************)
(* Refinement: the references the application owns to each object are the *)
(* owners of the live values naming it; the payload a buffer shows is its  *)
(* bid.  Probes, capacity growth, take_handle and Vec pushes are stuttering *)
(* steps of the abstract channel.                                          *)
(***************************************************************************)
\* How many places of the application own a value naming object o.
RefsIn(s, o) == Cardinality({i \in DOMAIN s : s[i] \in HVals /\ table[s[i]] = o})
ObjRefs == [o \in Obj |-> Cardinality({h \in held : table[h] = o})
                          + FoldSet(LAMBDA t, a : a + RefsIn(out[t], o)
                                                    + RefsIn(buf[t].hs, o),
                                    0, Threads)]

Abs == INSTANCE AbstractChannel WITH refs <- ObjRefs,
                                     got <- [t \in Threads |-> buf[t].bid]

(***************************************************************************)
(* Channel implements AbstractChannel: every step of the wrappers and the  *)
(* kernel is a create, duplicate, release, FIFO send or FIFO receive of    *)
(* references, or changes none of them.  Breaks when a read delivers a     *)
(* message other than the oldest, a write keeps what it sent, a handle is  *)
(* owned twice or a queue outlives the last reference to its endpoint.     *)
(* This is Abs!ASpec; the stuttering case is written first so that TLC     *)
(* tries it before it enumerates the abstract actions.                     *)
(***************************************************************************)
ChannelImplementsAbstract ==
  Abs!AInit /\ [][UNCHANGED Abs!avars \/ Abs!ANext]_(Abs!avars)
=============================================================================
