------------------------------ MODULE WaitSet ------------------------------
(***************************************************************************)
(* WaitSet (src/src/lib.rs: create, add, remove, wait) and HandleRef::wait *)
(* (mx_handle_wait_one), composed with the channel model: the signals a    *)
(* wait observes are those of channel endpoints, READABLE while the queue  *)
(* is not empty and PEER_CLOSED once the peer is gone.                     *)
(*                                                                         *)
(* The kernel side of a wait set is a registry cookie -> watch.  A watch   *)
(* names the handle value it was added with; closing that value cancels   *)
(* the watch, which then reports ERR_HANDLE_CLOSED.  add only borrows the  *)
(* handle, so the application may close it while its cookie is            *)
(* registered.  A blocking call is two steps, entering the kernel and      *)
(* returning from it, so other threads run while a thread waits.  The      *)
(* status a call returns goes to its caller and is not kept.  This model   *)
(* has no VMOs, so messages carry no handles.                              *)
(***************************************************************************)
EXTENDS Channel

CONSTANTS
  Waiters,      \* the threads that make blocking calls
  Cookies,      \* cookies the application registers
  Masks,        \* the signal masks the application waits for
  MaxResults    \* largest capacity the application gives a result Vec

Signals == {"READABLE", "PEER_CLOSED"}
ASSUME /\ Masks \subseteq SUBSET Signals \ {{}}
       /\ Waiters \subseteq Threads

WsObj == "waitset"
NoEntry == [obj |-> "none"]
NotBlocked == [kind |-> "none"]

\* A registered watch: object and handle value, signal mask, cancelled flag.
Watch == [obj : Endpoints, hv : HVals, sig : Masks, closed : BOOLEAN]
\* A WaitSetResult (the signal snapshot is left out).
WsRecord == [cookie : Cookies, status : {"NO_ERROR", "ERR_HANDLE_CLOSED"}]
\* A blocked call: WaitSet::wait on waitset value hv, or HandleRef::wait on
\* hv for the mask sig; finite: a timeout other than MX_TIME_INFINITE.
Blocked == [kind : {"set"}, hv : HVals, finite : BOOLEAN]
           \cup [kind : {"one"}, hv : HVals, sig : Masks, finite : BOOLEAN]

VARIABLES
  entries,  \* the kernel registry of the wait set: cookie -> Watch or NoEntry
  waiting,  \* waiting[t]: the blocking call thread t is inside, or NotBlocked
  results   \* results[t]: the Vec<WaitSetResult> (recs, capacity) of thread t

wvars == <<entries, waiting, results>>
allvars == <<vars, wvars>>

(***************************************************************************)
(* Kernel state the calls observe                                          *)
(***************************************************************************)
WaitSetAlive(tbl) == \E h \in HVals : tbl[h] = WsObj

\* The signals asserted on endpoint e.
Satisfied(e) ==
  (IF queue[e] # <<>> THEN {"READABLE"} ELSE {})
  \cup (IF EndpointAlive(Peer(e), table) THEN {} ELSE {"PEER_CLOSED"})

\* No future step can assert a signal of sig on e: the peer is gone and
\* nothing more is queued, so only PEER_CLOSED could still come true.
Unsatisfiable(e, sig) == /\ ~EndpointAlive(Peer(e), table)
                         /\ queue[e] = <<>>
                         /\ "PEER_CLOSED" \notin sig

\* What closing handles does to the registry, given the new table: a watch
\* whose handle value no longer names its object is cancelled; the registry
\* goes with the last handle of the wait set.
AfterClose(tbl) ==
  [c \in Cookies |->
     IF entries[c] = NoEntry \/ ~WaitSetAlive(tbl) THEN NoEntry
     ELSE [entries[c] EXCEPT !.closed = @ \/ tbl[entries[c].hv] # entries[c].obj]]

Triggered == {c \in Cookies : /\ entries[c] # NoEntry
                              /\ \/ entries[c].closed
                                 \/ entries[c].sig \cap Satisfied(entries[c].obj) # {}}

Record(c) == [cookie |-> c,
              status |-> IF entries[c].closed THEN "ERR_HANDLE_CLOSED"
                                              ELSE "NO_ERROR"]

\* A handle a blocked call borrows (&self) cannot be dropped meanwhile.
WaitBorrowed(h) == \E t \in Threads : waiting[t] # NotBlocked /\ waiting[t].hv = h

\* Thread t is in none of the blocking calls or loops and may call anything.
Runnable(t) == waiting[t] = NotBlocked /\ reading[t] = Idle

WsUsable(t, w) == Runnable(t) /\ w \in held /\ table[w] = WsObj

-----------------------------------------------------------------------------
(* Operations *)

WInit ==
  /\ Init
  /\ entries = [c \in Cookies |-> NoEntry]
  /\ waiting = [t \in Threads |-> NotBlocked]
  /\ results = [t \in Threads |-> [recs |-> <<>>, cap |-> 0]]

\* The channel and handle operations of a thread that is not blocked; the
\* kernel cancels the watches of the values a step closes.
ChannelStep(t) ==
  /\ waiting[t] = NotBlocked
  /\ \/ ChannelCreate(t)
     \/ /\ reading[t] = Idle
        /\ \E h \in HVals : Duplicate(h, InTransit)
        /\ UNCHANGED ChannelVars
     \/ /\ reading[t] = Idle
        /\ \E h \in HVals : ~Borrowed(h) /\ ~WaitBorrowed(h) /\ DropHandle(h)
        /\ queue' = Settle(table')
        /\ UNCHANGED <<nextId, buf, reading, res>>
     \/ \E h \in HVals : Write(t, h) \/ Read(t, h)
  /\ entries' = AfterClose(table')
  /\ UNCHANGED <<waiting, results>>

\* The application makes a new result Vec with Vec::with_capacity(n).
NewResults(t, n) ==
  /\ waiting[t] = NotBlocked
  /\ results' = [results EXCEPT ![t] = [recs |-> <<>>, cap |-> n]]
  /\ results' # results
  /\ UNCHANGED <<vars, entries, waiting>>

\* Mutant: Handle(status) without into_result's check of the status.
WaitSetCreateUnchecked(t) ==
  /\ Runnable(t)
  /\ WsObj \notin created
  /\ \/ /\ RoomFor(1, InTransit)
        /\ \E h \in Free(table) : /\ table' = [table EXCEPT ![h] = WsObj]
                                 /\ held' = held \cup {h}
        /\ created' = created \cup {WsObj}
     \/ /\ held' = held \cup {"ERR_NO_RESOURCES"}
        /\ UNCHANGED <<table, created>>
  /\ UNCHANGED <<out, ChannelVars, wvars>>

\* WaitSet::create: mx_waitset_create, whose non-negative status is the new
\* handle; into_result turns a negative one (the kernel may run out of
\* memory at any create) into Err.
WaitSetCreate(t) ==
  /\ Runnable(t)
  /\ WsObj \notin created
  /\ \/ /\ RoomFor(1, InTransit)
        /\ \E h \in Free(table) : /\ table' = [table EXCEPT ![h] = WsObj]
                                 /\ held' = held \cup {h}
        /\ created' = created \cup {WsObj}
     \/ UNCHANGED <<table, created, held>>
  /\ UNCHANGED <<out, ChannelVars, wvars>>

\* WaitSet::add(&self, &handle, signals, cookie): mx_waitset_add; the
\* kernel refuses a cookie that is registered (ERR_ALREADY_EXISTS).
WsAdd(t, w, h, sig, c) ==
  /\ WsUsable(t, w)
  /\ h \in held /\ table[h] \in Endpoints
  /\ \/ /\ entries[c] = NoEntry
        /\ entries' = [entries EXCEPT ![c] = [obj |-> table[h], hv |-> h,
                                               sig |-> sig, closed |-> FALSE]]
     \/ /\ entries[c] # NoEntry
        /\ UNCHANGED entries
  /\ UNCHANGED <<vars, waiting, results>>

\* WaitSet::remove(&self, cookie): mx_waitset_remove (ERR_NOT_FOUND for a
\* cookie that is not registered).
WsRemove(t, w, c) ==
  /\ WsUsable(t, w)
  /\ \/ /\ entries[c] # NoEntry
        /\ entries' = [entries EXCEPT ![c] = NoEntry]
     \/ /\ entries[c] = NoEntry
        /\ UNCHANGED entries
  /\ UNCHANGED <<vars, waiting, results>>

\* WaitSet::wait(&self, timeout, &mut results): num_results starts as
\* size_to_u32_sat(results.capacity()) and mx_waitset_wait blocks.  results
\* stays borrowed, so its capacity is the same when the call returns.
WsWait(t, w, finite) ==
  /\ WsUsable(t, w)
  /\ waiting' = [waiting EXCEPT ![t] = [kind |-> "set", hv |-> w,
                                         finite |-> finite]]
  /\ UNCHANGED <<vars, entries, results>>

WaitReturn(t) ==
  /\ waiting[t].kind = "set"
  /\ \/ /\ Triggered # {}
        /\ LET n == Min({results[t].cap, Cardinality(Triggered)}) IN
           \E f \in Injection(1..n, Triggered) :
             results' = [results EXCEPT ![t].recs = [i \in DOMAIN f |-> Record(f[i])]]
     \/ /\ waiting[t].finite /\ Triggered = {}
        /\ results' = [results EXCEPT ![t].recs = <<>>]
  /\ waiting' = [waiting EXCEPT ![t] = NotBlocked]
  /\ UNCHANGED <<vars, entries>>

\* HandleRef::wait (through HandleBase::wait): mx_handle_wait_one blocks.
WaitOne(t, h, sig, finite) ==
  /\ Runnable(t)
  /\ h \in held /\ table[h] \in Endpoints
  /\ waiting' = [waiting EXCEPT ![t] = [kind |-> "one", hv |-> h, sig |-> sig,
                                         finite |-> finite]]
  /\ UNCHANGED <<vars, entries, results>>

\* mx_handle_wait_one returns: a requested signal is asserted (NO_ERROR),
\* none can be any more (ERR_BAD_STATE), or the timeout passed.
WaitOneReturn(t) ==
  LET call == waiting[t]
      e == table[call.hv]
  IN
  /\ call.kind = "one"
  /\ \/ call.sig \cap Satisfied(e) # {}
     \/ Unsatisfiable(e, call.sig)
     \/ call.finite
  /\ waiting' = [waiting EXCEPT ![t] = NotBlocked]
  /\ UNCHANGED <<vars, entries, results>>

WNext ==
  \/ \E t \in Threads :
    \/ ChannelStep(t)
    \/ WaitSetCreate(t)
    \/ \E w, h \in HVals, sig \in Masks, c \in Cookies : WsAdd(t, w, h, sig, c)
    \/ \E w \in HVals, c \in Cookies : WsRemove(t, w, c)
  \/ \E t \in Waiters :
    \/ \E n \in 0..MaxResults : NewResults(t, n)
    \/ \E w \in HVals, finite \in BOOLEAN : WsWait(t, w, finite)
    \/ WaitReturn(t)
    \/ \E h \in HVals, sig \in Masks, finite \in BOOLEAN : WaitOne(t, h, sig, finite)
    \/ WaitOneReturn(t)

WSpec == WInit /\ [][WNext]_allvars

-----------------------------------------------------------------------------
(* Properties *)

WTypeOK ==
  /\ HandleTypeOK(Obj \cup {WsObj})
  /\ entries \in [Cookies -> Watch \cup {NoEntry}]
  /\ waiting \in [Threads -> Blocked \cup {NotBlocked}]
  /\ results \in [Threads -> [recs : Seq(WsRecord), cap : 0..MaxResults]]

AllReadyReported ==
  [][\A t \in Waiters :
       (waiting[t].kind = "set" /\ waiting'[t] = NotBlocked /\ Triggered # {})
         => Len(results'[t].recs) = Cardinality(Triggered)]_allvars

=============================================================================
