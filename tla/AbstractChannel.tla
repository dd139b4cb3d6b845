--------------------------- MODULE AbstractChannel ---------------------------
(***************************************************************************)
(* What a channel pair promises the application, without handle values,    *)
(* buffers, capacities or retries (spec 3, 4.2, 4.4, 5).                   *)
(*                                                                         *)
(* refs[o] is how many references to kernel object o the application owns *)
(* (in any form: a Handle, a slot of a Vec being written, an untaken slot  *)
(* of a MessageBuf).  A reference is created, duplicated, released, or     *)
(* moved into a message and out of it again; nothing else changes refs.    *)
(* Messages are delivered whole, once, in the order they were written.     *)
(* An endpoint whose last reference goes away is destroyed with its queue. *)
(* got[t] is the id of the message whose payload thread t's buffer shows.  *)
(***************************************************************************)
EXTENDS Naturals, FiniteSets, Sequences

CONSTANTS Threads, Vmos, ByteSizes, MaxMsgs, MaxHandlesPerMsg

Endpoints == {"ep0", "ep1"}
Peer(e) == IF e = "ep0" THEN "ep1" ELSE "ep0"
Obj == Endpoints \cup Vmos

VARIABLES refs, created, queue, nextId, got

avars == <<refs, created, queue, nextId, got>>

\* Reference counts are functions Obj -> Nat, added and subtracted pointwise.
NoRefs == [o \in Obj |-> 0]
RefsOf(s) == [o \in Obj |-> Cardinality({i \in DOMAIN s : s[i] = o})]
Plus(a, b) == [o \in Obj |-> a[o] + b[o]]
Minus(a, b) == [o \in Obj |-> a[o] - b[o]]
Within(a, b) == \A o \in Obj : a[o] <= b[o]

\* The ways one call can give up owned references r: it closes at most one
\* Vec or one MessageBuf, so at most MaxHandlesPerMsg of one object.
Releases(r) == {d \in [Obj -> 0..MaxHandlesPerMsg] : Within(d, r)}

\* The queues that survive when the application owns the references r.
Flush(r) == [e \in Endpoints |-> IF r[e] = 0 THEN <<>> ELSE queue[e]]

AInit ==
  /\ refs = NoRefs
  /\ created = {}
  /\ queue = [e \in Endpoints |-> <<>>]
  /\ nextId = 1
  /\ got = [t \in Threads |-> 0]

\* A create call: both endpoints of a pair, or one VMO.
Create(S) ==
  /\ S \cap created = {}
  /\ created' = created \cup S
  /\ refs' = [o \in Obj |-> IF o \in S THEN refs[o] + 1 ELSE refs[o]]
  /\ UNCHANGED <<queue, nextId, got>>

Duplicate(o) ==
  /\ UNCHANGED <<created, queue, nextId, got>>
  /\ refs[o] > 0
  /\ refs' = [refs EXCEPT ![o] = @ + 1]

\* Close some references; a thread may at once stop showing a payload.
Release(t, forget) ==
  LET r == refs IN
  /\ UNCHANGED <<created, nextId>>
  /\ got' = IF forget THEN [got EXCEPT ![t] = 0] ELSE got
  /\ \E d \in Releases(r) :
       /\ d # NoRefs \/ (forget /\ got[t] # 0)
       /\ refs' = Minus(r, d)
  /\ queue' = Flush(refs')

\* A write through an owned endpoint e to a live peer: the references the
\* message carries leave the application.
Send(e, n, objs) ==
  LET r == refs IN
  /\ nextId <= MaxMsgs
  /\ r[e] > 0
  /\ r[Peer(e)] > 0
  /\ Within(RefsOf(objs), r)
  /\ refs' = Minus(r, RefsOf(objs))
  /\ queue' = [queue EXCEPT ![Peer(e)] =
                 Append(@, [id |-> nextId, size |-> n, objs |-> objs])]
  /\ nextId' = nextId + 1
  /\ UNCHANGED <<created, got>>

\* A read by thread t through owned endpoint e, after it released some of
\* its references: the oldest message leaves the queue and the references
\* it carries join the application.
Receive(t, e) ==
  /\ queue[e] # <<>>
  /\ got' = [got EXCEPT ![t] = Head(queue[e]).id]
  /\ UNCHANGED <<created, nextId>>
  /\ LET r0 == refs IN
     \E d \in Releases(r0) :
       LET r == Minus(r0, d) IN
       /\ r[e] > 0
       /\ refs' = Plus(r, RefsOf(Head(queue[e]).objs))
       /\ queue' = [Flush(r) EXCEPT ![e] = Tail(@)]

ANext ==
  \/ Create(Endpoints)
  \/ \E v \in Vmos : Create({v})
  \/ \E o \in Obj : Duplicate(o)
  \/ \E t \in Threads, forget \in BOOLEAN : Release(t, forget)
  \/ \E e \in Endpoints, n \in ByteSizes,
        objs \in UNION {[1..k -> Vmos] : k \in 0..MaxHandlesPerMsg} :
       Send(e, n, objs)
  \/ \E t \in Threads, e \in Endpoints : Receive(t, e)

ASpec == AInit /\ [][ANext]_avars
=============================================================================
