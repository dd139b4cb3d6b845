------------------------------ MODULE Handle ------------------------------
(***************************************************************************)
(* The handle layer of src/src/lib.rs: Handle, the owning wrapper of one   *)
(* raw mx_handle_t; HandleBase::duplicate and into_handle; handle_drop;    *)
(* the typed wrappers that own one Handle (Vmo::create).  With it, the     *)
(* kernel's process handle table: raw value -> kernel object.  A closed    *)
(* value is free and the kernel may issue it again.                        *)
(*                                                                         *)
(* `held` is the set of raw values owned by Handle values (or typed        *)
(* wrappers) of the application; `out[t]` is the Vec<Handle> thread t      *)
(* fills for a channel write.  The channel modules extend this one.        *)
(***************************************************************************)
EXTENDS Integers, SequencesExt

CONSTANTS
  Threads,          \* application threads
  HVals,            \* raw handle values the kernel may issue
  Vmos,             \* VMO objects the application may create
  MaxHandlesPerMsg, \* bound on the length of a Vec<Handle> passed to write
  MaxRefs           \* bound on references: handles in the table or in transit

ASSUME MaxRefs <= Cardinality(HVals)

NoObj == "no_object"
Idle == "idle"

VARIABLES
  table,    \* the process handle table: raw value -> kernel object or NoObj
  created,  \* kernel objects created so far
  held,     \* raw values owned by Handle/typed-wrapper values
  out       \* out[t]: the Vec<Handle> thread t prepares for a write

Live(tbl) == {h \in HVals : tbl[h] # NoObj}
Free(tbl) == HVals \ Live(tbl)

\* mx_handle_close of every value in S; a value no longer live is ignored,
\* as handle_drop ignores the status.
Close(tbl, S) == [h \in HVals |-> IF h \in S THEN NoObj ELSE tbl[h]]

\* The kernel installs objs[i] under the fresh value f[i] for every i.
Install(tbl, f, objs) ==
  [x \in HVals |-> IF x \in Range(f)
                     THEN objs[CHOOSE i \in DOMAIN f : f[i] = x]
                     ELSE tbl[x]]

\* Room for one more reference, given `inTransit` references in messages.
RoomFor(k, inTransit) == Cardinality(Live(table)) + inTransit + k <= MaxRefs

HandleInit ==
  /\ table = [h \in HVals |-> NoObj]
  /\ created = {}
  /\ held = {}
  /\ out = [t \in Threads |-> <<>>]

\* Vmo::create: the non-negative status is the new handle value.
VmoCreate(v, inTransit) ==
  /\ v \notin created
  /\ RoomFor(1, inTransit)
  /\ \E h \in Free(table) :
       /\ table' = [table EXCEPT ![h] = v]
       /\ held' = held \cup {h}
  /\ created' = created \cup {v}
  /\ UNCHANGED out

\* HandleBase::duplicate via HandleRef::duplicate: a new value, same object.
Duplicate(h, inTransit) ==
  /\ h \in held
  /\ RoomFor(1, inTransit)
  /\ \E n \in Free(table) :
       /\ table' = [table EXCEPT ![n] = table[h]]
       /\ held' = held \cup {n}
  /\ UNCHANGED <<created, out>>

\* Drop for Handle: handle_drop closes the value.
DropHandle(h) ==
  /\ h \in held
  /\ table' = Close(table, {h})
  /\ held' = held \ {h}
  /\ UNCHANGED <<created, out>>

\* into_handle (mem::forget of the wrapper, no close), then Vec::push.
PushHandle(t, h) ==
  /\ h \in held
  /\ table[h] \in Vmos
  /\ Len(out[t]) < MaxHandlesPerMsg
  /\ out' = [out EXCEPT ![t] = Append(@, h)]
  /\ held' = held \ {h}
  /\ UNCHANGED <<table, created>>

\* Dropping the Vec<Handle> drops, and so closes, every handle in it.
DropOut(t) ==
  /\ out[t] # <<>>
  /\ table' = Close(table, Range(out[t]))
  /\ out' = [out EXCEPT ![t] = <<>>]
  /\ UNCHANGED <<created, held>>

HandleTypeOK(Obj) ==
  /\ table \in [HVals -> Obj \cup {NoObj}]
  /\ created \subseteq Obj
  /\ held \subseteq HVals
  /\ out \in [Threads -> BoundedSeq(HVals, MaxHandlesPerMsg)]

Occurrences(s, h) == Cardinality({i \in DOMAIN s : s[i] = h})

\* How many Handle values and Vec slots own raw value h.
HandleOwners(h) == (IF h \in held THEN 1 ELSE 0)
                   + FoldSet(LAMBDA t, a : a + Occurrences(out[t], h), 0, Threads)
=============================================================================
