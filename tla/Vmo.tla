-------------------------------- MODULE Vmo --------------------------------
(***************************************************************************)
(* Vmo of src/src/lib.rs (create, read, write, get_size, set_size) over    *)
(* the handle layer.  The kernel keeps the bytes of each VMO; a call       *)
(* through any live value naming it is one atomic kernel step.  read and   *)
(* write copy min(len, size - offset) bytes (the vmo_read_write test reads *)
(* 16 bytes at offset 0 and 15 at offset 1 of a 16-byte VMO) and return    *)
(* that count, or a negative status for an offset past the end.            *)
(***************************************************************************)
EXTENDS Handle

CONSTANTS
  Bytes,     \* byte values a write may carry (Zero is the fill byte)
  Zero,
  MaxSize,   \* largest VMO size the application asks for
  BufLen,    \* length of each thread's read buffer
  RightsAsked \* rights masks the application passes to duplicate

VARIABLES
  data,      \* data[v]: the bytes the kernel keeps for VMO v
  buf,       \* buf[t]: thread t's buffer, the &mut [u8] it reads into
  known,     \* known[t]: the size thread t's last get_size returned
  rights,    \* rights[h]: the kernel's rights of handle value h
  asked      \* ghost: the rights the application asked for along h's chain

vvars == <<table, created, held, out, data, buf, known, rights, asked>>

\* The bits of mx_rights_t the Vmo calls depend on, as a set; a VMO
\* handle is created with all of them.  MX_RIGHT_SAME_RIGHTS is a mask of
\* its own that duplicate takes as "the rights of the source handle".
VmoRights == {"DUPLICATE", "READ", "WRITE"}
SameRights == {"SAME_RIGHTS"}
ASSUME RightsAsked \subseteq SUBSET VmoRights \cup {SameRights}

\* mx_handle_duplicate(h, mask): the source needs MX_RIGHT_DUPLICATE and
\* the mask must not add rights; the new handle has the mask, or the
\* source's rights for MX_RIGHT_SAME_RIGHTS.
DupAllowed(h, r) == "DUPLICATE" \in rights[h] /\ (r = SameRights \/ r \subseteq rights[h])
DupRights(h, r) == IF r = SameRights THEN rights[h] ELSE r

\* Ghost: what the application meant the new handle to be allowed.
Granted(a, r) == IF r = SameRights THEN a ELSE a \cap r

\* The value a successful create or duplicate just made the owner of.
NewValue == CHOOSE x \in held' \ held : TRUE

Offsets == 0..MaxSize + 1

Zeros(n) == [i \in 1..n |-> Zero]

\* The bytes s with w written from offset off on (0 <= off <= Len(s)).
Overlay(s, off, w) ==
  [i \in 1..Max({Len(s), off + Len(w)}) |->
     IF off < i /\ i <= off + Len(w) THEN w[i - off] ELSE s[i]]

\* mx_vmo_set_size: truncate, or extend with zero bytes.
Resize(s, n) == [i \in 1..n |-> IF i <= Len(s) THEN s[i] ELSE Zero]

\* Bytes the kernel moves for a call of length len at offset off.
Moved(v, off, len) == Min({len, Len(data[v]) - off})

VmoOf(h) == table[h]
VmoUsable(h) == h \in held /\ VmoOf(h) \in Vmos

VInit ==
  /\ HandleInit
  /\ data = [v \in Vmos |-> <<>>]
  /\ buf = [t \in Threads |-> Zeros(BufLen)]
  /\ known = [t \in Threads |-> 0]
  /\ rights = [h \in HVals |-> {}]
  /\ asked = [h \in HVals |-> {}]

\* Mutant: Handle(status) without into_result's check of the status.
VmoCreateSizedUnchecked(v, size) ==
  /\ \/ /\ VmoCreate(v, 0)
        /\ data' = [data EXCEPT ![v] = Zeros(size)]
        /\ rights' = [rights EXCEPT ![NewValue] = VmoRights]
        /\ asked' = [asked EXCEPT ![NewValue] = VmoRights]
     \/ /\ v \notin created
        /\ held' = held \cup {"ERR_NO_MEMORY"}
        /\ UNCHANGED <<table, created, out, data, rights, asked>>
  /\ UNCHANGED <<buf, known>>

\* Vmo::create(size): mx_vmo_create's non-negative status is the handle;
\* into_result turns a negative one (out of memory) into Err.
VmoCreateSized(v, size) ==
  /\ \/ /\ VmoCreate(v, 0)
        /\ data' = [data EXCEPT ![v] = Zeros(size)]
        /\ rights' = [rights EXCEPT ![NewValue] = VmoRights]
        /\ asked' = [asked EXCEPT ![NewValue] = VmoRights]
     \/ /\ v \notin created
        /\ UNCHANGED <<table, created, held, out, data, rights, asked>>
  /\ UNCHANGED <<buf, known>>

(***************************************************************************)
(* Vmo::read(&mut data[..len], offset): mx_vmo_read copies the bytes into  *)
(* the buffer and returns their count; a negative ssize becomes            *)
(* Err(Status(ssize as mx_status_t)).  At offset = size the kernel may     *)
(* report 0 bytes or ERR_OUT_OF_RANGE; past it, only the error.  A handle  *)
(* without MX_RIGHT_READ gets ERR_ACCESS_DENIED (read and get_size), one   *)
(* without MX_RIGHT_WRITE the same from write and set_size.                *)
(***************************************************************************)
VmoRead(t, h, off, len) ==
  LET v == VmoOf(h) IN
  /\ VmoUsable(h)
  /\ \/ /\ off <= Len(data[v]) /\ "READ" \in rights[h]
        /\ LET k == Moved(v, off, len) IN
             buf' = [buf EXCEPT ![t] = Overlay(@, 0, SubSeq(data[v], off + 1, off + k))]
     \/ /\ off >= Len(data[v]) \/ "READ" \notin rights[h]
        /\ UNCHANGED buf
  /\ UNCHANGED <<table, created, held, out, data, known,
                 rights, asked>>

\* Vmo::write(w, offset): mx_vmo_write copies min(len, size - offset)
\* bytes and returns the count, which the application learns.
VmoWrite(t, h, off, w) ==
  LET v == VmoOf(h)
      k == Moved(v, off, Len(w))
  IN
  /\ VmoUsable(h)
  /\ \/ /\ off <= Len(data[v]) /\ "WRITE" \in rights[h]
        /\ data' = [data EXCEPT ![v] = Overlay(@, off, SubSeq(w, 1, k))]
     \/ /\ off >= Len(data[v]) \/ "WRITE" \notin rights[h]
        /\ UNCHANGED data
  /\ UNCHANGED <<table, created, held, out, buf, known,
                 rights, asked>>

\* Vmo::get_size: size starts at 0 and is returned when the status is
\* non-negative.
VmoGetSize(t, h) ==
  /\ VmoUsable(h)
  /\ \/ /\ "READ" \in rights[h]
        /\ known' = [known EXCEPT ![t] = Len(data[VmoOf(h)])]
     \/ /\ "READ" \notin rights[h]
        /\ UNCHANGED known
  /\ UNCHANGED <<table, created, held, out, data, buf,
                 rights, asked>>

\* Vmo::set_size(size): Ok(()) after the kernel resized, or Err with the
\* VMO unchanged (out of memory when growing).
VmoSetSize(t, h, n) ==
  LET v == VmoOf(h) IN
  /\ VmoUsable(h)
  /\ \/ /\ "WRITE" \in rights[h]
        /\ data' = [data EXCEPT ![v] = Resize(@, n)]
     \/ /\ n > Len(data[v]) \/ "WRITE" \notin rights[h]
        /\ UNCHANGED data
  /\ UNCHANGED <<table, created, held, out, buf, known, rights, asked>>

\* Mutant: HandleBase::duplicate passing MX_RIGHT_SAME_RIGHTS, not `rights`.
VmoDuplicateSame(h, r) ==
  /\ VmoUsable(h)
  /\ \/ /\ DupAllowed(h, SameRights)
        /\ Duplicate(h, 0)
        /\ rights' = [rights EXCEPT ![NewValue] = DupRights(h, SameRights)]
        /\ asked' = [asked EXCEPT ![NewValue] = Granted(asked[h], r)]
     \/ /\ ~DupAllowed(h, SameRights) \/ ~RoomFor(1, 0)
        /\ UNCHANGED <<table, created, held, out, rights, asked>>
  /\ UNCHANGED <<data, buf, known>>

(***************************************************************************)
(* Vmo::duplicate(rights) (HandleBase::duplicate, HandleRef::duplicate):   *)
(* mx_handle_duplicate returns the new value, or a negative status         *)
(* (access denied, invalid rights, no room in the handle table) that       *)
(* becomes Err with no handle owned.                                       *)
(***************************************************************************)
VmoDuplicate(h, r) ==
  /\ VmoUsable(h)
  /\ \/ /\ DupAllowed(h, r)
        /\ Duplicate(h, 0)
        /\ rights' = [rights EXCEPT ![NewValue] = DupRights(h, r)]
        /\ asked' = [asked EXCEPT ![NewValue] = Granted(asked[h], r)]
     \/ /\ ~DupAllowed(h, r) \/ ~RoomFor(1, 0)
        /\ UNCHANGED <<table, created, held, out, rights, asked>>
  /\ UNCHANGED <<data, buf, known>>

\* Drop of a Vmo: handle_drop; the last close destroys the VMO.
VmoDrop(h) ==
  LET v == VmoOf(h) IN
  /\ VmoUsable(h)
  /\ DropHandle(h)
  /\ IF \E x \in Live(table') : table'[x] = v
       THEN UNCHANGED data
       ELSE data' = [data EXCEPT ![v] = <<>>]
  /\ rights' = [rights EXCEPT ![h] = {}]
  /\ asked' = [asked EXCEPT ![h] = {}]
  /\ UNCHANGED <<buf, known>>

\* The program has made its VMO and dropped every handle of it.
Finished ==
  /\ created = Vmos /\ held = {}
  /\ UNCHANGED vvars

VNext ==
  \/ Finished
  \/ \E v \in Vmos, n \in 0..MaxSize : VmoCreateSized(v, n)
  \/ \E h \in HVals, r \in RightsAsked : VmoDuplicate(h, r)
  \/ \E h \in HVals : VmoDrop(h)
  \/ \E t \in Threads, h \in HVals :
       \/ \E off \in Offsets, len \in 0..BufLen : VmoRead(t, h, off, len)
       \/ \E off \in Offsets, w \in BoundedSeq(Bytes, BufLen) \ {<<>>} :
            VmoWrite(t, h, off, w)
       \/ VmoGetSize(t, h)
       \/ \E n \in 0..MaxSize : VmoSetSize(t, h, n)

VSpec == VInit /\ [][VNext]_vvars

-----------------------------------------------------------------------------
(* Properties *)

VTypeOK ==
  /\ HandleTypeOK(Vmos)
  /\ data \in [Vmos -> BoundedSeq(Bytes \cup {Zero}, MaxSize)]
  /\ buf \in [Threads -> [1..BufLen -> Bytes \cup {Zero}]]
  /\ known \in [Threads -> 0..MaxSize]
  /\ rights \in [HVals -> SUBSET VmoRights]

(***************************************************************************)
(* Spec 4.2 and 8: duplicate(rights) only ever attenuates.  Every live     *)
(* VMO handle, however many duplicates and closes (and reissues of a       *)
(* value) lie between it and Vmo::create, holds no right that a mask       *)
(* passed along its chain of duplicate calls left out; so a handle         *)
(* duplicated without MX_RIGHT_WRITE can never write.                      *)
(***************************************************************************)
RightsAttenuate == \A h \in held : VmoUsable(h) => rights[h] \subseteq asked[h]
=============================================================================
