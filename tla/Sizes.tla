------------------------------- MODULE Sizes -------------------------------
(***************************************************************************)
(* The integer widths at the boundary between Channel and the kernel:     *)
(* write converts bytes.len() (usize) to the kernel's u32 with value_into  *)
(* and fails with ErrOutOfRange above u32::MAX (channel.rs 101-102);       *)
(* read_raw passes size_to_u32_sat(capacity) (lib.rs 284-286), and         *)
(* Channel::read grows the buffer with ensure_capacity (Vec::reserve)      *)
(* until the message fits.  The byte counts of one channel endpoint and   *)
(* one reading thread are modelled; handle counts go through the same      *)
(* conversions and are left out.                                           *)
(*                                                                         *)
(* Widths are scaled: u32 has W bits and usize UW bits, keeping what the   *)
(* code relies on: usize is wider than u32 and isize::MAX, the largest     *)
(* allocation Vec makes, lies above u32::MAX (a 64-bit target).            *)
(***************************************************************************)
EXTENDS Integers, Sequences, FiniteSetsExt

CONSTANTS
  W,        \* bits of u32
  UW,       \* bits of usize
  MaxWrites \* bound on write calls

U32Max == 2^W - 1
UsizeMax == 2^UW - 1
IsizeMax == 2^(UW - 1) - 1
ASSUME IsizeMax > U32Max

\* A Result<u32, _>: Ok(val) or Err(ErrOutOfRange).
Ok(v) == [ok |-> TRUE, val |-> v]
OutOfRange == [ok |-> FALSE, val |-> 0]

VARIABLES
  queue,    \* byte counts of the pending messages
  cap,      \* buf.bytes.capacity()
  len,      \* buf.bytes.len()
  phase,    \* "idle", "reading" (inside Channel::read) or "panicked"
  writes    \* write calls made so far

svars == <<queue, cap, len, phase, writes>>

\* bytes.len().value_into(): the checked conversion usize -> u32.
ValueInto(n) == IF n <= U32Max THEN Ok(n) ELSE OutOfRange

\* Mutant: `capacity() as u32` instead of the saturating conversion.
SizeToU32Trunc(n) == n % (U32Max + 1)

\* size_to_u32_sat: min(size, u32::MAX as usize) as u32.
SizeToU32Sat(n) == Min({n, U32Max})

\* ensure_capacity(vec, size): reserve(size - len) when size > len;
\* Vec::reserve keeps the capacity if it suffices, else grows it to
\* max(2 * capacity, len + additional).
EnsureCapacity(c, l, size) ==
  IF size > l /\ c - l < size - l THEN Max({2 * c, size}) ELSE c

\* The capacity becomes c, or the allocation is too large and Vec panics.
Grow(c) == IF c > IsizeMax THEN phase' = "panicked" /\ UNCHANGED cap
                           ELSE cap' = c /\ UNCHANGED phase

SInit ==
  /\ queue = <<>>
  /\ cap = 0
  /\ len = 0
  /\ phase = "idle"
  /\ writes = 0

\* Another thread calls Channel::write(bytes) on the peer endpoint.
Write(n) ==
  /\ writes < MaxWrites
  /\ writes' = writes + 1
  /\ LET k == ValueInto(n) IN
     IF k.ok THEN queue' = Append(queue, k.val)
             ELSE UNCHANGED queue
  /\ UNCHANGED <<cap, len, phase>>

\* MessageBuf::ensure_capacity_bytes(size), called by the application.
EnsureCapacityBytes(size) ==
  /\ phase = "idle"
  /\ Grow(EnsureCapacity(cap, len, size))
  /\ UNCHANGED <<queue, len, writes>>

\* The buffer is dropped and MessageBuf::new() takes its place.
NewBuf ==
  /\ phase = "idle"
  /\ cap # 0 \/ len # 0
  /\ cap' = 0 /\ len' = 0
  /\ UNCHANGED <<queue, phase, writes>>

StartRead ==
  /\ phase = "idle"
  /\ phase' = "reading"
  /\ UNCHANGED <<queue, cap, len, writes>>

\* Mutant: set_len(capacity) instead of set_len(num_bytes) on delivery.
ReadRawSetLenCap ==
  /\ phase = "reading"
  /\ writes' = writes
  /\ \/ /\ queue = <<>>
        /\ phase' = "idle"
        /\ UNCHANGED <<queue, cap, len>>
     \/ /\ queue # <<>>
        /\ Head(queue) > SizeToU32Sat(cap)
        /\ Grow(EnsureCapacity(cap, len, Head(queue)))
        /\ UNCHANGED <<queue, len>>
     \/ /\ queue # <<>>
        /\ Head(queue) <= SizeToU32Sat(cap)
        /\ len' = cap
        /\ queue' = Tail(queue)
        /\ phase' = "idle"
        /\ UNCHANGED cap

(***************************************************************************)
(* One iteration of Channel::read: read_raw passes the saturated capacity; *)
(* an empty queue ends the loop (ERR_SHOULD_WAIT), a larger message gives  *)
(* ERR_BUFFER_TOO_SMALL with its size and the loop grows the buffer, and   *)
(* a fitting one is delivered (set_len(num_bytes)).                        *)
(***************************************************************************)
ReadRaw ==
  /\ phase = "reading"
  /\ writes' = writes
  /\ \/ /\ queue = <<>>
        /\ phase' = "idle"
        /\ UNCHANGED <<queue, cap, len>>
     \/ /\ queue # <<>>
        /\ Head(queue) > SizeToU32Sat(cap)
        /\ Grow(EnsureCapacity(cap, len, Head(queue)))
        /\ UNCHANGED <<queue, len>>
     \/ /\ queue # <<>>
        /\ Head(queue) <= SizeToU32Sat(cap)
        /\ len' = Head(queue)
        /\ queue' = Tail(queue)
        /\ phase' = "idle"
        /\ UNCHANGED cap

\* A thread that panicked runs no more code.
Panicked == phase = "panicked" /\ UNCHANGED svars

SNext ==
  \/ \E n \in 0..UsizeMax : Write(n)
  \/ \E size \in 0..UsizeMax : EnsureCapacityBytes(size)
  \/ NewBuf
  \/ StartRead
  \/ ReadRaw
  \/ Panicked

\* The loop of Channel::read is the thread's own code: it is weakly fair.
SSpec == SInit /\ [][SNext]_svars /\ WF_svars(ReadRaw)

-----------------------------------------------------------------------------
(* Properties *)

STypeOK ==
  /\ queue \in Seq(0..U32Max)
  /\ cap \in 0..IsizeMax
  /\ len \in 0..U32Max
  /\ phase \in {"idle", "reading", "panicked"}

(***************************************************************************)
(* Channel::read leaves its grow-and-retry loop, for every capacity the    *)
(* buffer can have, above u32::MAX included: the capacity passed to the    *)
(* kernel after growing covers the size it reported.                       *)
(***************************************************************************)
ReadLoopEnds == phase = "reading" ~> phase # "reading"
=============================================================================
