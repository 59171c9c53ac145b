-------------------------------- MODULE Pipe --------------------------------
(***************************************************************************)
(* The pipe of gemOS (assignment_3, pipe.c): a ring of PIPE_MAX_SIZE bytes *)
(* with the position of the next byte to read, the position of the last    *)
(* byte written (both -1 when the pipe is empty) and a count of the bytes  *)
(* in between that is kept separately.  pipe_read and pipe_write admit a   *)
(* call by that count, then work on local copies of the positions byte by  *)
(* byte, each with its own test for an empty or full ring, and store the   *)
(* copies only when every byte went through.  A byte is a step here.  The  *)
(* bytes a writer passes are chosen as the loop reads them.                *)
(***************************************************************************)
EXTENDS Integers, Sequences

CONSTANTS
  PIPE_MAX_SIZE,  \* bytes in the ring: 4096 in the code
  U32,            \* one more than the largest u32: 2^32 in the code
  Byte            \* the values a byte can have

ASSUME SizeAssumption ==
  /\ PIPE_MAX_SIZE \in Nat /\ PIPE_MAX_SIZE >= 3
  /\ U32 \in Nat /\ U32 > 2 * PIPE_MAX_SIZE

VARIABLES
  pipe_buff,      \* the ring
  read_pos,       \* next byte to read, or -1
  write_pos,      \* last byte written, or -1
  buffer_offset,  \* how many bytes are waiting
  call,           \* the read or write in progress with its locals, or Idle
  moved,          \* the bytes the last call that succeeded moved
  ret             \* what the last call returned

ring == <<read_pos, write_pos, buffer_offset>>
pipeVars == <<pipe_buff, read_pos, write_pos, buffer_offset, call, moved, ret>>

EINVAL == 1
EACCES == 4

Idle == [op |-> "idle"]

Counts == 0..(U32 - 1)
Modes == {"O_READ", "O_WRITE"}
Slots == 0..(PIPE_MAX_SIZE - 1)

\* Mutant: the remainder of a language that rounds down.
FlooredRem(a, b) == a % b

\* C's remainder has the sign of the dividend.
CRem(a, b) == IF a >= 0 THEN a % b ELSE -((-a) % b)

Begin(op, count) ==
  /\ call' = [op |-> op, count |-> count, i |-> 0,
              rp |-> read_pos, wp |-> write_pos, bytes |-> <<>>]
  /\ UNCHANGED <<pipe_buff, ring, moved, ret>>

Return(value) ==
  /\ call' = Idle
  /\ ret' = value

Fail(error) ==
  /\ Return(-error)
  /\ UNCHANGED <<pipe_buff, ring, moved>>

-----------------------------------------------------------------------------
(* pipe_write                                                              *)

\* buffer_offset + count is computed as a u32.
Overflows(count) == (buffer_offset + count) % U32 > PIPE_MAX_SIZE

PipeWrite(mode, count) ==
  /\ call = Idle
  /\ IF mode # "O_WRITE" THEN Fail(EACCES)
     ELSE IF Overflows(count) THEN Fail(EINVAL)
     ELSE Begin("write", count)

\* The loop's test for a full ring.
Full(rp, wp) ==
  \/ rp = 0 /\ wp = PIPE_MAX_SIZE - 1
  \/ wp = CRem(rp - 1, PIPE_MAX_SIZE - 1)

\* Mutant: a ring that was emptied starts again where it stopped.
NextWriteSkips(rp, wp) ==
  IF rp = -1 THEN 1
  ELSE IF wp = PIPE_MAX_SIZE - 1 /\ rp # 0 THEN 0
  ELSE wp + 1

\* Where the next byte goes.
NextWrite(rp, wp) ==
  IF rp = -1 THEN 0
  ELSE IF wp = PIPE_MAX_SIZE - 1 /\ rp # 0 THEN 0
  ELSE wp + 1

WriteByte ==
  /\ call.op = "write" /\ call.i < call.count
  /\ ~Full(call.rp, call.wp)
  /\ \E b \in Byte :
       LET wp == NextWrite(call.rp, call.wp)
       IN /\ pipe_buff' = [pipe_buff EXCEPT ![wp] = b]
          /\ call' = [call EXCEPT
                        !.i = @ + 1,
                        !.wp = wp,
                        !.rp = IF @ = -1 THEN 0 ELSE @,
                        !.bytes = Append(@, b)]
  /\ UNCHANGED <<ring, moved, ret>>

WriteFull ==
  /\ call.op = "write" /\ call.i < call.count
  /\ Full(call.rp, call.wp)
  /\ Fail(EINVAL)

WriteEnd ==
  /\ call.op = "write" /\ call.i = call.count
  /\ buffer_offset' = buffer_offset + call.count
  /\ write_pos' = call.wp
  /\ read_pos' = call.rp
  /\ moved' = call.bytes
  /\ Return(call.count)
  /\ UNCHANGED pipe_buff

-----------------------------------------------------------------------------
(* pipe_read                                                               *)

PipeRead(mode, count) ==
  /\ call = Idle
  /\ IF mode # "O_READ" THEN Fail(EACCES)
     ELSE IF count > buffer_offset THEN Fail(EINVAL)
     ELSE Begin("read", count)

\* Mutant: write_pos survives when the ring runs empty.
AfterReadKeepsEnd(rp, wp) ==
  IF rp = wp THEN [rp |-> -1, wp |-> wp]
  ELSE [rp |-> IF rp = PIPE_MAX_SIZE - 1 THEN 0 ELSE rp + 1, wp |-> wp]

\* The positions after the byte at rp is taken.
AfterRead(rp, wp) ==
  IF rp = wp THEN [rp |-> -1, wp |-> -1]
  ELSE [rp |-> IF rp = PIPE_MAX_SIZE - 1 THEN 0 ELSE rp + 1, wp |-> wp]

ReadByte ==
  /\ call.op = "read" /\ call.i < call.count
  /\ IF call.rp = -1 THEN Fail(EINVAL)
     ELSE LET next == AfterRead(call.rp, call.wp)
          IN /\ call' = [call EXCEPT !.i = @ + 1, !.rp = next.rp, !.wp = next.wp,
                                     !.bytes = Append(@, pipe_buff[call.rp])]
             /\ UNCHANGED <<pipe_buff, ring, moved, ret>>

\* Mutant: the count keeps the bytes that were read.
ReadEndKeepsCount ==
  /\ call.op = "read" /\ call.i = call.count
  /\ read_pos' = call.rp
  /\ write_pos' = call.wp
  /\ moved' = call.bytes
  /\ Return(call.count)
  /\ UNCHANGED <<pipe_buff, buffer_offset>>

ReadEnd ==
  /\ call.op = "read" /\ call.i = call.count
  /\ buffer_offset' = buffer_offset - call.count
  /\ read_pos' = call.rp
  /\ write_pos' = call.wp
  /\ moved' = call.bytes
  /\ Return(call.count)
  /\ UNCHANGED pipe_buff

-----------------------------------------------------------------------------

\* create_pipe leaves the page behind the ring as it was.
PipeInit ==
  /\ pipe_buff \in [Slots -> Byte]
  /\ read_pos = -1
  /\ write_pos = -1
  /\ buffer_offset = 0
  /\ call = Idle
  /\ moved = <<>>
  /\ ret = 0

PipeNext ==
  \/ \E mode \in Modes, count \in Counts : PipeWrite(mode, count)
  \/ WriteByte \/ WriteFull \/ WriteEnd
  \/ \E mode \in Modes, count \in Counts : PipeRead(mode, count)
  \/ ReadByte \/ ReadEnd

PipeSpec == PipeInit /\ [][PipeNext]_pipeVars
-----------------------------------------------------------------------------
(* Properties.                                                             *)

Positions == Slots \cup {-1}

PipeCalls ==
  {Idle} \cup [op : {"write", "read"}, count : Counts, i : Nat, rp : Positions,
              wp : Positions, bytes : Seq(Byte)]

TypeOK ==
  /\ pipe_buff \in [Slots -> Byte]
  /\ read_pos \in Positions
  /\ write_pos \in Positions
  /\ buffer_offset \in 0..PIPE_MAX_SIZE
  /\ call \in PipeCalls
  /\ moved \in Seq(Byte)
  /\ ret \in Int

\* The slot k places after rp.
Slot(rp, k) == IF rp + k < PIPE_MAX_SIZE THEN rp + k ELSE rp + k - PIPE_MAX_SIZE

\* Positions rp and wp delimit n bytes.
Delimits(rp, wp, n) ==
  \/ n = 0 /\ rp = -1 /\ wp = -1
  \/ n \in 1..PIPE_MAX_SIZE /\ rp \in Slots /\ wp = Slot(rp, n - 1)

\* The two encodings of how full the pipe is, buffer_offset and the pair of
\* positions, agree: in the pipe, where an error that comes after some bytes
\* were copied must not separate them, and in the locals of a call that has
\* copied some of its bytes.  A full ring and an empty one never look alike.
RingConsistent ==
  /\ Delimits(read_pos, write_pos, buffer_offset)
  /\ call.op = "write" => Delimits(call.rp, call.wp, buffer_offset + call.i)
  /\ call.op = "read" => Delimits(call.rp, call.wp, buffer_offset - call.i)

\* A read that pipe_read admitted by buffer_offset does not find the ring
\* empty before it has all its bytes: the -EINVAL inside its loop, after
\* bytes were handed out, is never returned.
ReadNeverStarves ==
  call.op = "read" /\ call.i < call.count => call.rp # -1

\* A write that fits is not refused halfway by pipe_write's own test for a
\* full ring: what meets that test is longer than the room there was (its
\* count made buffer_offset + count wrap around).
RefusedOnlyIfTooLong ==
  call.op = "write" /\ call.i < call.count /\ Full(call.rp, call.wp) =>
    buffer_offset + call.count > PIPE_MAX_SIZE

\* The n bytes from rp on.
Bytes(buff, rp, n) == [k \in 1..n |-> buff[Slot(rp, k - 1)]]

\* The bytes waiting in the pipe, oldest first.
Content == Bytes(pipe_buff, read_pos, buffer_offset)

Queue == INSTANCE Fifo WITH
           Capacity <- PIPE_MAX_SIZE, Errors <- {-EINVAL, -EACCES}, queue <- Content

\* The ring implements the queue: bytes come out once each and in the order
\* they went in, a call moves all its bytes or none, and the bytes a call
\* has copied so far are not visible before it ends.
ImplementsFifo == Queue!Spec
=============================================================================
