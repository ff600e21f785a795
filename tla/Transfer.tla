------------------------------ MODULE Transfer ------------------------------
(***************************************************************************)
(* xread and xwrite of src/utils/files.c on the device: loops around       *)
(* read(2) and write(2) that go on until they have what they were asked    *)
(* for.  Every round asks for "count" bytes at the start of the buffer.    *)
(*                                                                         *)
(* What the kernel may do: transfer everything up to the end of the        *)
(* device, or only a part if Splits, be interrupted before it began        *)
(* (EINTR, at most MaxSignals times a transfer), or fail.  A byte of the   *)
(* device is known by its offset, the i-th byte of what is written by -i.  *)
(***************************************************************************)
EXTENDS Integers, FiniteSetsExt

CONSTANTS
    Splits,       \* may a transfer stop before its end?
    MaxSignals,
    IoFaults      \* which of "read", "write" and "seek" may fail

ASSUME TransferAssumption ==
    Splits \in BOOLEAN /\ MaxSignals \in Nat /\ IoFaults \subseteq {"read", "write", "seek"}

VARIABLES
    disk,         \* the byte at every offset of the device
    offset,       \* the file offset, which fs->fd and fat->fd share
    io            \* the transfer under way, or the last one and its result

Size == Cardinality(DOMAIN disk)

\* A byte of the buffer that was not read.
Junk == -Size - 1

Transfer(fn, count) ==
    [fn |-> fn, count |-> count, done |-> 0, signals |-> 0, ret |-> 0,
     buf |-> [i \in 1..count |-> IF fn = "xread" THEN Junk ELSE -i]]

NoTransfer == [Transfer("xread", 0) EXCEPT !.fn = "none"]

Done == io.fn = "none"

lseek(place) == offset' = place

\* How many bytes one call may transfer.
Lengths ==
    LET most == Min({io.count, Size - offset})
    IN  IF offset >= Size THEN {} ELSE IF Splits THEN 1..most ELSE {most}

Finished(ret) == [io EXCEPT !.fn = "none", !.done = 0, !.signals = 0, !.ret = ret]

Advance(length) ==
    IF io.done + length >= io.count THEN Finished(io.done + length)
    ELSE [io EXCEPT !.done = @ + length]

ReadSome ==
    /\ io.fn = "xread"
    /\ \E length \in Lengths :
        /\ io' = [Advance(length) EXCEPT
                    !.buf = [i \in 1..io.count |->
                                IF i <= length THEN disk[offset + i - 1] ELSE io.buf[i]]]
        /\ offset' = offset + length
    /\ UNCHANGED disk

\* Mutant: the end of the device is not told from an interruption.
ReadEndRetries ==
    /\ io.fn = "xread" /\ offset >= Size
    /\ io' = [io EXCEPT !.ret = io.done]
    /\ UNCHANGED <<disk, offset>>

\* read returns 0.
ReadEnd ==
    /\ io.fn = "xread" /\ offset >= Size
    /\ io' = Finished(io.done)
    /\ UNCHANGED <<disk, offset>>

Put(length) ==
    [o \in DOMAIN disk |->
        IF o \in offset..offset + length - 1 THEN io.buf[o - offset + 1] ELSE disk[o]]

WriteSome ==
    /\ io.fn = "xwrite"
    /\ \E length \in Lengths :
        /\ io' = Advance(length)
        /\ disk' = Put(length)
        /\ offset' = offset + length

Interrupted ==
    /\ ~Done /\ io.signals < MaxSignals
    /\ io' = [io EXCEPT !.signals = @ + 1]
    /\ UNCHANGED <<disk, offset>>

Failed(left) ==
    /\ disk' \in left
    /\ io' = Finished(-1)
    /\ UNCHANGED offset

\* ENOSPC.
WriteEnd == io.fn = "xwrite" /\ offset >= Size /\ Failed({disk})

\* What a failed write leaves on the device is not known.
Fails ==
    \/ io.fn = "xread" /\ "read" \in IoFaults /\ Failed({disk})
    \/ io.fn = "xwrite" /\ "write" \in IoFaults /\ Failed({disk, Put(io.count)})

TransferStep == ReadSome \/ ReadEnd \/ WriteSome \/ WriteEnd \/ Interrupted

=============================================================================
