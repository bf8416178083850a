------------------------------ MODULE Transfer -------------------------------
(***************************************************************************)
(* harness/bench_transfer.py, the part with threads (bench_m2): each       *)
(* repeat writes one file per thread with O_DIRECT and reads it back, and  *)
(* the time of a phase is taken when all its threads have been joined.     *)
(*                                                                         *)
(* The exception of a thread is printed and join() returns as if it had    *)
(* finished.  pwritev may write less than it is given, which the code does *)
(* not look at; preadv may return less, which it does.                     *)
(***************************************************************************)
EXTENDS Integers, SequencesExt

CONSTANTS
  size_bytes, nthreads,
  CHUNK,          \* what one call is given at most
  ALIGN,          \* what O_DIRECT asks of offsets and lengths (4096)
  TransferReps

ASSUME TransferAssumption ==
  /\ size_bytes \in Nat /\ TransferReps \in Nat
  /\ nthreads \in Nat \ {0} /\ ALIGN \in Nat \ {0}
  /\ CHUNK \in {k * ALIGN : k \in 1 .. CHUNK}

VARIABLE transfer   \* the locals of bench_m2 and of its threads, a record:
                    \*   phase    "w", "r", "unlink" after them, "off" when it does not run
                    \*   rep      the repeat
                    \*   at, off  of each thread: where it is, and its offset
                    \*   moved    the bytes each has written or read in this phase
                    \*   length   of each file, Missing before it is made
                    \*   acc      the bytes behind each time recorded
                    \*   faulted  whether a call fell short or failed

Missing == -1
Workers == 1 .. nthreads
ForAll(x) == [i \in Workers |-> x]

TransferOff == [phase |-> "off", rep |-> 1, at |-> ForAll("new"), off |-> ForAll(0),
                moved |-> ForAll(0), length |-> ForAll(Missing), acc |-> {},
                faulted |-> FALSE]

\* Variant: the share of a thread is not rounded
per_threadExact == size_bytes \div nthreads

per_thread == ((size_bytes \div nthreads) \div ALIGN) * ALIGN

Aligned(n) == n % ALIGN = 0

-----------------------------------------------------------------------------
StartTransfer == transfer' = [TransferOff EXCEPT !.phase = "w"]

Dies(i) == [transfer EXCEPT !.at[i] = "ended"]

\* O_TRUNC for the writer; the reader of a file that was never made dies
Open(i) ==
  /\ transfer.phase \in {"w", "r"} /\ transfer.at[i] = "new"
  /\ \/ /\ transfer.phase = "r" => transfer.length[i] # Missing
        /\ transfer' = [transfer EXCEPT !.at[i] = "loop",
                          !.length[i] = IF transfer.phase = "w" THEN 0 ELSE @]
     \/ /\ transfer.phase = "r" /\ transfer.length[i] = Missing
        /\ transfer' = Dies(i)
     \/ transfer' = [Dies(i) EXCEPT !.faulted = TRUE]

Chunk(i) == Min({CHUNK, per_thread - transfer.off[i]})

InLoop(i) == transfer.at[i] = "loop" /\ transfer.off[i] < per_thread

\* O_DIRECT refuses what is not aligned, and the device may fail
CallRaises(i) ==
  /\ InLoop(i)
  /\ \E why \in {"refused", "failed"} :
       /\ why = "refused" => ~Aligned(transfer.off[i]) \/ ~Aligned(Chunk(i))
       /\ transfer' = [Dies(i) EXCEPT !.faulted = @ \/ why = "failed"]

\* The offset advances by what was asked for, whatever was written
WriteChunk(i) ==
  /\ transfer.phase = "w" /\ InLoop(i)
  /\ Aligned(transfer.off[i]) /\ Aligned(Chunk(i))
  /\ \E n \in {Chunk(i), Chunk(i) - ALIGN} :
       transfer' = [transfer EXCEPT !.off[i] = @ + Chunk(i),
                      !.moved[i] = @ + n,
                      !.length[i] = Max({@, transfer.off[i] + n}),
                      !.faulted = @ \/ n < Chunk(i)]

\* The offset advances by what was read; the end of the file ends the loop
ReadChunk(i) ==
  /\ transfer.phase = "r" /\ InLoop(i)
  /\ Aligned(transfer.off[i]) /\ Aligned(Chunk(i))
  /\ LET left == Max({0, transfer.length[i] - transfer.off[i]})
         whole == Min({Chunk(i), left})
     IN \E got \in {whole, Max({0, whole - ALIGN})} :
          IF got = 0 THEN transfer' = [Dies(i) EXCEPT !.faulted = @ \/ got < whole]
          ELSE transfer' = [transfer EXCEPT !.off[i] = @ + got, !.moved[i] = @ + got,
                              !.faulted = @ \/ got < whole]

WorkerEnds(i) ==
  /\ transfer.at[i] = "loop" /\ transfer.off[i] >= per_thread
  /\ transfer' = Dies(i)

Joined == transfer.phase \in {"w", "r"} /\ \A i \in Workers : transfer.at[i] = "ended"

NextPhase ==
  CASE transfer.phase = "w" -> "r"
    [] transfer.phase = "r" /\ transfer.rep < TransferReps -> "w"
    [] OTHER -> "unlink"

\* The time of the phase is recorded, the next phase or repeat begins
JoinAll ==
  /\ Joined
  /\ transfer' = [transfer EXCEPT
       !.phase = NextPhase,
       !.rep = IF NextPhase = "w" THEN @ + 1 ELSE @,
       !.at = ForAll("new"), !.off = ForAll(0), !.moved = ForAll(0),
       !.acc = @ \cup {FoldLeft(+, 0, transfer.moved)}]

\* The files are removed, the times printed and written
TransferEnds == transfer.phase = "unlink" /\ transfer' = TransferOff

WorkerRuns(i) == Open(i) \/ CallRaises(i) \/ WriteChunk(i) \/ ReadChunk(i) \/ WorkerEnds(i)
=============================================================================
