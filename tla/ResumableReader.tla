-------------------------- MODULE ResumableReader --------------------------
(***************************************************************************)
(* internal/resumable_reader.go: the reader that a restore puts around the *)
(* stream of an LTX file.  It reopens the stream when the storage backend  *)
(* drops the connection.  The bytes of the file are 1..Size; a stream is   *)
(* the number of bytes of the file it is past.                             *)
(***************************************************************************)
EXTENDS Integers, Sequences

CONSTANTS
    Size,        \* bytes of the file
    MaxBuffer,   \* bound on the buffer of one Read
    MaxEmpty,    \* bound on the reads that return neither bytes nor an error
    MaxRetries   \* resumableReaderMaxRetries

ASSUME SizeAssumption == Size \in Nat
ASSUME ReaderBounds == MaxBuffer \in Nat /\ MaxEmpty \in Nat /\ MaxRetries \in Nat

VARIABLES
    size,     \* r.size: the size of the file if it is known, otherwise 0
    rc,       \* the open stream, or Closed
    offset,   \* r.offset
    stage,    \* "idle" between calls, "read" in the loop, and how it ended
    attempt,  \* loop variable of Read
    got,      \* the bytes handed to the caller so far
    credits,  \* ghost: interruptions and failed reopens since the reader was
              \* made, counted up to MaxRetries + 1
    empty     \* reads so far that returned neither bytes nor an error

readerVars == <<size, rc, offset, stage, attempt, got, credits, empty>>

Closed == -1

File == [i \in 1..Size |-> i]

NewResumableReader ==
    /\ size \in {0, Size}
    /\ rc = 0
    /\ offset = 0
    /\ stage = "idle"
    /\ attempt = 0
    /\ got = <<>>
    /\ credits = 0
    /\ empty = 0

-----------------------------------------------------------------------------

\* One more of the events that src/instruction.md wants paid from one budget.
Interrupted == credits' = IF credits > MaxRetries THEN credits ELSE credits + 1

\* The caller asks for more bytes.
ReadCall ==
    /\ stage = "idle"
    /\ stage' = "read"
    /\ attempt' = 0
    /\ UNCHANGED <<size, rc, offset, got, credits, empty>>

\* Mutant: the stream is reopened one byte after the last one read.
ResumeOffset_Late == offset + 1

\* Where a closed stream is reopened: one byte back.
ResumeOffset == IF offset > 0 THEN offset - 1 ELSE offset

\* OpenLTXFile again; an error is returned to the caller at once.  A range
\* that starts after the end of the file is empty.
Reopen ==
    /\ stage = "read"
    /\ rc = Closed
    /\ \/ /\ rc' = IF ResumeOffset < Size THEN ResumeOffset ELSE Size
          /\ UNCHANGED <<stage, credits>>
       \/ /\ stage' = "reopenFailed"
          /\ Interrupted
          /\ UNCHANGED rc
    /\ UNCHANGED <<size, offset, attempt, got, empty>>

\* The next n bytes of the stream.
Bytes(n) == SubSeq(File, rc + 1, rc + n)

\* What the stream can return: some bytes, or none with an error.
Chunk(n) == n \in 0..MaxBuffer /\ rc + n <= Size

\* r.rc.Read(p) returned n bytes.
Take(n) ==
    /\ stage = "read"
    /\ rc # Closed
    /\ Chunk(n)
    /\ offset' = offset + n
    /\ got' = got \o Bytes(n)
    /\ UNCHANGED size

\* Mutants: one attempt too many; one too few; the attempts are not counted.
Retry_OneMore(n) ==
    /\ rc' = Closed
    /\ Interrupted
    /\ IF n > 0
       THEN stage' = "idle" /\ UNCHANGED attempt
       ELSE /\ attempt' = attempt + 1
            /\ stage' = IF attempt > MaxRetries THEN "gaveUp" ELSE "read"

Retry_OneLess(n) ==
    /\ rc' = Closed
    /\ Interrupted
    /\ IF n > 0
       THEN stage' = "idle" /\ UNCHANGED attempt
       ELSE /\ attempt' = attempt + 1
            /\ stage' = IF attempt + 1 >= MaxRetries THEN "gaveUp" ELSE "read"

Retry_Forever(n) ==
    /\ rc' = Closed
    /\ Interrupted
    /\ stage' = IF n > 0 THEN "idle" ELSE "read"
    /\ UNCHANGED attempt

\* The loop after a broken stream: bytes are returned, otherwise the next
\* attempt reopens it; after the last one Read gives up.
Retry(n) ==
    /\ rc' = Closed
    /\ Interrupted
    /\ IF n > 0
       THEN stage' = "idle" /\ UNCHANGED attempt
       ELSE /\ attempt' = attempt + 1
            /\ stage' = IF attempt + 1 > MaxRetries THEN "gaveUp" ELSE "read"

\* No error.  The bytes are returned as they come, none of them included:
\* such a read is not a retry.
ReadOK(n) ==
    /\ n = 0 => empty < MaxEmpty
    /\ empty' = IF n = 0 THEN empty + 1 ELSE empty
    /\ Take(n)
    /\ rc' = rc + n
    /\ stage' = "idle"
    /\ UNCHANGED <<attempt, credits>>

\* The stream ended and the file, as far as r.size tells, has not.
PrematureEOF(n) == size > 0 /\ offset + n < size

\* io.EOF: at the end of the stream, or because the server hung up.
ReadEOF(n) ==
    /\ Take(n)
    /\ UNCHANGED empty
    /\ \/ PrematureEOF(n) /\ Retry(n)
       \/ /\ ~PrematureEOF(n)
          /\ rc' = rc + n
          /\ stage' = "eof"
          /\ UNCHANGED <<attempt, credits>>

\* Any other error.
ReadError(n) ==
    /\ Take(n)
    /\ Retry(n)
    /\ UNCHANGED empty

\* The caller closes the reader, or is done with it.
Done ==
    /\ stage \in {"eof", "gaveUp", "reopenFailed"}
    /\ UNCHANGED readerVars

Reader == ReadCall \/ Reopen \/ \E n \in 0..MaxBuffer : ReadOK(n) \/ ReadEOF(n) \/ ReadError(n)

ReaderNext == Reader \/ Done

ReaderSpec == NewResumableReader /\ [][ReaderNext]_readerVars

\* The caller reads until the end, and a request returns some time.
FairReaderSpec == ReaderSpec /\ WF_readerVars(Reader)

-----------------------------------------------------------------------------
(* Properties.                                                             *)

\* Shape of the reader's fields; at most MaxRetries + 1 attempts per call.
ReaderTypeOK ==
    /\ rc \in 0..Size \cup {Closed}
    /\ size \in {0, Size}
    /\ offset \in Nat /\ empty \in Nat
    /\ attempt \in 0..(MaxRetries + 1) /\ credits \in 0..(MaxRetries + 1)
    /\ stage \in {"idle", "read", "eof", "gaveUp", "reopenFailed"}
    /\ got \in Seq(1..Size)

\* However often the stream breaks, and wherever in a buffer it does, no byte
\* is missing before one that is handed to the caller: the byte by which
\* r.offset runs ahead after a reopen never becomes a gap.  (That the caller
\* gets every byte once, and the last one too, does not hold: see below.)
NoByteSkipped ==
    \A i \in 1..Len(got) : \A b \in 1..got[i] : \E j \in 1..i : got[j] = b

\* Read fails with "max retries exceeded" only after MaxRetries + 1
\* interruptions, so that none of the retries it promises is lost.
BudgetIsGranted == stage = "gaveUp" => credits > MaxRetries

\* A caller that keeps reading gets an answer, the file ends or Read fails,
\* as long as the backend does not return empty reads for ever.
Terminates == <>(stage \in {"eof", "gaveUp", "reopenFailed"})

-----------------------------------------------------------------------------
(* What is promised of the reader and not kept.                            *)

\* "Callers like io.ReadFull see a seamless byte stream": the caller gets the
\* bytes of the file, each once and in order.  The byte of overlap of a
\* reopened range is handed out again.
Seamless == \A i \in 1..Len(got) : got[i] = i

\* A file whose size is known is complete when Read answers io.EOF, "with no
\* duplicate or missing byte".  r.offset counts the repeated byte, so a stream
\* that ends one byte short is taken for the whole file.
CompleteAtEOF == stage = "eof" /\ size > 0 => \E i \in 1..Len(got) : got[i] = Size

\* "Credits never reset after successful reads or between Read calls": after
\* the event that finds no credit left the stream is not opened again.  attempt
\* starts again at every call and does not count what came with bytes.
LifetimeBudget == credits > MaxRetries => rc = Closed

=============================================================================
