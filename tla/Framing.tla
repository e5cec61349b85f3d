------------------------------ MODULE Framing ------------------------------
(***************************************************************************)
(* How messages travel as bytes: TaskWrite (src/src/network/task_write.rs) *)
(* writes a header and a payload, TCP delivers the bytes in portions of    *)
(* any size, TaskRead (task_read.rs) collects them in its storage buffer   *)
(* and takes messages out of it.  Both ends are this program.              *)
(*                                                                         *)
(* A byte is its position in the stream; what the bytes say matters only   *)
(* as which message starts where.  The lengths are the ones of wire.rs.    *)
(* The variables cover every direction d of a connection.                  *)
(***************************************************************************)
EXTENDS Integers, Sequences, FiniteSets

CONSTANTS
    Dirs,               \* the directions, one stream of bytes each
    LEN_MAGIC,          \* 4
    LEN_HEADER_MESSAGE, \* 24
    LenVersion,         \* 114, with the user agent of this program
    TempBuffer,         \* temporary_buffer holds 4096 bytes
    MaxHanded           \* a bound of the model: messages in each direction

ASSUME LengthsAssumption ==
    /\ LEN_MAGIC \in Nat /\ LEN_MAGIC > 1
    /\ LEN_HEADER_MESSAGE \in Nat /\ LEN_HEADER_MESSAGE > LEN_MAGIC
    /\ LenVersion \in Nat \ {0}
    /\ TempBuffer \in Nat \ {0}
    /\ MaxHanded \in Nat

VARIABLES
    handed,     \* the messages TaskWrite received, each with its first byte
    written,    \* how many bytes write_all has accepted
    got,        \* how many bytes TaskRead has read
    start,      \* the first byte of the storage buffer
    parsed,     \* the messages sent to the Peer
    reader,     \* "reading"; "failed": returned an error; "panicked"
    crowded     \* ghost: messages that came complete in a read after another

framingVars == << handed, written, got, start, parsed, reader, crowded >>

Kind == {"version", "verack"}

(* A Verack is one byte on the wire, 0.                                    *)
PayloadWritten(k) == IF k = "version" THEN LenVersion ELSE 1

(* Its length_verack_message, which the header announces and the reader    *)
(* takes out of the buffer, is 0.                                          *)
PayloadTaken(k) == IF k = "version" THEN LenVersion ELSE 0

EndOf(m) == m.at + LEN_HEADER_MESSAGE + PayloadWritten(m.cmd)

StreamEnd(d) == IF handed[d] = << >> THEN 0 ELSE EndOf(handed[d][Len(handed[d])])

FramingInit ==
    /\ handed = [d \in Dirs |-> << >>]
    /\ written = [d \in Dirs |-> 0]
    /\ got = [d \in Dirs |-> 0]
    /\ start = [d \in Dirs |-> 0]
    /\ parsed = [d \in Dirs |-> << >>]
    /\ reader = [d \in Dirs |-> "reading"]
    /\ crowded = [d \in Dirs |-> 0]

FramingTypeOK ==
    /\ handed \in [Dirs -> Seq([cmd : Kind, at : Nat])]
    /\ parsed \in [Dirs -> Seq(Kind)]
    /\ reader \in [Dirs -> {"reading", "failed", "panicked"}]
    /\ crowded \in [Dirs -> Nat]
    /\ \A d \in Dirs :
          /\ start[d] \in Nat /\ got[d] \in Nat /\ written[d] \in Nat
          /\ start[d] <= got[d] /\ got[d] <= written[d] /\ written[d] <= StreamEnd(d)

-----------------------------------------------------------------------------
(* TaskWrite.                                                              *)

Hand(d, k) ==
    /\ Len(handed[d]) < MaxHanded
    /\ handed' = [handed EXCEPT ![d] = Append(@, [cmd |-> k, at |-> StreamEnd(d)])]
    /\ UNCHANGED << written, got, start, parsed, reader, crowded >>

(* One write_all: the header of a message, then its payload.               *)
Write(d) ==
    /\ \E i \in DOMAIN handed[d] :
          LET m == handed[d][i] IN
          /\ m.at <= written[d] /\ written[d] < EndOf(m)
          /\ written' = [written EXCEPT ![d] =
                IF @ = m.at THEN m.at + LEN_HEADER_MESSAGE ELSE EndOf(m)]
    /\ UNCHANGED << handed, got, start, parsed, reader, crowded >>

-----------------------------------------------------------------------------
(* TaskRead: a read of n bytes and what raw_byte_processing makes of the   *)
(* buffer it leaves, of length len.  One message at most is taken.         *)

Buffered(d, n) == got[d] + n - start[d]

(* The message whose header is at the head of the buffer, if one is.       *)
AtHead(d) == {handed[d][i] : i \in {j \in DOMAIN handed[d] : handed[d][j].at = start[d]}}

(* A message that is complete once n bytes of the stream have come: what   *)
(* the reader asks for, the header alone for a Verack.                     *)
CompleteAt(m, n) == m.at + LEN_HEADER_MESSAGE + PayloadTaken(m.cmd) <= n

Complete(d, n) == {i \in DOMAIN handed[d] : CompleteAt(handed[d][i], n)}

More(n) == IF n > 1 THEN n - 1 ELSE 0

Receives(d, n) ==
    /\ reader[d] = "reading"
    /\ n <= TempBuffer
    /\ got[d] + n <= written[d]
    /\ got' = [got EXCEPT ![d] = @ + n]
    /\ crowded' = [crowded EXCEPT ![d] =
          @ + More(Cardinality(Complete(d, got[d] + n) \ Complete(d, got[d])))]
    /\ UNCHANGED << handed, written >>

Ends(d, how) == reader' = [reader EXCEPT ![d] = how] /\ UNCHANGED << start, parsed >>

(* The slices are taken without a look at the length of the buffer: the    *)
(* first four bytes, and the rest of the header when those were the magic. *)
ReadPanics(d, n) ==
    /\ Receives(d, n)
    /\ \/ Buffered(d, n) < LEN_MAGIC
       \/ AtHead(d) # {} /\ Buffered(d, n) < LEN_HEADER_MESSAGE
    /\ Ends(d, "panicked")

(* InvalidMagicBytes: the head of the buffer is not the head of a message. *)
ReadRejects(d, n) ==
    /\ Receives(d, n)
    /\ AtHead(d) = {} /\ Buffered(d, n) >= LEN_MAGIC
    /\ Ends(d, "failed")

(* Mutants of PayloadIsShort: complete too late; the guard is missing.     *)
PayloadIsShortOrEven(m, len) == len <= LEN_HEADER_MESSAGE + PayloadTaken(m.cmd)

PayloadNeverShort(m, len) == FALSE

PayloadIsShort(m, len) == len < LEN_HEADER_MESSAGE + PayloadTaken(m.cmd)

(* Ok(None): the payload is not complete.                                  *)
ReadWaits(d, n) ==
    /\ Receives(d, n)
    /\ Buffered(d, n) >= LEN_HEADER_MESSAGE
    /\ \E m \in AtHead(d) : PayloadIsShort(m, Buffered(d, n))
    /\ UNCHANGED << start, parsed, reader >>

(* Mutants of Drained: nothing is taken out of the buffer; the header only.*)
DrainedNothing(m) == 0

DrainedHeaderOnly(m) == LEN_HEADER_MESSAGE

Drained(m) == LEN_HEADER_MESSAGE + PayloadTaken(m.cmd)

ReadParses(d, n) ==
    /\ Receives(d, n)
    /\ Buffered(d, n) >= LEN_HEADER_MESSAGE
    /\ \E m \in AtHead(d) :
          /\ ~PayloadIsShort(m, Buffered(d, n))
          /\ start' = [start EXCEPT ![d] = @ + Drained(m)]
          /\ parsed' = [parsed EXCEPT ![d] = Append(@, m.cmd)]
    /\ UNCHANGED reader

Read(d) ==
    \E n \in 1..(written[d] - got[d]) :
        ReadPanics(d, n) \/ ReadRejects(d, n) \/ ReadWaits(d, n) \/ ReadParses(d, n)

FramingNext ==
    \E d \in Dirs :
        \/ \E k \in Kind : Hand(d, k)
        \/ Write(d) \/ Read(d)

FramingSpec == FramingInit /\ [][FramingNext]_framingVars

-----------------------------------------------------------------------------
(* Properties.                                                             *)

(* Whatever the portions in which the bytes come, the reader sends on the  *)
(* messages that were written, in their order, none twice and none left    *)
(* out.                                                                    *)
ParsedInOrder ==
    \A d \in Dirs :
        /\ Len(parsed[d]) <= Len(handed[d])
        /\ \A i \in DOMAIN parsed[d] : parsed[d][i] = handed[d][i].cmd

(* A stream of this program's own writer is rejected only behind a Verack, *)
(* whose payload byte stays at the head of the buffer, and it makes the    *)
(* reader panic only while the buffer is shorter than a header.            *)
RejectedOnlyAfterVerack ==
    \A d \in Dirs :
        /\ reader[d] = "failed" => parsed[d] # << >> /\ parsed[d][Len(parsed[d])] = "verack"
        /\ reader[d] = "panicked" =>
              0 < Buffered(d, 0) /\ Buffered(d, 0) < LEN_HEADER_MESSAGE

(* A reader that is up has sent on every message that has come complete,   *)
(* but for as many as came in the same read as an earlier one: those wait  *)
(* for a later read, if there is one.                                      *)
OnlyTheCrowdWaits ==
    \A d \in Dirs :
        reader[d] = "reading" =>
            Cardinality(Complete(d, got[d])) - Len(parsed[d]) <= crowded[d]

(* A buffer shorter than a header makes raw_byte_processing wait for more  *)
(* (its guards return Ok(None) for it), it is not fatal.                   *)
ShortBufferWaits == \A d \in Dirs : reader[d] # "panicked"
=============================================================================
