--------------------------- MODULE FramingProofs ---------------------------
(***************************************************************************)
(* Theorems about the framing: for streams of any length, portions of any  *)
(* size and any lengths of headers, payloads and buffers.                  *)
(***************************************************************************)
EXTENDS Framing, FiniteSetTheorems, TLAPS

HandedMessage == [cmd : Kind, at : Nat]

(* The messages of a stream lie behind each other without a gap.           *)
Spaced(h) ==
    /\ \A i \in DOMAIN h : i = 1 => h[i].at = 0
    /\ \A i \in DOMAIN h : i + 1 \in DOMAIN h => h[i + 1].at = EndOf(h[i])
    /\ \A i, j \in DOMAIN h : i < j => EndOf(h[i]) <= h[j].at

(* The messages parsed are the first ones handed over.                     *)
PrefixParsed(d) ==
    /\ Len(parsed[d]) <= Len(handed[d])
    /\ \A i \in DOMAIN parsed[d] : parsed[d][i] = handed[d][i].cmd

(* The storage buffer starts where the last message taken out of it ends   *)
(* for the reader, which is a byte early for a Verack.                     *)
StartsBehindParsed(d) ==
    LET n == Len(parsed[d]) IN
    start[d] = IF n = 0 THEN 0 ELSE handed[d][n].at + Drained(handed[d][n])

Types ==
    /\ handed \in [Dirs -> Seq(HandedMessage)]
    /\ parsed \in [Dirs -> Seq(Kind)]
    /\ reader \in [Dirs -> {"reading", "failed", "panicked"}]
    /\ crowded \in [Dirs -> Nat]
    /\ start \in [Dirs -> Nat] /\ got \in [Dirs -> Nat] /\ written \in [Dirs -> Nat]

Positions(d) ==
    start[d] <= got[d] /\ got[d] <= written[d] /\ written[d] <= StreamEnd(d)

EndExplained(d) ==
    /\ reader[d] = "failed" => parsed[d] # << >> /\ parsed[d][Len(parsed[d])] = "verack"
    /\ reader[d] = "panicked" =>
          0 < Buffered(d, 0) /\ Buffered(d, 0) < LEN_HEADER_MESSAGE

CrowdWaits(d) ==
    reader[d] = "reading" =>
        Cardinality(Complete(d, got[d])) - Len(parsed[d]) <= crowded[d]

(* What holds of each direction, whatever happens in the others.           *)
DirInv(d) ==
    /\ Positions(d)
    /\ Spaced(handed[d])
    /\ PrefixParsed(d)
    /\ StartsBehindParsed(d)
    /\ EndExplained(d)
    /\ CrowdWaits(d)

FramingInv == Types /\ \A d \in Dirs : DirInv(d)

-----------------------------------------------------------------------------
(* The lengths of a message: what the reader takes is no more than what    *)
(* was written, and is all of a Version.                                   *)
LEMMA Lengths ==
    ASSUME NEW m \in HandedMessage
    PROVE  /\ EndOf(m) \in Nat /\ PayloadTaken(m.cmd) \in Nat
           /\ Drained(m) \in Nat /\ Drained(m) = LEN_HEADER_MESSAGE + PayloadTaken(m.cmd)
           /\ m.at < m.at + Drained(m) /\ m.at + Drained(m) <= EndOf(m)
           /\ m.at + LEN_HEADER_MESSAGE < EndOf(m)
           /\ m.cmd # "verack" => m.at + Drained(m) = EndOf(m)
BY LengthsAssumption
   DEF HandedMessage, Kind, EndOf, Drained, PayloadTaken, PayloadWritten

(* A message handed over next starts behind all others.                    *)
LEMMA HandNext ==
    ASSUME NEW h \in Seq(HandedMessage), Spaced(h), NEW m \in HandedMessage,
           m.at = IF h = << >> THEN 0 ELSE EndOf(h[Len(h)])
    PROVE  Spaced(Append(h, m)) /\ \A i \in DOMAIN h : EndOf(h[i]) <= m.at
<1> DEFINE g == Append(h, m)
           n == Len(h)
<1>1. /\ n \in Nat /\ DOMAIN h = 1..n /\ DOMAIN g = 1..(n + 1) /\ g[n + 1] = m
      /\ \A i \in 1..n : g[i] = h[i] /\ h[i] \in HandedMessage
      /\ n > 0 => h # << >> /\ m.at = EndOf(h[n])
      /\ n = 0 => h = << >> /\ m.at = 0
    OBVIOUS
<1>2. \A i \in 1..n : EndOf(h[i]) <= m.at
  <2> SUFFICES ASSUME NEW i \in 1..n PROVE EndOf(h[i]) <= m.at
      OBVIOUS
  <2>1. CASE i = n
      BY <1>1, <2>1, Lengths
  <2>2. CASE i < n
    <3>1. EndOf(h[i]) <= h[n].at /\ h[n] \in HandedMessage /\ h[i] \in HandedMessage
        BY <1>1, <2>2 DEF Spaced
    <3>2. h[n].at <= EndOf(h[n]) /\ h[n].at \in Nat /\ EndOf(h[n]) \in Nat /\ EndOf(h[i]) \in Nat
        BY <3>1, Lengths, SMTT(30) DEF HandedMessage
    <3>3. QED
        BY <1>1, <3>1, <3>2
  <2>3. i = n \/ i < n
    <3>1. n \in Nat
        OBVIOUS
    <3>2. QED
        BY <3>1
  <2>4. QED
      BY <2>1, <2>2, <2>3
<1>3. ASSUME NEW i \in DOMAIN g, i = 1 PROVE g[i].at = 0
    BY <1>1, <1>3 DEF Spaced
<1>4. ASSUME NEW i \in DOMAIN g, i + 1 \in DOMAIN g PROVE g[i + 1].at = EndOf(g[i])
  <2>1. CASE i = n
      BY <1>1, <1>4, <2>1
  <2>2. CASE i # n
    <3>1. i \in 1..n /\ i + 1 \in 1..n
        BY <1>1, <1>4, <2>2
    <3>2. QED
        BY <1>1, <3>1 DEF Spaced
  <2>3. QED
      BY <2>1, <2>2
<1>5. ASSUME NEW i \in DOMAIN g, NEW j \in DOMAIN g, i < j PROVE EndOf(g[i]) <= g[j].at
  <2>1. CASE j = n + 1
      BY <1>1, <1>2, <1>5, <2>1
  <2>2. CASE j # n + 1
      BY <1>1, <1>5, <2>2 DEF Spaced
  <2>3. QED
      BY <2>1, <2>2
<1>6. QED
    BY <1>1, <1>2, <1>3, <1>4, <1>5 DEF Spaced

-----------------------------------------------------------------------------
(* What a state says of a direction.                                       *)
LEMMA DirFacts ==
    ASSUME FramingInv, NEW d \in Dirs
    PROVE  /\ DirInv(d)
           /\ handed[d] \in Seq(HandedMessage) /\ Len(handed[d]) \in Nat
           /\ DOMAIN handed[d] = 1..Len(handed[d])
           /\ parsed[d] \in Seq(Kind) /\ Len(parsed[d]) \in Nat
           /\ DOMAIN parsed[d] = 1..Len(parsed[d])
           /\ Len(parsed[d]) <= Len(handed[d])
           /\ start[d] \in Nat /\ got[d] \in Nat /\ written[d] \in Nat /\ crowded[d] \in Nat
           /\ start[d] <= got[d] /\ got[d] <= written[d] /\ written[d] <= StreamEnd(d)
           /\ \A i \in DOMAIN handed[d] :
                 handed[d][i] \in HandedMessage /\ handed[d][i].at \in Nat
<1>1. /\ Types /\ DirInv(d)
    BY DEF FramingInv
<1>2. /\ handed[d] \in Seq(HandedMessage) /\ parsed[d] \in Seq(Kind)
      /\ start[d] \in Nat /\ got[d] \in Nat /\ written[d] \in Nat /\ crowded[d] \in Nat
    BY <1>1 DEF Types
<1>3. /\ Len(handed[d]) \in Nat /\ DOMAIN handed[d] = 1..Len(handed[d])
      /\ Len(parsed[d]) \in Nat /\ DOMAIN parsed[d] = 1..Len(parsed[d])
      /\ \A i \in DOMAIN handed[d] : handed[d][i] \in HandedMessage
    BY <1>2
<1>4. \A m \in HandedMessage : m.at \in Nat
    BY DEF HandedMessage
<1>5. QED
    BY <1>1, <1>2, <1>3, <1>4 DEF DirInv, Positions, PrefixParsed

(* The message whose header is at the head of the buffer is the first one  *)
(* that was not taken out of it.                                           *)
LEMMA HeadIsNext ==
    ASSUME FramingInv, NEW d \in Dirs, NEW m \in AtHead(d)
    PROVE  /\ Len(parsed[d]) + 1 \in DOMAIN handed[d]
           /\ m = handed[d][Len(parsed[d]) + 1]
           /\ m.at = start[d] /\ m \in HandedMessage
<1> DEFINE h == handed[d]
           n == Len(parsed[d])
<1>0. /\ h \in Seq(HandedMessage) /\ n \in Nat /\ Len(h) \in Nat /\ n <= Len(h)
      /\ DOMAIN h = 1..Len(h)
      /\ \A i \in DOMAIN h : h[i] \in HandedMessage /\ h[i].at \in Nat
      /\ Spaced(h)
      /\ n = 0 => start[d] = 0
      /\ n > 0 => start[d] = h[n].at + Drained(h[n])
    BY DirFacts DEF DirInv, StartsBehindParsed
<1>1. PICK j \in DOMAIN h : h[j] = m /\ h[j].at = start[d]
    BY DEF AtHead
<1>2. \A i \in DOMAIN h : /\ h[i].at \in Nat /\ EndOf(h[i]) \in Nat /\ Drained(h[i]) \in Nat
                          /\ h[i].at < h[i].at + Drained(h[i])
                          /\ h[i].at + Drained(h[i]) <= EndOf(h[i])
    BY <1>0, Lengths
<1>3. ASSUME NEW i \in DOMAIN h, i < j PROVE EndOf(h[i]) <= start[d] /\ h[i].at < EndOf(h[i])
  <2>1. EndOf(h[i]) <= h[j].at
      BY <1>0, <1>3 DEF Spaced
  <2>2. h[i].at < EndOf(h[i])
      BY <1>2
  <2>3. QED
      BY <1>1, <2>1, <2>2
<1>4. ASSUME NEW i \in DOMAIN h, j < i PROVE start[d] < h[i].at
  <2>1. EndOf(h[j]) <= h[i].at
      BY <1>0, <1>4 DEF Spaced
  <2>2. h[j].at < EndOf(h[j])
      BY <1>2
  <2>3. QED
      BY <1>1, <1>2, <2>1, <2>2
<1>5. j = n + 1
  <2>1. CASE n = 0
    <3>1. 1 \in DOMAIN h /\ h[1].at = 0 /\ start[d] = 0
        BY <1>0, <2>1 DEF Spaced
    <3>2. ~(1 < j)
        BY <1>2, <1>3, <3>1
    <3>3. QED
        BY <1>0, <2>1, <3>1, <3>2
  <2>2. CASE n > 0
    <3>1. n \in DOMAIN h /\ h[n].at < start[d] /\ start[d] <= EndOf(h[n])
        BY <1>0, <1>2, <2>2
    <3>2. j # n /\ ~(j < n)
        BY <1>1, <1>2, <1>4, <3>1, SMTT(30)
    <3>3. CASE j > n + 1
      <4>1. n + 1 \in DOMAIN h /\ n + 1 < j
          BY <1>0, <3>3
      <4>2. h[n + 1].at = EndOf(h[n])
          BY <1>0, <3>1, <4>1 DEF Spaced
      <4>3. EndOf(h[n + 1]) <= start[d] /\ h[n + 1].at < EndOf(h[n + 1])
          BY <1>3, <4>1
      <4>4. /\ start[d] \in Nat /\ h[n + 1].at \in Nat
            /\ EndOf(h[n]) \in Nat /\ EndOf(h[n + 1]) \in Nat
          BY <1>1, <1>2, <3>1, <4>1
      <4>5. QED
          BY <3>1, <4>2, <4>3, <4>4
    <3>4. QED
        BY <1>0, <3>2, <3>3
  <2>3. QED
      BY <1>0, <2>1, <2>2
<1>6. QED
    BY <1>0, <1>1, <1>5

(* Whatever no message at the head of the buffer is the first byte of, the *)
(* Verack parsed last has left it there.                                   *)
LEMMA NoHeadBehindVerack ==
    ASSUME FramingInv, NEW d \in Dirs, AtHead(d) = {}, start[d] < written[d]
    PROVE  parsed[d] # << >> /\ parsed[d][Len(parsed[d])] = "verack"
<1> DEFINE h == handed[d]
           n == Len(parsed[d])
<1>0. /\ h \in Seq(HandedMessage) /\ n \in Nat /\ Len(h) \in Nat /\ n <= Len(h)
      /\ DOMAIN h = 1..Len(h) /\ DOMAIN parsed[d] = 1..n
      /\ \A i \in DOMAIN h : h[i] \in HandedMessage /\ h[i].at \in Nat
      /\ Spaced(h)
      /\ n = 0 => start[d] = 0
      /\ n > 0 => start[d] = h[n].at + Drained(h[n]) /\ parsed[d][n] = h[n].cmd
      /\ start[d] \in Nat /\ written[d] \in Nat /\ written[d] <= StreamEnd(d)
    BY DirFacts DEF DirInv, StartsBehindParsed, PrefixParsed
<1>1. \A i \in DOMAIN h : h[i].at # start[d]
    BY DEF AtHead
<1>2. h # << >> /\ StreamEnd(d) = EndOf(h[Len(h)]) /\ Len(h) \in DOMAIN h
    BY <1>0 DEF StreamEnd
<1>3. n # 0
  <2>1. h[1].at = 0
      BY <1>0, <1>2 DEF Spaced
  <2>2. QED
      BY <1>0, <1>1, <1>2, <2>1
<1>4. CASE h[n].cmd # "verack"
  <2>0. n \in DOMAIN h /\ n > 0
      BY <1>0, <1>3
  <2>1. n \in DOMAIN h /\ start[d] = EndOf(h[n])
      BY <1>0, <1>4, <2>0, Lengths
  <2>2. n # Len(h)
      BY <1>0, <1>2, <2>1, Lengths
  <2>3. n + 1 \in DOMAIN h
      BY <1>0, <2>2
  <2>4. h[n + 1].at = EndOf(h[n])
      BY <1>0, <2>1, <2>3 DEF Spaced
  <2>5. QED
      BY <1>1, <2>1, <2>3, <2>4
<1>5. CASE h[n].cmd = "verack"
    BY <1>0, <1>3, <1>5
<1>6. QED
    BY <1>4, <1>5

-----------------------------------------------------------------------------
(* The steps.                                                              *)

(* What happens in one direction leaves the others alone.                  *)
LEMMA Elsewhere ==
    ASSUME FramingInv, NEW e \in Dirs,
           handed'[e] = handed[e], written'[e] = written[e], got'[e] = got[e],
           start'[e] = start[e], parsed'[e] = parsed[e], reader'[e] = reader[e],
           crowded'[e] = crowded[e]
    PROVE  DirInv(e)'
<1>1. DirInv(e)
    BY DEF FramingInv
<1>2. Positions(e)' /\ Spaced(handed[e])' /\ PrefixParsed(e)' /\ StartsBehindParsed(e)'
    BY <1>1 DEF DirInv, Positions, StreamEnd, PrefixParsed, StartsBehindParsed, Spaced
<1>3. EndExplained(e)'
    BY <1>1 DEF DirInv, EndExplained, Buffered
<1>4. CrowdWaits(e)'
    BY <1>1 DEF DirInv, CrowdWaits, Complete
<1>5. QED
    BY <1>2, <1>3, <1>4 DEF DirInv

(* A message handed to TaskWrite is cut into frames behind the earlier     *)
(* ones.                                                                   *)
LEMMA HandStep ==
    ASSUME FramingInv, NEW d \in Dirs, NEW k \in Kind, Hand(d, k)
    PROVE  FramingInv'
<1> DEFINE h == handed[d]
           m == [cmd |-> k, at |-> StreamEnd(d)]
<1>0. /\ h \in Seq(HandedMessage) /\ DOMAIN h = 1..Len(h) /\ Len(h) \in Nat
      /\ Len(parsed[d]) \in Nat /\ Len(parsed[d]) <= Len(h)
      /\ DOMAIN parsed[d] = 1..Len(parsed[d])
      /\ start[d] \in Nat /\ got[d] \in Nat /\ written[d] \in Nat
      /\ got[d] <= written[d] /\ written[d] <= StreamEnd(d)
      /\ DirInv(d) /\ Spaced(h) /\ Types
    BY DirFacts DEF DirInv, FramingInv
<1>1. m \in HandedMessage /\ StreamEnd(d) \in Nat
  <2>1. h # << >> => h[Len(h)] \in HandedMessage
      BY <1>0
  <2>2. StreamEnd(d) \in Nat
      BY <2>1, Lengths DEF StreamEnd
  <2>3. QED
      BY <2>2 DEF HandedMessage
<1>2. /\ handed'[d] = Append(h, m)
      /\ \A e \in Dirs \ {d} : handed'[e] = handed[e]
      /\ UNCHANGED << written, got, start, parsed, reader, crowded >>
    BY <1>0 DEF Hand, Types
<1>3. Append(h, m) \in Seq(HandedMessage)
    BY <1>0, <1>1
<1>4. Types'
  <2>1. handed' \in [Dirs -> Seq(HandedMessage)]
      BY <1>0, <1>3 DEF Hand, Types
  <2>2. QED
      BY <1>0, <1>2, <2>1 DEF Types
<1>5. /\ Len(Append(h, m)) = Len(h) + 1 /\ Append(h, m)[Len(h) + 1] = m
      /\ DOMAIN Append(h, m) = 1..(Len(h) + 1) /\ Append(h, m) # << >>
      /\ \A i \in DOMAIN h : Append(h, m)[i] = h[i]
    BY <1>0, <1>1
<1>6. Positions(d)'
  <2>1. StreamEnd(d)' = EndOf(m)
      BY <1>2, <1>5 DEF StreamEnd
  <2>2. m.at <= EndOf(m) /\ EndOf(m) \in Nat
      BY <1>1, Lengths
  <2>3. QED
      BY <1>0, <1>1, <1>2, <2>1, <2>2 DEF DirInv, Positions
<1>7. Spaced(handed[d])'
  <2>1. m.at = IF h = << >> THEN 0 ELSE EndOf(h[Len(h)])
      BY DEF StreamEnd
  <2>2. Spaced(Append(h, m))
      BY <1>0, <1>1, <2>1, HandNext
  <2>3. QED
      BY <1>2, <2>2
<1>8. PrefixParsed(d)' /\ StartsBehindParsed(d)'
  <2>1. \A i \in 1..Len(h) : handed'[d][i] = handed[d][i]
      BY <1>0, <1>2, <1>5
  <2>2. PrefixParsed(d)'
      BY <1>0, <1>2, <1>5, <2>1 DEF DirInv, PrefixParsed
  <2>3. StartsBehindParsed(d)'
      BY <1>0, <1>2, <2>1 DEF DirInv, StartsBehindParsed
  <2>4. QED
      BY <2>2, <2>3
<1>9. EndExplained(d)'
    BY <1>0, <1>2 DEF DirInv, EndExplained, Buffered
<1>10. CrowdWaits(d)'
  <2>1. ~CompleteAt(m, got[d])
    <3>1. m.at = StreamEnd(d) /\ PayloadTaken(m.cmd) \in Nat
        BY <1>1, Lengths
    <3>2. QED
        BY <1>0, <1>1, <3>1, LengthsAssumption DEF CompleteAt
  <2>2. Complete(d, got[d])' = Complete(d, got[d])
      BY <1>0, <1>2, <1>5, <2>1 DEF Complete
  <2>3. QED
      BY <1>0, <1>2, <2>2 DEF DirInv, CrowdWaits
<1>11. DirInv(d)'
    BY <1>6, <1>7, <1>8, <1>9, <1>10 DEF DirInv
<1>12. ASSUME NEW e \in Dirs, e # d PROVE DirInv(e)'
    BY <1>2, <1>12, Elsewhere
<1>13. QED
    BY <1>4, <1>11, <1>12 DEF FramingInv

(* A write moves the next bytes to the wire.                               *)
LEMMA WriteStep ==
    ASSUME FramingInv, NEW d \in Dirs, Write(d)
    PROVE  FramingInv'
<1> DEFINE h == handed[d]
<1>0. /\ h \in Seq(HandedMessage) /\ DOMAIN h = 1..Len(h) /\ Len(h) \in Nat
      /\ start[d] \in Nat /\ got[d] \in Nat /\ written[d] \in Nat
      /\ got[d] <= written[d] /\ DirInv(d) /\ Spaced(h) /\ Types
    BY DirFacts DEF DirInv, FramingInv
<1>1. UNCHANGED << handed, got, start, parsed, reader, crowded >>
    BY DEF Write
<1>2. PICK i \in DOMAIN h :
         /\ h[i].at <= written[d] /\ written[d] < EndOf(h[i])
         /\ written' = [written EXCEPT ![d] =
               IF @ = h[i].at THEN h[i].at + LEN_HEADER_MESSAGE ELSE EndOf(h[i])]
    BY DEF Write
<1>3. /\ written'[d] = IF written[d] = h[i].at THEN h[i].at + LEN_HEADER_MESSAGE ELSE EndOf(h[i])
      /\ \A e \in Dirs \ {d} : written'[e] = written[e]
    BY <1>0, <1>2 DEF Types
<1>4. /\ h[i].at \in Nat /\ EndOf(h[i]) \in Nat
      /\ h[i].at + LEN_HEADER_MESSAGE < EndOf(h[i]) /\ LEN_HEADER_MESSAGE \in Nat
  <2>1. h[i] \in HandedMessage /\ h[i].at \in Nat
      BY DirFacts
  <2>2. QED
      BY <2>1, Lengths, LengthsAssumption
<1>5. written'[d] \in Nat /\ written[d] <= written'[d] /\ written'[d] <= EndOf(h[i])
    BY <1>0, <1>2, <1>3, <1>4
<1>6. EndOf(h[i]) <= StreamEnd(d) /\ StreamEnd(d) \in Nat
  <2>1. h # << >> /\ Len(h) \in DOMAIN h /\ h[Len(h)] \in HandedMessage /\ h[i] \in HandedMessage
      BY <1>0, <1>2
  <2>2. /\ StreamEnd(d) = EndOf(h[Len(h)]) /\ EndOf(h[Len(h)]) \in Nat
        /\ h[Len(h)].at \in Nat /\ h[Len(h)].at <= EndOf(h[Len(h)])
      BY <2>1, Lengths DEF StreamEnd, HandedMessage
  <2>3. i = Len(h) \/ i < Len(h)
      BY <1>0
  <2>4. CASE i < Len(h)
    <3>1. EndOf(h[i]) <= h[Len(h)].at
        BY <1>0, <2>1, <2>4 DEF Spaced
    <3>2. QED
        BY <1>4, <2>2, <3>1
  <2>5. QED
      BY <1>4, <2>2, <2>3, <2>4
<1>7. Types'
  <2>1. written' \in [Dirs -> Nat]
      BY <1>0, <1>2, <1>3, <1>5 DEF Types
  <2>2. QED
      BY <1>0, <1>1, <2>1 DEF Types
<1>8. Positions(d)'
  <2>1. StreamEnd(d)' = StreamEnd(d)
      BY <1>1 DEF StreamEnd
  <2>2. QED
      BY <1>0, <1>1, <1>4, <1>5, <1>6, <2>1 DEF DirInv, Positions
<1>9. /\ Spaced(handed[d])' /\ PrefixParsed(d)' /\ StartsBehindParsed(d)'
      /\ EndExplained(d)' /\ CrowdWaits(d)'
    BY <1>0, <1>1 DEF DirInv, Spaced, PrefixParsed, StartsBehindParsed, EndExplained, Buffered,
                      CrowdWaits, Complete
<1>10. DirInv(d)'
    BY <1>8, <1>9 DEF DirInv
<1>11. ASSUME NEW e \in Dirs, e # d PROVE DirInv(e)'
    BY <1>1, <1>3, <1>11, Elsewhere
<1>12. QED
    BY <1>7, <1>10, <1>11 DEF FramingInv

(* What every read changes.                                                *)
LEMMA ReceivesStep ==
    ASSUME FramingInv, NEW d \in Dirs, NEW n \in 1..(written[d] - got[d]), Receives(d, n)
    PROVE  /\ n \in Nat /\ n > 0 /\ got'[d] = got[d] + n /\ got'[d] <= written[d]
           /\ got' \in [Dirs -> Nat] /\ crowded' \in [Dirs -> Nat]
           /\ UNCHANGED << handed, written >> /\ StreamEnd(d)' = StreamEnd(d)
           /\ \A e \in Dirs \ {d} : got'[e] = got[e] /\ crowded'[e] = crowded[e]
           /\ reader[d] = "reading"
           /\ crowded'[d] = crowded[d]
                 + More(Cardinality(Complete(d, got[d] + n) \ Complete(d, got[d])))
           /\ Complete(d, got[d])' = Complete(d, got[d] + n)
           /\ IsFiniteSet(Complete(d, got[d] + n))
           /\ Cardinality(Complete(d, got[d] + n)) \in Nat
           /\ Cardinality(Complete(d, got[d] + n)) <=
                 Cardinality(Complete(d, got[d]))
                 + Cardinality(Complete(d, got[d] + n) \ Complete(d, got[d]))
           /\ Cardinality(Complete(d, got[d])) \in Nat
           /\ Cardinality(Complete(d, got[d] + n) \ Complete(d, got[d])) \in Nat
<1> DEFINE old == Complete(d, got[d])
           now == Complete(d, got[d] + n)
<1>0. /\ Types /\ got[d] \in Nat /\ written[d] \in Nat /\ crowded[d] \in Nat
      /\ DOMAIN handed[d] = 1..Len(handed[d]) /\ Len(handed[d]) \in Nat
    BY DirFacts DEF FramingInv
<1>1. n \in Nat /\ n > 0
    BY <1>0
<1>2. /\ got' = [got EXCEPT ![d] = @ + n] /\ got'[d] = got[d] + n /\ got'[d] <= written[d]
      /\ UNCHANGED << handed, written >> /\ reader[d] = "reading"
      /\ got' \in [Dirs -> Nat] /\ \A e \in Dirs \ {d} : got'[e] = got[e]
    BY <1>0, <1>1 DEF Receives, Types
<1>3. StreamEnd(d)' = StreamEnd(d) /\ Complete(d, got[d])' = now
    BY <1>2 DEF StreamEnd, Complete
<1>4. /\ IsFiniteSet(DOMAIN handed[d]) /\ old \in SUBSET DOMAIN handed[d]
      /\ now \in SUBSET DOMAIN handed[d] /\ now \ old \in SUBSET DOMAIN handed[d]
  <2>1. 1 \in Int /\ Len(handed[d]) \in Int
      BY <1>0
  <2>2. IsFiniteSet(DOMAIN handed[d])
      BY <1>0, <2>1, FS_Interval
  <2>3. QED
      BY <2>2 DEF Complete
<1>5. /\ IsFiniteSet(old) /\ IsFiniteSet(now) /\ IsFiniteSet(now \ old)
      /\ Cardinality(old) \in Nat /\ Cardinality(now) \in Nat /\ Cardinality(now \ old) \in Nat
    BY <1>4, FS_Subset, FS_CardinalityType
<1>6. Cardinality(now) <= Cardinality(old) + Cardinality(now \ old)
  <2>1. Cardinality(now \ old) = Cardinality(now) - Cardinality(now \cap old)
      BY <1>5, FS_Difference
  <2>2. Cardinality(now \cap old) <= Cardinality(old) /\ Cardinality(now \cap old) \in Nat
    <3>1. now \cap old \in SUBSET old
        OBVIOUS
    <3>2. QED
        BY <1>5, <3>1, FS_Subset, FS_CardinalityType
  <2>3. QED
      BY <1>5, <2>1, <2>2
<1>7. More(Cardinality(now \ old)) \in Nat
    BY <1>5 DEF More
<1>8. /\ crowded' \in [Dirs -> Nat] /\ \A e \in Dirs \ {d} : crowded'[e] = crowded[e]
      /\ crowded'[d] = crowded[d] + More(Cardinality(now \ old))
    BY <1>0, <1>7 DEF Receives, Types
<1>9. QED
    BY <1>1, <1>2, <1>3, <1>5, <1>6, <1>8

(* A read after which the reader returns.                                  *)
LEMMA EndStep ==
    ASSUME FramingInv, NEW d \in Dirs, NEW n \in 1..(written[d] - got[d]),
           ReadPanics(d, n) \/ ReadRejects(d, n)
    PROVE  FramingInv'
<1>0. /\ Types /\ DirInv(d) /\ start[d] \in Nat /\ got[d] \in Nat /\ written[d] \in Nat
      /\ start[d] <= got[d] /\ written[d] <= StreamEnd(d)
      /\ LEN_MAGIC < LEN_HEADER_MESSAGE /\ LEN_MAGIC \in Nat /\ LEN_HEADER_MESSAGE \in Nat
    BY DirFacts, LengthsAssumption DEF FramingInv
<1>1. Receives(d, n) /\ UNCHANGED << start, parsed >>
    BY DEF ReadPanics, ReadRejects, Ends
<1>2. /\ n \in Nat /\ n > 0 /\ got'[d] = got[d] + n /\ got'[d] <= written[d]
      /\ got' \in [Dirs -> Nat] /\ crowded' \in [Dirs -> Nat]
      /\ UNCHANGED << handed, written >> /\ StreamEnd(d)' = StreamEnd(d)
      /\ \A e \in Dirs \ {d} : got'[e] = got[e] /\ crowded'[e] = crowded[e]
    BY <1>1, ReceivesStep
<1>3. \E how \in {"failed", "panicked"} : reader' = [reader EXCEPT ![d] = how]
    BY DEF ReadPanics, ReadRejects, Ends
<1>4. /\ reader' \in [Dirs -> {"reading", "failed", "panicked"}] /\ reader'[d] # "reading"
      /\ \A e \in Dirs \ {d} : reader'[e] = reader[e]
    BY <1>0, <1>3 DEF Types
<1>5. Types'
    BY <1>0, <1>1, <1>2, <1>4 DEF Types
<1>6. Positions(d)'
    BY <1>0, <1>1, <1>2 DEF Positions
<1>7. Spaced(handed[d])' /\ PrefixParsed(d)' /\ StartsBehindParsed(d)' /\ CrowdWaits(d)'
    BY <1>0, <1>1, <1>2, <1>4
    DEF DirInv, Spaced, PrefixParsed, StartsBehindParsed, CrowdWaits
<1>8. EndExplained(d)'
  <2>1. CASE ReadPanics(d, n)
    <3>1. reader'[d] = "panicked" /\ Buffered(d, n) < LEN_HEADER_MESSAGE
      <4>1. reader'[d] = "panicked"
          BY <1>0, <2>1 DEF ReadPanics, Ends, Types
      <4>2. Buffered(d, n) < LEN_HEADER_MESSAGE
          BY <1>0, <1>2, <2>1 DEF ReadPanics, Buffered
      <4>3. QED
          BY <4>1, <4>2
    <3>2. Buffered(d, 0)' = Buffered(d, n)
        BY <1>0, <1>1, <1>2 DEF Buffered
    <3>3. Buffered(d, n) > 0
        BY <1>0, <1>2 DEF Buffered
    <3>4. QED
        BY <3>1, <3>2, <3>3 DEF EndExplained
  <2>2. CASE ReadRejects(d, n)
    <3>1. reader'[d] = "failed" /\ AtHead(d) = {}
        BY <1>0, <2>2 DEF ReadRejects, Ends, Types
    <3>2. start[d] < written[d]
        BY <1>0, <1>2
    <3>3. parsed[d] # << >> /\ parsed[d][Len(parsed[d])] = "verack"
        BY <3>1, <3>2, NoHeadBehindVerack
    <3>4. QED
        BY <1>1, <3>1, <3>3 DEF EndExplained
  <2>3. QED
      BY <2>1, <2>2
<1>9. DirInv(d)'
    BY <1>6, <1>7, <1>8 DEF DirInv
<1>10. ASSUME NEW e \in Dirs, e # d PROVE DirInv(e)'
    BY <1>1, <1>2, <1>4, <1>10, Elsewhere
<1>11. QED
    BY <1>5, <1>9, <1>10 DEF FramingInv

(* A read that completes no message.                                       *)
LEMMA WaitStep ==
    ASSUME FramingInv, NEW d \in Dirs, NEW n \in 1..(written[d] - got[d]), ReadWaits(d, n)
    PROVE  FramingInv'
<1> DEFINE h == handed[d]
           k == Len(parsed[d])
           now == Complete(d, got[d] + n)
<1>0. /\ Types /\ DirInv(d) /\ start[d] \in Nat /\ got[d] \in Nat /\ written[d] \in Nat
      /\ crowded[d] \in Nat /\ k \in Nat /\ DOMAIN h = 1..Len(h) /\ Len(h) \in Nat
      /\ start[d] <= got[d] /\ written[d] <= StreamEnd(d) /\ Spaced(h)
      /\ \A i \in DOMAIN h : h[i] \in HandedMessage /\ h[i].at \in Nat
    BY DirFacts DEF FramingInv, DirInv
<1>1. Receives(d, n) /\ UNCHANGED << start, parsed, reader >>
    BY DEF ReadWaits
<1>2. /\ n \in Nat /\ n > 0 /\ got'[d] = got[d] + n /\ got'[d] <= written[d]
      /\ got' \in [Dirs -> Nat] /\ crowded' \in [Dirs -> Nat]
      /\ UNCHANGED << handed, written >> /\ StreamEnd(d)' = StreamEnd(d)
      /\ \A e \in Dirs \ {d} : got'[e] = got[e] /\ crowded'[e] = crowded[e]
      /\ Complete(d, got[d])' = now /\ reader[d] = "reading"
    BY <1>1, ReceivesStep
<1>3. /\ k + 1 \in DOMAIN h /\ h[k + 1].at = start[d]
      /\ got[d] + n - start[d] < Drained(h[k + 1])
  <2>1. PICK m \in AtHead(d) : PayloadIsShort(m, Buffered(d, n))
      BY DEF ReadWaits
  <2>2. m = h[k + 1] /\ k + 1 \in DOMAIN h /\ m.at = start[d] /\ m \in HandedMessage
      BY <2>1, HeadIsNext
  <2>3. got[d] + n - start[d] < Drained(m)
      BY <2>1 DEF PayloadIsShort, Buffered, Drained
  <2>4. QED
      BY <2>2, <2>3
<1>4. now \subseteq 1..k
  <2> SUFFICES ASSUME NEW i \in DOMAIN h, CompleteAt(h[i], got[d] + n), i > k PROVE FALSE
      BY <1>0 DEF Complete
  <2>2. /\ Drained(h[i]) \in Nat /\ h[i].at \in Nat /\ Drained(h[k + 1]) \in Nat
        /\ EndOf(h[k + 1]) \in Nat /\ h[k + 1].at + Drained(h[k + 1]) <= EndOf(h[k + 1])
        /\ Drained(h[i]) = LEN_HEADER_MESSAGE + PayloadTaken(h[i].cmd)
        /\ PayloadTaken(h[i].cmd) \in Nat /\ LEN_HEADER_MESSAGE \in Nat
      BY <1>0, <1>3, Lengths, LengthsAssumption
  <2>1. h[i].at + Drained(h[i]) <= got[d] + n
      BY <2>2 DEF CompleteAt
  <2>0. start[d] \in Nat /\ got[d] + n \in Nat /\ got[d] + n < start[d] + Drained(h[k + 1])
    <3>1. start[d] \in Nat /\ got[d] \in Nat /\ n \in Nat
        BY <1>0, <1>2
    <3>2. \A a, b, c, x \in Nat : a + b - c < x => a + b \in Nat /\ a + b < c + x
        OBVIOUS
    <3>3. PICK x : x = Drained(h[k + 1])
        OBVIOUS
    <3>4. x \in Nat /\ got[d] + n - start[d] < x
        BY <1>3, <2>2, <3>3
    <3>5. got[d] + n < start[d] + x /\ got[d] + n \in Nat
        BY <3>1, <3>2, <3>4
    <3>6. QED
        BY <3>1, <3>3, <3>5
  <2>3. CASE i = k + 1
      BY <1>3, <2>0, <2>1, <2>2, <2>3
  <2>4. CASE i > k + 1
    <3>1. EndOf(h[k + 1]) <= h[i].at
        BY <1>0, <1>3, <2>4 DEF Spaced
    <3>2. Drained(h[i]) > 0
        BY <1>0, Lengths
    <3>3. QED
        BY <1>3, <2>0, <2>1, <2>2, <3>1, <3>2, SMTT(30)
  <2>5. QED
      BY <1>0, <2>3, <2>4
<1>5. Cardinality(now) <= k /\ Cardinality(now) \in Nat
  <2>1. IsFiniteSet(1..k) /\ Cardinality(1..k) = k
    <3>1. 1 \in Int /\ k \in Int /\ (1 > k => k = 0) /\ k - 1 + 1 = k
        BY <1>0
    <3>2. QED
        BY <3>1, FS_Interval
  <2>2. QED
      BY <1>4, <2>1, FS_Subset, FS_CardinalityType
<1>6. CrowdWaits(d)'
  <2>1. crowded'[d] \in Nat
      BY <1>2
  <2>2. Cardinality(now) - k <= crowded'[d]
      BY <1>0, <1>5, <2>1
  <2>3. QED
      BY <1>1, <1>2, <2>2 DEF CrowdWaits
<1>7. Types'
    BY <1>0, <1>1, <1>2 DEF Types
<1>8. Positions(d)'
    BY <1>0, <1>1, <1>2 DEF Positions
<1>9. Spaced(handed[d])' /\ PrefixParsed(d)' /\ StartsBehindParsed(d)' /\ EndExplained(d)'
    BY <1>0, <1>1, <1>2
    DEF DirInv, Spaced, PrefixParsed, StartsBehindParsed, EndExplained
<1>10. DirInv(d)'
    BY <1>6, <1>8, <1>9 DEF DirInv
<1>11. ASSUME NEW e \in Dirs, e # d PROVE DirInv(e)'
    BY <1>1, <1>2, <1>11, Elsewhere
<1>12. QED
    BY <1>7, <1>10, <1>11 DEF FramingInv

(* A read that takes a message out of the buffer.                          *)
LEMMA ParseStep ==
    ASSUME FramingInv, NEW d \in Dirs, NEW n \in 1..(written[d] - got[d]), ReadParses(d, n)
    PROVE  FramingInv'
<1> DEFINE h == handed[d]
           k == Len(parsed[d])
           m == h[k + 1]
           old == Complete(d, got[d])
           now == Complete(d, got[d] + n)
<1>0. /\ Types /\ DirInv(d) /\ start[d] \in Nat /\ got[d] \in Nat /\ written[d] \in Nat
      /\ crowded[d] \in Nat /\ k \in Nat /\ DOMAIN h = 1..Len(h) /\ Len(h) \in Nat
      /\ parsed[d] \in Seq(Kind) /\ DOMAIN parsed[d] = 1..k
      /\ start[d] <= got[d] /\ written[d] <= StreamEnd(d) /\ Spaced(h)
      /\ \A i \in DOMAIN h : h[i] \in HandedMessage /\ h[i].at \in Nat
    BY DirFacts DEF FramingInv, DirInv
<1>1. Receives(d, n) /\ UNCHANGED reader
    BY DEF ReadParses
<1>2. /\ n \in Nat /\ n > 0 /\ got'[d] = got[d] + n /\ got'[d] <= written[d]
      /\ got' \in [Dirs -> Nat] /\ crowded' \in [Dirs -> Nat]
      /\ UNCHANGED << handed, written >> /\ StreamEnd(d)' = StreamEnd(d)
      /\ \A e \in Dirs \ {d} : got'[e] = got[e] /\ crowded'[e] = crowded[e]
      /\ Complete(d, got[d])' = now /\ reader[d] = "reading"
    BY <1>1, ReceivesStep
<1>3. /\ k + 1 \in DOMAIN h /\ m \in HandedMessage /\ m.at = start[d]
      /\ start' = [start EXCEPT ![d] = @ + Drained(m)]
      /\ parsed' = [parsed EXCEPT ![d] = Append(@, m.cmd)]
      /\ Drained(m) <= got[d] + n - start[d] /\ Drained(m) \in Nat
  <2>1. PICK x \in AtHead(d) :
           /\ ~PayloadIsShort(x, Buffered(d, n))
           /\ start' = [start EXCEPT ![d] = @ + Drained(x)]
           /\ parsed' = [parsed EXCEPT ![d] = Append(@, x.cmd)]
      BY DEF ReadParses
  <2>2. x = m /\ k + 1 \in DOMAIN h /\ x.at = start[d] /\ x \in HandedMessage
      BY <2>1, HeadIsNext
  <2>3. Drained(m) \in Nat
      BY <2>2, Lengths
  <2>4. ~(got[d] + n - start[d] < Drained(m))
      BY <2>1, <2>2 DEF PayloadIsShort, Buffered, Drained
  <2>5. start[d] \in Nat /\ got[d] \in Nat /\ n \in Nat
      BY <1>0, <1>2
  <2>6. Drained(m) <= got[d] + n - start[d]
      BY <2>3, <2>4, <2>5
  <2>7. QED
      BY <2>1, <2>2, <2>3, <2>6
<1>4. m.cmd \in Kind
    BY <1>3 DEF HandedMessage
<1>5. /\ start'[d] = start[d] + Drained(m) /\ start' \in [Dirs -> Nat]
      /\ parsed'[d] = Append(parsed[d], m.cmd) /\ parsed' \in [Dirs -> Seq(Kind)]
      /\ \A e \in Dirs \ {d} : start'[e] = start[e] /\ parsed'[e] = parsed[e]
  <2>1. start[d] + Drained(m) \in Nat /\ Append(parsed[d], m.cmd) \in Seq(Kind)
      BY <1>0, <1>3, <1>4
  <2>2. QED
      BY <1>0, <1>3, <2>1 DEF Types
<1>6. /\ Len(parsed'[d]) = k + 1 /\ parsed'[d][k + 1] = m.cmd /\ DOMAIN parsed'[d] = 1..(k + 1)
      /\ \A i \in 1..k : parsed'[d][i] = parsed[d][i]
    BY <1>0, <1>4, <1>5
<1>7. Types'
    BY <1>0, <1>1, <1>2, <1>5 DEF Types
<1>8. Positions(d)'
  <2>1. start[d] \in Nat /\ got[d] \in Nat /\ n \in Nat /\ start'[d] \in Nat
      BY <1>0, <1>2, <1>5
  <2>2. start'[d] <= got'[d]
      BY <1>2, <1>3, <1>5, <2>1
  <2>3. QED
      BY <1>0, <1>2, <2>2 DEF Positions
<1>9. PrefixParsed(d)'
  <2>1. k + 1 <= Len(h)
      BY <1>0, <1>3
  <2>2. ASSUME NEW i \in 1..(k + 1) PROVE parsed'[d][i] = h[i].cmd
    <3>1. CASE i = k + 1
        BY <1>6, <3>1
    <3>2. CASE i # k + 1
      <4>1. i \in 1..k
          BY <1>0, <3>2
      <4>2. parsed[d][i] = h[i].cmd
          BY <1>0, <4>1 DEF DirInv, PrefixParsed
      <4>3. QED
          BY <1>6, <4>1, <4>2
    <3>3. QED
        BY <3>1, <3>2
  <2>3. QED
      BY <1>2, <1>6, <2>1, <2>2 DEF PrefixParsed
<1>10. StartsBehindParsed(d)'
  <2>1. k + 1 # 0
      BY <1>0
  <2>2. QED
      BY <1>2, <1>3, <1>5, <1>6, <2>1 DEF StartsBehindParsed
<1>11. Spaced(handed[d])' /\ EndExplained(d)'
  <2>1. Spaced(handed[d])'
      BY <1>0, <1>2 DEF Spaced
  <2>2. reader'[d] = "reading"
      BY <1>1, <1>2
  <2>3. QED
      BY <2>1, <2>2 DEF EndExplained
<1>12. CrowdWaits(d)'
  <2>1. /\ crowded'[d] = crowded[d] + More(Cardinality(now \ old))
        /\ Cardinality(now) \in Nat /\ Cardinality(now \ old) \in Nat /\ Cardinality(old) \in Nat
        /\ Cardinality(now) <= Cardinality(old) + Cardinality(now \ old)
      BY <1>1, ReceivesStep
  <2>2. Cardinality(old) - k <= crowded[d]
      BY <1>0, <1>2 DEF DirInv, CrowdWaits
  <2>3. k \in Nat /\ crowded[d] \in Nat
      BY <1>0
  <2>4. Cardinality(now) - (k + 1) <= crowded'[d]
      BY <2>1, <2>2, <2>3 DEF More
  <2>5. QED
      BY <1>2, <1>6, <2>4 DEF CrowdWaits
<1>13. DirInv(d)'
    BY <1>8, <1>9, <1>10, <1>11, <1>12 DEF DirInv
<1>14. ASSUME NEW e \in Dirs, e # d PROVE DirInv(e)'
    BY <1>1, <1>2, <1>5, <1>14, Elsewhere
<1>15. QED
    BY <1>7, <1>13, <1>14 DEF FramingInv

(* The invariant holds at the start.                                       *)
LEMMA FramingInitInv ==
    ASSUME FramingInit
    PROVE  FramingInv
<1>1. Types
    BY DEF FramingInit, Types
<1>2. ASSUME NEW d \in Dirs PROVE DirInv(d)
  <2>1. /\ handed[d] = << >> /\ parsed[d] = << >> /\ reader[d] = "reading"
        /\ start[d] = 0 /\ got[d] = 0 /\ written[d] = 0 /\ crowded[d] = 0
        /\ DOMAIN handed[d] = {} /\ DOMAIN parsed[d] = {} /\ Len(parsed[d]) = 0
      BY DEF FramingInit
  <2>2. Complete(d, got[d]) = {} /\ Cardinality({}) = 0
      BY <2>1, FS_EmptySet DEF Complete
  <2>3. CrowdWaits(d)
    <3>1. Cardinality(Complete(d, got[d])) = 0 /\ 0 - 0 <= 0
        BY <2>2
    <3>2. QED
        BY <2>1, <3>1 DEF CrowdWaits
  <2>4. QED
      BY <2>1, <2>3 DEF DirInv, Positions, StreamEnd, Spaced, PrefixParsed, StartsBehindParsed,
                        EndExplained
<1>3. QED
    BY <1>1, <1>2 DEF FramingInv

(* Every step keeps the invariant.                                         *)
LEMMA FramingNextInv ==
    ASSUME FramingInv, [FramingNext]_framingVars
    PROVE  FramingInv'
<1>1. CASE UNCHANGED framingVars
  <2>1. ASSUME NEW e \in Dirs PROVE DirInv(e)'
      BY <1>1, Elsewhere DEF framingVars
  <2>2. Types'
      BY <1>1 DEF framingVars, FramingInv, Types
  <2>3. QED
      BY <2>1, <2>2 DEF FramingInv
<1>2. ASSUME NEW d \in Dirs, Read(d) PROVE FramingInv'
    BY <1>2, EndStep, WaitStep, ParseStep DEF Read
<1>3. QED
    BY <1>1, <1>2, HandStep, WriteStep DEF FramingNext

-----------------------------------------------------------------------------
(* The theorems.                                                           *)

(* FramingInv is an invariant.                                             *)
THEOREM FramingInvariance == FramingSpec => []FramingInv
<1>1. FramingInit => FramingInv
    BY FramingInitInv
<1>2. FramingInv /\ [FramingNext]_framingVars => FramingInv'
    BY FramingNextInv
<1>3. QED
    BY <1>1, <1>2, PTL DEF FramingSpec

(* The counters of bytes never overtake each other.                        *)
THEOREM FramingTypeCorrect == FramingSpec => []FramingTypeOK
<1>1. FramingInv => FramingTypeOK
  <2> SUFFICES ASSUME FramingInv PROVE FramingTypeOK
      OBVIOUS
  <2>1. Types /\ \A d \in Dirs : Positions(d)
      BY DEF FramingInv, DirInv
  <2>2. QED
      BY <2>1 DEF Types, Positions, FramingTypeOK, HandedMessage
<1>2. QED
    BY <1>1, FramingInvariance, PTL

(* TaskRead passes on what was written in its order, whatever the portions *)
(* in which the bytes come.                                                *)
THEOREM FramingParsedInOrder == FramingSpec => []ParsedInOrder
<1>1. FramingInv => ParsedInOrder
    BY DEF FramingInv, DirInv, PrefixParsed, ParsedInOrder
<1>2. QED
    BY <1>1, FramingInvariance, PTL

(* What a writer of this program sends is rejected only because of the     *)
(* byte a Verack leaves in the buffer.                                     *)
THEOREM FramingRejectedOnlyAfterVerack == FramingSpec => []RejectedOnlyAfterVerack
<1>1. FramingInv => RejectedOnlyAfterVerack
    BY DEF FramingInv, DirInv, EndExplained, RejectedOnlyAfterVerack
<1>2. QED
    BY <1>1, FramingInvariance, PTL

(* A message that has come waits only if it came with an earlier one.      *)
THEOREM FramingOnlyTheCrowdWaits == FramingSpec => []OnlyTheCrowdWaits
<1>1. FramingInv => OnlyTheCrowdWaits
    BY DEF FramingInv, DirInv, CrowdWaits, OnlyTheCrowdWaits
<1>2. QED
    BY <1>1, FramingInvariance, PTL
=============================================================================
