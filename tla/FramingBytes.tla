---------------------------- MODULE FramingBytes ----------------------------
(***************************************************************************)
(* Framing with the bytes put in.  Its steps are the ones of Framing, in   *)
(* which a byte is a position; here each position holds the byte that      *)
(* wire.rs writes there (Wire), and every step of the reader must be the   *)
(* one raw_byte_processing takes from the bytes.                           *)
(***************************************************************************)
EXTENDS Framing, SequencesExt

CONSTANTS
    Base, W16, W32, W64, IpLen, CommandLen,                 \* as in Wire
    MAGIC_BYTES, BYTES_VERSION, BYTES_VERACK,
    USERAGENT,
    Versions        \* the i-th message handed over, if it is a Version

W == INSTANCE Wire

ASSUME FramingLengths ==
    /\ LEN_MAGIC = W32
    /\ LEN_HEADER_MESSAGE = W!LenHeader
    /\ \A i \in 1..MaxHanded : W!LengthOf(Versions[i]) = LenVersion

MessageNo(d, i) == IF handed[d][i].cmd = "version" THEN Versions[i] ELSE W!Verack

WrittenVersions == [i \in 1..MaxHanded |-> W!Written(Versions[i])]
WrittenVerack   == W!Written(W!Verack)

BytesOf(d, i) == IF handed[d][i].cmd = "version" THEN WrittenVersions[i] ELSE WrittenVerack

(* The bytes handed over in a direction from position at on, up to n.      *)
Bytes(d, at, n) ==
    SubSeq(FlattenSeq([i \in DOMAIN handed[d] |-> BytesOf(d, i)]), at + 1, n)

(* Wherever the bytes were cut and whatever follows them, what the bytes   *)
(* make raw_byte_processing do is what Framing says of their positions: it *)
(* panics, fails and waits when Framing does, and when it takes a message  *)
(* it is the next one handed over, field by field, and as many bytes are   *)
(* drained as bring the buffer to where Framing goes on.                   *)
BytesSayTheSame ==
    [][\A d \in Dirs : got'[d] # got[d] =>
         \A bytes \in {Bytes(d, start[d], got'[d])} :
         \A outcome \in {W!raw_byte_processing(bytes)} :
             /\ reader'[d] = "panicked" <=> outcome = W!Panics
             /\ reader'[d] = "failed" <=> outcome = W!Fails
             /\ Len(parsed'[d]) > Len(parsed[d]) <=> outcome.kind = "takes"
             /\ outcome.kind = "takes" =>
                  /\ outcome.message = MessageNo(d, Len(parsed'[d]))
                  /\ start'[d] = start[d] + LEN_HEADER_MESSAGE + outcome.length
      ]_framingVars
=============================================================================
