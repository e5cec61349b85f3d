-------------------------------- MODULE Wire --------------------------------
(***************************************************************************)
(* What the bytes of a message say: how wire.rs and task_write.rs write a  *)
(* header and a payload, and how raw_byte_processing (task_read.rs) and    *)
(* wire.rs read them back from a buffer.                                   *)
(*                                                                         *)
(* Numbers are written byte by byte; the widths and the size of a byte are *)
(* parameters, far smaller in the instances than in the code.              *)
(***************************************************************************)
EXTENDS Integers, Sequences, SequencesExt, FiniteSetsExt

CONSTANTS
    Base,               \* the values of a byte, 256
    W16, W32, W64,      \* the bytes of a u16, a u32 and a u64: 2, 4, 8
    IpLen, CommandLen,  \* the bytes of an address, 16, and of a command, 12
    MAGIC_BYTES, BYTES_VERSION, BYTES_VERACK,
    USERAGENT           \* a string of bytes

LE(n, w) == [i \in 1..w |-> (n \div Base^(i - 1)) % Base]
BE(n, w) == Reverse(LE(n, w))

FromLE(s) == MapThenSumSet(LAMBDA i : s[i] * Base^(i - 1), DOMAIN s)
FromBE(s) == FromLE(Reverse(s))

LenHeader == W32 + CommandLen + W32 + W32

(* SHA-256, twice, and its first four bytes: some function of the bytes.   *)
checksum_calculate(bytes) ==
    LET sum[i \in 0..Len(bytes)] ==
            IF i = 0 THEN 0 ELSE sum[i - 1] + (i + 1) * (bytes[i] + 1)
    IN  LE(sum[Len(bytes)], W32)

-----------------------------------------------------------------------------
(* Writing.                                                                *)

(* An IPv4 address becomes 00 ff and its octets, behind zeros.             *)
IpBytes(addr) ==
    IF Len(addr.ip) = IpLen THEN addr.ip
    ELSE [i \in 1..(IpLen - Len(addr.ip) - 1) |-> 0] \o << Base - 1 >> \o addr.ip

NetAddr(addr) == [services |-> 1, ip |-> IpBytes(addr), port |-> addr.port]

(* 70001, the version, is any number here.                                 *)
build_version_message(local, remote, nonce, timestamp) ==
    [cmd |-> "version", version |-> 7, services |-> 1, timestamp |-> timestamp,
     net_addr_to |-> NetAddr(remote), net_addr_from |-> NetAddr(local),
     nonce |-> nonce, user_agent |-> USERAGENT, start_height |-> 0, relay |-> TRUE]

Verack == [cmd |-> "verack"]

(* Mutant of SerializeNetAddr: the port little-endian, as all the rest.    *)
SerializeNetAddrLE(a) == LE(a.services, W64) \o a.ip \o LE(a.port, W16)

SerializeNetAddr(a) == LE(a.services, W64) \o a.ip \o BE(a.port, W16)

SerializeUserAgent(u) == LE(Len(u), W64) \o u

SerializeVersion(v) ==
    LE(v.version, W32) \o LE(v.services, W64) \o LE(v.timestamp, W64)
    \o SerializeNetAddr(v.net_addr_to) \o SerializeNetAddr(v.net_addr_from)
    \o LE(v.nonce, W64) \o SerializeUserAgent(v.user_agent)
    \o LE(v.start_height, W32) \o << IF v.relay THEN 1 ELSE 0 >>

Payload(m) == IF m.cmd = "version" THEN SerializeVersion(m) ELSE << 0 >>

LengthOf(m) == IF m.cmd = "version" THEN Len(SerializeVersion(m)) ELSE 0

Header(m) ==
    LE(MAGIC_BYTES, W32)
    \o (IF m.cmd = "version" THEN BYTES_VERSION ELSE BYTES_VERACK)
    \o LE(LengthOf(m), W32) \o checksum_calculate(Payload(m))

Written(m) == Header(m) \o Payload(m)

-----------------------------------------------------------------------------
(* Reading.  A slice that reaches behind the bytes there are is a panic.   *)

Panics            == [kind |-> "panics"]
Fails             == [kind |-> "fails"]         \* Err(ErrorParsing)
Waits             == [kind |-> "waits"]         \* Ok(None)
Takes(m, length)  == [kind |-> "takes", message |-> m, length |-> length]

Slice(bytes, at, w) == SubSeq(bytes, at + 1, at + w)

UnserializeNetAddr(bytes) ==
    [services |-> FromLE(Slice(bytes, 0, W64)), ip |-> Slice(bytes, W64, IpLen),
     port |-> FromBE(Slice(bytes, W64 + IpLen, W16))]

UnserializeVersion(bytes) ==
    LET addr  == W64 + IpLen + W16
        to    == W32 + W64 + W64
        nonce == to + addr + addr
        agent == nonce + W64
        count == FromLE(Slice(bytes, agent, W64))
        height == agent + W64 + count
        relay == height + W32
    IN  IF Len(bytes) < agent + W64 \/ Len(bytes) < relay THEN Panics
        ELSE IF Len(bytes) = relay THEN Fails       \* NotEnoughBytes
        ELSE Takes(
               [cmd |-> "version", version |-> FromLE(Slice(bytes, 0, W32)),
                services |-> FromLE(Slice(bytes, W32, W64)),
                timestamp |-> FromLE(Slice(bytes, W32 + W64, W64)),
                net_addr_to |-> UnserializeNetAddr(Slice(bytes, to, addr)),
                net_addr_from |-> UnserializeNetAddr(Slice(bytes, to + addr, addr)),
                nonce |-> FromLE(Slice(bytes, nonce, W64)),
                user_agent |-> Slice(bytes, agent + W64, count),
                start_height |-> FromLE(Slice(bytes, height, W32)),
                relay |-> bytes[relay + 1] # 0],
               relay + 1)

Incomplete(bytes, length) == Len(bytes) < LenHeader + length

(* The checksum is the one of what was read, written again.                *)
Checked(result, checksum) ==
    IF result.kind = "takes" /\ checksum # checksum_calculate(Payload(result.message))
    THEN Fails ELSE result

raw_byte_processing(bytes) ==
    LET command  == Slice(bytes, W32, CommandLen)
        length   == FromLE(Slice(bytes, W32 + CommandLen, W32))
        checksum == Slice(bytes, W32 + CommandLen + W32, W32)
        payload  == Slice(bytes, LenHeader, Len(bytes) - LenHeader)
    IN  IF Len(bytes) < W32 THEN Panics
        ELSE IF Slice(bytes, 0, W32) # LE(MAGIC_BYTES, W32) THEN Fails
        ELSE IF Len(bytes) < W32 + CommandLen THEN Panics
        ELSE IF command \notin {BYTES_VERSION, BYTES_VERACK} THEN Fails
        ELSE IF Len(bytes) < LenHeader THEN Panics
        ELSE IF command = BYTES_VERACK THEN Checked(Takes(Verack, 0), checksum)
        ELSE IF Incomplete(bytes, length) THEN Waits
        ELSE Checked(UnserializeVersion(payload), checksum)
=============================================================================
