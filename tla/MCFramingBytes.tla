--------------------------- MODULE MCFramingBytes ---------------------------
(* Bytes of two bits and short numbers.                                    *)
EXTENDS FramingBytes

MCVersion == << 3, 1 >>
MCVerack  == << 3, 2 >>
MCAgent   == << 2, 1 >>

(* Two IPv4 addresses, with ports that read differently backwards, and one *)
(* IPv6 address.                                                           *)
A4 == [ip |-> << 1, 2 >>, port |-> 1]
B4 == [ip |-> << 2, 1 >>, port |-> 9]
C6 == [ip |-> << 0, 3, 1, 0 >>, port |-> 4]

MCVersions ==
    << W!build_version_message(A4, B4, 130, 70),
       W!build_version_message(C6, A4, 3, 0),
       W!build_version_message(B4, C6, 0, 255) >>
=============================================================================
