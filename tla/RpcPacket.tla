----------------------------- MODULE RpcPacket -----------------------------
(* The packet every RPC message travels in (protocol.h), how SendMessage lays *)
(* it out and what OnRecvPacket makes of it (rpc_core.cc). Lengths are the    *)
(* data; they are stored in fields of fixed width and cast to fit.            *)
EXTENDS Integers

CONSTANTS
  PacketTag,   \* kHyperRpcPacketTag
  PacketVer,   \* kHyperRpcPacketVer
  Overhead,    \* sizeof(RpcPacketHeader)
  HeaderSpan,  \* range of the uint16_t rpc_header_len
  BodySpan     \* range of the uint32_t rpc_body_len

ASSUME OverheadAssumption == Overhead \in Nat
ASSUME FieldAssumption == HeaderSpan \in Nat \ {0} /\ BodySpan \in Nat \ {0}

\* What SendMessage puts on the wire for a header of h and a body of b bytes.
SendMessage(h, b) ==
  [tag |-> PacketTag, ver |-> PacketVer,
   rpc_header_len |-> h % HeaderSpan, rpc_body_len |-> b % BodySpan,
   size |-> Overhead + h + b]

\* The datagram only required to be long enough.
AcceptsSlip(p) ==
  /\ p.size > Overhead
  /\ p.tag = PacketTag
  /\ p.ver = PacketVer
  /\ p.size >= Overhead + p.rpc_header_len + p.rpc_body_len

\* The checks of OnRecvPacket before it parses the header.
Accepts(p) ==
  /\ p.size > Overhead
  /\ p.tag = PacketTag
  /\ p.ver = PacketVer
  /\ p.size = Overhead + p.rpc_header_len + p.rpc_body_len

\* The body's length computed from the datagram's, the header taken off twice.
CutSlip(p) == <<p.rpc_header_len, p.size - Overhead - 2 * p.rpc_header_len>>

\* Where OnRecvPacket cuts the datagram: the lengths of header and body.
Cut(p) == <<p.rpc_header_len, p.rpc_body_len>>
=============================================================================
