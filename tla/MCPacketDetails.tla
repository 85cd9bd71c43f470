--------------------------- MODULE MCPacketDetails ---------------------------
(* The builds and packets of each run.                                     *)
EXTENDS PacketDetails

Stack == EthStack \cup Ip4Stack \cup SctpStack \cup MtpStack

IpTypes   == {"Eth", "Vlan", "Ip4", "Tcp"}
EthTypes  == {"Eth", "Ip4"}
IsupTypes == {"Mtp", "Isup"}
TagTypes  == {"Vlan", "Ip4"}
ChunkTypes == {"Sctp", "SctpChunk", "M2ua", "Mtp3", "Isup"}
Ss7Types  == {"Ip4", "Sctp", "SctpChunk", "M2ua", "M3ua", "Mtp3", "Isup"}
Near      == [t \in DOMAIN TypeLength |-> {14}]
FarChunks == [Near EXCEPT !["Sctp"] = {14, 2100}]
One       == [l \in 2 .. 4 |-> 1]
Two       == [l \in 2 .. 4 |-> 2]
Many      == [l \in 2 .. 4 |-> 4]

Build(types, first, layersMax, flowAddrSize, values, maxHeaders) ==
    [types |-> types, first |-> first, layersMax |-> layersMax,
     flowAddrSize |-> flowAddrSize, values |-> values, maxHeaders |-> maxHeaders]

IpBuild     == Build(IpTypes, {"Vlan", "Ip4", "Mtp"}, Two, 20, {0, 1}, 3)
Ss7Build    == Build(Ss7Types, {"Ip4"}, One, 20, {0}, 6)
Both        == {IpBuild, Ss7Build}
Chunks      == {Build(ChunkTypes, {"Sctp"}, Many, 32, {0, 1}, 4)}
EthOnly     == {Build(EthTypes, {"Eth"}, Two, 32, {0, 1}, 2)}
IsupOnly    == {Build(IsupTypes, {"Mtp"}, Two, 32, {0, 1}, 2)}
Ss7Wide     == {Build(Ss7Types, {"Ip4"}, Many, 32, {0}, 6)}
ChunksFar   == {Build(ChunkTypes, {"Sctp"}, Many, 32, {0}, 3)}
IpOnly      == {Build(IpTypes, {"Ip4"}, Two, 32, {0, 1}, 2)}
TagsOnly    == {Build(TagTypes, {"Vlan"}, Two, 32, {0, 1}, 2)}
==============================================================================
